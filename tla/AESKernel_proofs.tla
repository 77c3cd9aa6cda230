-------------------------- MODULE AESKernel_proofs --------------------------
(* Proofs about the AES process kernel, for any number of processes, event *)
(* blocks and event bits and any capacity of the queues.                   *)
EXTENDS AESKernel, TLAPS

-----------------------------------------------------------------------------
(* Sequences.                                                              *)

\* what taking the head off a list of distinct entries leaves
LEMMA TailFacts ==
  ASSUME NEW S, NEW s \in Seq(S), s # <<>>
  PROVE  /\ Tail(s) \in Seq(S) /\ Len(Tail(s)) = Len(s) - 1
         /\ Head(s) \in S /\ Head(s) = s[1] /\ 1 \in DOMAIN s
         /\ \A i \in DOMAIN Tail(s) : i + 1 \in DOMAIN s /\ Tail(s)[i] = s[i + 1]
  OBVIOUS

LEMMA AppendFacts ==
  ASSUME NEW S, NEW s \in Seq(S), NEW x \in S
  PROVE  /\ Append(s, x) \in Seq(S) /\ Append(s, x) # <<>>
         /\ Len(Append(s, x)) = Len(s) + 1
         /\ \A i \in DOMAIN s : i \in DOMAIN Append(s, x) /\ Append(s, x)[i] = s[i]
         /\ \A i \in DOMAIN Append(s, x) : i \in DOMAIN s \/ (i = Len(s) + 1)
         /\ Append(s, x)[Len(s) + 1] = x
  OBVIOUS

LEMMA ConsFacts ==
  ASSUME NEW S, NEW s \in Seq(S), NEW x \in S
  PROVE  /\ <<x>> \o s \in Seq(S) /\ <<x>> \o s # <<>>
         /\ (<<x>> \o s)[1] = x
         /\ \A i \in DOMAIN (<<x>> \o s) :
              i = 1 \/ (i - 1 \in DOMAIN s /\ (<<x>> \o s)[i] = s[i - 1])
  OBVIOUS

\* a list without repetitions
Distinct(s) == \A i, j \in DOMAIN s : s[i] = s[j] => i = j

LEMMA TailDistinct ==
  ASSUME NEW S, NEW s \in Seq(S), s # <<>>, Distinct(s)
  PROVE  /\ Distinct(Tail(s))
         /\ RangeOf(Tail(s)) = RangeOf(s) \ {Head(s)}
         /\ Head(s) \in RangeOf(s)
  <1>1. Distinct(Tail(s))
    BY TailFacts DEF Distinct
  <1>2. \A x \in RangeOf(Tail(s)) : x \in RangeOf(s) /\ x # Head(s)
    BY TailFacts DEF Distinct, RangeOf
  <1>3. \A x \in RangeOf(s) \ {Head(s)} : x \in RangeOf(Tail(s))
    <2>1. ASSUME NEW i \in DOMAIN s, s[i] # Head(s)
          PROVE  i - 1 \in DOMAIN Tail(s) /\ Tail(s)[i - 1] = s[i]
      BY <2>1, TailFacts
    <2> QED
      BY <2>1 DEF RangeOf
  <1> QED
    BY <1>1, <1>2, <1>3, TailFacts DEF RangeOf

LEMMA AppendDistinct ==
  ASSUME NEW S, NEW s \in Seq(S), NEW x \in S, Distinct(s), x \notin RangeOf(s)
  PROVE  Distinct(Append(s, x)) /\ RangeOf(Append(s, x)) = RangeOf(s) \cup {x}
  <1>1. Distinct(Append(s, x))
    BY AppendFacts DEF Distinct, RangeOf
  <1>2. RangeOf(Append(s, x)) = RangeOf(s) \cup {x}
    BY AppendFacts DEF RangeOf
  <1> QED
    BY <1>1, <1>2
-----------------------------------------------------------------------------
(* Type correctness.                                                       *)

\* posting event bits keeps the types of the flags and of the process lists
LEMMA SignalType ==
  ASSUME TypeOK, NEW sig, \A q \in Procs : sig[q] \subseteq EvBits, signal(sig)
  PROVE  /\ p_evflg' \in [Procs -> SUBSET EvBits]
         /\ drl' \subseteq Procs /\ nrl' \subseteq Procs
  BY DEF TypeOK, signal

LEMMA EvremoveType ==
  ASSUME TypeOK, EvbState, NEW S, S \subseteq {e \in Evbs : e_list[e] # "eul"},
         evremove(S)
  PROVE  /\ p_evflg' \in [Procs -> SUBSET EvBits]
         /\ drl' \subseteq Procs /\ nrl' \subseteq Procs
         /\ e_list' \in [Evbs -> Lists]
  <1> DEFINE sig == [q \in Procs |-> {e_mask[e] : e \in {x \in S : e_pd[x] = q}}]
  <1>1. \A q \in Procs : \A e \in {x \in S : e_pd[x] = q} :
          e_mask[e] \in p_evbits[q]
    BY DEF EvbState, p_evlist
  <1>2. \A q \in Procs : sig[q] \subseteq EvBits
    BY <1>1 DEF TypeOK
  <1>3. signal(sig)
    BY DEF evremove
  <1>4. e_list' \in [Evbs -> Lists]
    BY DEF evremove, TypeOK, Lists
  <1> HIDE DEF sig
  <1> QED
    BY <1>2, <1>3, <1>4, SignalType

LEMMA SatisfiedType ==
  ASSUME TypeOK, EvbState, NEW p \in Procs, NEW e \in Evbs, NEW b \in EvBits,
         NEW W, W \subseteq {x \in Evbs : e_list[x] # "eul"},
         Satisfied(p, e, b, W)
  PROVE  /\ p_evflg' \in [Procs -> SUBSET EvBits]
         /\ drl' \subseteq Procs /\ nrl' \subseteq Procs
         /\ e_list' \in [Evbs -> Lists]
  <1> DEFINE sig == [q \in Procs |-> {e_mask[x] : x \in {y \in W : e_pd[y] = q}}
                                       \cup (IF q = p THEN {b} ELSE {})]
  <1>1. \A q \in Procs : \A x \in {y \in W : e_pd[y] = q} :
          e_mask[x] \in p_evbits[q]
    BY DEF EvbState, p_evlist
  <1>2. \A q \in Procs : sig[q] \subseteq EvBits
    <2> SUFFICES ASSUME NEW q \in Procs, NEW c \in sig[q] PROVE c \in EvBits
      OBVIOUS
    <2>1. c = b \/ \E x \in {y \in W : e_pd[y] = q} : c = e_mask[x]
      OBVIOUS
    <2>2. p_evbits[q] \subseteq EvBits
      BY DEF TypeOK
    <2> QED
      BY <1>1, <2>1, <2>2
  <1>3. signal(sig)
    BY DEF Satisfied
  <1>4. e_list' \in [Evbs -> Lists]
    BY DEF Satisfied, TypeOK, Lists
  <1> HIDE DEF sig
  <1> QED
    BY <1>2, <1>3, <1>4, SignalType

\* every queue operation of iasync keeps the types of what it changes
LEMMA IasyncType ==
  ASSUME KernelInv, NEW p \in Procs, NEW f \in Afuncs,
         NEW e \in Evbs, NEW b \in EvBits, iasync(p, f, e, b)
  PROVE  TypeOK'
  <1>0. TypeOK /\ EvbState /\ QueueState
    BY DEF KernelInv
  <1>1. /\ p_evflg' \in [Procs -> SUBSET EvBits]
        /\ drl' \subseteq Procs /\ nrl' \subseteq Procs
        /\ e_list' \in [Evbs -> Lists]
        /\ c_cnt' \in [Procs -> 0..KBD_SIZE]
        /\ sy_tas' \in Nat /\ sy_owner' \in Procs \cup {NULL}
        /\ sy_wait' \in Seq(Evbs)
        /\ p_qindex' \in [Procs -> 0..QUEUE_SIZE]
        /\ p_qnq' \in [Procs -> Seq(Evbs)]
    <2> DEFINE T == /\ p_evflg' \in [Procs -> SUBSET EvBits]
                    /\ drl' \subseteq Procs /\ nrl' \subseteq Procs
                    /\ e_list' \in [Evbs -> Lists]
    <2>1. \A W : W \subseteq {x \in Evbs : e_list[x] # "eul"}
                   /\ Satisfied(p, e, b, W) => T
      BY <1>0, SatisfiedType
    <2>2. ASSUME NEW l \in WaitLists, Insert(e, l) PROVE T
      BY <1>0, <2>2 DEF TypeOK, Insert, Lists
    <2>3. /\ c_cnt \in [Procs -> 0..KBD_SIZE] /\ sy_tas \in Nat
          /\ sy_owner \in Procs \cup {NULL} /\ sy_wait \in Seq(Evbs)
          /\ p_qindex \in [Procs -> 0..QUEUE_SIZE]
          /\ p_qnq \in [Procs -> Seq(Evbs)] /\ qpb_pid[p] \in Procs
          /\ e_list[e] = "eul"
      BY <1>0 DEF TypeOK, iasync
    <2>4. KBD_SIZE \in Nat /\ QUEUE_SIZE \in Nat \ {0}
      BY KernelAssumption
    <2> HIDE DEF T
    <2> USE <2>3, <2>4 DEF WaitLists
    <2>5. CASE akbin(p, e, b)
      <3>1. T
        BY <2>5, <2>1, <2>2 DEF akbin
      <3>2. c_cnt' \in [Procs -> 0..KBD_SIZE]
        <4>1. CASE c_cnt[p] > 0
          <5>1. c_cnt' = [c_cnt EXCEPT ![p] = @ - 1]
            BY <2>5, <4>1 DEF akbin
          <5>2. c_cnt[p] - 1 \in 0..KBD_SIZE
            BY <4>1
          <5> QED
            BY <5>1, <5>2
        <4>2. CASE ~(c_cnt[p] > 0)
          BY <2>5, <4>2 DEF akbin
        <4> QED
          BY <4>1, <4>2
      <3> QED
        BY <2>5, <3>1, <3>2 DEF T, akbin, syncVars, pipeVars
    <2>6. CASE amouse(p, e, b, "c_bsleep") \/ amouse(p, e, b, "c_msleep")
      <3>1. T
        BY <2>6, <2>1, <2>2 DEF amouse
      <3> QED
        BY <2>6, <3>1 DEF T, amouse, syncVars, pipeVars
    <2>7. CASE adelay(e)
      <3>1. T
        BY <2>7, <2>2 DEF adelay
      <3> QED
        BY <2>7, <3>1 DEF T, adelay, syncVars, pipeVars
    <2>8. CASE aqrd(p, e, b)
      <3>1. CASE p_qindex[p] > 0 /\ p_qnq[p] # <<>>
        <4>1. /\ Head(p_qnq[p]) \in Evbs /\ Tail(p_qnq[p]) \in Seq(Evbs)
              /\ e_list[Head(p_qnq[p])] # "eul"
          BY <1>0, <3>1, TailFacts DEF QueueState
        <4>2. \A n \in doq(p_qindex[p] - 1) : n \in 0..QUEUE_SIZE
          BY <3>1 DEF doq
        <4>3. T
          BY <2>8, <3>1, <2>1, <4>1 DEF aqrd
        <4> QED
          BY <2>8, <3>1, <4>1, <4>2, <4>3 DEF T, aqrd, syncVars
      <3>2. CASE p_qindex[p] > 0 /\ p_qnq[p] = <<>>
        <4>1. T
          BY <2>8, <3>2, <2>1 DEF aqrd
        <4>2. p_qindex' \in [Procs -> 0..QUEUE_SIZE] /\ p_qnq' = p_qnq
          <5>1. p_qindex' = [p_qindex EXCEPT ![p] = @ - 1] /\ p_qnq' = p_qnq
            BY <2>8, <3>2 DEF aqrd
          <5>2. p_qindex[p] - 1 \in 0..QUEUE_SIZE
            BY <3>2
          <5> QED
            BY <5>1, <5>2
        <4> QED
          BY <2>8, <4>1, <4>2 DEF T, aqrd, syncVars
      <3>3. CASE ~(p_qindex[p] > 0)
        <4>1. T
          BY <2>8, <3>3, <2>2 DEF aqrd
        <4> QED
          BY <2>8, <3>3, <4>1 DEF T, aqrd, syncVars, pipeVars
      <3> QED
        BY <3>1, <3>2, <3>3
    <2>9. CASE aqwrt(p, e, b, qpb_pid[p])
      <3> DEFINE q == qpb_pid[p]
      <3>1. CASE p_qindex[q] < QUEUE_SIZE
        <4>0. p_qindex[q] \in 0..QUEUE_SIZE
          OBVIOUS
        <4>1. \A n \in doq(p_qindex[q]) : n \in 0..QUEUE_SIZE
          <5> HIDE DEF q
          <5> QED
            BY <3>1, <4>0 DEF doq
        <4>2. T
          BY <2>9, <3>1, <2>1 DEF aqwrt, Waiting
        <4> QED
          BY <2>9, <3>1, <4>1, <4>2 DEF T, aqwrt, syncVars, pipeVars
      <3>2. CASE ~(p_qindex[q] < QUEUE_SIZE)
        <4>1. T
          BY <2>9, <3>2, <2>2 DEF aqwrt
        <4>2. <<e>> \o p_qnq[q] \in Seq(Evbs)
          BY ConsFacts
        <4> QED
          BY <2>9, <3>2, <4>1, <4>2 DEF T, aqwrt, syncVars
      <3> QED
        BY <3>1, <3>2
    <2>10. CASE amutex(p, e, b)
      <3>1. T
        BY <2>10, <2>1, <2>2 DEF amutex
      <3>2. <<e>> \o sy_wait \in Seq(Evbs)
        BY ConsFacts
      <3>3. CASE tak_flag(p)
        <4>1. /\ sy_tas' = sy_tas + 1 /\ sy_owner' = p
              /\ UNCHANGED <<sy_wait, c_cnt, p_qindex, p_qnq>>
          BY <2>10, <3>3 DEF amutex, pipeVars
        <4>2. sy_tas + 1 \in Nat
          BY <2>3
        <4> QED
          BY <3>1, <4>1, <4>2 DEF T
      <3>4. CASE ~tak_flag(p)
        BY <2>10, <3>1, <3>2, <3>4 DEF T, amutex, pipeVars
      <3> QED
        BY <3>3, <3>4
    <2> QED
      BY <2>5, <2>6, <2>7, <2>8, <2>9, <2>10 DEF iasync
  <1> QED
    BY <1>0, <1>1 DEF iasync, TypeOK

LEMMA ChkkbdType ==
  ASSUME TypeOK, chkkbd
  PROVE  /\ fpq' \in Seq(FCodes) /\ Len(fpq') <= NFORKS
         /\ irqs' \in 0..MaxIrq
  <1>1. CASE UNCHANGED <<fpq, irqs>>
    BY <1>1 DEF TypeOK
  <1>2. ASSUME NEW code \in FCodes, irqs < MaxIrq, irqs' = irqs + 1,
               fpq' = forkq(code)
        PROVE  /\ fpq' \in Seq(FCodes) /\ Len(fpq') <= NFORKS
               /\ irqs' \in 0..MaxIrq
    <2>1. fpq \in Seq(FCodes) /\ Len(fpq) <= NFORKS /\ irqs \in 0..MaxIrq
      BY DEF TypeOK
    <2> QED
      BY <1>2, <2>1, KernelAssumption, AppendFacts DEF forkq
  <1> QED
    BY <1>1, <1>2 DEF chkkbd, FCodes

\* every step keeps the types
LEMMA TypeStep ==
  ASSUME KernelInv, [Next]_vars
  PROVE  TypeOK'
  <1>0. TypeOK /\ CallState /\ EvbState /\ QueueState
    BY DEF KernelInv
  <1>1. ASSUME NEW code \in FCodes, Interrupt(code) PROVE TypeOK'
    <2>1. fpq' \in Seq(FCodes) /\ Len(fpq') <= NFORKS /\ irqs' \in 0..MaxIrq
      <3>1. fpq \in Seq(FCodes) /\ Len(fpq) <= NFORKS /\ irqs \in 0..MaxIrq
        BY <1>0 DEF TypeOK
      <3> QED
        BY <1>1, <3>1, KernelAssumption, AppendFacts DEF Interrupt, forkq
    <2> QED
      BY <1>0, <1>1, <2>1 DEF TypeOK, Interrupt, procVars, flagVars, evbVars,
         syncVars, pipeVars, callVars
  <1>2. CASE ForkerStep
    <2>1. fpq' \in Seq(FCodes) /\ Len(fpq') <= NFORKS
      <3>1. fpq \in Seq(FCodes) /\ fpq # <<>> /\ Len(fpq) <= NFORKS
        BY <1>0, <1>2 DEF TypeOK, ForkerStep
      <3> QED
        BY <1>2, <3>1, KernelAssumption, TailFacts DEF ForkerStep
    <2>2. ASSUME NEW S, S \subseteq {e \in Evbs : e_list[e] # "eul"}, evremove(S)
          PROVE  /\ p_evflg' \in [Procs -> SUBSET EvBits]
                 /\ drl' \subseteq Procs /\ nrl' \subseteq Procs
                 /\ e_list' \in [Evbs -> Lists]
      BY <1>0, <2>2, EvremoveType
    <2>3. /\ p_evflg' \in [Procs -> SUBSET EvBits]
          /\ drl' \subseteq Procs /\ nrl' \subseteq Procs
          /\ e_list' \in [Evbs -> Lists]
          /\ c_cnt' \in [Procs -> 0..KBD_SIZE]
      <3>1. CASE kchange
        <4>1. c_cnt' \in [Procs -> 0..KBD_SIZE]
          <5>1. c_cnt \in [Procs -> 0..KBD_SIZE] /\ KBD_SIZE \in Nat
            BY <1>0, KernelAssumption DEF TypeOK
          <5>2. \/ c_cnt' = c_cnt
                \/ /\ c_cnt[gl_kowner] < KBD_SIZE
                   /\ c_cnt' = [c_cnt EXCEPT ![gl_kowner] = @ + 1]
            BY <3>1 DEF kchange
          <5>3. CASE /\ c_cnt[gl_kowner] < KBD_SIZE
                     /\ c_cnt' = [c_cnt EXCEPT ![gl_kowner] = @ + 1]
            <6>1. gl_kowner \in Procs => c_cnt[gl_kowner] + 1 \in 0..KBD_SIZE
              BY <5>1, <5>3
            <6> QED
              BY <5>1, <5>3, <6>1
          <5> QED
            BY <5>1, <5>2, <5>3
        <4>2. CASE Waiting(gl_kowner, "c_iiowait") # {}
          BY <3>1, <4>1, <4>2, <2>2 DEF kchange, Waiting
        <4>3. CASE Waiting(gl_kowner, "c_iiowait") = {}
          BY <1>0, <3>1, <4>1, <4>3 DEF kchange, TypeOK
        <4> QED
          BY <4>2, <4>3
      <3>2. ASSUME NEW code, satisfied(code)
            PROVE  /\ p_evflg' \in [Procs -> SUBSET EvBits]
                   /\ drl' \subseteq Procs /\ nrl' \subseteq Procs
                   /\ e_list' \in [Evbs -> Lists]
                   /\ c_cnt' \in [Procs -> 0..KBD_SIZE]
        <4>1. c_cnt' \in [Procs -> 0..KBD_SIZE]
          BY <1>0, <3>2 DEF satisfied, TypeOK
        <4>2. PICK S : S \subseteq {e \in Evbs : e_list[e] # "eul"} /\ evremove(S)
          BY <3>2 DEF satisfied, Waiting
        <4> QED
          BY <4>1, <4>2, <2>2
      <3> QED
        BY <1>2, <3>1, <3>2 DEF ForkerStep
    <2> QED
      BY <1>0, <1>2, <2>1, <2>3 DEF TypeOK, ForkerStep, syncVars, pipeVars, callVars
  <1>3. CASE ForkerDone
    BY <1>0, <1>3 DEF TypeOK, ForkerDone, procVars, flagVars, evbVars,
       syncVars, pipeVars, callVars
  <1>4. ASSUME NEW p \in Procs, DrlToRlr(p) PROVE TypeOK'
    <2>1. rlr' \in Seq(Procs) /\ drl' \subseteq Procs
      BY <1>0, <1>4, AppendFacts DEF TypeOK, DrlToRlr
    <2> QED
      BY <1>0, <1>4, <2>1 DEF TypeOK, DrlToRlr, flagVars, evbVars, syncVars,
         pipeVars, callVars
  <1>5. CASE Poll
    <2>1. /\ fpq' \in Seq(FCodes) /\ Len(fpq') <= NFORKS /\ irqs' \in 0..MaxIrq
      BY <1>0, <1>5, ChkkbdType DEF Poll
    <2> QED
      BY <1>0, <1>5, <2>1 DEF TypeOK, Poll, procVars, flagVars, evbVars,
         syncVars, pipeVars, callVars
  <1>6. CASE Schedule
    <2>1. irqs' \in 0..MaxIrq /\ ctx' \in {"dispforker", "poll", "user"}
      BY <1>0, <1>6, KernelAssumption DEF TypeOK, Schedule
    <2> QED
      BY <1>0, <1>6, <2>1 DEF TypeOK, Schedule, procVars, flagVars, evbVars,
         syncVars, pipeVars, callVars
  <1>7. ASSUME NEW p \in Procs, UserCall(p) PROVE TypeOK'
    <2>1. ASSUME NEW flags \in MultiFlags, EvMulti(p, flags) PROVE TypeOK'
      <3>1. flags \subseteq Afuncs
        BY KernelAssumption DEF Afuncs
      <3>2. /\ fpq' \in Seq(FCodes) /\ Len(fpq') <= NFORKS
            /\ irqs' \in 0..MaxIrq
        BY <1>0, <2>1, ChkkbdType DEF EvMulti
      <3> QED
        BY <1>0, <2>1, <3>1, <3>2 DEF TypeOK, EvMulti, procVars, flagVars,
           evbVars, syncVars, pipeVars
    <2>2. ASSUME NEW func \in Afuncs, NEW how \in {"block", "mutex"},
                 NEW q \in Procs, EvBlock(p, func, how, q)
          PROVE  TypeOK'
      BY <1>0, <2>2 DEF TypeOK, EvBlock, procVars, flagVars, evbVars, syncVars,
         pipeVars
    <2>3. CASE BegUpdate(p)
      <3>1. CASE tak_flag(p)
        <4>1. nest' \in [Procs -> Nat] /\ sy_tas' \in Nat
          <5>1. nest \in [Procs -> Nat] /\ sy_tas \in Nat
            BY <1>0 DEF TypeOK
          <5>2. nest[p] + 1 \in Nat
            BY <5>1
          <5>3. /\ nest' = [nest EXCEPT ![p] = nest[p] + 1]
                /\ sy_tas' = sy_tas + 1
            BY <2>3, <3>1 DEF BegUpdate
          <5> QED
            BY <5>1, <5>2, <5>3
        <4> QED
          BY <1>0, <2>3, <3>1, <4>1 DEF TypeOK, BegUpdate, procVars, flagVars,
             evbVars, pipeVars
      <3>2. CASE ~tak_flag(p)
        BY <2>3, <3>2, <2>2 DEF BegUpdate, Afuncs
      <3> QED
        BY <3>1, <3>2
    <2>4. CASE EndUpdate(p)
      <3>1. nest' \in [Procs -> Nat]
        <4>1. nest \in [Procs -> Nat] /\ nest[p] > 0
          BY <1>0, <2>4 DEF TypeOK, EndUpdate
        <4>2. nest[p] - 1 \in Nat
          BY <4>1
        <4>3. nest' = [nest EXCEPT ![p] = nest[p] - 1]
          BY <2>4 DEF EndUpdate
        <4> QED
          BY <4>1, <4>2, <4>3
      <3>2. CASE sy_tas = 1 /\ sy_wait # <<>>
        <4> DEFINE e == Head(sy_wait)
        <4>1. e \in Evbs /\ e_list[e] # "eul" /\ Tail(sy_wait) \in Seq(Evbs)
          BY <1>0, <3>2, TailFacts DEF TypeOK, QueueState
        <4>2. e_pd[e] \in Procs
          BY <1>0, <4>1 DEF EvbState
        <4>3. /\ p_evflg' \in [Procs -> SUBSET EvBits]
              /\ drl' \subseteq Procs /\ nrl' \subseteq Procs
              /\ e_list' \in [Evbs -> Lists]
          BY <1>0, <2>4, <3>2, <4>1, EvremoveType DEF EndUpdate
        <4>4. rlr' \in Seq(Procs)
          <5>1. rlr \in Seq(Procs) /\ rlr # <<>>
            BY <1>0, <2>4 DEF TypeOK, EndUpdate, Running
          <5>2. rlr' = Append(Tail(rlr), p)
            BY <2>4, <3>2 DEF EndUpdate
          <5>3. Tail(rlr) \in Seq(Procs)
            BY <5>1, TailFacts
          <5> QED
            BY <5>2, <5>3, AppendFacts
        <4> QED
          BY <1>0, <2>4, <3>1, <3>2, <4>1, <4>2, <4>3, <4>4
             DEF TypeOK, EndUpdate, pipeVars
      <3>3. CASE ~(sy_tas = 1 /\ sy_wait # <<>>)
        <4>1. sy_tas' \in Nat /\ sy_owner' \in Procs \cup {NULL}
          <5>1. sy_tas \in Nat /\ sy_owner \in Procs \cup {NULL}
            BY <1>0 DEF TypeOK
          <5> QED
            BY <2>4, <3>3, <5>1 DEF EndUpdate
        <4> QED
          BY <1>0, <2>4, <3>1, <3>3, <4>1 DEF TypeOK, EndUpdate, procVars,
             pipeVars
      <3> QED
        BY <3>2, <3>3
    <2>5. ASSUME NEW q \in Procs, ChgOwn(p, q) PROVE TypeOK'
      <3>1. PICK S : S \subseteq {e \in Evbs : e_list[e] # "eul"} /\ evremove(S)
        BY <2>5 DEF ChgOwn, Waiting
      <3>2. /\ p_evflg' \in [Procs -> SUBSET EvBits]
            /\ drl' \subseteq Procs /\ nrl' \subseteq Procs
            /\ e_list' \in [Evbs -> Lists]
        BY <1>0, <3>1, EvremoveType
      <3> QED
        BY <1>0, <2>5, <3>2 DEF TypeOK, ChgOwn, syncVars, pipeVars
    <2>6. BlockFuncs \subseteq Afuncs /\ "AQRD" \in Afuncs /\ "AQWRT" \in Afuncs
      BY KernelAssumption DEF Afuncs, MultiFuncs
    <2> QED
      BY <1>7, <2>1, <2>2, <2>3, <2>4, <2>5, <2>6 DEF UserCall
  <1>8. ASSUME NEW p \in Procs, KernelStep(p) PROVE TypeOK'
    <2>1. ASSUME NEW quick, EvQuick(p, quick) PROVE TypeOK'
      <3>1. c_cnt' \in [Procs -> 0..KBD_SIZE]
        <4>1. c_cnt \in [Procs -> 0..KBD_SIZE] /\ KBD_SIZE \in Nat
          BY <1>0, KernelAssumption DEF TypeOK
        <4>2. \/ c_cnt' = c_cnt
              \/ c_cnt[p] > 0 /\ c_cnt' = [c_cnt EXCEPT ![p] = @ - 1]
          BY <2>1 DEF EvQuick
        <4>3. CASE c_cnt[p] > 0 /\ c_cnt' = [c_cnt EXCEPT ![p] = @ - 1]
          <5>1. c_cnt[p] - 1 \in 0..KBD_SIZE
            BY <4>1, <4>3
          <5> QED
            BY <4>1, <4>3, <5>1
        <4> QED
          BY <4>1, <4>2, <4>3
      <3>2. todo' \in [Procs -> SUBSET Afuncs]
        <4>1. \/ todo' = todo
              \/ todo' = [todo EXCEPT ![p] = {"AQRD"}]
              \/ todo' = [todo EXCEPT ![p] = {}]
          BY <2>1 DEF EvQuick
        <4>2. {"AQRD"} \in SUBSET Afuncs /\ {} \in SUBSET Afuncs
          BY DEF Afuncs, MultiFuncs
        <4>3. todo \in [Procs -> SUBSET Afuncs]
          BY <1>0 DEF TypeOK
        <4> QED
          BY <4>1, <4>2, <4>3
      <3>3. /\ pc' \in [Procs -> {"user", "check", "iasync", "return", "exit"}]
            /\ call' \in [Procs -> {"multi", "block", "mutex"}]
        BY <1>0, <2>1 DEF TypeOK, EvQuick
      <3> QED
        BY <1>0, <2>1, <3>1, <3>2, <3>3 DEF TypeOK, EvQuick, procVars, flagVars,
           evbVars, syncVars, pipeVars
    <2>2. ASSUME NEW f \in Afuncs, NEW e \in Evbs, NEW b \in EvBits,
                 iasync(p, f, e, b)
          PROVE  TypeOK'
      BY <2>2, IasyncType
    <2>3. CASE mwait(p)
      <3>1. rlr' \in Seq(Procs) /\ nrl' \subseteq Procs
            /\ ctx' \in {"user", "dispforker"}
        <4>1. rlr \in Seq(Procs) /\ rlr # <<>> /\ nrl \subseteq Procs
              /\ ctx = "user"
          BY <1>0, <2>3 DEF TypeOK, mwait, Running
        <4>2. Tail(rlr) \in Seq(Procs)
          BY <4>1
        <4>3. CASE UNCHANGED <<ctx, rlr, nrl>>
          BY <4>1, <4>3
        <4>4. CASE disp(p, FALSE)
          BY <4>1, <4>2, <4>4 DEF disp
        <4> QED
          BY <4>3, <4>4, <2>3 DEF mwait
      <3> QED
        BY <1>0, <2>3, <3>1 DEF TypeOK, mwait, evbVars, syncVars, pipeVars
    <2>4. CASE EvReturn(p)
      <3>1. PICK S : Free(S)
        BY <2>4 DEF EvReturn
      <3>2. /\ e_list' \in [Evbs -> Lists]
            /\ e_pd' \in [Evbs -> Procs \cup {NULL}]
            /\ e_mask' \in [Evbs -> EvBits \cup {0}]
        BY <1>0, <3>1 DEF TypeOK, Free, Lists
      <3>3. /\ p_evbits' \in [Procs -> SUBSET EvBits]
            /\ p_evwait' \in [Procs -> SUBSET EvBits]
            /\ p_evflg' \in [Procs -> SUBSET EvBits]
        BY <1>0, <2>4 DEF TypeOK, EvReturn
      <3>4. nest' \in [Procs -> Nat]
        <4>0. nest \in [Procs -> Nat]
          BY <1>0 DEF TypeOK
        <4>1. nest[p] + 1 \in Nat
          BY <4>0
        <4>2. nest' = [nest EXCEPT ![p] = nest[p] + 1] \/ nest' = nest
          BY <2>4 DEF EvReturn
        <4> QED
          BY <4>0, <4>1, <4>2
      <3> QED
        BY <1>0, <2>4, <3>2, <3>3, <3>4 DEF TypeOK, EvReturn, procVars,
           syncVars, pipeVars
    <2> QED
      BY <1>8, <2>1, <2>2, <2>3, <2>4 DEF KernelStep
  <1>9. ASSUME NEW p \in Procs, Exit(p) PROVE TypeOK'
    <2>1. rlr' \in Seq(Procs)
      <3>1. rlr \in Seq(Procs) /\ rlr # <<>>
        BY <1>0, <1>9 DEF TypeOK, Exit, Running
      <3> QED
        BY <3>1, <1>9, TailFacts, AppendFacts DEF Exit, disp
    <2> QED
      BY <1>0, <1>9, <2>1 DEF TypeOK, Exit, disp, flagVars, evbVars, syncVars,
         pipeVars
  <1>10. CASE UNCHANGED vars
    BY <1>0, <1>10 DEF TypeOK, vars, procVars, flagVars, evbVars, syncVars,
       pipeVars, callVars
  <1> QED
    BY KernelAssumption, <1>1, <1>2, <1>3, <1>4, <1>5, <1>6, <1>7, <1>8, <1>9,
       <1>10 DEF Next, FCodes

-----------------------------------------------------------------------------
(* The process lists.                                                      *)

\* signal moves processes from the not-ready list to the drl, nothing else
Moved ==
  /\ drl' \cup nrl' = drl \cup nrl
  /\ nrl' \subseteq nrl
  /\ drl \cap nrl = {} => drl' \cap nrl' = {}

LEMMA SignalMoves ==
  ASSUME NEW sig, signal(sig)
  PROVE  Moved
  BY DEF signal, Moved

LEMMA EvremoveMoves ==
  ASSUME NEW S, evremove(S)
  PROVE  Moved
  BY SignalMoves DEF evremove

LEMMA IasyncMoves ==
  ASSUME NEW p, NEW f, NEW e, NEW b, iasync(p, f, e, b)
  PROVE  Moved /\ rlr' = rlr /\ ctx' = ctx
  <1>1. ASSUME NEW W, Satisfied(p, e, b, W) PROVE Moved
    BY <1>1, SignalMoves DEF Satisfied
  <1>2. ASSUME NEW l, Insert(e, l) PROVE Moved
    BY <1>2 DEF Insert, Moved
  <1>3. Moved
    BY <1>1, <1>2 DEF iasync, akbin, amouse, adelay, aqrd, aqwrt, amutex
  <1> QED
    BY <1>3 DEF iasync

LEMMA ForkerMoves ==
  ASSUME ForkerStep
  PROVE  Moved /\ rlr' = rlr /\ ctx' = ctx
  <1>1. CASE kchange
    BY <1>1, EvremoveMoves DEF ForkerStep, kchange, Moved
  <1>2. CASE satisfied(Head(fpq))
    BY <1>2, EvremoveMoves DEF ForkerStep, satisfied
  <1> QED
    BY <1>1, <1>2 DEF ForkerStep

\* the running process is the head of the ready list and on no other list
LEMMA RunningFacts ==
  ASSUME TypeOK, OnOneList, NEW p \in Procs, Running(p)
  PROVE  /\ ctx = "user" /\ rlr # <<>> /\ Head(rlr) = p
         /\ p \notin drl /\ p \notin nrl
         /\ Tail(rlr) \in Seq(Procs) /\ Distinct(Tail(rlr))
         /\ RangeOf(Tail(rlr)) = RangeOf(rlr) \ {p}
  <1>1. rlr \in Seq(Procs) /\ rlr # <<>> /\ Head(rlr) = p /\ ctx = "user"
    BY DEF TypeOK, Running
  <1>2. Distinct(rlr)
    BY DEF OnOneList, Distinct
  <1>3. /\ Tail(rlr) \in Seq(Procs) /\ Distinct(Tail(rlr))
        /\ RangeOf(Tail(rlr)) = RangeOf(rlr) \ {p} /\ p \in RangeOf(rlr)
    BY <1>1, <1>2, TailDistinct, TailFacts
  <1> QED
    BY <1>1, <1>3 DEF OnOneList

\* a process that gives up the CPU and stays ready is the last of the list
LEMMA RotateFacts ==
  ASSUME TypeOK, OnOneList, NEW p \in Procs, Running(p)
  PROVE  LET r == Append(Tail(rlr), p) IN
         r # <<>> /\ Distinct(r) /\ RangeOf(r) = RangeOf(rlr)
  <1>1. /\ Tail(rlr) \in Seq(Procs) /\ Distinct(Tail(rlr))
        /\ RangeOf(Tail(rlr)) = RangeOf(rlr) \ {p}
    BY RunningFacts
  <1>2. p \in RangeOf(rlr)
    BY RunningFacts DEF OnOneList
  <1>3. p \notin RangeOf(Tail(rlr))
    BY <1>1
  <1>. DEFINE s == Tail(rlr)
  <1>4. ASSUME s \in Seq(Procs), Distinct(s), p \notin RangeOf(s)
        PROVE  Distinct(Append(s, p)) /\ RangeOf(Append(s, p)) = RangeOf(s) \cup {p}
    <2>. HIDE DEF s
    <2> QED
      BY <1>4, AppendDistinct
  <1>5. Distinct(s) /\ s \in Seq(Procs) /\ p \notin RangeOf(s)
    BY <1>1, <1>3, RunningFacts
  <1>6. Append(Tail(rlr), p) # <<>>
    BY <1>1, AppendFacts
  <1> QED
    BY <1>1, <1>2, <1>4, <1>5, <1>6

\* every step keeps each process on one list, once
LEMMA ListStep ==
  ASSUME KernelInv, [Next]_vars
  PROVE  OnOneList'
  <1>0. TypeOK /\ OnOneList
    BY DEF KernelInv
  <1>1. CASE UNCHANGED <<rlr, drl, nrl>>
    BY <1>0, <1>1 DEF OnOneList
  <1>2. CASE Moved /\ rlr' = rlr
    BY <1>0, <1>2 DEF OnOneList, Moved
  <1>3. ASSUME NEW p \in Procs, Running(p), Moved,
               rlr' = Append(Tail(rlr), p)
        PROVE  OnOneList'
    <2>1. Distinct(rlr') /\ RangeOf(rlr') = RangeOf(rlr)
      BY <1>0, <1>3, RotateFacts
    <2> QED
      BY <1>0, <1>3, <2>1 DEF OnOneList, Moved, Distinct
  <1>4. ASSUME NEW p \in Procs, DrlToRlr(p) PROVE OnOneList'
    <2>1. rlr \in Seq(Procs) /\ Distinct(rlr) /\ p \notin RangeOf(rlr)
      BY <1>0, <1>4 DEF TypeOK, OnOneList, Distinct, DrlToRlr
    <2>2. Distinct(rlr') /\ RangeOf(rlr') = RangeOf(rlr) \cup {p}
      BY <1>4, <2>1, AppendDistinct DEF DrlToRlr
    <2> QED
      BY <1>0, <1>4, <2>2 DEF OnOneList, Distinct, DrlToRlr
  <1>5. ASSUME NEW p \in Procs, UserCall(p) PROVE OnOneList'
    <2>1. CASE BegUpdate(p)
      BY <1>1, <2>1 DEF BegUpdate, EvBlock, procVars
    <2>2. CASE EndUpdate(p)
      <3>1. CASE sy_tas = 1 /\ sy_wait # <<>>
        BY <1>3, <2>2, <3>1, EvremoveMoves DEF EndUpdate
      <3>2. CASE ~(sy_tas = 1 /\ sy_wait # <<>>)
        BY <1>1, <2>2, <3>2 DEF EndUpdate, procVars
      <3> QED
        BY <3>1, <3>2
    <2>3. ASSUME NEW q \in Procs, ChgOwn(p, q) PROVE OnOneList'
      BY <1>2, <2>3, EvremoveMoves DEF ChgOwn
    <2> QED
      BY <1>1, <1>5, <2>1, <2>2, <2>3 DEF UserCall, EvMulti, EvBlock, procVars
  <1>6. ASSUME NEW p \in Procs, KernelStep(p) PROVE OnOneList'
    <2>1. ASSUME NEW f \in Afuncs, NEW e \in Evbs, NEW b \in EvBits,
                 iasync(p, f, e, b)
          PROVE  OnOneList'
      BY <1>2, <2>1, IasyncMoves
    <2>2. CASE mwait(p)
      <3>1. CASE disp(p, FALSE)
        <4>1. /\ Distinct(Tail(rlr)) /\ RangeOf(Tail(rlr)) = RangeOf(rlr) \ {p}
              /\ p \in RangeOf(rlr) /\ p \notin drl /\ p \notin nrl
          BY <1>0, <2>2, RunningFacts DEF mwait, OnOneList
        <4>2. rlr' = Tail(rlr) /\ nrl' = nrl \cup {p} /\ drl' = drl
          BY <2>2, <3>1 DEF mwait, disp
        <4> QED
          BY <1>0, <4>1, <4>2 DEF OnOneList, Distinct
      <3> QED
        BY <1>1, <2>2, <3>1 DEF mwait
    <2> QED
      BY <1>1, <1>6, <2>1, <2>2 DEF KernelStep, EvQuick, EvReturn, procVars
  <1>7. ASSUME NEW p \in Procs, Exit(p) PROVE OnOneList'
    BY <1>3, <1>7 DEF Exit, disp, Moved
  <1> QED
    BY <1>1, <1>2, <1>4, <1>5, <1>6, <1>7, ForkerMoves
       DEF Next, Interrupt, ForkerDone, Poll, Schedule, procVars, vars

-----------------------------------------------------------------------------
(* Where the processes are in their AES calls.                             *)

LEMMA CallStep ==
  ASSUME KernelInv, [Next]_vars
  PROVE  CallState'
  <1>0. TypeOK /\ OnOneList /\ CallState
    BY DEF KernelInv
  <1>t. /\ pc \in [Procs -> {"user", "check", "iasync", "return", "exit"}]
        /\ call \in [Procs -> {"multi", "block", "mutex"}]
        /\ todo \in [Procs -> SUBSET Afuncs]
    BY <1>0 DEF TypeOK
  <1>1. ASSUME UNCHANGED <<pc, call, todo>>, nrl' \subseteq nrl, rlr' = rlr,
               ctx' = ctx
        PROVE  CallState'
    BY <1>0, <1>1 DEF CallState
  <1>2. CASE ForkerDone \/ Poll \/ Schedule
    BY <1>0, <1>2 DEF CallState, ForkerDone, Poll, Schedule, procVars, callVars
  <1>3. ASSUME NEW p \in Procs, DrlToRlr(p) PROVE CallState'
    BY <1>0, <1>3 DEF CallState, DrlToRlr, callVars
  \* an AES call begins: the running process is the only one that may be
  \* inside one without having been switched off
  <1>4. ASSUME NEW p \in Procs, Running(p), pc[p] = "user"
        PROVE  /\ p \notin nrl /\ rlr # <<>> /\ Head(rlr) = p /\ ctx = "user"
               /\ \A q \in Procs : pc[q] \notin {"check", "iasync"}
    BY <1>0, <1>4, RunningFacts DEF CallState
  <1>5. ASSUME NEW p \in Procs, UserCall(p) PROVE CallState'
    <2>1. ASSUME NEW flags \in MultiFlags, EvMulti(p, flags) PROVE CallState'
      <3>1. flags # {} /\ flags \subseteq MultiFuncs
        BY KernelAssumption
      <3> QED
        BY <1>0, <1>t, <1>4, <2>1, <3>1 DEF CallState, EvMulti, procVars
    <2>2. ASSUME NEW func \in Afuncs, NEW how \in {"block", "mutex"},
                 NEW q \in Procs, EvBlock(p, func, how, q)
          PROVE  CallState'
      BY <1>0, <1>t, <1>4, <2>2 DEF CallState, EvBlock, procVars
    <2>3. CASE BegUpdate(p)
      <3>1. CASE tak_flag(p)
        BY <1>0, <1>t, <1>4, <2>3, <3>1 DEF CallState, BegUpdate, procVars
      <3>2. CASE ~tak_flag(p)
        BY <2>3, <3>2, <2>2 DEF BegUpdate, Afuncs
      <3> QED
        BY <3>1, <3>2
    <2>4. CASE EndUpdate(p)
      <3>1. pc[p] = "user" /\ Running(p) /\ pc' = [pc EXCEPT ![p] = "exit"]
            /\ call' = call /\ todo' = todo
        BY <2>4 DEF EndUpdate
      <3>2. nrl' \subseteq nrl
        BY <2>4, EvremoveMoves DEF EndUpdate, Moved, procVars
      <3>3. ctx' = "dispforker" \/ (ctx' = ctx /\ rlr' = rlr)
        BY <2>4 DEF EndUpdate, procVars
      <3> QED
        BY <1>0, <1>t, <1>4, <3>1, <3>2, <3>3 DEF CallState
    <2>5. ASSUME NEW q \in Procs, ChgOwn(p, q) PROVE CallState'
      <3>1. nrl' \subseteq nrl
        BY <2>5, EvremoveMoves DEF ChgOwn, Moved
      <3> QED
        BY <1>0, <1>t, <1>4, <2>5, <3>1 DEF CallState, ChgOwn
    <2>6. BlockFuncs \subseteq Afuncs /\ "AQRD" \in Afuncs /\ "AQWRT" \in Afuncs
      BY KernelAssumption DEF Afuncs, MultiFuncs
    <2> QED
      BY <1>5, <2>1, <2>2, <2>3, <2>4, <2>5, <2>6 DEF UserCall
  <1>6. ASSUME NEW p \in Procs, KernelStep(p) PROVE CallState'
    <2>1. ASSUME NEW quick, EvQuick(p, quick) PROVE CallState'
      <3>1. /\ Running(p) /\ pc[p] = "check"
            /\ UNCHANGED <<ctx, rlr, nrl>>
        BY <2>1 DEF EvQuick, procVars
      <3>2. \/ /\ pc' = [pc EXCEPT ![p] = "exit"]
               /\ todo' = [todo EXCEPT ![p] = {}]
               /\ call' = [call EXCEPT ![p] = "block"]
            \/ /\ pc' = [pc EXCEPT ![p] = "iasync"]
               /\ todo' = [todo EXCEPT ![p] = {"AQRD"}]
               /\ call' = [call EXCEPT ![p] = "block"]
            \/ /\ pc' = [pc EXCEPT ![p] = "iasync"]
               /\ todo' = todo
               /\ call' = call
        BY <2>1 DEF EvQuick
      <3>3. p \notin nrl
        BY <1>0, <3>1, RunningFacts
      <3> QED
        BY <1>0, <1>t, <3>1, <3>2, <3>3 DEF CallState
    <2>2. ASSUME NEW f \in Afuncs, NEW e \in Evbs, NEW b \in EvBits,
                 iasync(p, f, e, b)
          PROVE  CallState'
      <3>1. /\ nrl' \subseteq nrl /\ rlr' = rlr /\ ctx' = ctx
        BY <2>2, IasyncMoves DEF Moved
      <3>2. /\ pc' = pc /\ call' = call /\ pc[p] = "iasync"
            /\ todo' = [todo EXCEPT ![p] = @ \ {f}]
        BY <2>2 DEF iasync
      <3> QED
        BY <1>0, <1>t, <3>1, <3>2 DEF CallState
    <2>3. CASE mwait(p)
      <3>1. /\ Running(p) /\ pc[p] = "iasync" /\ todo[p] = {}
            /\ pc' = [pc EXCEPT ![p] = "return"]
            /\ call' = call /\ todo' = todo
        BY <2>3 DEF mwait
      <3>2. \/ UNCHANGED <<ctx, rlr, nrl>>
            \/ ctx' = "dispforker" /\ nrl' = nrl \cup {p}
        BY <2>3 DEF mwait, disp
      <3>3. \A q \in Procs : pc[q] \in {"check", "iasync"} => q = p
        BY <1>0, <3>1 DEF CallState, Running
      <3> QED
        BY <1>0, <1>t, <3>1, <3>2, <3>3 DEF CallState
    <2>4. CASE EvReturn(p)
      <3>1. /\ Running(p) /\ pc[p] = "return"
            /\ pc' = [pc EXCEPT ![p] = "exit"] /\ todo' = todo
            /\ call' = [call EXCEPT ![p] = "block"]
            /\ UNCHANGED <<ctx, rlr, nrl>>
        BY <2>4 DEF EvReturn, procVars
      <3>2. p \notin nrl
        BY <1>0, <3>1, RunningFacts
      <3> QED
        BY <1>0, <1>t, <3>1, <3>2 DEF CallState
    <2> QED
      BY <1>6, <2>1, <2>2, <2>3, <2>4 DEF KernelStep
  <1>7. ASSUME NEW p \in Procs, Exit(p) PROVE CallState'
    <2>1. /\ Running(p) /\ pc[p] \in {"user", "exit"}
          /\ pc' = [pc EXCEPT ![p] = "user"]
          /\ UNCHANGED <<call, todo, nrl>> /\ ctx' = "dispforker"
      BY <1>7 DEF Exit, disp
    <2>2. p \notin nrl /\ \A q \in Procs : pc[q] \notin {"check", "iasync"}
      BY <1>0, <2>1, RunningFacts DEF CallState
    <2> QED
      BY <1>0, <1>t, <2>1, <2>2 DEF CallState
  <1>8. CASE ForkerStep
    <2>1. UNCHANGED <<pc, call, todo>>
      BY <1>8 DEF ForkerStep, callVars
    <2> QED
      BY <1>1, <1>8, <2>1, ForkerMoves DEF Moved
  <1>9. CASE UNCHANGED vars \/ \E code \in FCodes : Interrupt(code)
    BY <1>1, <1>9 DEF Interrupt, procVars, callVars, vars
  <1> QED
    BY KernelAssumption, <1>2, <1>3, <1>5, <1>6, <1>7, <1>8, <1>9
       DEF Next, FCodes

-----------------------------------------------------------------------------
(* The event masks.                                                        *)

\* a process leaves evnt_multi and ev_block with all its EVBs given back
LEMMA ReturnAll ==
  ASSUME KernelInv, NEW p \in Procs, EvReturn(p)
  PROVE  /\ Free(p_evlist(p))
         /\ p_evbits' = [p_evbits EXCEPT ![p] = {}]
         /\ p_evwait' = [p_evwait EXCEPT ![p] = {}]
         /\ p_evflg' = [p_evflg EXCEPT ![p] = {}]
         /\ wmask' = [wmask EXCEPT ![p] = {}]
         /\ call[p] # "multi" => \A e \in p_evlist(p) : e_list[e] = "zlr"
  <1> DEFINE bits(S) == {e_mask[e] : e \in S}
             cancelled == IF call[p] = "multi" THEN acancel(p, wmask[p]) ELSE {}
             returned == aret(p, wmask[p])
             zombies == {x \in p_evlist(p) : e_list[x] = "zlr"}
  <1>0. TypeOK /\ OnOneList /\ MaskState /\ EvbState
    BY DEF KernelInv
  <1>1. Running(p) /\ pc[p] = "return"
    BY DEF EvReturn
  <1>2. /\ wmask[p] = p_evbits[p] /\ p_evwait[p] = wmask[p]
        /\ p_evbits[p] = bits(p_evlist(p))
        /\ p_evflg[p] = bits(zombies)
    BY <1>0, <1>1 DEF MaskState, EvbState
  <1>3. returned = zombies
    BY <1>2 DEF aret
  <1>4. /\ cancelled \cup returned = p_evlist(p)
        /\ call[p] # "multi" => \A e \in p_evlist(p) : e_list[e] = "zlr"
    <2>1. CASE call[p] = "multi"
      BY <1>2, <2>1 DEF acancel, aret
    <2>2. CASE call[p] # "multi"
      <3>1. PICK b \in EvBits : wmask[p] = {b}
        BY <1>0, <1>1, <2>2 DEF MaskState
      <3>2. p_evwait[p] \cap p_evflg[p] # {}
        BY <1>0, <1>1, RunningFacts DEF MaskState
      <3>3. PICK z \in zombies : e_mask[z] = b
        BY <1>2, <3>1, <3>2
      <3>4. \A e \in p_evlist(p) : e_mask[e] = b
        BY <1>2, <3>1
      <3>5. p_evlist(p) = {z}
        BY <1>0, <3>3, <3>4 DEF EvbState
      <3> QED
        BY <2>2, <1>3, <3>3, <3>5
    <2> QED
      BY <2>1, <2>2
  <1> HIDE DEF zombies
  <1>5. /\ Free(cancelled \cup returned)
        /\ p_evbits' = [p_evbits EXCEPT ![p] = @ \ bits(cancelled \cup returned)]
        /\ p_evwait' = [p_evwait EXCEPT ![p] = @ \ bits(cancelled \cup returned)]
        /\ p_evflg' = [p_evflg EXCEPT ![p] = @ \ bits(returned)]
        /\ wmask' = [wmask EXCEPT ![p] = {}]
    BY DEF EvReturn
  <1> HIDE DEF cancelled, returned, bits
  <1>6. /\ p_evbits[p] \ bits(p_evlist(p)) = {}
        /\ p_evwait[p] \ bits(p_evlist(p)) = {}
        /\ p_evflg[p] \ bits(returned) = {}
    BY <1>2, <1>3
  <1> QED
    BY <1>4, <1>5, <1>6

\* a process sleeps exactly as long as nothing it waits for has happened
Asleep(q) == q \in nrl <=> p_evwait[q] \cap p_evflg[q] = {}

LEMMA SignalWakes ==
  ASSUME TypeOK, MaskState, NEW sig, signal(sig), UNCHANGED p_evwait,
         NEW q \in Procs, pc[q] = "return"
  PROVE  Asleep(q)'
  <1>1. p_evflg'[q] = p_evflg[q] \cup sig[q]
    BY DEF signal
  <1>2. Asleep(q)
    BY DEF MaskState, Asleep
  <1>3. q \in nrl' <=> q \in nrl /\ (p_evflg[q] \cup sig[q]) \cap p_evwait[q] = {}
    BY DEF signal
  <1> QED
    BY <1>1, <1>2, <1>3 DEF Asleep

LEMMA EvremoveWakes ==
  ASSUME TypeOK, MaskState, NEW S, evremove(S), UNCHANGED p_evwait,
         NEW q \in Procs, pc[q] = "return"
  PROVE  Asleep(q)'
  BY SignalWakes DEF evremove

LEMMA IasyncWakes ==
  ASSUME TypeOK, MaskState, NEW p, NEW f, NEW e, NEW b, iasync(p, f, e, b),
         NEW q \in Procs, pc[q] = "return"
  PROVE  Asleep(q)'
  <1>1. UNCHANGED p_evwait
    BY DEF iasync
  <1>2. ASSUME NEW W, Satisfied(p, e, b, W) PROVE Asleep(q)'
    BY <1>1, <1>2, SignalWakes DEF Satisfied
  <1>3. ASSUME NEW l, Insert(e, l) PROVE Asleep(q)'
    BY <1>1, <1>3 DEF Insert, MaskState, Asleep
  <1> QED
    BY <1>2, <1>3 DEF iasync, akbin, amouse, adelay, aqrd, aqwrt, amutex

LEMMA ForkerWakes ==
  ASSUME TypeOK, MaskState, ForkerStep, NEW q \in Procs, pc[q] = "return"
  PROVE  Asleep(q)'
  <1>1. UNCHANGED p_evwait
    BY DEF ForkerStep
  <1>2. ASSUME UNCHANGED <<nrl, p_evflg>> PROVE Asleep(q)'
    BY <1>1, <1>2 DEF MaskState, Asleep
  <1> QED
    BY <1>1, <1>2, EvremoveWakes DEF ForkerStep, kchange, satisfied

LEMMA MaskStep ==
  ASSUME KernelInv, [Next]_vars
  PROVE  MaskState'
  <1>0. TypeOK /\ OnOneList /\ CallState /\ MaskState
    BY DEF KernelInv
  <1>t. /\ pc \in [Procs -> {"user", "check", "iasync", "return", "exit"}]
        /\ call \in [Procs -> {"multi", "block", "mutex"}]
        /\ todo \in [Procs -> SUBSET Afuncs]
        /\ wmask \in [Procs -> SUBSET EvBits]
        /\ p_evbits \in [Procs -> SUBSET EvBits]
        /\ p_evwait \in [Procs -> SUBSET EvBits]
        /\ p_evflg \in [Procs -> SUBSET EvBits]
    BY <1>0 DEF TypeOK
  <1> DEFINE Masks == UNCHANGED <<wmask, p_evbits, p_evwait>>
             Wakes == \A q \in Procs : pc'[q] = "return" => Asleep(q)'
  <1>1. ASSUME UNCHANGED <<nrl, p_evflg, p_evwait>>,
               \A q \in Procs : pc'[q] = "return" => pc[q] = "return"
        PROVE  Wakes
    BY <1>0, <1>1 DEF MaskState, Asleep
  <1>2. ASSUME Masks, Wakes, UNCHANGED <<pc, call, todo>> PROVE MaskState'
    BY <1>0, <1>2 DEF MaskState, Asleep
  \* a call that ends at once, or begins
  <1>3. ASSUME NEW p \in Procs, pc[p] \in {"user", "check", "exit"}, Masks, Wakes,
               \/ pc' = [pc EXCEPT ![p] = "exit"]
               \/ pc' = [pc EXCEPT ![p] = "user"]
               \/ pc' = [pc EXCEPT ![p] = "check"]
               \/ pc' = [pc EXCEPT ![p] = "iasync"]
                    /\ IF call'[p] = "multi" THEN todo'[p] # {}
                       ELSE \E f \in Afuncs : todo'[p] = {f},
               \A q \in Procs \ {p} : call'[q] = call[q] /\ todo'[q] = todo[q]
        PROVE  MaskState'
    <2> SUFFICES ASSUME NEW q \in Procs
                 PROVE
      /\ wmask'[q] = p_evbits'[q]
      /\ p_evwait'[q] = IF pc'[q] = "return" THEN wmask'[q] ELSE {}
      /\ pc'[q] \in {"user", "check", "exit"} => wmask'[q] = {}
      /\ pc'[q] = "iasync" /\ call'[q] = "multi" => wmask'[q] # {} \/ todo'[q] # {}
      /\ pc'[q] = "iasync" /\ call'[q] # "multi" =>
           \/ wmask'[q] = {} /\ \E f \in Afuncs : todo'[q] = {f}
           \/ todo'[q] = {} /\ \E b \in EvBits : wmask'[q] = {b}
      /\ pc'[q] = "return" => wmask'[q] # {}
      /\ pc'[q] = "return" /\ call'[q] # "multi" => \E b \in EvBits : wmask'[q] = {b}
      /\ pc'[q] = "return" => Asleep(q)'
      BY DEF MaskState, Asleep
    <2>1. CASE q = p
      BY <1>0, <1>t, <1>3, <2>1 DEF MaskState
    <2>2. CASE q # p
      BY <1>0, <1>t, <1>3, <2>2 DEF MaskState
    <2> QED
      BY <2>1, <2>2
  <1>4. ASSUME NEW p \in Procs, UserCall(p) PROVE MaskState'
    <2>1. ASSUME NEW flags \in MultiFlags, EvMulti(p, flags) PROVE MaskState'
      <3>1. /\ pc[p] = "user" /\ pc' = [pc EXCEPT ![p] = "check"] /\ Masks
            /\ \A q \in Procs \ {p} : call'[q] = call[q] /\ todo'[q] = todo[q]
        BY <1>t, <2>1 DEF EvMulti, flagVars
      <3>2. Wakes
        BY <1>1, <1>t, <2>1 DEF EvMulti, flagVars, procVars
      <3> QED
        BY <1>3, <3>1, <3>2
    <2>2. ASSUME NEW func \in Afuncs, NEW how \in {"block", "mutex"},
                 NEW q \in Procs, EvBlock(p, func, how, q)
          PROVE  MaskState'
      <3>1. /\ pc[p] = "user" /\ pc' = [pc EXCEPT ![p] = "iasync"] /\ Masks
            /\ call'[p] # "multi" /\ todo'[p] = {func}
            /\ \A r \in Procs \ {p} : call'[r] = call[r] /\ todo'[r] = todo[r]
        BY <1>t, <2>2 DEF EvBlock, flagVars
      <3>2. Wakes
        BY <1>1, <1>t, <2>2 DEF EvBlock, flagVars, procVars
      <3> QED
        BY <1>3, <3>1, <3>2
    <2>3. CASE BegUpdate(p)
      <3>1. CASE tak_flag(p)
        <4>1. /\ pc[p] = "user" /\ pc' = [pc EXCEPT ![p] = "exit"] /\ Masks
              /\ call' = call /\ todo' = todo
          BY <2>3, <3>1 DEF BegUpdate, flagVars
        <4>2. Wakes
          BY <1>1, <1>t, <2>3, <3>1 DEF BegUpdate, flagVars, procVars
        <4> QED
          BY <1>3, <4>1, <4>2
      <3>2. CASE ~tak_flag(p)
        BY <2>3, <3>2, <2>2 DEF BegUpdate, Afuncs
      <3> QED
        BY <3>1, <3>2
    <2>4. CASE EndUpdate(p)
      <3>1. /\ pc[p] = "user" /\ pc' = [pc EXCEPT ![p] = "exit"] /\ Masks
            /\ call' = call /\ todo' = todo
        BY <2>4 DEF EndUpdate
      <3>2. Wakes
        <4>1. CASE sy_tas = 1 /\ sy_wait # <<>>
          BY <1>0, <1>t, <2>4, <3>1, <4>1, EvremoveWakes DEF EndUpdate
        <4>2. CASE ~(sy_tas = 1 /\ sy_wait # <<>>)
          BY <1>1, <1>t, <2>4, <3>1, <4>2 DEF EndUpdate, procVars
        <4> QED
          BY <4>1, <4>2
      <3> QED
        BY <1>3, <3>1, <3>2
    <2>5. ASSUME NEW q \in Procs, ChgOwn(p, q) PROVE MaskState'
      <3>1. /\ pc[p] = "user" /\ pc' = [pc EXCEPT ![p] = "exit"] /\ Masks
            /\ call' = call /\ todo' = todo
        BY <2>5 DEF ChgOwn
      <3>2. Wakes
        BY <1>0, <1>t, <2>5, <3>1, EvremoveWakes DEF ChgOwn
      <3> QED
        BY <1>3, <3>1, <3>2
    <2>6. BlockFuncs \subseteq Afuncs /\ "AQRD" \in Afuncs /\ "AQWRT" \in Afuncs
      BY KernelAssumption DEF Afuncs, MultiFuncs
    <2> QED
      BY <1>4, <2>1, <2>2, <2>3, <2>4, <2>5, <2>6 DEF UserCall
  <1>5. ASSUME NEW p \in Procs, KernelStep(p) PROVE MaskState'
    <2>1. ASSUME NEW quick, EvQuick(p, quick) PROVE MaskState'
      <3>1. /\ pc[p] = "check" /\ Masks /\ UNCHANGED <<nrl, p_evflg>>
        BY <2>1 DEF EvQuick, flagVars, procVars
      <3>2. \/ /\ pc' = [pc EXCEPT ![p] = "exit"]
               /\ todo' = [todo EXCEPT ![p] = {}]
               /\ call' = [call EXCEPT ![p] = "block"]
            \/ /\ pc' = [pc EXCEPT ![p] = "iasync"]
               /\ todo' = [todo EXCEPT ![p] = {"AQRD"}]
               /\ call' = [call EXCEPT ![p] = "block"]
            \/ /\ pc' = [pc EXCEPT ![p] = "iasync"]
               /\ todo' = todo
               /\ call' = call
        BY <2>1 DEF EvQuick
      <3>3. call[p] = "multi" /\ todo[p] # {}
        BY <1>0, <3>1 DEF CallState
      <3>4. Wakes
        BY <1>1, <1>t, <3>1, <3>2
      <3>5. "AQRD" \in Afuncs
        BY DEF Afuncs, MultiFuncs
      <3>6. \A q \in Procs \ {p} : call'[q] = call[q] /\ todo'[q] = todo[q]
        BY <1>t, <3>2
      <3> HIDE DEF Masks, Wakes
      <3>7. pc' = [pc EXCEPT ![p] = "exit"] \/
              /\ pc' = [pc EXCEPT ![p] = "iasync"]
              /\ IF call'[p] = "multi" THEN todo'[p] # {}
                 ELSE \E f \in Afuncs : todo'[p] = {f}
        BY <1>t, <3>2, <3>3, <3>5
      <3> QED
        BY <1>3, <3>1, <3>4, <3>6, <3>7
    <2>2. ASSUME NEW f \in Afuncs, NEW e \in Evbs, NEW b \in EvBits,
                 iasync(p, f, e, b)
          PROVE  MaskState'
      <3>1. /\ pc' = pc /\ call' = call /\ pc[p] = "iasync" /\ f \in todo[p]
            /\ todo' = [todo EXCEPT ![p] = @ \ {f}]
            /\ wmask' = [wmask EXCEPT ![p] = @ \cup {b}]
            /\ p_evbits' = [p_evbits EXCEPT ![p] = @ \cup {b}]
            /\ p_evwait' = p_evwait
        BY <2>2 DEF iasync
      <3>2. Wakes
        BY <1>0, <2>2, <3>1, IasyncWakes
      <3>3. ASSUME NEW q \in Procs, q # p
            PROVE  /\ todo'[q] = todo[q] /\ wmask'[q] = wmask[q]
                   /\ p_evbits'[q] = p_evbits[q]
        BY <1>t, <3>1, <3>3
      <3>4. /\ todo'[p] = todo[p] \ {f} /\ wmask'[p] = wmask[p] \cup {b}
            /\ p_evbits'[p] = p_evbits[p] \cup {b}
        BY <1>t, <3>1
      <3> SUFFICES ASSUME NEW q \in Procs
                   PROVE
        /\ wmask'[q] = p_evbits'[q]
        /\ p_evwait'[q] = IF pc'[q] = "return" THEN wmask'[q] ELSE {}
        /\ pc'[q] \in {"user", "check", "exit"} => wmask'[q] = {}
        /\ pc'[q] = "iasync" /\ call'[q] = "multi" => wmask'[q] # {} \/ todo'[q] # {}
        /\ pc'[q] = "iasync" /\ call'[q] # "multi" =>
             \/ wmask'[q] = {} /\ \E g \in Afuncs : todo'[q] = {g}
             \/ todo'[q] = {} /\ \E c \in EvBits : wmask'[q] = {c}
        /\ pc'[q] = "return" => wmask'[q] # {}
        /\ pc'[q] = "return" /\ call'[q] # "multi" => \E c \in EvBits : wmask'[q] = {c}
        /\ pc'[q] = "return" => Asleep(q)'
        BY DEF MaskState, Asleep
      <3>5. CASE q = p
        BY <1>0, <3>1, <3>2, <3>4, <3>5 DEF MaskState
      <3>6. CASE q # p
        BY <1>0, <3>1, <3>2, <3>3, <3>6 DEF MaskState
      <3> QED
        BY <3>5, <3>6
    <2>3. CASE mwait(p)
      <3>1. /\ Running(p) /\ pc[p] = "iasync" /\ todo[p] = {}
            /\ pc' = [pc EXCEPT ![p] = "return"]
            /\ UNCHANGED <<call, todo, wmask, p_evbits, p_evflg>>
            /\ p_evwait' = [p_evwait EXCEPT ![p] = wmask[p]]
        BY <2>3 DEF mwait
      <3>2. \/ wmask[p] \cap p_evflg[p] # {} /\ UNCHANGED nrl
            \/ wmask[p] \cap p_evflg[p] = {} /\ nrl' = nrl \cup {p}
        BY <2>3 DEF mwait, disp
      <3>3. p \notin nrl
        BY <1>0, <3>1, RunningFacts
      <3>4. /\ wmask[p] = p_evbits[p] /\ wmask[p] # {}
            /\ call[p] # "multi" => \E b \in EvBits : wmask[p] = {b}
        <4>1. todo[p] = {}
          BY <3>1
        <4>2. \A f : todo[p] # {f}
          BY <4>1
        <4> QED
          BY <1>0, <3>1, <4>2 DEF MaskState
      <3>5. Asleep(p)'
        BY <1>t, <3>1, <3>2, <3>3 DEF Asleep
      <3>6. \A q \in Procs \ {p} : pc'[q] = pc[q] /\ p_evwait'[q] = p_evwait[q]
                                    /\ (q \in nrl' <=> q \in nrl)
        BY <1>t, <3>1, <3>2
      <3>7. pc'[p] = "return" /\ p_evwait'[p] = wmask[p]
        BY <1>t, <3>1
      <3>8. ASSUME NEW q \in Procs \ {p}
            PROVE  /\ wmask'[q] = p_evbits'[q]
                   /\ p_evwait'[q] = IF pc'[q] = "return" THEN wmask'[q] ELSE {}
                   /\ pc'[q] = "return" => Asleep(q)'
        BY <1>0, <3>1, <3>6 DEF MaskState, Asleep
      <3> QED
        BY <1>0, <3>1, <3>4, <3>5, <3>6, <3>7, <3>8 DEF MaskState, Asleep
    <2>4. CASE EvReturn(p)
      <3>1. /\ p_evbits' = [p_evbits EXCEPT ![p] = {}]
            /\ p_evwait' = [p_evwait EXCEPT ![p] = {}]
            /\ p_evflg' = [p_evflg EXCEPT ![p] = {}]
            /\ wmask' = [wmask EXCEPT ![p] = {}]
        BY <2>4, ReturnAll
      <3>2. /\ pc' = [pc EXCEPT ![p] = "exit"] /\ UNCHANGED <<todo, nrl>>
            /\ call' = [call EXCEPT ![p] = "block"]
        BY <2>4 DEF EvReturn, procVars
      <3> QED
        BY <1>0, <1>t, <3>1, <3>2 DEF MaskState
    <2> QED
      BY <1>5, <2>1, <2>2, <2>3, <2>4 DEF KernelStep
  <1>6. ASSUME NEW p \in Procs, Exit(p) PROVE MaskState'
    <2>1. /\ pc[p] \in {"user", "exit"} /\ Masks /\ UNCHANGED <<call, todo>>
          /\ pc' = [pc EXCEPT ![p] = "user"] /\ UNCHANGED <<nrl, p_evflg>>
      BY <1>6 DEF Exit, disp, flagVars
    <2>2. Wakes
      BY <1>1, <1>t, <2>1
    <2> QED
      BY <1>3, <2>1, <2>2
  <1>7. CASE ForkerStep
    <2>1. Masks /\ UNCHANGED <<pc, call, todo>>
      BY <1>7 DEF ForkerStep, callVars
    <2>2. Wakes
      BY <1>0, <1>7, <2>1, ForkerWakes
    <2> QED
      BY <1>2, <2>1, <2>2
  <1>8. CASE \/ ForkerDone \/ Poll \/ Schedule \/ \E p \in Procs : DrlToRlr(p)
             \/ UNCHANGED vars \/ \E code \in FCodes : Interrupt(code)
    <2>1. Masks /\ UNCHANGED <<pc, call, todo, nrl, p_evflg>>
      BY <1>8 DEF ForkerDone, Poll, Schedule, DrlToRlr, vars, Interrupt,
         callVars, flagVars, procVars
    <2>2. Wakes
      BY <1>1, <2>1
    <2> QED
      BY <1>2, <2>1, <2>2
  <1> QED
    BY KernelAssumption, <1>4, <1>5, <1>6, <1>7, <1>8 DEF Next, FCodes

-----------------------------------------------------------------------------
(* The event blocks.                                                       *)

\* the EVBs of a process that are complete
Zombies(p) == {x \in p_evlist(p) : e_list[x] = "zlr"}

\* completing EVBs that are in use keeps bits and EVBs together
LEMMA EvremoveEvb ==
  ASSUME TypeOK, EvbState, NEW S, S \subseteq {e \in Evbs : e_list[e] # "eul"},
         evremove(S), UNCHANGED <<e_pd, e_mask, p_evbits>>
  PROVE  EvbState'
  <1>1. \A e \in Evbs : e_list'[e] = IF e \in S THEN "zlr" ELSE e_list[e]
    BY DEF evremove, TypeOK
  <1>2. \A e \in Evbs : e_list'[e] # "eul" <=> e_list[e] # "eul"
    BY <1>1
  <1>3. \A q \in Procs : p_evlist(q)' = p_evlist(q)
    BY <1>2 DEF p_evlist
  <1>4. ASSUME NEW q \in Procs
        PROVE  p_evflg'[q] = {e_mask'[e] : e \in Zombies(q)'}
    <2>1. p_evflg'[q] = p_evflg[q] \cup {e_mask[e] : e \in {x \in S : e_pd[x] = q}}
      BY DEF evremove, signal
    <2>2. Zombies(q)' = Zombies(q) \cup {x \in S : e_pd[x] = q}
      BY <1>1, <1>3 DEF Zombies, p_evlist
    <2>3. p_evflg[q] = {e_mask[e] : e \in Zombies(q)}
      BY DEF EvbState, Zombies
    <2> QED
      BY <2>1, <2>2, <2>3
  <1>5. ASSUME NEW q \in Procs
        PROVE  /\ p_evbits'[q] = {e_mask'[e] : e \in p_evlist(q)'}
               /\ \A e, x \in p_evlist(q)' : e_mask'[e] = e_mask'[x] => e = x
    BY <1>3 DEF EvbState
  <1> QED
    BY <1>2, <1>4, <1>5 DEF EvbState, Zombies

\* the new EVB of an event, whatever list it ends up on
LEMMA IasyncEvb ==
  ASSUME KernelInv, NEW p \in Procs, NEW f \in Afuncs, NEW e \in Evbs,
         NEW b \in EvBits, iasync(p, f, e, b)
  PROVE  EvbState'
  <1>0. TypeOK /\ EvbState /\ QueueState
    BY DEF KernelInv
  <1>1. /\ e_list[e] = "eul" /\ b \notin p_evbits[p]
        /\ e_pd' = [e_pd EXCEPT ![e] = p]
        /\ e_mask' = [e_mask EXCEPT ![e] = b]
        /\ p_evbits' = [p_evbits EXCEPT ![p] = @ \cup {b}]
    BY DEF iasync
  <1>t. /\ e_list \in [Evbs -> Lists]
        /\ e_pd \in [Evbs -> Procs \cup {NULL}]
        /\ e_mask \in [Evbs -> EvBits \cup {0}]
        /\ p_evbits \in [Procs -> SUBSET EvBits]
    BY <1>0 DEF TypeOK
  <1>2. \A x \in Evbs \ {e} : e_pd'[x] = e_pd[x] /\ e_mask'[x] = e_mask[x]
    BY <1>1, <1>t
  <1>3. e_pd'[e] = p /\ e_mask'[e] = b
    BY <1>1, <1>t
  <1>4. ASSUME \A x \in Evbs \ {e} : e_list'[x] # "eul" <=> e_list[x] # "eul",
               e_list'[e] # "eul",
               \A q \in Procs : p_evflg'[q] = {e_mask'[x] : x \in Zombies(q)'}
        PROVE  EvbState'
    <2>1. \A q \in Procs : p_evlist(q)' = IF q = p THEN p_evlist(q) \cup {e}
                                          ELSE p_evlist(q)
      BY <1>1, <1>2, <1>3, <1>4 DEF p_evlist
    <2>2. ASSUME NEW q \in Procs
          PROVE  p_evbits'[q] = {e_mask'[x] : x \in p_evlist(q)'}
      <3>1. e \notin p_evlist(q) /\ p_evlist(q) \subseteq Evbs
        BY <1>1 DEF p_evlist
      <3>2. p_evbits[q] = {e_mask[x] : x \in p_evlist(q)}
        BY <1>0 DEF EvbState
      <3>3. p_evbits[q] = {e_mask'[x] : x \in p_evlist(q)}
        BY <1>2, <3>1, <3>2
      <3> QED
        BY <1>1, <1>t, <1>3, <2>1, <3>3
    <2>3. ASSUME NEW q \in Procs
          PROVE  \A y, x \in p_evlist(q)' : e_mask'[y] = e_mask'[x] => y = x
      <3>1. e \notin p_evlist(q) /\ p_evlist(q) \subseteq Evbs
        BY <1>1 DEF p_evlist
      <3>2. /\ p_evbits[q] = {e_mask[x] : x \in p_evlist(q)}
            /\ \A y, x \in p_evlist(q) : e_mask[y] = e_mask[x] => y = x
        BY <1>0 DEF EvbState
      <3> QED
        BY <1>1, <1>2, <1>3, <2>1, <3>1, <3>2
    <2>4. \A x \in Evbs : e_list'[x] # "eul" => e_pd'[x] \in Procs
      BY <1>0, <1>2, <1>3, <1>4 DEF EvbState
    <2> QED
      BY <1>4, <2>2, <2>3, <2>4 DEF EvbState, Zombies
  <1>5. ASSUME NEW W, W \subseteq {x \in Evbs : e_list[x] # "eul"},
               Satisfied(p, e, b, W)
        PROVE  EvbState'
    <2>1. \A x \in Evbs : e_list'[x] = IF x \in W \cup {e} THEN "zlr" ELSE e_list[x]
      BY <1>5 DEF Satisfied
    <2>2. ASSUME NEW q \in Procs
          PROVE  p_evflg'[q] = {e_mask'[x] : x \in Zombies(q)'}
      <3>1. p_evflg'[q] = p_evflg[q] \cup {e_mask[x] : x \in {y \in W : e_pd[y] = q}}
                            \cup (IF q = p THEN {b} ELSE {})
        BY <1>5 DEF Satisfied, signal
      <3>2. Zombies(q)' = Zombies(q) \cup {y \in W : e_pd[y] = q}
                            \cup (IF q = p THEN {e} ELSE {})
        BY <1>1, <1>2, <1>3, <1>5, <2>1 DEF Zombies, p_evlist
      <3>3. p_evflg[q] = {e_mask[x] : x \in Zombies(q)}
        BY <1>0 DEF EvbState, Zombies
      <3>4. e \notin Zombies(q) /\ e \notin W /\ Zombies(q) \subseteq Evbs
            /\ W \subseteq Evbs
        BY <1>1, <1>5 DEF Zombies, p_evlist
      <3>5. \A x \in Zombies(q) \cup W : e_mask'[x] = e_mask[x]
        BY <1>2, <3>4
      <3> HIDE DEF Zombies
      <3> QED
        BY <1>3, <3>1, <3>2, <3>3, <3>5
    <2> QED
      BY <1>4, <1>5, <2>1, <2>2
  <1>6. ASSUME NEW l \in WaitLists, Insert(e, l) PROVE EvbState'
    <2>1. e_list' = [e_list EXCEPT ![e] = l] /\ p_evflg' = p_evflg
          /\ l # "eul" /\ l # "zlr"
      BY <1>6 DEF Insert, WaitLists
    <2>2. ASSUME NEW q \in Procs
          PROVE  p_evflg'[q] = {e_mask'[x] : x \in Zombies(q)'}
      <3>1. Zombies(q)' = Zombies(q)
        BY <1>1, <1>t, <1>2, <2>1 DEF Zombies, p_evlist
      <3>2. p_evflg[q] = {e_mask[x] : x \in Zombies(q)}
        BY <1>0 DEF EvbState, Zombies
      <3>3. \A x \in Zombies(q) : e_mask'[x] = e_mask[x]
        BY <1>1, <1>2 DEF Zombies, p_evlist
      <3> HIDE DEF Zombies
      <3> QED
        BY <2>1, <3>1, <3>2, <3>3
    <2> QED
      BY <1>t, <1>4, <2>1, <2>2
  <1>7. CASE aqrd(p, e, b)
    <2>1. p_qnq[p] # <<>> => Head(p_qnq[p]) \in Evbs /\ e_list[Head(p_qnq[p])] # "eul"
      BY <1>0, TailFacts DEF TypeOK, QueueState
    <2> QED
      BY <1>5, <1>6, <1>7, <2>1 DEF aqrd, WaitLists
  <1>8. CASE aqwrt(p, e, b, qpb_pid[p])
    BY <1>5, <1>6, <1>8 DEF aqwrt, Waiting, WaitLists
  <1>9. CASE akbin(p, e, b) \/ amutex(p, e, b)
    BY <1>5, <1>6, <1>9 DEF akbin, amutex, WaitLists
  <1>10. CASE \/ amouse(p, e, b, "c_bsleep") \/ amouse(p, e, b, "c_msleep")
              \/ adelay(e)
    BY <1>5, <1>6, <1>10 DEF amouse, adelay, WaitLists
  <1> QED
    BY <1>7, <1>8, <1>9, <1>10 DEF iasync

LEMMA EvbStep ==
  ASSUME KernelInv, [Next]_vars
  PROVE  EvbState'
  <1>0. TypeOK /\ EvbState /\ QueueState
    BY DEF KernelInv
  <1>1. ASSUME UNCHANGED <<e_list, e_pd, e_mask, p_evbits, p_evflg>>
        PROVE  EvbState'
    BY <1>0, <1>1 DEF EvbState, p_evlist
  <1>2. ASSUME NEW S, S \subseteq {e \in Evbs : e_list[e] # "eul"},
               evremove(S), UNCHANGED <<e_pd, e_mask, p_evbits>>
        PROVE  EvbState'
    BY <1>0, <1>2, EvremoveEvb
  <1>3. CASE ForkerStep
    <2>1. UNCHANGED <<e_pd, e_mask, p_evbits>>
      BY <1>3 DEF ForkerStep
    <2>2. CASE kchange
      BY <1>1, <1>2, <2>1, <2>2 DEF kchange, Waiting
    <2>3. CASE satisfied(Head(fpq))
      BY <1>2, <2>1, <2>3 DEF satisfied, Waiting
    <2> QED
      BY <1>3, <2>2, <2>3 DEF ForkerStep
  <1>4. ASSUME NEW p \in Procs, EndUpdate(p) PROVE EvbState'
    <2>1. UNCHANGED <<e_pd, e_mask, p_evbits>>
      BY <1>4 DEF EndUpdate
    <2>2. CASE sy_tas = 1 /\ sy_wait # <<>>
      <3>1. Head(sy_wait) \in Evbs /\ e_list[Head(sy_wait)] # "eul"
        BY <1>0, <2>2, TailFacts DEF TypeOK, QueueState
      <3> QED
        BY <1>2, <1>4, <2>1, <2>2, <3>1 DEF EndUpdate
    <2>3. CASE ~(sy_tas = 1 /\ sy_wait # <<>>)
      BY <1>1, <1>4, <2>1, <2>3 DEF EndUpdate
    <2> QED
      BY <2>2, <2>3
  <1>5. ASSUME NEW p \in Procs, NEW q \in Procs, ChgOwn(p, q) PROVE EvbState'
    BY <1>2, <1>5 DEF ChgOwn, Waiting
  <1>6. ASSUME NEW p \in Procs, EvReturn(p) PROVE EvbState'
    <2> DEFINE S == p_evlist(p)
    <2>t. /\ p_evbits \in [Procs -> SUBSET EvBits]
          /\ p_evflg \in [Procs -> SUBSET EvBits]
      BY <1>0 DEF TypeOK
    <2>1. /\ Free(S)
          /\ p_evbits' = [p_evbits EXCEPT ![p] = {}]
          /\ p_evflg' = [p_evflg EXCEPT ![p] = {}]
      BY <1>6, ReturnAll
    <2>2. \A e \in Evbs : /\ e_list'[e] = IF e \in S THEN "eul" ELSE e_list[e]
                          /\ e_pd'[e] = IF e \in S THEN NULL ELSE e_pd[e]
                          /\ e_mask'[e] = IF e \in S THEN 0 ELSE e_mask[e]
      BY <2>1 DEF Free
    <2>3. p_evlist(p)' = {} /\ Zombies(p)' = {}
      BY <2>2 DEF p_evlist, Zombies
    <2>4. ASSUME NEW q \in Procs, q # p
          PROVE  /\ p_evlist(q)' = p_evlist(q) /\ Zombies(q)' = Zombies(q)
                 /\ \A e \in p_evlist(q) : e_mask'[e] = e_mask[e]
      BY <2>2, <2>4 DEF p_evlist, Zombies
    <2>5. ASSUME NEW q \in Procs
          PROVE  /\ p_evbits'[q] = {e_mask'[e] : e \in p_evlist(q)'}
                 /\ p_evflg'[q] = {e_mask'[e] : e \in Zombies(q)'}
                 /\ \A e, x \in p_evlist(q)' : e_mask'[e] = e_mask'[x] => e = x
      <3>1. CASE q = p
        BY <2>t, <2>1, <2>3, <3>1
      <3>2. CASE q # p
        <4>1. /\ p_evbits[q] = {e_mask[e] : e \in p_evlist(q)}
              /\ p_evflg[q] = {e_mask[e] : e \in Zombies(q)}
              /\ \A e, x \in p_evlist(q) : e_mask[e] = e_mask[x] => e = x
          BY <1>0 DEF EvbState, Zombies
        <4>2. Zombies(q) \subseteq p_evlist(q)
          BY DEF Zombies
        <4>3. p_evbits'[q] = p_evbits[q] /\ p_evflg'[q] = p_evflg[q]
          BY <2>t, <2>1, <3>2
        <4> QED
          BY <2>4, <3>2, <4>1, <4>2, <4>3
      <3> QED
        BY <3>1, <3>2
    <2>6. \A e \in Evbs : e_list'[e] # "eul" => e_pd'[e] \in Procs
      BY <1>0, <2>2 DEF EvbState
    <2> QED
      BY <2>5, <2>6 DEF EvbState, Zombies
  <1>7. ASSUME NEW p \in Procs, UserCall(p) PROVE EvbState'
    BY <1>1, <1>4, <1>5, <1>7
       DEF UserCall, EvMulti, EvBlock, BegUpdate, flagVars, evbVars
  <1>8. ASSUME NEW p \in Procs, KernelStep(p) PROVE EvbState'
    BY <1>1, <1>6, <1>8, IasyncEvb DEF KernelStep, EvQuick, mwait, flagVars, evbVars
  <1> QED
    BY <1>1, <1>3, <1>7, <1>8
       DEF Next, Interrupt, ForkerDone, DrlToRlr, Poll, Schedule, Exit, vars,
           flagVars, evbVars

-----------------------------------------------------------------------------
(* The lists of blocked writers and of programs that want the screen.      *)

QueueLists == {"p_qnq", "sy_wait"}

\* EVBs that are not on these lists may go to other lists as they like
LEMMA QueueKeep ==
  ASSUME TypeOK, QueueState, UNCHANGED <<p_qnq, sy_wait>>,
         \A e \in Evbs : e_list[e] \in QueueLists => e_list'[e] = e_list[e],
         \A e \in Evbs : e_list'[e] \in QueueLists =>
           /\ e_list[e] = e_list'[e] /\ e_pd'[e] = e_pd[e]
           /\ call[e_pd[e]] # "multi" => call'[e_pd[e]] # "multi"
  PROVE  QueueState'
  <1>1. /\ \A q \in Procs : \A i \in DOMAIN p_qnq[q] : p_qnq[q][i] \in Evbs
        /\ \A i \in DOMAIN sy_wait : sy_wait[i] \in Evbs
    BY DEF TypeOK
  <1> QED
    BY <1>1 DEF QueueState, QueueLists

LEMMA EvremoveQueue ==
  ASSUME TypeOK, QueueState, NEW S, S \subseteq Evbs,
         \A e \in S : e_list[e] \notin QueueLists,
         evremove(S), UNCHANGED <<e_pd, p_qnq, sy_wait, call>>
  PROVE  QueueState'
  <1>1. \A e \in Evbs : e_list'[e] = IF e \in S THEN "zlr" ELSE e_list[e]
    BY DEF evremove
  <1> QED
    BY <1>1, QueueKeep DEF QueueLists

\* iasync links the EVB e into a list or pops one from the writers
LEMMA IasyncQueue ==
  ASSUME KernelInv, NEW p \in Procs, NEW f \in Afuncs, NEW e \in Evbs,
         NEW b \in EvBits, iasync(p, f, e, b)
  PROVE  QueueState'
  <1>0. TypeOK /\ QueueState /\ CallState
    BY DEF KernelInv
  <1>1. /\ e_list[e] = "eul" /\ pc[p] = "iasync" /\ f \in todo[p] /\ call' = call
        /\ e_pd' = [e_pd EXCEPT ![e] = p]
    BY DEF iasync
  <1>t. /\ e_list \in [Evbs -> Lists] /\ e_pd \in [Evbs -> Procs \cup {NULL}]
        /\ sy_wait \in Seq(Evbs) /\ p_qnq \in [Procs -> Seq(Evbs)]
        /\ qpb_pid[p] \in Procs
    BY <1>0 DEF TypeOK
  <1>2. e_pd'[e] = p /\ \A x \in Evbs \ {e} : e_pd'[x] = e_pd[x]
    BY <1>1, <1>t
  <1>3. f \in {"AQWRT", "AMUTEX"} => call[p] # "multi"
    BY <1>0, <1>1 DEF CallState, MultiFuncs
  <1>4. ASSUME NEW W, W \subseteq Evbs, \A x \in W : e_list[x] \notin QueueLists,
               Satisfied(p, e, b, W), UNCHANGED <<p_qnq, sy_wait>>
        PROVE  QueueState'
    <2>1. \A x \in Evbs : e_list'[x] = IF x \in W \cup {e} THEN "zlr" ELSE e_list[x]
      BY <1>4 DEF Satisfied
    <2> QED
      BY <1>0, <1>1, <1>2, <1>4, <2>1, QueueKeep DEF QueueLists
  <1>5. ASSUME NEW l \in WaitLists \ QueueLists, Insert(e, l),
               UNCHANGED <<p_qnq, sy_wait>>
        PROVE  QueueState'
    <2>1. \A x \in Evbs : e_list'[x] = IF x = e THEN l ELSE e_list[x]
      BY <1>t, <1>5 DEF Insert
    <2> QED
      BY <1>0, <1>1, <1>2, <1>5, <2>1, QueueKeep DEF QueueLists
  <1>6. CASE f = "AQRD" /\ aqrd(p, e, b)
    <2>1. CASE p_qindex[p] > 0 /\ p_qnq[p] # <<>>
      <3> DEFINE h == Head(p_qnq[p])
                 t == Tail(p_qnq[p])
      <3>1. /\ Satisfied(p, e, b, {h}) /\ p_qnq' = [p_qnq EXCEPT ![p] = t]
            /\ sy_wait' = sy_wait
        BY <1>6, <2>1 DEF aqrd, syncVars
      <3>2. /\ h \in Evbs /\ t \in Seq(Evbs) /\ h = p_qnq[p][1] /\ 1 \in DOMAIN p_qnq[p]
            /\ \A i \in DOMAIN t : /\ i + 1 \in DOMAIN p_qnq[p]
                                   /\ t[i] = p_qnq[p][i + 1] /\ i \in Nat /\ i # 0
        BY <1>t, <2>1, TailFacts
      <3>3. \A x \in Evbs : e_list'[x] = IF x \in {h, e} THEN "zlr" ELSE e_list[x]
        BY <3>1 DEF Satisfied
      <3>4. p_qnq'[p] = t /\ \A q \in Procs \ {p} : p_qnq'[q] = p_qnq[q]
        BY <1>t, <3>1
      <3> HIDE DEF h, t
      <3>5. ASSUME NEW q \in Procs, NEW i \in DOMAIN p_qnq'[q]
            PROVE  /\ p_qnq'[q][i] \in Evbs \ {h, e}
                   /\ e_list[p_qnq'[q][i]] = "p_qnq"
        <4>1. CASE q = p
          <5>1. i + 1 \in DOMAIN p_qnq[p] /\ p_qnq'[q][i] = p_qnq[p][i + 1] /\ i + 1 # 1
            BY <3>2, <3>4, <3>5, <4>1
          <5>2. p_qnq[p][i + 1] # h /\ e_list[p_qnq[p][i + 1]] = "p_qnq"
                /\ p_qnq[p][i + 1] \in Evbs
            BY <1>0, <1>t, <3>2, <5>1 DEF QueueState
          <5> QED
            BY <1>1, <5>1, <5>2
        <4>2. CASE q # p
          <5>1. i \in DOMAIN p_qnq[q] /\ p_qnq'[q][i] = p_qnq[q][i]
            BY <3>4, <3>5, <4>2
          <5>2. p_qnq[q][i] # h /\ e_list[p_qnq[q][i]] = "p_qnq" /\ p_qnq[q][i] \in Evbs
            BY <1>0, <1>t, <3>2, <4>2, <5>1 DEF QueueState
          <5> QED
            BY <1>1, <5>1, <5>2
        <4> QED
          BY <4>1, <4>2
      <3>6. ASSUME NEW q \in Procs, NEW r \in Procs, NEW i \in DOMAIN p_qnq'[q],
                   NEW j \in DOMAIN p_qnq'[r], p_qnq'[q][i] = p_qnq'[r][j]
            PROVE  q = r /\ i = j
        <4>1. \A s \in Procs : \A k \in DOMAIN p_qnq'[s] :
                \E m \in DOMAIN p_qnq[s] : /\ m = (IF s = p THEN k + 1 ELSE k)
                                           /\ p_qnq'[s][k] = p_qnq[s][m]
                                           /\ (s = p => k \in Nat)
          BY <3>2, <3>4
        <4>2. PICK m \in DOMAIN p_qnq[q] : /\ m = (IF q = p THEN i + 1 ELSE i)
                                           /\ p_qnq'[q][i] = p_qnq[q][m]
                                           /\ (q = p => i \in Nat)
          BY <4>1
        <4>3. PICK n \in DOMAIN p_qnq[r] : /\ n = (IF r = p THEN j + 1 ELSE j)
                                           /\ p_qnq'[r][j] = p_qnq[r][n]
                                           /\ (r = p => j \in Nat)
          BY <4>1
        <4>4. \A i1 \in DOMAIN p_qnq[q], j1 \in DOMAIN p_qnq[r] :
                p_qnq[q][i1] = p_qnq[r][j1] => q = r /\ i1 = j1
          BY <1>0 DEF QueueState
        <4>5. p_qnq[q][m] = p_qnq[r][n]
          BY <3>6, <4>2, <4>3
        <4>6. q = r /\ m = n
          BY <4>4, <4>5
        <4>7. q = p => i + 1 = j + 1 /\ i \in Nat /\ j \in Nat
          BY <4>2, <4>3, <4>6
        <4>8. q # p => i = j
          BY <4>2, <4>3, <4>6
        <4> QED
          BY <4>6, <4>7, <4>8
      <3>7. ASSUME NEW i \in DOMAIN sy_wait PROVE e_list'[sy_wait[i]] = "sy_wait"
        BY <1>0, <1>1, <1>t, <3>2, <3>3 DEF QueueState
      <3>8. ASSUME NEW x \in Evbs, e_list'[x] \in QueueLists
            PROVE  call'[e_pd'[x]] # "multi"
        BY <1>0, <1>1, <1>2, <3>3, <3>8 DEF QueueState, QueueLists
      <3> QED
        BY <1>0, <3>1, <3>3, <3>5, <3>6, <3>7, <3>8 DEF QueueState, QueueLists
    <2>2. CASE ~(p_qindex[p] > 0 /\ p_qnq[p] # <<>>)
      BY <1>4, <1>5, <1>6, <2>2
         DEF aqrd, syncVars, pipeVars, WaitLists, QueueLists
    <2> QED
      BY <2>1, <2>2
  <1>7. CASE f = "AQWRT" /\ aqwrt(p, e, b, qpb_pid[p])
    <2> DEFINE d == qpb_pid[p]
               s == <<e>> \o p_qnq[d]
    <2>1. CASE p_qindex[d] < QUEUE_SIZE
      BY <1>4, <1>7, <2>1 DEF aqwrt, syncVars, pipeVars, Waiting, QueueLists
    <2>2. CASE ~(p_qindex[d] < QUEUE_SIZE)
      <3>1. /\ Insert(e, "p_qnq") /\ p_qnq' = [p_qnq EXCEPT ![d] = s]
            /\ sy_wait' = sy_wait
        BY <1>7, <2>2 DEF aqwrt, syncVars
      <3>2. /\ s[1] = e
            /\ \A i \in DOMAIN s : i = 1 \/ /\ i - 1 \in DOMAIN p_qnq[d]
                                            /\ s[i] = p_qnq[d][i - 1]
            /\ \A i \in DOMAIN s : i \in Nat
        <4>1. p_qnq[d] \in Seq(Evbs)
          BY <1>t
        <4>2. s \in Seq(Evbs)
          BY <4>1, ConsFacts
        <4> QED
          BY <4>1, <4>2, ConsFacts
      <3>3. \A x \in Evbs : e_list'[x] = IF x = e THEN "p_qnq" ELSE e_list[x]
        BY <1>t, <3>1 DEF Insert
      <3>4. p_qnq'[d] = s /\ \A q \in Procs \ {d} : p_qnq'[q] = p_qnq[q]
        BY <1>t, <3>1
      <3>5. d \in Procs
        BY <1>t
      <3>6. \A q \in Procs : \A i \in DOMAIN p_qnq[q] :
              p_qnq[q][i] \in Evbs \ {e} /\ e_list[p_qnq[q][i]] = "p_qnq"
        BY <1>0, <1>1, <1>t DEF QueueState
      <3> HIDE DEF d, s
      <3>7. \A q \in Procs : \A i \in DOMAIN p_qnq'[q] :
              \/ q = d /\ i = 1 /\ p_qnq'[q][i] = e
              \/ q = d /\ i \in Nat /\ i - 1 \in DOMAIN p_qnq[q]
                   /\ p_qnq'[q][i] = p_qnq[q][i - 1]
              \/ q # d /\ i \in DOMAIN p_qnq[q] /\ p_qnq'[q][i] = p_qnq[q][i]
        BY <3>2, <3>4
      <3>8. ASSUME NEW q \in Procs, NEW r \in Procs, NEW i \in DOMAIN p_qnq'[q],
                   NEW j \in DOMAIN p_qnq'[r], p_qnq'[q][i] = p_qnq'[r][j]
            PROVE  q = r /\ i = j
        <4>1. CASE p_qnq'[q][i] = e
          <5>1. q = d /\ i = 1
            BY <3>6, <3>7, <4>1
          <5>2. p_qnq'[r][j] = e
            BY <3>8, <4>1
          <5>3. r = d /\ j = 1
            BY <3>6, <3>7, <5>2
          <5> QED
            BY <5>1, <5>3
        <4>2. CASE p_qnq'[q][i] # e
          <5>1. PICK m \in DOMAIN p_qnq[q] : /\ m = (IF q = d THEN i - 1 ELSE i)
                                             /\ p_qnq'[q][i] = p_qnq[q][m]
                                             /\ (q = d => i \in Nat)
            BY <3>7, <4>2
          <5>2. PICK n \in DOMAIN p_qnq[r] : /\ n = (IF r = d THEN j - 1 ELSE j)
                                             /\ p_qnq'[r][j] = p_qnq[r][n]
                                             /\ (r = d => j \in Nat)
            BY <3>7, <3>8, <4>2
          <5>3. \A i1 \in DOMAIN p_qnq[q], j1 \in DOMAIN p_qnq[r] :
                  p_qnq[q][i1] = p_qnq[r][j1] => q = r /\ i1 = j1
            BY <1>0 DEF QueueState
          <5>4. p_qnq[q][m] = p_qnq[r][n]
            BY <3>8, <5>1, <5>2
          <5>5. q = r /\ m = n
            BY <5>3, <5>4
          <5>6. q = d => i - 1 = j - 1 /\ i \in Nat /\ j \in Nat
            BY <5>1, <5>2, <5>5
          <5>7. q # d => i = j
            BY <5>1, <5>2, <5>5
          <5> QED
            BY <5>5, <5>6, <5>7
        <4> QED
          BY <4>1, <4>2
      <3>9. ASSUME NEW q \in Procs, NEW i \in DOMAIN p_qnq'[q]
            PROVE  e_list'[p_qnq'[q][i]] = "p_qnq"
        BY <3>3, <3>6, <3>7
      <3>10. ASSUME NEW i \in DOMAIN sy_wait PROVE e_list'[sy_wait[i]] = "sy_wait"
        BY <1>0, <1>1, <1>t, <3>3 DEF QueueState
      <3>11. ASSUME NEW x \in Evbs, e_list'[x] \in QueueLists
             PROVE  call'[e_pd'[x]] # "multi"
        BY <1>0, <1>1, <1>2, <1>3, <1>7, <3>3, <3>11 DEF QueueState, QueueLists
      <3> QED
        BY <1>0, <3>1, <3>8, <3>9, <3>10, <3>11 DEF QueueState, QueueLists
    <2> QED
      BY <2>1, <2>2
  <1>8. CASE f = "AMUTEX" /\ amutex(p, e, b)
    <2>1. CASE tak_flag(p)
      BY <1>4, <1>8, <2>1 DEF amutex, pipeVars
    <2>2. CASE ~tak_flag(p)
      <3> DEFINE s == <<e>> \o sy_wait
      <3>1. /\ Insert(e, "sy_wait") /\ sy_wait' = s /\ p_qnq' = p_qnq
        BY <1>8, <2>2 DEF amutex, pipeVars
      <3>2. /\ s[1] = e
            /\ \A i \in DOMAIN s : i = 1 \/ /\ i - 1 \in DOMAIN sy_wait
                                            /\ s[i] = sy_wait[i - 1]
            /\ \A i \in DOMAIN s : i \in Nat
        <4>1. s \in Seq(Evbs)
          BY <1>t, ConsFacts
        <4> QED
          BY <1>t, <4>1, ConsFacts
      <3>3. \A x \in Evbs : e_list'[x] = IF x = e THEN "sy_wait" ELSE e_list[x]
        BY <1>t, <3>1 DEF Insert
      <3>4. \A i \in DOMAIN sy_wait : sy_wait[i] \in Evbs \ {e}
                                        /\ e_list[sy_wait[i]] = "sy_wait"
        BY <1>0, <1>1, <1>t DEF QueueState
      <3> HIDE DEF s
      <3>5. ASSUME NEW i \in DOMAIN s PROVE e_list'[s[i]] = "sy_wait"
        BY <3>2, <3>3, <3>4
      <3>6. ASSUME NEW i \in DOMAIN s, NEW j \in DOMAIN s, s[i] = s[j] PROVE i = j
        BY <1>0, <3>2, <3>4, <3>6 DEF QueueState
      <3>7. ASSUME NEW q \in Procs, NEW i \in DOMAIN p_qnq[q]
            PROVE  e_list'[p_qnq[q][i]] = "p_qnq"
        BY <1>0, <1>1, <1>t, <3>3 DEF QueueState
      <3>8. ASSUME NEW x \in Evbs, e_list'[x] \in QueueLists
            PROVE  call'[e_pd'[x]] # "multi"
        BY <1>0, <1>1, <1>2, <1>3, <1>8, <3>3, <3>8 DEF QueueState, QueueLists
      <3> QED
        BY <1>0, <3>1, <3>5, <3>6, <3>7, <3>8 DEF QueueState, QueueLists
    <2> QED
      BY <2>1, <2>2
  <1>9. CASE akbin(p, e, b)
    BY <1>4, <1>5, <1>9 DEF akbin, syncVars, pipeVars, WaitLists, QueueLists
  <1>10. CASE \/ amouse(p, e, b, "c_bsleep") \/ amouse(p, e, b, "c_msleep")
              \/ adelay(e)
    BY <1>4, <1>5, <1>10
       DEF amouse, adelay, syncVars, pipeVars, WaitLists, QueueLists
  <1> QED
    BY <1>6, <1>7, <1>8, <1>9, <1>10 DEF iasync

LEMMA QueueStep ==
  ASSUME KernelInv, [Next]_vars
  PROVE  QueueState'
  <1>0. TypeOK /\ QueueState /\ EvbState /\ MaskState
    BY DEF KernelInv
  <1>t. /\ call \in [Procs -> {"multi", "block", "mutex"}]
        /\ sy_wait \in Seq(Evbs) /\ p_qnq \in [Procs -> Seq(Evbs)]
    BY <1>0 DEF TypeOK
  <1>1. ASSUME UNCHANGED <<e_list, e_pd, p_qnq, sy_wait>>,
               \A x \in Evbs : e_list[x] \in QueueLists =>
                 (call[e_pd[x]] # "multi" => call'[e_pd[x]] # "multi")
        PROVE  QueueState'
    BY <1>0, <1>1, QueueKeep
  <1>2. ASSUME NEW S, S \subseteq Evbs, \A e \in S : e_list[e] \notin QueueLists,
               evremove(S), UNCHANGED <<e_pd, p_qnq, sy_wait, call>>
        PROVE  QueueState'
    BY <1>0, <1>2, EvremoveQueue
  <1>3. CASE ForkerStep
    <2>1. UNCHANGED <<e_pd, p_qnq, sy_wait, call>>
      BY <1>3 DEF ForkerStep, syncVars, pipeVars, callVars
    <2>2. CASE kchange
      BY <1>1, <1>2, <2>1, <2>2 DEF kchange, Waiting, QueueLists
    <2>3. CASE satisfied(Head(fpq))
      BY <1>2, <2>1, <2>3 DEF satisfied, Waiting, QueueLists
    <2> QED
      BY <1>3, <2>2, <2>3 DEF ForkerStep
  \* a process between two AES calls has no EVB
  <1>4. ASSUME NEW p \in Procs, pc[p] = "user" PROVE p_evlist(p) = {}
    BY <1>0, <1>4 DEF MaskState, EvbState
  <1>5. ASSUME NEW p \in Procs, UserCall(p) PROVE QueueState'
    <2>1. ASSUME NEW flags, EvMulti(p, flags) PROVE QueueState'
      <3>1. \A x \in Evbs : e_list[x] \in QueueLists => e_pd[x] # p
        BY <1>4, <2>1 DEF EvMulti, p_evlist, QueueLists
      <3>2. \A q \in Procs \ {p} : call'[q] = call[q]
        BY <1>t, <2>1 DEF EvMulti
      <3>3. \A x \in Evbs : e_list[x] \in QueueLists => e_pd[x] \in Procs
        BY <1>0 DEF EvbState, QueueLists
      <3> QED
        BY <1>1, <2>1, <3>1, <3>2, <3>3 DEF EvMulti, evbVars, syncVars, pipeVars
    <2>2. ASSUME NEW func, NEW how \in {"block", "mutex"}, NEW q,
                 EvBlock(p, func, how, q)
          PROVE  QueueState'
      <3>1. \A x \in Evbs : call[e_pd[x]] # "multi" => call'[e_pd[x]] # "multi"
        BY <1>t, <2>2 DEF EvBlock
      <3> QED
        BY <1>1, <2>2, <3>1 DEF EvBlock, evbVars, syncVars, pipeVars
    <2>3. CASE BegUpdate(p)
      BY <1>1, <2>2, <2>3 DEF BegUpdate, evbVars, pipeVars
    <2>4. CASE EndUpdate(p)
      <3>1. UNCHANGED <<e_pd, p_qnq, call>>
        BY <2>4 DEF EndUpdate, pipeVars
      <3>2. CASE sy_tas = 1 /\ sy_wait # <<>>
        <4> DEFINE h == Head(sy_wait)
                   t == Tail(sy_wait)
        <4>1. sy_wait' = t /\ evremove({h})
          BY <2>4, <3>2 DEF EndUpdate
        <4>2. /\ h \in Evbs /\ h = sy_wait[1] /\ 1 \in DOMAIN sy_wait
              /\ \A i \in DOMAIN t : /\ i + 1 \in DOMAIN sy_wait /\ i \in Nat
                                     /\ t[i] = sy_wait[i + 1] /\ i # 0
          BY <1>t, <3>2, TailFacts
        <4>3. \A x \in Evbs : e_list'[x] = IF x = h THEN "zlr" ELSE e_list[x]
          BY <4>1 DEF evremove
        <4> HIDE DEF h, t
        <4>4. ASSUME NEW i \in DOMAIN t PROVE e_list'[t[i]] = "sy_wait"
          <5>1. i + 1 # 1 /\ i + 1 \in DOMAIN sy_wait
            BY <4>2
          <5>2. sy_wait[i + 1] # h /\ e_list[sy_wait[i + 1]] = "sy_wait"
                /\ sy_wait[i + 1] \in Evbs
            BY <1>0, <1>t, <4>2, <5>1 DEF QueueState
          <5> QED
            BY <4>2, <4>3, <5>2
        <4>5. ASSUME NEW i \in DOMAIN t, NEW j \in DOMAIN t, t[i] = t[j] PROVE i = j
          <5>1. i + 1 = j + 1
            BY <1>0, <4>2, <4>5 DEF QueueState
          <5> QED
            BY <4>2, <5>1
        <4>6. e_list[h] = "sy_wait"
          BY <1>0, <4>2 DEF QueueState
        <4>7. ASSUME NEW q \in Procs, NEW i \in DOMAIN p_qnq[q]
              PROVE  e_list'[p_qnq[q][i]] = "p_qnq"
          <5>1. p_qnq[q][i] \in Evbs /\ e_list[p_qnq[q][i]] = "p_qnq"
            BY <1>0, <1>t DEF QueueState
          <5> QED
            BY <4>3, <4>6, <5>1
        <4>8. ASSUME NEW x \in Evbs, e_list'[x] \in QueueLists
              PROVE  call'[e_pd'[x]] # "multi"
          BY <1>0, <3>1, <4>3, <4>8 DEF QueueState, QueueLists
        <4> QED
          BY <1>0, <3>1, <4>1, <4>4, <4>5, <4>7, <4>8 DEF QueueState, QueueLists
      <3>3. CASE ~(sy_tas = 1 /\ sy_wait # <<>>)
        BY <1>1, <2>4, <3>1, <3>3 DEF EndUpdate
      <3> QED
        BY <3>2, <3>3
    <2>5. ASSUME NEW q \in Procs, ChgOwn(p, q) PROVE QueueState'
      <3>1. PICK S : /\ S \subseteq Waiting(q, "c_msleep") \cup Waiting(q, "c_bsleep")
                     /\ evremove(S)
        BY <2>5 DEF ChgOwn
      <3> QED
        BY <1>2, <2>5, <3>1 DEF ChgOwn, Waiting, QueueLists, syncVars, pipeVars
    <2> QED
      BY <1>5, <2>1, <2>2, <2>3, <2>4, <2>5 DEF UserCall
  <1>6. ASSUME NEW p \in Procs, EvReturn(p) PROVE QueueState'
    <2>1. /\ Free(p_evlist(p))
          /\ call[p] # "multi" => \A e \in p_evlist(p) : e_list[e] = "zlr"
          /\ call' = [call EXCEPT ![p] = "block"]
          /\ UNCHANGED <<p_qnq, sy_wait>>
      BY <1>6, ReturnAll DEF EvReturn, syncVars, pipeVars
    <2>2. \A e \in p_evlist(p) : e_list[e] \notin QueueLists
      BY <1>0, <2>1 DEF QueueState, p_evlist, QueueLists
    <2>3. \A e \in Evbs : /\ e_list'[e] = IF e \in p_evlist(p) THEN "eul" ELSE e_list[e]
                          /\ e_pd'[e] = IF e \in p_evlist(p) THEN NULL ELSE e_pd[e]
      BY <2>1 DEF Free
    <2>4. \A x : call[x] # "multi" => call'[x] # "multi" \/ x \notin Procs
      BY <1>t, <2>1
    <2>5. \A e \in Evbs : e_list[e] \in QueueLists => e_pd[e] \in Procs
      BY <1>0 DEF EvbState, QueueLists
    <2> QED
      BY <1>0, <2>1, <2>2, <2>3, <2>4, <2>5, QueueKeep DEF QueueLists
  <1>7. ASSUME NEW p \in Procs, KernelStep(p) PROVE QueueState'
    <2>1. ASSUME NEW quick, EvQuick(p, quick) PROVE QueueState'
      <3>1. \A x \in Evbs : call[e_pd[x]] # "multi" => call'[e_pd[x]] # "multi"
        BY <1>t, <2>1 DEF EvQuick
      <3> QED
        BY <1>1, <2>1, <3>1 DEF EvQuick, evbVars, syncVars, pipeVars
    <2>2. CASE mwait(p)
      BY <1>1, <2>2 DEF mwait, evbVars, syncVars, pipeVars
    <2> QED
      BY <1>6, <1>7, <2>1, <2>2, IasyncQueue DEF KernelStep
  <1> QED
    BY <1>1, <1>3, <1>5, <1>7
       DEF Next, Interrupt, ForkerDone, DrlToRlr, Poll, Schedule, Exit, vars,
           evbVars, syncVars, pipeVars, callVars
-----------------------------------------------------------------------------
(* The message pipes.                                                      *)

\* a step that lets readers go and touches no pipe
LEMMA PipeKeep ==
  ASSUME PipeWaiters, UNCHANGED pipeVars,
         \A e \in Evbs : e_list'[e] = "p_qdq" =>
           e_list[e] = "p_qdq" /\ e_pd'[e] = e_pd[e]
  PROVE  PipeWaiters'
  BY DEF PipeWaiters, Waiting, pipeVars

LEMMA EvremovePipe ==
  ASSUME PipeWaiters, UNCHANGED <<e_pd, pipeVars>>, NEW S, evremove(S)
  PROVE  PipeWaiters'
  BY PipeKeep DEF evremove

LEMMA IasyncPipe ==
  ASSUME TypeOK, PipeWaiters, NEW p \in Procs, NEW f \in Afuncs,
         NEW e \in Evbs, NEW b \in EvBits, iasync(p, f, e, b)
  PROVE  PipeWaiters'
  <1>t. /\ p_qindex \in [Procs -> 0..QUEUE_SIZE] /\ p_qnq \in [Procs -> Seq(Evbs)]
        /\ qpb_pid[p] \in Procs /\ e_list \in [Evbs -> Lists]
        /\ e_pd \in [Evbs -> Procs \cup {NULL}]
        /\ QUEUE_SIZE \in Nat /\ QUEUE_SIZE # 0
    BY KernelAssumption DEF TypeOK
  <1>1. e_pd' = [e_pd EXCEPT ![e] = p]
    BY DEF iasync
  \* readers other than e's stay or go
  <1>2. ASSUME NEW W, Satisfied(p, e, b, W), UNCHANGED pipeVars
        PROVE  PipeWaiters'
    BY <1>t, <1>1, <1>2, PipeKeep DEF Satisfied
  <1>3. ASSUME NEW l \in WaitLists \ {"p_qdq"}, Insert(e, l), UNCHANGED pipeVars
        PROVE  PipeWaiters'
    BY <1>t, <1>1, <1>3, PipeKeep DEF Insert
  <1>4. ASSUME NEW q \in Procs,
               \A x \in Evbs : e_list'[x] = "p_qdq" => x # e /\ e_list[x] = "p_qdq",
               \A r \in Procs \ {q} : p_qindex'[r] = p_qindex[r] /\ p_qnq'[r] = p_qnq[r],
               p_qnq'[q] # <<>> => p_qindex'[q] > 0,
               Waiting(q, "p_qdq") = {} \/ p_qindex'[q] = 0
        PROVE  PipeWaiters'
    <2>1. \A r \in Procs : Waiting(r, "p_qdq")' \subseteq Waiting(r, "p_qdq")
      BY <1>t, <1>1, <1>4 DEF Waiting
    <2> QED
      BY <1>4, <2>1 DEF PipeWaiters
  <1>5. CASE f = "AQRD" /\ aqrd(p, e, b)
    <2>1. CASE p_qindex[p] > 0 /\ p_qnq[p] # <<>>
      <3>1. /\ Satisfied(p, e, b, {Head(p_qnq[p])})
            /\ p_qnq' = [p_qnq EXCEPT ![p] = Tail(@)]
            /\ \E n \in doq(p_qindex[p] - 1) : p_qindex' = [p_qindex EXCEPT ![p] = n]
        BY <1>5, <2>1 DEF aqrd
      <3>2. PICK n \in doq(p_qindex[p] - 1) : p_qindex' = [p_qindex EXCEPT ![p] = n]
        BY <3>1
      <3>3. n > 0
        BY <1>t, <2>1 DEF doq
      <3>4. p_qindex'[p] = n /\ \A r \in Procs \ {p} : p_qindex'[r] = p_qindex[r]
        BY <1>t, <3>2
      <3>5. \A r \in Procs \ {p} : p_qnq'[r] = p_qnq[r]
        BY <1>t, <3>1
      <3>6. \A x \in Evbs : e_list'[x] = "p_qdq" => x # e /\ e_list[x] = "p_qdq"
        BY <3>1 DEF Satisfied
      <3>7. Waiting(p, "p_qdq") = {}
        BY <1>t, <2>1 DEF PipeWaiters
      <3> QED
        BY <1>4, <3>3, <3>4, <3>5, <3>6, <3>7
    <2>2. CASE p_qindex[p] > 0 /\ p_qnq[p] = <<>>
      <3>1. /\ Satisfied(p, e, b, {}) /\ p_qnq' = p_qnq
            /\ p_qindex' = [p_qindex EXCEPT ![p] = @ - 1]
        BY <1>5, <2>2 DEF aqrd
      <3>2. \A r \in Procs \ {p} : p_qindex'[r] = p_qindex[r]
        BY <1>t, <3>1
      <3>3. \A x \in Evbs : e_list'[x] = "p_qdq" => x # e /\ e_list[x] = "p_qdq"
        BY <3>1 DEF Satisfied
      <3>4. p_qindex[p] # 0
        BY <1>t, <2>2
      <3>5. Waiting(p, "p_qdq") = {}
        BY <3>4 DEF PipeWaiters
      <3> QED
        BY <1>4, <2>2, <3>1, <3>2, <3>3, <3>5
    <2>3. CASE ~(p_qindex[p] > 0)
      <3>1. Insert(e, "p_qdq") /\ UNCHANGED pipeVars
        BY <1>5, <2>3 DEF aqrd
      <3>2. p_qindex[p] = 0
        BY <1>t, <2>3
      <3>3. \A r \in Procs \ {p} : Waiting(r, "p_qdq")' \subseteq Waiting(r, "p_qdq")
        BY <1>t, <1>1, <3>1 DEF Waiting, Insert
      <3> QED
        BY <3>1, <3>2, <3>3 DEF PipeWaiters, pipeVars
    <2> QED
      BY <2>1, <2>2, <2>3
  <1>6. CASE f = "AQWRT" /\ aqwrt(p, e, b, qpb_pid[p])
    <2> DEFINE q == qpb_pid[p]
    <2>0. q \in Procs
      BY <1>t
    <2> HIDE DEF q
    <2>1. aqwrt(p, e, b, q)
      BY <1>6 DEF q
    <2>2. CASE /\ p_qindex[q] < QUEUE_SIZE /\ Waiting(q, "p_qdq") = {}
               /\ Satisfied(p, e, b, {}) /\ p_qnq' = p_qnq
               /\ \E n \in doq(p_qindex[q]) : p_qindex' = [p_qindex EXCEPT ![q] = n]
      <3>1. PICK n \in doq(p_qindex[q]) : p_qindex' = [p_qindex EXCEPT ![q] = n]
        BY <2>2
      <3>2. n > 0
        BY <1>t, <2>0 DEF doq
      <3>3. p_qindex'[q] = n /\ \A r \in Procs \ {q} : p_qindex'[r] = p_qindex[r]
        BY <1>t, <2>0, <3>1
      <3>4. \A x \in Evbs : e_list'[x] = "p_qdq" => x # e /\ e_list[x] = "p_qdq"
        BY <2>2 DEF Satisfied
      <3> QED
        BY <1>4, <2>0, <2>2, <3>2, <3>3, <3>4
    <2>3. CASE ~(p_qindex[q] < QUEUE_SIZE)
      <3>1. /\ Insert(e, "p_qnq") /\ p_qnq' = [p_qnq EXCEPT ![q] = <<e>> \o @]
            /\ p_qindex' = p_qindex
        BY <2>1, <2>3 DEF aqwrt
      <3>2. p_qindex[q] > 0 /\ p_qindex[q] # 0
        BY <1>t, <2>0, <2>3
      <3>3. \A r \in Procs \ {q} : p_qnq'[r] = p_qnq[r]
        BY <1>t, <3>1
      <3>4. \A x \in Evbs : e_list'[x] = "p_qdq" => x # e /\ e_list[x] = "p_qdq"
        BY <1>t, <3>1 DEF Insert
      <3>5. Waiting(q, "p_qdq") = {}
        BY <2>0, <3>2 DEF PipeWaiters
      <3> QED
        BY <1>4, <2>0, <3>1, <3>2, <3>3, <3>4, <3>5
    <2> QED
      BY <1>2, <2>1, <2>2, <2>3 DEF aqwrt
  <1>7. CASE amutex(p, e, b)
    BY <1>2, <1>3, <1>7 DEF amutex, WaitLists
  <1>8. CASE \/ akbin(p, e, b) \/ amouse(p, e, b, "c_bsleep")
             \/ amouse(p, e, b, "c_msleep") \/ adelay(e)
    BY <1>2, <1>3, <1>8 DEF akbin, amouse, adelay, WaitLists
  <1> QED
    BY <1>5, <1>6, <1>7, <1>8 DEF iasync

LEMMA PipeStep ==
  ASSUME KernelInv, [Next]_vars
  PROVE  PipeWaiters'
  <1>0. TypeOK /\ PipeWaiters
    BY DEF KernelInv
  <1>1. ASSUME UNCHANGED <<e_list, e_pd, pipeVars>> PROVE PipeWaiters'
    BY <1>0, <1>1, PipeKeep
  <1>2. CASE ForkerStep
    <2>1. UNCHANGED <<e_pd, pipeVars>>
      BY <1>2 DEF ForkerStep
    <2>2. CASE kchange
      BY <1>0, <1>1, <2>1, <2>2, EvremovePipe DEF kchange
    <2>3. CASE satisfied(Head(fpq))
      BY <1>0, <2>1, <2>3, EvremovePipe DEF satisfied
    <2> QED
      BY <1>2, <2>2, <2>3 DEF ForkerStep
  <1>3. ASSUME NEW p \in Procs, UserCall(p) PROVE PipeWaiters'
    <2>1. ASSUME NEW flags, EvMulti(p, flags) PROVE PipeWaiters'
      BY <1>1, <2>1 DEF EvMulti, evbVars
    <2>2. ASSUME NEW func, NEW how, NEW q, EvBlock(p, func, how, q) PROVE PipeWaiters'
      BY <1>1, <2>2 DEF EvBlock, evbVars
    <2>3. CASE BegUpdate(p)
      BY <1>1, <2>2, <2>3 DEF BegUpdate, evbVars
    <2>4. CASE EndUpdate(p)
      BY <1>0, <1>1, <2>4, EvremovePipe DEF EndUpdate
    <2>5. ASSUME NEW q \in Procs, ChgOwn(p, q) PROVE PipeWaiters'
      BY <1>0, <2>5, EvremovePipe DEF ChgOwn
    <2> QED
      BY <1>3, <2>1, <2>2, <2>3, <2>4, <2>5 DEF UserCall
  <1>4. ASSUME NEW p \in Procs, KernelStep(p) PROVE PipeWaiters'
    <2>1. ASSUME NEW quick, EvQuick(p, quick) PROVE PipeWaiters'
      BY <1>1, <2>1 DEF EvQuick, evbVars
    <2>2. CASE mwait(p)
      BY <1>1, <2>2 DEF mwait, evbVars
    <2>3. CASE EvReturn(p)
      BY <1>0, <2>3, PipeKeep DEF EvReturn, Free
    <2> QED
      BY <1>0, <1>4, <2>1, <2>2, <2>3, IasyncPipe DEF KernelStep
  <1> QED
    BY <1>1, <1>2, <1>3, <1>4
       DEF Next, Interrupt, ForkerDone, DrlToRlr, Poll, Schedule, Exit, vars,
           evbVars, callVars
-----------------------------------------------------------------------------
(* The window semaphore.                                                   *)

\* a step that leaves the semaphore alone and wakes nobody who waits for it
LEMMA LockFrame ==
  ASSUME TypeOK, EvbState, QueueState, WindowLock, LockState,
         UNCHANGED <<syncVars, nest>>,
         \A q \in Procs :
           /\ p_evflg[q] \subseteq p_evflg'[q]
           /\ call'[q] = "mutex" <=> call[q] = "mutex"
           /\ "AMUTEX" \in todo'[q] => "AMUTEX" \in todo[q]
           /\ call[q] = "mutex" => /\ p_evflg'[q] = p_evflg[q]
                                   /\ pc'[q] \in {pc[q], "return"}
                                   /\ todo'[q] \subseteq todo[q],
         \A x \in Evbs : e_list[x] = "sy_wait" =>
           e_list'[x] = e_list[x] /\ e_pd'[x] = e_pd[x],
         \A x \in Evbs : e_list'[x] \in WaitLists =>
           \/ e_list'[x] = e_list[x] /\ e_pd'[x] = e_pd[x] /\ e_pd[x] \in Procs
           \/ call'[e_pd'[x]] # "mutex"
  PROVE  WindowLock' /\ LockState'
  <1>1. /\ sy_tas' = sy_tas /\ sy_owner' = sy_owner /\ sy_wait' = sy_wait
        /\ nest' = nest /\ sy_wait \in Seq(Evbs) /\ sy_tas \in Nat
        /\ sy_owner \in Procs \cup {NULL} /\ NULL \notin Procs
    BY KernelAssumption DEF TypeOK, syncVars
  <1>2. WindowLock'
    <2>1. sy_tas > 0 => sy_owner \in Procs
      BY <1>1 DEF WindowLock
    <2>2. ASSUME sy_tas > 0, nest[sy_owner] = 0
          PROVE  /\ sy_tas = 1 /\ call'[sy_owner] = "mutex" /\ p_evflg'[sy_owner] # {}
      BY <2>1, <2>2 DEF WindowLock
    <2> QED
      BY <1>1, <2>2 DEF WindowLock
  <1>3. ASSUME NEW i \in DOMAIN sy_wait PROVE call'[e_pd'[sy_wait[i]]] = "mutex"
    <2>1. sy_wait[i] \in Evbs /\ e_list[sy_wait[i]] = "sy_wait"
      BY <1>1 DEF QueueState
    <2>2. e_pd[sy_wait[i]] \in Procs /\ call[e_pd[sy_wait[i]]] = "mutex"
      BY <2>1 DEF EvbState, LockState
    <2> QED
      BY <2>1, <2>2
  <1>4. \A x \in Evbs : e_list'[x] \in WaitLists /\ call'[e_pd'[x]] = "mutex" =>
          e_list'[x] = "sy_wait"
    BY DEF LockState
  <1>5. ASSUME NEW q \in Procs
        PROVE  /\ "AMUTEX" \in todo'[q] => call'[q] = "mutex"
               /\ call'[q] = "mutex" =>
                    /\ nest[q] = 0 /\ pc'[q] \in {"iasync", "return"}
                    /\ todo'[q] \subseteq {"AMUTEX"}
                    /\ pc'[q] = "iasync" => sy_tas > 0 /\ sy_owner # q
                    /\ p_evflg'[q] # {} => sy_owner = q /\ sy_tas = 1
    BY DEF LockState
  <1> QED
    BY <1>1, <1>2, <1>3, <1>4, <1>5 DEF LockState

\* what waits for the semaphore only unsync wakes
LEMMA EvremoveLock ==
  ASSUME KernelInv, NEW S, S \subseteq {x \in Evbs : e_list[x] \in WaitLists},
         \A x \in S : e_list[x] # "sy_wait", evremove(S),
         UNCHANGED <<e_pd, syncVars, nest, call, todo>>,
         \A q \in Procs : call[q] = "mutex" => pc'[q] = pc[q]
  PROVE  WindowLock' /\ LockState'
  <1>0. TypeOK /\ EvbState /\ QueueState /\ WindowLock /\ LockState
    BY DEF KernelInv
  <1>1. \A x \in Evbs : e_list'[x] = IF x \in S THEN "zlr" ELSE e_list[x]
    BY DEF evremove
  <1>2. \A q \in Procs : p_evflg'[q] =
          p_evflg[q] \cup {e_mask[e] : e \in {x \in S : e_pd[x] = q}}
    BY DEF evremove, signal
  <1>3. \A x \in S : call[e_pd[x]] # "mutex"
    BY <1>0 DEF LockState
  <1>4. ASSUME NEW q \in Procs, call[q] = "mutex" PROVE p_evflg'[q] = p_evflg[q]
    <2>1. {e_mask[e] : e \in {x \in S : e_pd[x] = q}} = {}
      BY <1>3, <1>4
    <2> QED
      BY <1>2, <2>1
  <1>5. \A q \in Procs : p_evflg[q] \subseteq p_evflg'[q]
    BY <1>2
  <1>6. \A x \in Evbs : e_list'[x] \in WaitLists =>
          e_list'[x] = e_list[x] /\ e_pd'[x] = e_pd[x] /\ e_pd[x] \in Procs
    BY <1>0, <1>1 DEF WaitLists, EvbState
  <1>7. \A x \in Evbs : e_list[x] = "sy_wait" =>
          e_list'[x] = e_list[x] /\ e_pd'[x] = e_pd[x]
    BY <1>1
  <1>8. \A q \in Procs :
          /\ p_evflg[q] \subseteq p_evflg'[q]
          /\ call'[q] = "mutex" <=> call[q] = "mutex"
          /\ "AMUTEX" \in todo'[q] => "AMUTEX" \in todo[q]
          /\ call[q] = "mutex" => /\ p_evflg'[q] = p_evflg[q]
                                  /\ pc'[q] \in {pc[q], "return"}
                                  /\ todo'[q] \subseteq todo[q]
    BY <1>4, <1>5
  <1>9. UNCHANGED <<syncVars, nest>>
    OBVIOUS
  <1> QED
    BY <1>0, <1>6, <1>7, <1>8, <1>9, LockFrame

\* whoever is in a call other than BEG_UPDATE leaves the semaphore alone
LEMMA IasyncLockOther ==
  ASSUME KernelInv, NEW p \in Procs, NEW f \in Afuncs, NEW e \in Evbs,
         NEW b \in EvBits, iasync(p, f, e, b), f # "AMUTEX"
  PROVE  WindowLock' /\ LockState'
  <1>0. TypeOK /\ EvbState /\ QueueState /\ WindowLock /\ LockState
    BY DEF KernelInv
  <1>t. /\ p_qnq \in [Procs -> Seq(Evbs)] /\ qpb_pid[p] \in Procs
        /\ todo \in [Procs -> SUBSET Afuncs] /\ e_pd \in [Evbs -> Procs \cup {NULL}]
    BY <1>0 DEF TypeOK
  <1>1. /\ f \in todo[p] /\ e_list[e] = "eul" /\ e_pd' = [e_pd EXCEPT ![e] = p]
        /\ todo' = [todo EXCEPT ![p] = @ \ {f}]
        /\ UNCHANGED <<pc, call, nest>>
    BY DEF iasync
  <1>2. call[p] # "mutex"
    BY <1>0, <1>1 DEF LockState
  <1> DEFINE
    Links == /\ p_evflg' = p_evflg
             /\ \E l \in WaitLists : e_list' = [e_list EXCEPT ![e] = l]
    Completes(W) ==
      /\ \A x \in Evbs : e_list'[x] = IF x \in W \cup {e} THEN "zlr" ELSE e_list[x]
      /\ \A q \in Procs : p_evflg'[q] = p_evflg[q] \cup
           ({e_mask[x] : x \in {y \in W : e_pd[y] = q}} \cup (IF q = p THEN {b} ELSE {}))
    Reached == {x \in Evbs : e_list[x] \in {"p_qnq", "p_qdq"}}
  <1>3. ASSUME NEW W, Satisfied(p, e, b, W) PROVE Completes(W)
    BY <1>3, <1>0 DEF Satisfied, signal, TypeOK
  <1>4. ASSUME NEW l \in WaitLists, Insert(e, l) PROVE Links
    BY <1>4 DEF Insert
  <1>5. UNCHANGED syncVars /\ (Links \/ \E W \in SUBSET Reached : Completes(W))
    <2> HIDE DEF Links, Completes
    <2>1. CASE f = "AKBIN" /\ akbin(p, e, b)
      BY <2>1, <1>3, <1>4 DEF akbin, WaitLists
    <2>2. CASE f = "ABUTTON" /\ amouse(p, e, b, "c_bsleep")
      BY <2>2, <1>3, <1>4 DEF amouse, WaitLists
    <2>3. CASE f \in {"AMOUSE", "AMOUSE2"} /\ amouse(p, e, b, "c_msleep")
      BY <2>3, <1>3, <1>4 DEF amouse, WaitLists
    <2>4. CASE f = "ADELAY" /\ adelay(e)
      BY <2>4, <1>4 DEF adelay, WaitLists
    <2>5. CASE f = "AQRD" /\ aqrd(p, e, b)
      <3>1. p_qnq[p] # <<>> => Head(p_qnq[p]) \in Reached
        BY <1>0, <1>t DEF QueueState
      <3> QED
        BY <2>5, <3>1, <1>3, <1>4 DEF aqrd, WaitLists
    <2>6. CASE f = "AQWRT" /\ aqwrt(p, e, b, qpb_pid[p])
      <3>1. Waiting(qpb_pid[p], "p_qdq") \subseteq Reached
        BY DEF Waiting
      <3> QED
        BY <2>6, <3>1, <1>3, <1>4 DEF aqwrt, WaitLists
    <2> QED
      BY <2>1, <2>2, <2>3, <2>4, <2>5, <2>6 DEF iasync
  <1>6. \A x \in Reached : call[e_pd[x]] # "mutex" /\ e_list[x] # "sy_wait" /\ x # e
    BY <1>0, <1>1 DEF LockState, WaitLists
  <1>7. \A x \in Evbs : e_list[x] = "sy_wait" => x # e
    BY <1>1
  <1>8. \A q \in Procs : /\ "AMUTEX" \in todo'[q] => "AMUTEX" \in todo[q]
                         /\ todo'[q] \subseteq todo[q]
    BY <1>1, <1>t
  <1>e. \A x \in Evbs : e_list[x] \in WaitLists => e_pd[x] \in Procs
    BY <1>0 DEF EvbState, WaitLists
  <1>9. CASE Links
    <2>1. PICK l \in WaitLists : e_list' = [e_list EXCEPT ![e] = l]
      BY <1>9
    <2>2. \A x \in Evbs : x # e => e_list'[x] = e_list[x] /\ e_pd'[x] = e_pd[x]
      BY <1>0, <1>1, <2>1 DEF TypeOK
    <2>3. e_pd'[e] = p
      BY <1>1, <1>t
    <2>4. p_evflg' = p_evflg
      BY <1>9
    <2>5. \A x \in Evbs : e_list[x] = "sy_wait" =>
            e_list'[x] = e_list[x] /\ e_pd'[x] = e_pd[x]
      BY <1>7, <2>2
    <2>6. \A x \in Evbs : e_list'[x] \in WaitLists =>
            \/ e_list'[x] = e_list[x] /\ e_pd'[x] = e_pd[x] /\ e_pd[x] \in Procs
            \/ call'[e_pd'[x]] # "mutex"
      BY <1>1, <1>2, <1>e, <2>2, <2>3
    <2> HIDE DEF Links, Completes
    <2> QED
      BY <1>0, <1>1, <1>5, <1>8, <2>4, <2>5, <2>6, LockFrame
  <1>10. ASSUME NEW W \in SUBSET Reached, Completes(W) PROVE WindowLock' /\ LockState'
    <2>1. \A x \in Evbs : e_list'[x] \in WaitLists =>
            e_list'[x] = e_list[x] /\ e_pd'[x] = e_pd[x] /\ e_pd[x] \in Procs
      BY <1>1, <1>t, <1>e, <1>10 DEF WaitLists
    <2>2. \A x \in Evbs : e_list[x] = "sy_wait" =>
            e_list'[x] = e_list[x] /\ e_pd'[x] = e_pd[x]
      BY <1>1, <1>t, <1>6, <1>7, <1>10
    <2>3. \A q \in Procs : p_evflg[q] \subseteq p_evflg'[q]
      BY <1>10
    <2>4. ASSUME NEW q \in Procs, call[q] = "mutex" PROVE p_evflg'[q] = p_evflg[q]
      <3>1. {e_mask[x] : x \in {y \in W : e_pd[y] = q}} = {} /\ q # p
        BY <1>2, <1>6, <2>4
      <3> QED
        BY <1>10, <3>1
    <2> HIDE DEF Links, Completes, Reached
    <2> QED
      BY <1>0, <1>1, <1>5, <1>8, <2>1, <2>2, <2>3, <2>4, LockFrame
  <1> QED
    BY <1>5, <1>9, <1>10

LEMMA IasyncLock ==
  ASSUME KernelInv, NEW p \in Procs, NEW f \in Afuncs, NEW e \in Evbs,
         NEW b \in EvBits, iasync(p, f, e, b)
  PROVE  WindowLock' /\ LockState'
  <1>0. TypeOK /\ EvbState /\ QueueState /\ WindowLock /\ LockState
    BY DEF KernelInv
  <1>1. CASE f # "AMUTEX"
    BY <1>1, IasyncLockOther
  <1>2. CASE f = "AMUTEX"
    <2>1. /\ f \in todo[p] /\ pc[p] = "iasync" /\ e_list[e] = "eul"
          /\ e_pd' = [e_pd EXCEPT ![e] = p]
          /\ todo' = [todo EXCEPT ![p] = @ \ {f}] /\ UNCHANGED <<pc, call, nest>>
          /\ amutex(p, e, b)
      BY <1>2 DEF iasync
    <2>2. call[p] = "mutex" /\ sy_tas > 0 /\ sy_owner # p
      BY <1>0, <1>2, <2>1 DEF LockState
    <2>t. /\ sy_wait \in Seq(Evbs) /\ sy_tas \in Nat /\ e_list \in [Evbs -> Lists]
          /\ e_pd \in [Evbs -> Procs \cup {NULL}] /\ todo \in [Procs -> SUBSET Afuncs]
      BY <1>0 DEF TypeOK
    <2>3. /\ e_list' = [e_list EXCEPT ![e] = "sy_wait"] /\ p_evflg' = p_evflg
          /\ sy_wait' = <<e>> \o sy_wait /\ UNCHANGED <<sy_tas, sy_owner>>
      BY <2>1, <2>2, <2>t DEF amutex, tak_flag, Insert
    <2>4. WindowLock'
      BY <1>0, <2>1, <2>2, <2>3 DEF WindowLock
    <2>5. ASSUME NEW i \in DOMAIN sy_wait' PROVE call'[e_pd'[sy_wait'[i]]] = "mutex"
      <3>1. CASE sy_wait'[i] = e
        BY <2>1, <2>2, <2>t, <3>1
      <3>2. CASE sy_wait'[i] # e
        <4>1. i - 1 \in DOMAIN sy_wait /\ sy_wait'[i] = sy_wait[i - 1]
          BY <2>3, <2>t, <2>5, <3>2, ConsFacts
        <4>2. sy_wait[i - 1] \in Evbs
          BY <2>t, <4>1
        <4> QED
          BY <1>0, <2>1, <2>t, <3>2, <4>1, <4>2 DEF LockState
      <3> QED
        BY <3>1, <3>2
    <2>6. \A x \in Evbs : e_list'[x] \in WaitLists /\ call'[e_pd'[x]] = "mutex" =>
            e_list'[x] = "sy_wait"
      BY <1>0, <2>1, <2>3, <2>t DEF LockState
    <2>7. \A q \in Procs : todo'[q] \subseteq todo[q]
      BY <2>1, <2>t
    <2> QED
      BY <1>0, <2>1, <2>3, <2>4, <2>5, <2>6, <2>7 DEF LockState
  <1> QED
    BY <1>1, <1>2

\* a program between two AES calls is not a waiter, and holds the semaphore
\* exactly as often as it has taken it
LEMMA UserLock ==
  ASSUME KernelInv, NEW p \in Procs, Running(p), pc[p] = "user"
  PROVE  /\ call[p] # "mutex" /\ p_evlist(p) = {} /\ p_evflg[p] = {}
         /\ \A x \in Evbs : e_list[x] \in WaitLists => e_pd[x] \in Procs \ {p}
         /\ \A i \in DOMAIN sy_wait : /\ sy_wait[i] \in Evbs
                                      /\ e_list[sy_wait[i]] = "sy_wait"
         /\ sy_owner = p => nest[p] > 0 /\ sy_tas = nest[p]
         /\ \A q \in Procs : pc[q] # "iasync"
         /\ sy_tas \in Nat /\ sy_wait \in Seq(Evbs) /\ nest \in [Procs -> Nat]
         /\ sy_owner \in Procs \cup {NULL} /\ NULL \notin Procs
  <1>0. /\ TypeOK /\ OnOneList /\ CallState /\ MaskState /\ EvbState
        /\ QueueState /\ WindowLock /\ LockState
    BY DEF KernelInv
  <1>t. /\ sy_tas \in Nat /\ sy_wait \in Seq(Evbs) /\ nest \in [Procs -> Nat]
        /\ sy_owner \in Procs \cup {NULL} /\ NULL \notin Procs
    BY <1>0, KernelAssumption DEF TypeOK
  <1>1. call[p] # "mutex"
    BY <1>0 DEF LockState
  <1>2. p_evlist(p) = {} /\ p_evflg[p] = {}
    BY <1>0 DEF MaskState, EvbState
  <1>3. \A x \in Evbs : e_list[x] \in WaitLists => e_pd[x] \in Procs \ {p}
    BY <1>0, <1>2 DEF EvbState, WaitLists, p_evlist
  <1>4. \A i \in DOMAIN sy_wait : /\ sy_wait[i] \in Evbs
                                  /\ e_list[sy_wait[i]] = "sy_wait"
    BY <1>0, <1>t DEF QueueState
  <1>5. sy_owner = p => nest[p] > 0 /\ sy_tas = nest[p]
    BY <1>0, <1>1, <1>t DEF WindowLock
  <1>6. \A q \in Procs : pc[q] # "iasync"
    BY <1>0, RunningFacts DEF CallState
  <1> QED
    BY <1>1, <1>2, <1>3, <1>4, <1>5, <1>6, <1>t

LEMMA BegUpdateLock ==
  ASSUME KernelInv, NEW p \in Procs, BegUpdate(p)
  PROVE  WindowLock' /\ LockState'
  <1>0. WindowLock /\ LockState /\ TypeOK
    BY DEF KernelInv
  <1>1. Running(p) /\ pc[p] = "user"
    BY DEF BegUpdate, EvBlock
  <1>2. CASE tak_flag(p)
    <2>1. /\ sy_tas' = sy_tas + 1 /\ sy_owner' = p
          /\ nest' = [nest EXCEPT ![p] = @ + 1] /\ pc' = [pc EXCEPT ![p] = "exit"]
          /\ UNCHANGED <<p_evflg, e_list, e_pd, sy_wait, call, todo>>
      BY <1>2 DEF BegUpdate, flagVars, evbVars
    <2>2. \A q \in Procs \ {p} : nest[q] = 0
      BY <1>0, <1>1, <1>2, UserLock DEF WindowLock, tak_flag
    <2>3. sy_tas = nest[p]
      BY <1>0, <1>1, <1>2, UserLock DEF WindowLock, tak_flag
    <2>4. WindowLock'
      BY <1>1, <2>1, <2>2, <2>3, UserLock DEF WindowLock
    <2>5. ASSUME NEW q \in Procs, call[q] = "mutex"
          PROVE  q # p /\ pc[q] = "return" /\ p_evflg[q] = {}
      BY <1>0, <1>1, <1>2, <2>5, UserLock DEF LockState, tak_flag
    <2>6. pc'[p] = "exit" /\ \A q \in Procs \ {p} : pc'[q] = pc[q] /\ nest'[q] = nest[q]
      BY <1>0, <2>1 DEF TypeOK
    <2> QED
      BY <1>0, <2>1, <2>4, <2>5, <2>6 DEF LockState
  <1>3. CASE ~tak_flag(p)
    <2>1. EvBlock(p, "AMUTEX", "mutex", p)
      BY <1>3 DEF BegUpdate
    <2>2. /\ pc' = [pc EXCEPT ![p] = "iasync"] /\ call' = [call EXCEPT ![p] = "mutex"]
          /\ todo' = [todo EXCEPT ![p] = {"AMUTEX"}]
          /\ UNCHANGED <<p_evflg, e_list, e_pd, sy_tas, sy_owner, sy_wait, nest>>
      BY <2>1 DEF EvBlock, flagVars, evbVars, syncVars
    <2>3. sy_tas > 0 /\ sy_owner # p
      BY <1>1, <1>3, UserLock DEF tak_flag
    <2>4. nest[p] = 0
      BY <1>0, <1>1, <2>3, UserLock DEF WindowLock
    <2>5. /\ pc'[p] = "iasync" /\ call'[p] = "mutex" /\ todo'[p] = {"AMUTEX"}
          /\ \A q \in Procs \ {p} : /\ pc'[q] = pc[q] /\ call'[q] = call[q]
                                    /\ todo'[q] = todo[q]
      BY <1>0, <2>2 DEF TypeOK
    <2>6. WindowLock'
      BY <1>0, <1>1, <2>2, <2>3, <2>5, UserLock DEF WindowLock
    <2>7. ASSUME NEW i \in DOMAIN sy_wait PROVE call'[e_pd[sy_wait[i]]] = "mutex"
      <3>1. e_pd[sy_wait[i]] \in Procs \ {p}
        BY <1>1, UserLock DEF WaitLists
      <3> QED
        BY <1>0, <2>5, <3>1 DEF LockState
    <2>8. ASSUME NEW x \in Evbs, e_list[x] \in WaitLists, call'[e_pd[x]] = "mutex"
          PROVE  e_list[x] = "sy_wait"
      <3>1. e_pd[x] \in Procs \ {p}
        BY <1>1, <2>8, UserLock
      <3> QED
        BY <1>0, <2>5, <2>8, <3>1 DEF LockState
    <2>9. ASSUME NEW q \in Procs
          PROVE  /\ "AMUTEX" \in todo'[q] => call'[q] = "mutex"
                 /\ call'[q] = "mutex" =>
                      /\ nest[q] = 0 /\ pc'[q] \in {"iasync", "return"}
                      /\ todo'[q] \subseteq {"AMUTEX"}
                      /\ pc'[q] = "iasync" => sy_tas > 0 /\ sy_owner # q
                      /\ p_evflg[q] # {} => sy_owner = q /\ sy_tas = 1
      <3>1. CASE q = p
        BY <1>1, <2>3, <2>4, <2>5, <3>1, UserLock
      <3>2. CASE q # p
        BY <1>0, <2>5, <3>2 DEF LockState
      <3> QED
        BY <3>1, <3>2
    <2> QED
      BY <2>2, <2>6, <2>7, <2>8, <2>9 DEF LockState
  <1> QED
    BY <1>2, <1>3

\* unsync: the semaphore is free, or goes to the waiter it wakes
LEMMA EndUpdateLock ==
  ASSUME KernelInv, NEW p \in Procs, EndUpdate(p)
  PROVE  WindowLock' /\ LockState'
  <1>0. WindowLock /\ LockState /\ TypeOK /\ EvbState /\ QueueState
    BY DEF KernelInv
  <1>1. Running(p) /\ pc[p] = "user" /\ nest[p] > 0
    BY DEF EndUpdate
  <1>2. /\ nest' = [nest EXCEPT ![p] = @ - 1] /\ pc' = [pc EXCEPT ![p] = "exit"]
        /\ UNCHANGED <<e_pd, call, todo>>
    BY DEF EndUpdate
  <1>3. /\ sy_owner = p /\ sy_tas = nest[p] /\ sy_tas \in Nat /\ sy_tas > 0
        /\ sy_wait \in Seq(Evbs) /\ NULL \notin Procs
        /\ \A q \in Procs \ {p} : nest[q] = 0
    BY <1>0, <1>1, UserLock DEF WindowLock
  <1>4. /\ nest'[p] = nest[p] - 1 /\ pc'[p] = "exit"
        /\ \A q \in Procs \ {p} : nest'[q] = nest[q] /\ pc'[q] = pc[q]
    BY <1>0, <1>2 DEF TypeOK
  <1>5. ASSUME NEW q \in Procs, call[q] = "mutex"
        PROVE  q # p /\ p_evflg[q] = {} /\ pc[q] = "return"
    BY <1>0, <1>1, <1>3, <1>5, UserLock DEF LockState
  <1>6. CASE sy_tas = 1 /\ sy_wait # <<>>
    <2> DEFINE h == Head(sy_wait)
               t == Tail(sy_wait)
               o == e_pd[h]
    <2>1. sy_wait' = t /\ evremove({h}) /\ sy_owner' = o /\ sy_tas' = 1
      BY <1>6 DEF EndUpdate
    <2>2. /\ h \in Evbs /\ h = sy_wait[1] /\ 1 \in DOMAIN sy_wait
          /\ \A i \in DOMAIN t : i + 1 \in DOMAIN sy_wait /\ t[i] = sy_wait[i + 1]
      BY <1>3, <1>6, TailFacts
    <2>3. e_list[h] = "sy_wait" /\ o \in Procs /\ call[o] = "mutex"
      BY <1>0, <2>2 DEF QueueState, EvbState, LockState
    <2>4. /\ \A x \in Evbs : e_list'[x] = IF x = h THEN "zlr" ELSE e_list[x]
          /\ \A q \in Procs : p_evflg'[q] = p_evflg[q] \cup
               {e_mask[e] : e \in {x \in {h} : e_pd[x] = q}}
      BY <2>1 DEF evremove, signal
    <2> HIDE DEF h, t, o
    <2>5. p_evflg'[o] # {} /\ \A q \in Procs : call[q] = "mutex" /\ q # o => p_evflg'[q] = {}
      <3>1. e_mask[h] \in p_evflg'[o]
        BY <2>3, <2>4 DEF o
      <3>2. ASSUME NEW q \in Procs, call[q] = "mutex", q # o PROVE p_evflg'[q] = {}
        <4>1. {e_mask[e] : e \in {x \in {h} : e_pd[x] = q}} = {}
          BY <3>2 DEF o
        <4> QED
          BY <1>5, <2>4, <3>2, <4>1
      <3> QED
        BY <3>1, <3>2
    <2>6. \A q \in Procs : nest'[q] = 0
      BY <1>3, <1>4, <1>6
    <2>7. WindowLock'
      BY <1>2, <1>3, <2>1, <2>3, <2>5, <2>6 DEF WindowLock
    <2>8. \A i \in DOMAIN t : call[e_pd[t[i]]] = "mutex"
      BY <1>0, <2>2 DEF LockState
    <2>9. \A x \in Evbs : e_list'[x] \in WaitLists /\ call[e_pd[x]] = "mutex" =>
            e_list'[x] = "sy_wait"
      BY <1>0, <2>4 DEF LockState, WaitLists
    <2>10. \A q \in Procs : call[q] = "mutex" => pc'[q] = "return"
      BY <1>4, <1>5
    <2> QED
      BY <1>0, <1>2, <2>1, <2>5, <2>6, <2>7, <2>8, <2>9, <2>10 DEF LockState
  <1>7. CASE ~(sy_tas = 1 /\ sy_wait # <<>>)
    <2>1. /\ sy_tas' = sy_tas - 1 /\ sy_owner' = IF sy_tas = 1 THEN NULL ELSE p
          /\ UNCHANGED <<p_evflg, e_list, sy_wait>>
      BY <1>3, <1>7 DEF EndUpdate
    <2>2. WindowLock'
      BY <1>3, <1>4, <1>7, <2>1 DEF WindowLock
    <2>3. \A q \in Procs : call[q] = "mutex" => pc'[q] = "return" /\ nest'[q] = 0
      BY <1>3, <1>4, <1>5
    <2> QED
      BY <1>0, <1>2, <1>5, <2>1, <2>2, <2>3 DEF LockState
  <1> QED
    BY <1>6, <1>7

\* a program that returns from BEG_UPDATE has the semaphore it waited for
LEMMA EvReturnLock ==
  ASSUME KernelInv, NEW p \in Procs, EvReturn(p)
  PROVE  WindowLock' /\ LockState'
  <1>0. /\ WindowLock /\ LockState /\ TypeOK /\ OnOneList /\ MaskState
        /\ EvbState /\ QueueState
    BY DEF KernelInv
  <1>1. /\ Running(p) /\ pc[p] = "return"
        /\ nest' = IF call[p] = "mutex" THEN [nest EXCEPT ![p] = @ + 1] ELSE nest
        /\ pc' = [pc EXCEPT ![p] = "exit"] /\ call' = [call EXCEPT ![p] = "block"]
        /\ UNCHANGED <<sy_tas, sy_owner, sy_wait, todo>>
    BY DEF EvReturn, syncVars
  <1>2. /\ Free(p_evlist(p)) /\ p_evflg' = [p_evflg EXCEPT ![p] = {}]
        /\ call[p] # "multi" => \A e \in p_evlist(p) : e_list[e] = "zlr"
    BY ReturnAll
  <1>3. \A e \in Evbs : /\ e_list'[e] = IF e \in p_evlist(p) THEN "eul" ELSE e_list[e]
                        /\ e_pd'[e] = IF e \in p_evlist(p) THEN NULL ELSE e_pd[e]
    BY <1>2 DEF Free
  <1>4. p_evflg[p] # {}
    BY <1>0, <1>1, RunningFacts DEF MaskState
  <1>5. call[p] = "mutex" => sy_owner = p /\ sy_tas = 1 /\ nest[p] = 0
    BY <1>0, <1>4 DEF LockState
  <1>t. /\ sy_owner \in Procs \cup {NULL} /\ NULL \notin Procs /\ sy_wait \in Seq(Evbs)
        /\ nest \in [Procs -> Nat]
    BY <1>0, KernelAssumption DEF TypeOK
  <1>6. /\ pc'[p] = "exit" /\ call'[p] = "block"
        /\ nest'[p] = IF call[p] = "mutex" THEN nest[p] + 1 ELSE nest[p]
        /\ \A q \in Procs \ {p} : /\ pc'[q] = pc[q] /\ call'[q] = call[q]
                                  /\ nest'[q] = nest[q] /\ p_evflg'[q] = p_evflg[q]
    BY <1>0, <1>1, <1>2 DEF TypeOK
  <1>7. WindowLock'
    <2>1. \A q \in Procs : nest'[q] > 0 => sy_owner = q /\ sy_tas = nest'[q]
      BY <1>0, <1>5, <1>6, <1>t DEF WindowLock
    <2>2. ASSUME sy_tas > 0, nest'[sy_owner] = 0
          PROVE  /\ sy_tas = 1 /\ call'[sy_owner] = "mutex" /\ p_evflg'[sy_owner] # {}
      <3>1. sy_owner \in Procs
        BY <1>0, <1>t, <2>2 DEF WindowLock
      <3>2. sy_owner # p
        BY <1>0, <1>5, <1>6, <1>t, <2>2, <3>1 DEF WindowLock
      <3> QED
        BY <1>0, <1>6, <2>2, <3>1, <3>2 DEF WindowLock
    <2> QED
      BY <1>0, <1>1, <2>1, <2>2 DEF WindowLock
  <1>8. ASSUME NEW i \in DOMAIN sy_wait PROVE call'[e_pd'[sy_wait[i]]] = "mutex"
    <2>1. /\ sy_wait[i] \in Evbs /\ e_list[sy_wait[i]] = "sy_wait"
          /\ e_pd[sy_wait[i]] \in Procs /\ call[e_pd[sy_wait[i]]] = "mutex"
      BY <1>0, <1>t DEF QueueState, EvbState, LockState
    <2>2. sy_wait[i] \notin p_evlist(p) /\ e_pd[sy_wait[i]] # p
      BY <1>2, <2>1 DEF p_evlist
    <2> QED
      BY <1>3, <1>6, <2>1, <2>2
  <1>9. ASSUME NEW x \in Evbs, e_list'[x] \in WaitLists, call'[e_pd'[x]] = "mutex"
        PROVE  e_list'[x] = "sy_wait"
    <2>1. x \notin p_evlist(p) /\ e_list'[x] = e_list[x] /\ e_pd'[x] = e_pd[x]
      BY <1>3, <1>9 DEF WaitLists
    <2>2. e_pd[x] \in Procs /\ e_pd[x] # p
      BY <1>0, <1>9, <2>1 DEF EvbState, WaitLists, p_evlist
    <2> QED
      BY <1>0, <1>6, <1>9, <2>1, <2>2 DEF LockState
  <1>10. "AMUTEX" \notin todo[p]
    BY <1>0, <1>1 DEF KernelInv, CallState
  <1> QED
    BY <1>0, <1>1, <1>6, <1>7, <1>8, <1>9, <1>10 DEF LockState

LEMMA LockStep ==
  ASSUME KernelInv, [Next]_vars
  PROVE  WindowLock' /\ LockState'
  <1>0. /\ WindowLock /\ LockState /\ TypeOK /\ OnOneList /\ CallState
        /\ EvbState /\ QueueState
    BY DEF KernelInv
  <1>t. /\ call \in [Procs -> {"multi", "block", "mutex"}]
        /\ todo \in [Procs -> SUBSET Afuncs]
        /\ pc \in [Procs -> {"user", "check", "iasync", "return", "exit"}]
    BY <1>0 DEF TypeOK
  \* nothing happens to the event blocks and the semaphore
  <1>1. ASSUME UNCHANGED <<p_evflg, e_list, e_pd, syncVars, nest>>,
               \A q \in Procs :
                 /\ call'[q] = "mutex" <=> call[q] = "mutex"
                 /\ "AMUTEX" \in todo'[q] => "AMUTEX" \in todo[q]
                 /\ call[q] = "mutex" => /\ pc'[q] \in {pc[q], "return"}
                                         /\ todo'[q] \subseteq todo[q]
        PROVE  WindowLock' /\ LockState'
    <2>1. \A x \in Evbs : e_list'[x] \in WaitLists =>
            e_list'[x] = e_list[x] /\ e_pd'[x] = e_pd[x] /\ e_pd[x] \in Procs
      BY <1>0, <1>1 DEF EvbState, WaitLists
    <2>2. UNCHANGED <<syncVars, nest>>
      BY <1>1
    <2> QED
      BY <1>0, <1>1, <2>1, <2>2, LockFrame
  <1>2. ASSUME UNCHANGED <<p_evflg, e_list, e_pd, syncVars, nest, call, todo>>,
               \A q \in Procs : call[q] = "mutex" => pc'[q] \in {pc[q], "return"}
        PROVE  WindowLock' /\ LockState'
    BY <1>1, <1>2
  \* forks wake EVBs of the input lists only
  <1>3. CASE ForkerStep
    <2>1. UNCHANGED <<e_pd, syncVars, nest, call, todo, pc>>
      BY <1>3 DEF ForkerStep, callVars
    <2>2. CASE kchange
      <3>1. CASE \E e \in Waiting(gl_kowner, "c_iiowait") : evremove({e})
        BY <2>1, <3>1, EvremoveLock DEF Waiting, WaitLists
      <3>2. CASE UNCHANGED <<e_list, p_evflg>>
        BY <1>2, <2>1, <3>2
      <3> QED
        BY <2>2, <3>1, <3>2 DEF kchange
    <2>3. CASE satisfied(Head(fpq))
      <3>1. PICK S : /\ S \subseteq {x \in Evbs : e_list[x] \in {"c_bsleep", "c_msleep", "dlr"}}
                     /\ evremove(S)
        BY <2>3 DEF satisfied, Waiting
      <3> QED
        BY <2>1, <3>1, EvremoveLock DEF WaitLists
    <2> QED
      BY <1>3, <2>2, <2>3 DEF ForkerStep
  <1>4. ASSUME NEW p \in Procs, UserCall(p) PROVE WindowLock' /\ LockState'
    <2>1. ASSUME NEW flags \in MultiFlags, EvMulti(p, flags)
          PROVE  WindowLock' /\ LockState'
      <3>1. "AMUTEX" \notin flags
        BY KernelAssumption DEF MultiFuncs
      <3>2. call[p] # "mutex"
        BY <1>0, <2>1 DEF EvMulti, LockState
      <3> QED
        BY <1>1, <1>t, <2>1, <3>1, <3>2 DEF EvMulti, flagVars, evbVars
    <2>2. ASSUME NEW func \in Afuncs \ {"AMUTEX"}, NEW q, EvBlock(p, func, "block", q)
          PROVE  WindowLock' /\ LockState'
      <3>1. call[p] # "mutex"
        BY <1>0, <2>2 DEF EvBlock, LockState
      <3> QED
        BY <1>1, <1>t, <2>2, <3>1 DEF EvBlock, flagVars, evbVars
    <2>3. ASSUME NEW q \in Procs, ChgOwn(p, q) PROVE WindowLock' /\ LockState'
      <3>1. PICK S : /\ S \subseteq Waiting(q, "c_msleep") \cup Waiting(q, "c_bsleep")
                     /\ evremove(S)
        BY <2>3 DEF ChgOwn
      <3>2. /\ pc[p] = "user" /\ pc' = [pc EXCEPT ![p] = "exit"]
            /\ UNCHANGED <<e_pd, syncVars, nest, call, todo>>
        BY <2>3 DEF ChgOwn
      <3>3. \A r \in Procs : call[r] = "mutex" => pc'[r] = pc[r]
        BY <1>0, <1>t, <3>2 DEF LockState
      <3> QED
        BY <3>1, <3>2, <3>3, EvremoveLock DEF Waiting, WaitLists
    <2>4. BlockFuncs \subseteq Afuncs \ {"AMUTEX"} /\ {"AQRD", "AQWRT"} \subseteq Afuncs \ {"AMUTEX"}
      BY KernelAssumption DEF MultiFuncs, Afuncs
    <2> QED
      BY <1>4, <2>1, <2>2, <2>3, <2>4, BegUpdateLock, EndUpdateLock DEF UserCall
  <1>5. ASSUME NEW p \in Procs, KernelStep(p) PROVE WindowLock' /\ LockState'
    <2>1. ASSUME NEW quick, EvQuick(p, quick) PROVE WindowLock' /\ LockState'
      <3>1. call[p] # "mutex"
        BY <1>0, <2>1 DEF EvQuick, LockState
      <3>2. "AMUTEX" \in todo'[p] => "AMUTEX" \in todo[p]
        BY <1>t, <2>1 DEF EvQuick
      <3>3. \A q \in Procs : /\ call'[q] = "mutex" <=> call[q] = "mutex"
                             /\ q # p => pc'[q] = pc[q] /\ todo'[q] = todo[q]
        BY <1>t, <2>1, <3>1 DEF EvQuick
      <3> QED
        BY <1>1, <2>1, <3>1, <3>2, <3>3 DEF EvQuick, flagVars, evbVars
    <2>2. CASE mwait(p)
      BY <1>2, <1>t, <2>2 DEF mwait, evbVars
    <2> QED
      BY <1>5, <2>1, <2>2, IasyncLock, EvReturnLock DEF KernelStep
  <1>6. ASSUME NEW p \in Procs, Exit(p) PROVE WindowLock' /\ LockState'
    <2>1. call[p] # "mutex"
      BY <1>0, <1>6 DEF Exit, LockState
    <2> QED
      BY <1>2, <1>t, <1>6, <2>1 DEF Exit, flagVars, evbVars
  <1>7. CASE UNCHANGED <<flagVars, evbVars, syncVars, callVars>>
    BY <1>2, <1>7 DEF flagVars, evbVars, callVars
  <1> QED
    BY <1>3, <1>4, <1>5, <1>6, <1>7
       DEF Next, Interrupt, ForkerDone, DrlToRlr, Poll, Schedule, vars
-----------------------------------------------------------------------------
(* The invariant.                                                          *)

LEMMA InitInv ==
  ASSUME Init
  PROVE  KernelInv
  <1>1. PICK p \in Procs : rlr = <<p>> /\ drl = Procs \ {p}
    BY DEF Init
  <1>2. TypeOK
    <2>1. rlr \in Seq(Procs) /\ fpq \in Seq(FCodes) /\ sy_wait \in Seq(Evbs)
          /\ Len(fpq) = 0
      BY <1>1 DEF Init
    <2>2. p_qnq \in [Procs -> Seq(Evbs)]
      BY DEF Init
    <2>3. c_cnt \in [Procs -> 0..KBD_SIZE] /\ p_qindex \in [Procs -> 0..QUEUE_SIZE]
          /\ irqs \in 0..MaxIrq /\ Len(fpq) <= NFORKS
      BY <2>1, KernelAssumption DEF Init
    <2> QED
      BY <1>1, <2>1, <2>2, <2>3 DEF Init, TypeOK, Lists
  <1>3. OnOneList
    BY <1>1 DEF Init, OnOneList, RangeOf
  <1>4. CallState
    BY <1>1 DEF Init, CallState
  <1>5. MaskState
    BY DEF Init, MaskState
  <1>6. EvbState
    BY DEF Init, EvbState, p_evlist
  <1>7. QueueState
    BY DEF Init, QueueState
  <1>8. PipeWaiters
    BY DEF Init, PipeWaiters, Waiting
  <1>9. WindowLock /\ LockState
    BY DEF Init, WindowLock, LockState, WaitLists
  <1> QED
    BY <1>2, <1>3, <1>4, <1>5, <1>6, <1>7, <1>8, <1>9 DEF KernelInv

\* The inductive invariant holds in every reachable state of the kernel.
THEOREM KernelInvariant == Spec => []KernelInv
  <1>1. KernelInv /\ [Next]_vars => KernelInv'
    BY TypeStep, ListStep, CallStep, MaskStep, EvbStep, QueueStep, PipeStep,
       LockStep
       DEF KernelInv
  <1> QED
    BY <1>1, InitInv, PTL DEF Spec

\* Lists, masks, EVB fields and counters stay in their ranges.
THEOREM TypeCorrect == Spec => []TypeOK
  BY KernelInvariant, PTL DEF KernelInv

\* disp, signal and pstart keep every process on exactly one process list.
THEOREM EachOnOneList == Spec => []OnOneList
  BY KernelInvariant, PTL DEF KernelInv

\* A process asleep in mwait waits for something that has not happened and
\* that an EVB on a waiting list still stands for.
THEOREM WakeupsNotLost == Spec => []NoLostWakeup
  <1>1. KernelInv => NoLostWakeup
    <2> SUFFICES ASSUME KernelInv, NEW p \in nrl
                 PROVE  /\ p_evwait[p] # {} /\ p_evwait[p] \cap p_evflg[p] = {}
                        /\ \A b \in p_evwait[p] : \E e \in p_evlist(p) :
                             e_mask[e] = b /\ e_list[e] \in WaitLists
      BY DEF NoLostWakeup
    <2>1. p \in Procs /\ pc[p] = "return"
      BY DEF KernelInv, TypeOK, CallState
    <2>2. /\ p_evwait[p] = wmask[p] /\ wmask[p] # {} /\ wmask[p] = p_evbits[p]
          /\ p_evwait[p] \cap p_evflg[p] = {}
      BY <2>1 DEF KernelInv, MaskState
    <2>3. /\ p_evbits[p] = {e_mask[e] : e \in p_evlist(p)}
          /\ p_evflg[p] =
               {e_mask[e] : e \in {x \in p_evlist(p) : e_list[x] = "zlr"}}
      BY <2>1 DEF KernelInv, EvbState
    <2>4. \A e \in p_evlist(p) : e_list[e] \in WaitLists \/ e_list[e] = "zlr"
      BY DEF KernelInv, TypeOK, Lists, p_evlist
    <2>5. ASSUME NEW c \in p_evwait[p]
          PROVE  \E e \in p_evlist(p) : e_mask[e] = c /\ e_list[e] \in WaitLists
      <3>1. PICK e \in p_evlist(p) : e_mask[e] = c
        BY <2>2, <2>3
      <3>2. e_list[e] # "zlr"
        BY <2>2, <2>3, <3>1
      <3> QED
        BY <2>4, <3>1, <3>2
    <2> QED
      BY <2>2, <2>5
  <1> QED
    BY <1>1, KernelInvariant, PTL

\* A process that has left mwait finds an event it waited for complete.
THEOREM WakeupsNotSpurious == Spec => []NoSpuriousWakeup
  <1>1. KernelInv => NoSpuriousWakeup
    <2> SUFFICES ASSUME KernelInv, NEW p \in Procs, pc[p] = "return", p \notin nrl
                 PROVE  \E e \in p_evlist(p) : e_list[e] = "zlr" /\ e_mask[e] \in p_evwait[p]
      BY DEF NoSpuriousWakeup
    <2>1. p_evwait[p] \cap p_evflg[p] # {}
      BY DEF KernelInv, MaskState
    <2>2. p_evflg[p] = {e_mask[e] : e \in {x \in p_evlist(p) : e_list[x] = "zlr"}}
      BY DEF KernelInv, EvbState
    <2> QED
      BY <2>1, <2>2
  <1> QED
    BY <1>1, KernelInvariant, PTL

\* The event bits of a process are those of its EVBs, and a process between
\* two AES calls has neither: acancel and aret leave nothing behind.
THEOREM BitsAreEvbs == Spec => []BitsMatchEvbs
  <1>1. KernelInv => BitsMatchEvbs
    <2> SUFFICES ASSUME KernelInv, NEW p \in Procs,
                        pc[p] \in {"user", "check", "exit"}
                 PROVE  p_evlist(p) = {} /\ p_evwait[p] = {}
      BY DEF BitsMatchEvbs, KernelInv, EvbState
    <2>1. wmask[p] = {} /\ wmask[p] = p_evbits[p] /\ p_evwait[p] = {}
      BY DEF KernelInv, MaskState
    <2>2. p_evbits[p] = {e_mask[e] : e \in p_evlist(p)}
      BY DEF KernelInv, EvbState
    <2> QED
      BY <2>1, <2>2
  <1> QED
    BY <1>1, KernelInvariant, PTL

\* No reader is blocked on a pipe that holds a message, no writer on one that
\* is empty.
THEOREM PipesServe == Spec => []PipeWaiters
  BY KernelInvariant, PTL DEF KernelInv

\* Of the programs between BEG_UPDATE and END_UPDATE there is at most one; the
\* count of the semaphore is its nesting, and nobody waits for a free one.
THEOREM ScreenExclusive == Spec => []WindowLock
  BY KernelInvariant, PTL DEF KernelInv
=============================================================================
