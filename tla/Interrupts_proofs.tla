------------------------- MODULE Interrupts_proofs --------------------------
(* Proofs about what interrupts set off: the fork queue, for any number of *)
(* slots and any forks, whoever queues them; the timers                    *)
(* of the AES, for any number of them, any delays and a fork queue of any  *)
(* length; the clicks of the mouse button, for any number of programs and  *)
(* any size of the fork queue; and the mouse cursor, for any number of     *)
(* forms and places.                                                       *)
EXTENDS ForkQueue, AESTimer, Clicks, Cursor, SequenceTheorems, FiniteSetTheorems,
        WellFoundedInduction, NaturalsInduction, TLAPS

-----------------------------------------------------------------------------
(* The fork queue.                                                         *)

LEMMA InitRing ==
  ASSUME Init
  PROVE  RingFits
  BY ForkAssumption DEF Init, RingFits, Frames, Midway, InForkq, Slots, SlotOf, Leaving, wrap

\* the shape of the ring that the steps of forkq change
LEMMA ForkqRing ==
  ASSUME RingFits, NEW c \in Frames, ~torn',
         (\E e \in Forks : forkq(c, e)) \/ forkqStep(c)
  PROVE  RingFits'
  <1> DEFINE s == wrap(fph + Leaving)
             o == IF c = "isr" THEN "proc" ELSE "isr"
  <1>0. NFORKS \in Nat /\ NFORKS # 0
    BY ForkAssumption
  <1>1. Frames = {c, o} /\ c # o /\ "isr" \in Frames /\ "proc" \in Frames
    BY DEF Frames
  <1>2. s \in Slots /\ fph \in Slots
    BY <1>0 DEF RingFits, Slots, Leaving, wrap
  <1>3. CASE \E e \in Forks : forkq(c, e)
    <2>1. PICK e \in Forks : forkq(c, e)
      BY <1>3
    <2>2. /\ UNCHANGED <<fpcnt, fpt, fph, g_fpdx, f, code, data>>
          /\ at[c] \in {"idle", "run"} /\ at'[c] = "test" /\ at'[o] = at[o]
          /\ at' \in [Frames -> {"idle"} \cup InForkq \cup InForker]
          /\ arg' \in [Frames -> Forks] /\ back' \in {"idle", "run"}
          /\ c = "isr" => at["proc"] \notin Midway
      BY <1>1, <2>1 DEF RingFits, forkq, At, Goto, InForkq, Midway
    <2> QED
      BY <1>0, <2>2
         DEF RingFits, Frames, Slots, Midway, InForkq, SlotOf, Leaving
  <1>4. CASE forkqStep(c)
    <2> DEFINE k == SlotOf(fpcnt + 1)
    <2>1. at[c] \in InForkq /\ (c = "proc" => at["isr"] = "idle")
      BY <1>4 DEF forkqStep, Test, Slot, Advance, Compare, Clear, Fill, Count, At, InForkq, Frames
    <2>2. at[c] \in Midway => at[o] \notin Midway
      BY <2>1 DEF RingFits, Midway, InForkq, Frames
    <2>3. CASE Test(c)
      <3>1. /\ UNCHANGED <<fpcnt, fpt, fph, g_fpdx, arg, f, back, code, data>>
            /\ at[c] = "test" /\ at'[o] = at[o]
            /\ at'[c] \in {"idle", "run"} \/ (fpcnt < NFORKS /\ at'[c] = "slot")
            /\ c = "isr" => at'[c] # "run"
            /\ at' \in [Frames -> {"idle"} \cup InForkq \cup InForker]
        BY <1>1, <2>3 DEF RingFits, Test, At, Goto, Return, InForkq, InForker
      <3> QED
        BY <1>0, <2>1, <3>1
           DEF RingFits, Frames, Slots, Midway, InForkq, SlotOf, Leaving
    <2>4. CASE Slot(c)
      BY <1>0, <1>1, <1>2, <2>1, <2>2, <2>4
         DEF RingFits, Slot, At, Goto, Frames, Slots, Midway, InForkq, SlotOf, Leaving, wrap
    <2>5. CASE Advance(c)
      BY <1>0, <1>1, <1>2, <2>1, <2>2, <2>5
         DEF RingFits, Advance, At, Goto, Frames, Slots, Midway, InForkq, SlotOf, Leaving, wrap
    <2>6. CASE Compare(c)
      BY <1>0, <1>1, <1>2, <2>1, <2>2, <2>6
         DEF RingFits, Compare, At, Goto, Frames, Slots, Midway, InForkq, SlotOf, Leaving, wrap
    <2>7. CASE Clear(c)
      BY <1>0, <1>1, <1>2, <2>1, <2>2, <2>7
         DEF RingFits, Clear, At, Goto, Frames, Slots, Midway, InForkq, SlotOf, Leaving, wrap
    <2>8. CASE Fill(c)
      BY <1>0, <1>1, <1>2, <2>1, <2>2, <2>8
         DEF RingFits, Fill, At, Goto, Frames, Slots, Midway, InForkq, SlotOf, Leaving, wrap
    <2>9. CASE Count(c)
      <3>1. /\ UNCHANGED <<fpt, fph, g_fpdx, arg, f, back, code, data>>
            /\ fpcnt' = fpcnt + 1 /\ at[c] = "count" /\ at'[o] = at[o]
            /\ at'[c] \in {"idle", "run"} /\ (c = "isr" => at'[c] = "idle")
            /\ at' \in [Frames -> {"idle"} \cup InForkq \cup InForker]
        BY <1>1, <2>9 DEF RingFits, Count, At, Goto, Return, InForkq, InForker
      <3>2. Leaving' = Leaving /\ SlotOf(fpcnt + 1)' = wrap(s + fpcnt + 1)
        <4>1. Leaving' = Leaving
          BY <1>1, <2>1, <3>1 DEF Leaving, Frames, InForkq
        <4>2. fpcnt \in Nat /\ s + ((fpcnt + 1) + 1) - 1 = s + fpcnt + 1
          BY <1>0, <1>2 DEF RingFits, Slots
        <4> QED
          BY <3>1, <4>1, <4>2 DEF SlotOf
      <3>3. fpcnt < NFORKS /\ fpt = wrap(k + 1) /\ k = wrap(s + fpcnt)
        BY <1>0, <1>2, <3>1 DEF RingFits, Midway, InForkq, SlotOf, Slots
      <3>4. fpt = wrap(s + fpcnt + 1)
        BY <1>0, <1>2, <3>3 DEF wrap, RingFits, Slots
      <3>5. fpt' = SlotOf(fpcnt + 1)' /\ at'[o] \notin Midway /\ at'[c] \notin Midway
        BY <2>2, <3>1, <3>2, <3>4 DEF Midway, InForkq
      <3> HIDE DEF k, s
      <3> QED
        BY <1>0, <1>1, <2>1, <3>1, <3>3, <3>5 DEF RingFits, Midway, InForkq
    <2> QED
      BY <1>4, <2>3, <2>4, <2>5, <2>6, <2>7, <2>8, <2>9 DEF forkqStep
  <1> QED
    BY <1>3, <1>4

LEMMA ForkerRing ==
  ASSUME RingFits, forkerStep
  PROVE  RingFits'
  <1>0. NFORKS \in Nat /\ NFORKS # 0
    BY ForkAssumption
  <1>1. CASE forker
    BY <1>0, <1>1
       DEF RingFits, forker, At, Goto, Frames, Midway, InForkq, Slots, InForker, SlotOf, Leaving
  <1>2. CASE While
    BY <1>0, <1>2
       DEF RingFits, While, At, Goto, Frames, Midway, InForkq, Slots, InForker, SlotOf, Leaving
  <1>3. CASE TakeOut
    BY <1>0, <1>3
       DEF RingFits, TakeOut, At, Goto, Frames, Midway, InForkq, Slots, InForker, SlotOf, Leaving, wrap
  <1>4. CASE HeadSlot
    BY <1>0, <1>4
       DEF RingFits, HeadSlot, At, Goto, Frames, Midway, InForkq, Slots, InForker, SlotOf, Leaving, wrap
  <1>5. CASE ReadData
    BY <1>0, <1>5
       DEF RingFits, ReadData, At, Goto, Frames, Midway, InForkq, Slots, InForker, SlotOf, Leaving
  <1>6. CASE ReadCode
    BY <1>0, <1>6
       DEF RingFits, ReadCode, At, Goto, Frames, Midway, InForkq, Slots, InForker, SlotOf, Leaving
  <1>7. CASE Ran
    BY <1>0, <1>7
       DEF RingFits, Ran, At, Goto, Frames, Midway, InForkq, Slots, InForker, SlotOf, Leaving
  <1> QED
    BY <1>1, <1>2, <1>3, <1>4, <1>5, <1>6, <1>7 DEF forkerStep

\* once torn, always torn
LEMMA TornStays ==
  ASSUME [Next]_vars
  PROVE  torn => torn'
  BY DEF Next, forkqStep, forkerStep, forkq, Test, Slot, Advance, Compare, Clear, Fill, Count,
         forker, While, TakeOut, HeadSlot, ReadData, ReadCode, Ran, vars

\* RingOK, for any number of slots and whoever queues forks: indices and count
\* of the ring agree, until an interrupt queues a fork in the middle of a
\* process's forkq (gemdisp.c, forkq and forker).
THEOREM RingInvariant == Spec => []RingOK
  <1>1. Init => RingOK
    BY InitRing DEF RingOK
  <1>2. RingOK /\ [Next]_vars => RingOK'
    <2> SUFFICES ASSUME RingOK, [Next]_vars, ~torn' PROVE RingFits'
      BY DEF RingOK
    <2>0. RingFits
      BY TornStays DEF RingOK
    <2>1. CASE UNCHANGED vars
      BY <2>0, <2>1 DEF vars, RingFits, SlotOf, Leaving
    <2>2. CASE Next
      BY <2>0, <2>2, ForkqRing, ForkerRing DEF Next
    <2> QED
      BY <2>1, <2>2
  <1> QED
    BY <1>1, <1>2, PTL DEF Spec
-----------------------------------------------------------------------------
(* The refinement.                                                         *)

LEMMA QueueFacts ==
  ASSUME RingFits
  PROVE  /\ Filled \in {0, 1} /\ Leaving \in {0, 1}
         /\ fpcnt + Filled \in 0..NFORKS
         /\ queue \in Seq(Forks) /\ Len(queue) = fpcnt + Filled
         /\ DOMAIN queue = 1..fpcnt + Filled
         /\ \A i \in 1..fpcnt + Filled :
              SlotOf(i) \in Slots /\ queue[i] = g_fpdx[SlotOf(i)]
  <1>0. NFORKS \in Nat /\ NFORKS # 0
    BY ForkAssumption
  <1>1. Filled \in {0, 1} /\ Leaving \in {0, 1}
    BY DEF Filled, Leaving
  <1>2. fpcnt + Filled \in 0..NFORKS
    BY <1>0 DEF RingFits, Filled, Midway, InForkq
  <1>3. \A i \in 1..fpcnt + Filled : SlotOf(i) \in Slots
    BY <1>0, <1>1, <1>2 DEF RingFits, SlotOf, Slots, wrap
  <1>4. \A i \in 1..fpcnt + Filled : g_fpdx[SlotOf(i)] \in Forks
    BY <1>3 DEF RingFits
  <1>5. queue \in [1..fpcnt + Filled -> Forks]
    BY <1>4 DEF queue
  <1>6. queue \in Seq(Forks) /\ Len(queue) = fpcnt + Filled
    BY <1>2, <1>5
  <1> QED
    BY <1>1, <1>2, <1>3, <1>5, <1>6 DEF queue

\* a step of forkq other than Fill changes neither queue nor hand
LEMMA ForkqStutter ==
  ASSUME RingFits, RingFits', UNCHANGED <<fph, g_fpdx, code, data>>,
         hand' = hand, Leaving' = Leaving,
         fpcnt' + Filled' = fpcnt + Filled
  PROVE  UNCHANGED <<queue, hand>>
  BY DEF queue, SlotOf

LEMMA FillPuts ==
  ASSUME RingFits, RingFits', NEW c \in Frames, Fill(c)
  PROVE  \E e \in Forks : Fifo!Put(e)
  <1> DEFINE e == arg[c]
             s == wrap(fph + Leaving)
  <1>0. NFORKS \in Nat /\ NFORKS # 0
    BY ForkAssumption
  <1>1. /\ e \in Forks /\ fpcnt \in 0..NFORKS - 1 /\ Filled = 0 /\ Filled' = 1
        /\ fpcnt' = fpcnt /\ Leaving' = Leaving /\ fph' = fph
        /\ f[c] = SlotOf(fpcnt + 1) /\ f' = f /\ code' = code /\ data' = data
        /\ at[c] = "fill" /\ at' = [at EXCEPT ![c] = "count"] /\ back' = back
        /\ c = "isr" => at'["proc"] = at["proc"]
    <2>1. /\ at[c] = "fill" /\ at' = [at EXCEPT ![c] = "count"]
          /\ UNCHANGED <<fpcnt, fpt, fph, arg, f, back, code, data>>
      BY DEF Fill, At, Goto
    <2>2. c = "proc" => at["isr"] = "idle"
      BY DEF Fill, At, Frames
    <2>3. c = "isr" => at["proc"] \notin Midway
      BY <2>1 DEF RingFits, Midway, InForkq
    <2>4. Filled = 0 /\ Filled' = 1 /\ Leaving' = Leaving
      BY <2>1, <2>2, <2>3 DEF RingFits, Filled, Leaving, Frames, Midway, InForkq
    <2> QED
      BY <1>0, <2>1, <2>4 DEF RingFits, Midway, InForkq, Frames
  <1>2. /\ s \in Slots /\ fph \in Slots
        /\ \A i \in Slots : g_fpdx'[i] = IF i = SlotOf(fpcnt + 1) THEN e ELSE g_fpdx[i]
    BY <1>0, <1>1 DEF RingFits, Fill, Slots, Leaving, wrap
  <1>3. SlotOf(fpcnt + 1) \in Slots
    BY <1>0, <1>1, <1>2 DEF SlotOf, Slots, wrap
  <1>4. \A i \in 1..fpcnt : SlotOf(i) \in Slots /\ SlotOf(i) # SlotOf(fpcnt + 1)
    BY <1>0, <1>1, <1>2 DEF SlotOf, Slots, wrap
  <1>5. \A i \in 1..fpcnt + 1 : SlotOf(i)' = SlotOf(i)
    BY <1>1 DEF SlotOf
  <1>6. queue' = Append(queue, e)
    <2>1. /\ queue' \in Seq(Forks) /\ Len(queue') = fpcnt + 1
          /\ \A i \in 1..fpcnt + 1 : queue'[i] = g_fpdx'[SlotOf(i)]
      <3>1. queue' = [i \in 1..fpcnt + 1 |-> g_fpdx'[SlotOf(i)']]
        BY <1>1 DEF queue
      <3>2. \A i \in 1..fpcnt + 1 : SlotOf(i) \in Slots
        BY <1>1, <1>3, <1>4
      <3>3. \A i \in Slots : g_fpdx'[i] \in Forks
        BY DEF RingFits
      <3>4. queue' = [i \in 1..fpcnt + 1 |-> g_fpdx'[SlotOf(i)]]
        BY <1>5, <3>1
      <3>5. fpcnt + 1 \in Nat
        BY <1>0, <1>1
      <3> HIDE DEF queue
      <3>6. queue' \in [1..fpcnt + 1 -> Forks]
        BY <3>2, <3>3, <3>4
      <3> QED
        BY <3>4, <3>5, <3>6
    <2>2. /\ queue \in Seq(Forks) /\ Len(queue) = fpcnt
          /\ \A i \in 1..fpcnt : queue[i] = g_fpdx[SlotOf(i)]
      BY <1>1, QueueFacts
    <2>3. \A i \in 1..fpcnt : queue'[i] = queue[i]
      BY <1>1, <1>2, <1>4, <2>1, <2>2
    <2>4. queue'[fpcnt + 1] = e
      BY <1>1, <1>2, <1>3, <2>1
    <2> QED
      BY <1>1, <2>1, <2>2, <2>3, <2>4
  <1>7. hand' \in Fifo!Spoiled(e)
    <2>0. CASE c = "proc"
      <3>1. hand' = hand
        BY <1>1, <2>0 DEF hand, InForkq, RingFits, Frames
      <3> QED
        BY <3>1 DEF Fifo!Spoiled
    <2> SUFFICES ASSUME c = "isr" PROVE hand' \in Fifo!Spoiled(e)
      BY <2>0 DEF Frames
    <2>1. Len(queue) = fpcnt
      BY <1>1, QueueFacts
    <2>2. "none" \notin Forks
      BY ForkAssumption
    <2>3. CASE at["proc"] = "head"
      <3>1. fph = SlotOf(fpcnt + 1) => fpcnt = NFORKS - 1
        BY <1>0, <1>1, <1>2, <2>3 DEF SlotOf, Slots, wrap, Leaving
      <3>2. g_fpdx[fph] # "none"
        BY <1>2, <2>2 DEF RingFits
      <3>3. hand = [code |-> g_fpdx[fph], data |-> g_fpdx[fph]]
        BY <2>3 DEF hand, InForkq
      <3>4. hand' = [code |-> g_fpdx'[fph], data |-> g_fpdx'[fph]]
        BY <1>1, <2>3 DEF hand, InForkq
      <3>5. hand # Fifo!NoFork
        BY <3>2, <3>3 DEF Fifo!NoFork
      <3> QED
        BY <1>2, <2>1, <3>1, <3>3, <3>4, <3>5 DEF Fifo!Spoiled
    <2>4. CASE at["proc"] \in {"data", "code"}
      <3> DEFINE h == f["proc"]
      <3>1. h \in Slots /\ fph = wrap(h + 1)
        BY <2>4 DEF RingFits, Frames
      <3>2. h = SlotOf(fpcnt + 1) => fpcnt = NFORKS - 1
        <4>1. Leaving = 0
          BY <2>4 DEF Leaving
        <4>2. s = fph
          BY <1>0, <1>2, <4>1 DEF wrap, Slots
        <4>3. SlotOf(fpcnt + 1) = wrap(fph + fpcnt)
          BY <1>0, <1>1, <1>2, <4>1, <4>2 DEF SlotOf, Slots
        <4> HIDE DEF s
        <4> QED
          BY <1>0, <1>1, <1>2, <3>1, <4>3 DEF Slots, wrap
      <3>3. g_fpdx[h] # "none"
        BY <2>2, <3>1 DEF RingFits
      <3>4. CASE at["proc"] = "data"
        <4>1. hand = [code |-> g_fpdx[h], data |-> g_fpdx[h]]
          BY <3>4 DEF hand, InForkq
        <4>2. hand' = [code |-> g_fpdx'[h], data |-> g_fpdx'[h]]
          BY <1>1, <3>4 DEF hand, InForkq
        <4>3. hand # Fifo!NoFork
          BY <3>3, <4>1 DEF Fifo!NoFork
        <4> QED
          BY <1>2, <2>1, <3>1, <3>2, <4>1, <4>2, <4>3 DEF Fifo!Spoiled
      <3>5. CASE at["proc"] = "code"
        <4>1. hand = [code |-> g_fpdx[h], data |-> data]
          BY <3>5 DEF hand, InForkq
        <4>2. hand' = [code |-> g_fpdx'[h], data |-> data]
          BY <1>1, <3>5 DEF hand, InForkq
        <4>3. hand # Fifo!NoFork
          BY <3>3, <4>1 DEF Fifo!NoFork
        <4>4. [hand EXCEPT !.code = e] = [code |-> e, data |-> data]
          BY <4>1
        <4> QED
          BY <1>2, <2>1, <3>1, <3>2, <4>1, <4>2, <4>3, <4>4 DEF Fifo!Spoiled
      <3> QED
        BY <2>4, <3>4, <3>5
    <2>5. CASE at["proc"] \notin {"head", "data", "code"}
      <3>1. hand' = hand
        BY <1>1, <2>5 DEF hand, Fill, InForkq
      <3> QED
        BY <3>1 DEF Fifo!Spoiled
    <2> QED
      BY <2>3, <2>4, <2>5
  <1>8. Len(queue) < NFORKS
    BY <1>0, <1>1, QueueFacts
  <1> QED
    BY <1>1, <1>6, <1>7, <1>8 DEF Fifo!Put

LEMMA TakeOutTakes ==
  ASSUME RingFits, RingFits', TakeOut
  PROVE  Fifo!Take
  <1>0. NFORKS \in Nat /\ NFORKS # 0
    BY ForkAssumption
  <1>1. /\ fpcnt \in 1..NFORKS /\ fpcnt' = fpcnt - 1 /\ fph' = fph /\ g_fpdx' = g_fpdx
        /\ at["isr"] = "idle" /\ at["proc"] = "take" /\ at'["proc"] = "head"
        /\ at'["isr"] = "idle" /\ fph \in Slots
    BY <1>0 DEF RingFits, TakeOut, At, Goto, Frames
  <1>2. Filled = 0 /\ Filled' = 0 /\ Leaving = 0 /\ Leaving' = 1
    BY <1>1 DEF Filled, Leaving, Frames
  <1>3. SlotOf(1) = fph /\ \A i \in 1..fpcnt - 1 : SlotOf(i)' = SlotOf(i + 1)
    BY <1>0, <1>1, <1>2 DEF SlotOf, wrap, Slots
  <1>4. /\ queue \in Seq(Forks) /\ Len(queue) = fpcnt
        /\ \A i \in 1..fpcnt : queue[i] = g_fpdx[SlotOf(i)]
    BY <1>1, <1>2, QueueFacts
  <1>5. /\ queue' \in Seq(Forks) /\ Len(queue') = fpcnt - 1
        /\ \A i \in 1..fpcnt - 1 : queue'[i] = g_fpdx[SlotOf(i + 1)]
    BY <1>1, <1>2, <1>3, QueueFacts DEF queue
  <1>6. queue # <<>> /\ Head(queue) = g_fpdx[fph] /\ queue' = Tail(queue)
    BY <1>1, <1>3, <1>4, <1>5
  <1>7. hand = Fifo!NoFork
    BY <1>1 DEF hand, InForkq, Fifo!NoFork
  <1>8. hand' = [code |-> g_fpdx[fph], data |-> g_fpdx[fph]]
    BY <1>1 DEF hand, InForkq
  <1> QED
    BY <1>6, <1>7, <1>8 DEF Fifo!Take

LEMMA HeadSlotStutter ==
  ASSUME RingFits, RingFits', HeadSlot
  PROVE  UNCHANGED <<queue, hand>>
  <1>0. NFORKS \in Nat /\ NFORKS # 0
    BY ForkAssumption
  <1>1. /\ fpcnt' = fpcnt /\ fph' = wrap(fph + 1) /\ g_fpdx' = g_fpdx
        /\ f'["proc"] = fph /\ fph \in Slots
        /\ at["proc"] = "head" /\ at'["proc"] = "data"
        /\ at["isr"] = "idle" /\ at'["isr"] = "idle"
    BY DEF RingFits, HeadSlot, At, Goto, Frames
  <1>2. Filled = 0 /\ Filled' = 0 /\ Leaving = 1 /\ Leaving' = 0
    BY <1>1 DEF Filled, Leaving, Frames
  <1>3. wrap(wrap(fph + 1) + 0) = wrap(fph + 1)
    BY <1>0, <1>1 DEF wrap, Slots
  <1>4. \A i : SlotOf(i)' = SlotOf(i)
    BY <1>1, <1>2, <1>3 DEF SlotOf
  <1>5. queue' = queue
    BY <1>1, <1>2, <1>4 DEF queue
  <1>6. hand' = hand
    BY <1>1 DEF hand, InForkq
  <1> QED
    BY <1>5, <1>6

\* The ring of forkq and forker implements the queue of ForkFifo, whoever
\* queues forks, for any number of slots and any forks, until an interrupt
\* queues one in the middle of a process's forkq (gemdisp.c:71).
THEOREM RingImplementsFifo == Spec => RunsInOrder
  <1>1. Init => Fifo!FifoInit
    <2> SUFFICES ASSUME Init PROVE queue = <<>> /\ hand = Fifo!NoFork
      BY DEF Fifo!FifoInit
    <2>0. fpcnt = 0 /\ Filled = 0
      BY DEF Init, Filled, Frames
    <2>1. Len(queue) = 0 /\ queue \in Seq(Forks)
      BY <2>0, InitRing, QueueFacts
    <2>2. hand = Fifo!NoFork
      BY DEF Init, hand, Fifo!NoFork, Frames, InForkq
    <2> QED
      BY <2>1, <2>2
  <1>2. RingOK /\ RingOK' /\ [Next]_vars => [torn' \/ Fifo!FifoNext]_(Fifo!fifoVars)
    <2> SUFFICES ASSUME RingOK, RingOK', [Next]_vars, ~torn'
                 PROVE  \/ Fifo!FifoNext \/ UNCHANGED <<queue, hand>>
      BY DEF Fifo!fifoVars
    <2>0. RingFits /\ RingFits'
      BY TornStays DEF RingOK
    <2>1. ASSUME NEW c \in Frames, (\E e \in Forks : forkq(c, e)) \/ forkqStep(c)
          PROVE  Fifo!FifoNext \/ UNCHANGED <<queue, hand>>
      <3>1. CASE Fill(c)
        BY <2>0, <3>1, FillPuts DEF Fifo!FifoNext
      <3>2. CASE ~Fill(c)
        <4>1. /\ UNCHANGED <<fph, g_fpdx, code, data>>
              /\ fpcnt \in Nat /\ at \in [Frames -> {"idle"} \cup InForkq \cup InForker]
              /\ back \in {"idle", "run"}
          BY <2>0, <2>1, <3>2, ForkAssumption
             DEF RingFits, forkq, forkqStep, Test, Slot, Advance, Compare, Clear, Count
        <4>2. CASE c = "isr"
          <5>1. at'["proc"] = at["proc"] /\ f'["proc"] = f["proc"] /\ back' = back
            BY <2>0, <2>1, <3>2, <4>2
               DEF RingFits, Frames, forkq, forkqStep, Test, Slot, Advance, Compare,
                   Clear, Count, Goto, Return
          <5>2. hand' = hand /\ Leaving' = Leaving
            BY <4>1, <5>1 DEF hand, Leaving
          <5>3. fpcnt' + Filled' = fpcnt + Filled
            <6>1. CASE Count(c)
              BY <2>0, <4>1, <4>2, <5>1, <6>1
                 DEF RingFits, Frames, Count, Goto, Return, At, Filled, Midway, InForkq
            <6>2. CASE ~Count(c)
              BY <2>0, <2>1, <3>2, <4>1, <4>2, <5>1, <6>2
                 DEF RingFits, Frames, forkq, forkqStep, Test, Slot, Advance, Compare,
                     Clear, Goto, Return, At, Filled
            <6> QED
              BY <6>1, <6>2
          <5> QED
            BY <2>0, <4>1, <5>2, <5>3, ForkqStutter
        <4>3. CASE c = "proc"
          <5>1. at["isr"] = "idle" /\ at'["isr"] = "idle"
            BY <2>0, <2>1, <3>2, <4>1, <4>3
               DEF Frames, forkq, forkqStep, Test, Slot, Advance, Compare,
                   Clear, Count, Goto, Return, At
          <5>2. Leaving' = Leaving
            BY <2>1, <3>2, <4>1, <4>3
               DEF Frames, forkq, forkqStep, Test, Slot, Advance, Compare,
                   Clear, Count, Goto, Return, At, Leaving
          <5>3. hand' = hand
            <6>1. CASE \E e \in Forks : forkq(c, e)
              BY <4>1, <4>3, <6>1 DEF forkq, At, Goto, Frames, hand, InForkq
            <6>2. CASE forkqStep(c)
              <7>1. at["proc"] \in InForkq /\ back' = back
                    /\ at'["proc"] \in InForkq \cup {back}
                BY <3>2, <4>1, <4>3, <6>2
                   DEF Frames, forkqStep, Test, Slot, Advance, Compare,
                       Clear, Count, Goto, Return, At, InForkq
              <7> QED
                BY <4>1, <7>1 DEF hand, InForkq
            <6> QED
              BY <2>1, <6>1, <6>2
          <5>4. fpcnt' + Filled' = fpcnt + Filled
            <6>1. CASE Count(c)
              BY <4>1, <4>3, <5>1, <6>1
                 DEF Frames, Count, Goto, Return, At, Filled
            <6>2. CASE ~Count(c)
              BY <2>1, <3>2, <4>1, <4>3, <5>1, <6>2
                 DEF Frames, forkq, forkqStep, Test, Slot, Advance, Compare,
                     Clear, Goto, Return, At, Filled
            <6> QED
              BY <6>1, <6>2
          <5> QED
            BY <2>0, <4>1, <5>2, <5>3, <5>4, ForkqStutter
        <4> QED
          BY <4>2, <4>3 DEF Frames
      <3> QED
        BY <3>1, <3>2
    <2>2. ASSUME forkerStep
          PROVE  Fifo!FifoNext \/ UNCHANGED <<queue, hand>>
      <3>1. CASE TakeOut
        BY <2>0, <3>1, TakeOutTakes DEF Fifo!FifoNext
      <3>2. CASE HeadSlot
        BY <2>0, <3>2, HeadSlotStutter
      <3>3. ASSUME ~TakeOut, ~HeadSlot PROVE queue' = queue
        BY <2>0, <2>2, <3>3
           DEF RingFits, Frames, forkerStep, forker, While, ReadData, ReadCode, Ran,
               At, Goto, queue, SlotOf, Leaving, Filled
      <3>4. CASE forker \/ While
        <4>1. hand = Fifo!NoFork /\ hand' = Fifo!NoFork
          BY <2>0, <3>4 DEF RingFits, Frames, forker, While, At, Goto, hand, InForkq, Fifo!NoFork
        <4>2. ~TakeOut /\ ~HeadSlot
          BY <3>4 DEF forker, While, TakeOut, HeadSlot, At
        <4> QED
          BY <3>3, <4>1, <4>2
      <3>5. CASE ReadData \/ ReadCode
        <4>1. hand' = hand
          BY <2>0, <3>5 DEF RingFits, Frames, ReadData, ReadCode, At, Goto, hand, InForkq
        <4>2. ~TakeOut /\ ~HeadSlot
          BY <3>5 DEF ReadData, ReadCode, TakeOut, HeadSlot, At
        <4> QED
          BY <3>3, <4>1, <4>2
      <3>6. CASE Ran
        <4>1. hand = [code |-> code, data |-> data] /\ hand' = Fifo!NoFork
          BY <2>0, <3>6 DEF RingFits, Frames, Ran, At, Goto, hand, InForkq, Fifo!NoFork
        <4>2. hand # Fifo!NoFork
          BY <2>0, <4>1, ForkAssumption DEF RingFits, Fifo!NoFork
        <4>3. ~TakeOut /\ ~HeadSlot
          BY <3>6 DEF Ran, TakeOut, HeadSlot, At
        <4> QED
          BY <3>3, <4>1, <4>2, <4>3 DEF Fifo!Run, Fifo!FifoNext
      <3> QED
        BY <2>2, <3>1, <3>2, <3>4, <3>5, <3>6 DEF forkerStep
    <2>3. CASE UNCHANGED vars
      BY <2>3 DEF vars, queue, hand, SlotOf, Leaving, Filled
    <2> QED
      BY <2>0, <2>1, <2>2, <2>3 DEF Next
  <1> QED
    BY <1>1, <1>2, RingInvariant, PTL DEF Spec, RunsInOrder

-----------------------------------------------------------------------------
(* The timers.                                                             *)

-----------------------------------------------------------------------------
(* Sums.                                                                   *)

\* p grows by each of n numbers
Grows(n, g, p) == \A i \in 1..n : p[i] = p[i - 1] + g[i]
\* p holds the sums of the first of n numbers
Sums(n, g, p) ==
  /\ p \in [0..n -> Nat] /\ p[0] = 0
  /\ \A i \in 1..n : p[i] = p[i - 1] + g[i]

\* a set of numbers has a least one
LEMMA HasLeast ==
  ASSUME NEW S \in SUBSET Nat, S # {}
  PROVE  \E i \in S : \A j \in S : i <= j
  <1> DEFINE R == {ss \in Nat \X Nat : ss[1] < ss[2]}
  <1>1. IsWellFoundedOn(R, Nat)
    <2>1. IsWellFoundedOn(OpToRel(<, Nat), Nat)
      BY NatLessThanWellFounded
    <2> QED
      BY <2>1 DEF OpToRel
  <1> HIDE DEF R
  <1>2. \E i \in S : \A j \in S : ~ (<<j, i>> \in R)
    BY <1>1, WFMin, Zenon
  <1>3. ASSUME NEW i \in Nat, NEW j \in Nat, <<j, i>> \notin R
        PROVE  i <= j
    <2>1. ~(j < i)
      BY <1>3 DEF R
    <2> QED
      BY <2>1
  <1> QED
    BY <1>2, <1>3

LEMMA SumsExist ==
  ASSUME NEW n \in Nat, NEW g, \A i \in 1..n : g[i] \in Nat
  PROVE  \E p : Sums(n, g, p)
  <1> DEFINE Bad == {m \in 0..n : ~\E p : Sums(m, g, p)}
  <1>1. Sums(0, g, [i \in 0..0 |-> 0])
    BY DEF Sums
  <1>2. ASSUME NEW m \in 1..n, NEW p, Sums(m - 1, g, p)
        PROVE  \E q : Sums(m, g, q)
    <2> DEFINE q == [i \in 0..m |-> IF i = m THEN p[m - 1] + g[m] ELSE p[i]]
    <2>1. p[m - 1] \in Nat /\ g[m] \in Nat
      BY <1>2 DEF Sums
    <2>2. q \in [0..m -> Nat] /\ q[m] = p[m - 1] + g[m] /\ \A i \in 0..m - 1 : q[i] = p[i]
      BY <1>2, <2>1 DEF Sums
    <2> HIDE DEF q
    <2>3. ASSUME NEW i \in 1..m
          PROVE  q[i] = q[i - 1] + g[i]
      <3>1. i - 1 \in 0..m - 1 /\ q[i - 1] = p[i - 1]
        BY <2>2
      <3>2. CASE i = m
        BY <2>2, <3>1, <3>2
      <3>3. CASE i # m
        <4>1. i \in 0..m - 1 /\ i \in 1..m - 1
          BY <3>3
        <4> QED
          BY <1>2, <2>2, <3>1, <4>1 DEF Sums
      <3> QED
        BY <3>2, <3>3
    <2>4. q[0] = 0
      BY <1>2, <2>2 DEF Sums
    <2> QED
      BY <2>2, <2>3, <2>4 DEF Sums
  <1>3. Bad = {}
    <2> SUFFICES ASSUME Bad # {} PROVE FALSE
      OBVIOUS
    <2>1. Bad \in SUBSET Nat
      OBVIOUS
    <2>2. PICK m \in Bad : \A j \in Bad : m <= j
      <3> HIDE DEF Bad
      <3> QED
        BY <2>1, HasLeast
    <2>3. m # 0
      BY <1>1, <2>2
    <2>4. m \in 1..n /\ m - 1 \in 0..n
      BY <2>2, <2>3
    <2>5. m - 1 \notin Bad
      <3> HIDE DEF Bad
      <3> QED
        BY <2>2, <2>4
    <2> QED
      BY <1>2, <2>2, <2>4, <2>5
  <1> QED
    BY <1>3

\* numbers with the same differences are the same
LEMMA SumsAgree ==
  ASSUME NEW n \in Nat, NEW g, NEW p, NEW q, p[0] = q[0], Grows(n, g, p), Grows(n, g, q)
  PROVE  \A i \in 0..n : p[i] = q[i]
  <1> DEFINE Bad == {m \in 0..n : p[m] # q[m]}
  <1>1. Bad = {}
    <2> SUFFICES ASSUME Bad # {} PROVE FALSE
      OBVIOUS
    <2>1. Bad \in SUBSET Nat
      OBVIOUS
    <2>2. PICK m \in Bad : \A j \in Bad : m <= j
      <3> HIDE DEF Bad
      <3> QED
        BY <2>1, HasLeast
    <2>3. m \in 1..n /\ m - 1 \in 0..n
      BY <2>2
    <2>4. m - 1 \notin Bad
      <3> HIDE DEF Bad
      <3> QED
        BY <2>2, <2>3
    <2> QED
      BY <2>2, <2>3, <2>4 DEF Grows
  <1> QED
    BY <1>1

\* a set of numbers that has with each all smaller ones is made of the first
LEMMA Prefix ==
  ASSUME NEW m \in Nat, NEW S \in SUBSET (1..m), \A i, j \in 1..m : i <= j /\ j \in S => i \in S
  PROVE  /\ Cardinality(S) \in 0..m
         /\ \A i \in 1..m : i \in S <=> i <= Cardinality(S)
  <1> DEFINE Out == {k \in 0..m : k + 1 \notin S}
  <1>1. Out \in SUBSET Nat /\ m \in Out
    OBVIOUS
  <1>2. PICK k \in Out : \A j \in Out : k <= j
    <2> HIDE DEF Out
    <2> QED
      BY <1>1, HasLeast
  <1>3. k \in 0..m /\ k + 1 \notin S
    BY <1>2
  <1>4. ASSUME NEW i \in 1..m, i <= k PROVE i \in S
    <2>1. i - 1 \in 0..m /\ i - 1 \notin Out
      BY <1>2, <1>3, <1>4
    <2> QED
      BY <2>1
  <1>5. ASSUME NEW i \in 1..m, i > k PROVE i \notin S
    BY <1>3, <1>5
  <1>6. S = 1..k
    <2>1. \A i \in S : i \in 1..k
      BY <1>3, <1>5
    <2>2. \A i \in 1..k : i \in S
      BY <1>3, <1>4
    <2> QED
      BY <2>1, <2>2
  <1>7. Cardinality(S) = k
    BY <1>3, <1>6, FS_Interval
  <1> QED
    BY <1>3, <1>4, <1>5, <1>7

-----------------------------------------------------------------------------
(* Lists of timers.                                                        *)

TimerEntries == [evb : Timers, e_parm : Nat]
\* each timer is on it once, and the first has time left
IsList(s) ==
  /\ s \in Seq(TimerEntries)
  /\ s # <<>> => s[1].e_parm > 0
  /\ \A i, j \in 1..Len(s) : s[i].evb = s[j].evb => i = j
\* when the timers of the list end
Ends(s, p) ==
  /\ p \in [0..Len(s) -> Nat] /\ p[0] = 0
  /\ \A i \in 1..Len(s) : p[i] = p[i - 1] + s[i].e_parm
\* what the timers have left
Leaves(s, p, l) ==
  /\ \A i \in 1..Len(s) : l[s[i].evb] = p[i]
  /\ \A t \in Timers : (\A i \in 1..Len(s) : s[i].evb # t) => l[t] = 0

Deltas(s, k) ==
  LET S[i \in 0..k] == IF i = 0 THEN 0 ELSE S[i - 1] + s[i].e_parm
  IN  S[k]

LEMMA ListItems ==
  ASSUME NEW s, IsList(s)
  PROVE  /\ Len(s) \in Nat /\ DOMAIN s = 1..Len(s)
         /\ \A i \in 1..Len(s) : s[i] \in TimerEntries /\ s[i].evb \in Timers /\ s[i].e_parm \in Nat
  <1>1. s \in Seq(TimerEntries)
    BY DEF IsList
  <1>2. Len(s) \in Nat /\ DOMAIN s = 1..Len(s)
    BY <1>1, LenProperties
  <1>3. \A i \in 1..Len(s) : s[i] \in TimerEntries
    BY <1>1, ElementOfSeq
  <1> QED
    BY <1>2, <1>3 DEF TimerEntries

LEMMA EndsExist ==
  ASSUME NEW s, IsList(s)
  PROVE  \E p : Ends(s, p)
  <1> DEFINE n == Len(s)
             g == [i \in 1..n |-> s[i].e_parm]
  <1>1. n \in Nat /\ \A i \in 1..n : g[i] \in Nat
    BY ListItems
  <1>2. \A i \in 1..n : g[i] = s[i].e_parm
    OBVIOUS
  <1>3. \E p : Sums(n, g, p)
    <2> HIDE DEF n, g
    <2> QED
      BY <1>1, SumsExist
  <1> QED
    BY <1>2, <1>3 DEF Sums, Ends

\* the later a timer is on the list, the later it ends
LEMMA EndsGrow ==
  ASSUME NEW s, IsList(s), NEW p, Ends(s, p)
  PROVE  /\ \A i \in 1..Len(s) : p[i] \in Nat /\ p[i] > 0
         /\ \A i, j \in 0..Len(s) : i <= j => p[i] <= p[j]
  <1> DEFINE n == Len(s)
             Bad == {j \in 0..n : \E i \in 0..j : p[i] > p[j]}
  <1>1. n \in Nat /\ \A i \in 1..n : s[i].e_parm \in Nat
    BY ListItems
  <1>2. Bad = {}
    <2> SUFFICES ASSUME Bad # {} PROVE FALSE
      OBVIOUS
    <2>1. Bad \in SUBSET Nat
      BY <1>1
    <2>2. PICK j \in Bad : \A m \in Bad : j <= m
      <3> HIDE DEF Bad
      <3> QED
        BY <2>1, HasLeast
    <2>3. j \in 0..n
      BY <2>2
    <2>4. PICK i \in 0..j : p[i] > p[j]
      BY <2>2
    <2>5. i # j /\ j \in 1..n /\ j - 1 \in 0..n /\ i \in 0..j - 1
      <3>1. p[j] \in Nat
        BY <2>3 DEF Ends
      <3> QED
        BY <1>1, <2>3, <2>4, <3>1
    <2>6. j - 1 \notin Bad
      <3> HIDE DEF Bad
      <3> QED
        BY <2>2, <2>5
    <2>7. p[j - 1] <= p[j] /\ p[i] \in Nat /\ p[j] \in Nat /\ p[j - 1] \in Nat
      <3>1. i \in 0..n
        BY <1>1, <2>3, <2>4
      <3>2. p[i] \in Nat /\ p[j] \in Nat /\ p[j - 1] \in Nat
        BY <2>3, <2>5, <3>1 DEF Ends
      <3>3. p[j] = p[j - 1] + s[j].e_parm /\ s[j].e_parm \in Nat
        BY <1>1, <2>5 DEF Ends
      <3> QED
        BY <3>2, <3>3
    <2>8. p[i] <= p[j - 1]
      <3>1. p[i] \in Nat /\ p[j - 1] \in Nat
        BY <2>7
      <3> QED
        BY <2>5, <2>6, <3>1
    <2> QED
      BY <2>4, <2>7, <2>8
  <1>3. \A i, j \in 0..n : i <= j => p[i] <= p[j]
    <2> SUFFICES ASSUME NEW i \in 0..n, NEW j \in 0..n, i <= j PROVE p[i] <= p[j]
      OBVIOUS
    <2>1. p[i] \in Nat /\ p[j] \in Nat
      BY DEF Ends
    <2> QED
      BY <1>1, <1>2, <2>1
  <1>4. ASSUME NEW i \in 1..n PROVE p[i] \in Nat /\ p[i] > 0
    <2>1. 1 \in 1..n /\ 1 \in 0..n /\ 0 \in 0..n /\ i \in 0..n
      BY <1>1
    <2>2. s # <<>> /\ s[1].e_parm > 0
      BY <2>1 DEF IsList
    <2>3. p[1] = s[1].e_parm
      BY <1>1, <2>1 DEF Ends
    <2>4. p[1] <= p[i]
      BY <1>1, <1>3, <2>1
    <2>5. p[i] \in Nat
      BY <2>1 DEF Ends
    <2> QED
      BY <1>1, <2>1, <2>2, <2>3, <2>4, <2>5
  <1> QED
    BY <1>3, <1>4

\* the recursive function of the model adds up
LEMMA DeltasAddUp ==
  ASSUME NEW s, IsList(s), NEW p, Ends(s, p), NEW k \in 0..Len(s)
  PROVE  Deltas(s, k) = p[k]
  <1> DEFINE Rec(w) == w = [i \in 0..k |-> IF i = 0 THEN 0 ELSE w[i - 1] + s[i].e_parm]
             S == CHOOSE w : Rec(w)
             g == [i \in 1..k |-> s[i].e_parm]
  <1>1. Len(s) \in Nat /\ k \in Nat
    BY ListItems
  <1>2. Rec([i \in 0..k |-> p[i]])
    <2> DEFINE q == [i \in 0..k |-> p[i]]
    <2>1. \A i \in 0..k : q[i] = IF i = 0 THEN 0 ELSE q[i - 1] + s[i].e_parm
      BY <1>1 DEF Ends
    <2> QED
      BY <2>1
  <1>3. Rec(S)
    BY <1>2
  <1> HIDE DEF S
  <1>4. S[0] = 0 /\ p[0] = 0 /\ 0 \in 0..k /\ k \in 0..k
    BY <1>1, <1>3 DEF Ends
  <1>5. \A i \in 1..k : S[i] = S[i - 1] + g[i]
    BY <1>1, <1>3
  <1>6. \A i \in 1..k : p[i] = p[i - 1] + g[i]
    BY <1>1 DEF Ends
  <1>7. \A i \in 0..k : S[i] = p[i]
    <2> HIDE DEF g, Rec
    <2>1. S[0] = p[0]
      BY <1>4
    <2>2. k \in Nat
      BY <1>1
    <2>3. Grows(k, g, S) /\ Grows(k, g, p)
      BY <1>5, <1>6 DEF Grows
    <2> QED
      BY ONLY <2>1, <2>2, <2>3, SumsAgree
  <1> QED
    BY <1>4, <1>7 DEF S, Deltas

\* the ends are the only ones
LEMMA EndsUnique ==
  ASSUME NEW s, IsList(s), NEW p, Ends(s, p), NEW q, Ends(s, q)
  PROVE  \A i \in 0..Len(s) : q[i] = p[i]
  <1> DEFINE n == Len(s)
             g == [i \in 1..n |-> s[i].e_parm]
  <1>1. n \in Nat
    BY ListItems
  <1>2. Grows(n, g, q) /\ Grows(n, g, p) /\ q[0] = p[0]
    BY DEF Ends, Grows
  <1> HIDE DEF n, g
  <1>3. \A i \in 0..n : q[i] = p[i]
    BY <1>1, <1>2, SumsAgree
  <1> QED
    BY <1>3 DEF n

\* left, now and after a step
LeftIn(s) == [t \in Timers |->
  LET place == {i \in DOMAIN s : s[i].evb = t}
  IN  IF place = {} THEN 0 ELSE Deltas(s, CHOOSE i \in place : TRUE)]
LEMMA LeftIs ==
  left = LeftIn(dlr) /\ left' = LeftIn(dlr')
  BY DEF left, LeftIn, SumTo, Deltas

LEMMA LeftLeaves ==
  ASSUME NEW s, IsList(s), NEW p, Ends(s, p)
  PROVE  Leaves(s, p, LeftIn(s))
  <1> DEFINE l == LeftIn(s)
  <1>1. /\ Len(s) \in Nat /\ DOMAIN s = 1..Len(s)
        /\ \A i \in 1..Len(s) : s[i].evb \in Timers
    BY ListItems
  <1>2. ASSUME NEW m \in 1..Len(s)
        PROVE  Deltas(s, m) = p[m]
    <2>1. m \in 0..Len(s)
      BY <1>1
    <2> QED
      BY <2>1, DeltasAddUp
  <1>3. ASSUME NEW i \in 1..Len(s)
        PROVE  l[s[i].evb] = p[i]
    <2> DEFINE t == s[i].evb
               place == {m \in DOMAIN s : s[m].evb = t}
    <2>1. i \in place /\ \A m \in place : m = i
      BY <1>1 DEF IsList
    <2>2. l[t] = IF place = {} THEN 0 ELSE Deltas(s, CHOOSE m \in place : TRUE)
      BY <1>1 DEF LeftIn
    <2> HIDE DEF place, l
    <2>3. (CHOOSE m \in place : TRUE) = i
      BY <2>1
    <2>4. l[t] = Deltas(s, i)
      BY <2>1, <2>2, <2>3
    <2> QED
      BY <1>2, <2>4
  <1>4. ASSUME NEW t \in Timers, \A i \in 1..Len(s) : s[i].evb # t
        PROVE  l[t] = 0
    <2>1. {m \in DOMAIN s : s[m].evb = t} = {}
      BY <1>1, <1>4
    <2> QED
      BY <2>1 DEF LeftIn
  <1> QED
    BY <1>3, <1>4 DEF Leaves

-----------------------------------------------------------------------------
(* What ADELAY, takeoff and tchange do to a list.                          *)

\* three pieces
LEMMA Joined ==
  ASSUME NEW a \in Seq(TimerEntries), NEW e \in TimerEntries, NEW b \in Seq(TimerEntries)
  PROVE  /\ a \o <<e>> \o b \in Seq(TimerEntries)
         /\ Len(a \o <<e>> \o b) = Len(a) + 1 + Len(b)
         /\ \A i \in 1..Len(a) : (a \o <<e>> \o b)[i] = a[i]
         /\ (a \o <<e>> \o b)[Len(a) + 1] = e
         /\ \A i \in 1..Len(b) : (a \o <<e>> \o b)[Len(a) + 1 + i] = b[i]
  <1> DEFINE ae == a \o <<e>>
  <1>1. <<e>> \in Seq(TimerEntries) /\ Len(<<e>>) = 1 /\ <<e>>[1] = e
    OBVIOUS
  <1>2. /\ ae \in Seq(TimerEntries) /\ Len(ae) = Len(a) + 1
        /\ \A i \in 1..Len(a) + 1 : ae[i] = IF i <= Len(a) THEN a[i] ELSE <<e>>[i - Len(a)]
    BY <1>1, ConcatProperties
  <1>3. Len(a) \in Nat /\ Len(b) \in Nat
    BY LenProperties
  <1>4. /\ \A i \in 1..Len(a) : ae[i] = a[i]
        /\ ae[Len(a) + 1] = e
    BY <1>1, <1>2, <1>3
  <1> HIDE DEF ae
  <1>5. /\ ae \o b \in Seq(TimerEntries) /\ Len(ae \o b) = Len(a) + 1 + Len(b)
        /\ \A i \in 1..Len(a) + 1 + Len(b) :
             (ae \o b)[i] = IF i <= Len(a) + 1 THEN ae[i] ELSE b[i - (Len(a) + 1)]
    <2>1. /\ ae \o b \in Seq(TimerEntries) /\ Len(ae \o b) = Len(ae) + Len(b)
          /\ \A i \in 1..Len(ae) + Len(b) :
               (ae \o b)[i] = IF i <= Len(ae) THEN ae[i] ELSE b[i - Len(ae)]
      <3>1. ae \in Seq(TimerEntries)
        BY <1>2
      <3> QED
        BY ONLY <3>1, b \in Seq(TimerEntries), ConcatProperties
    <2> QED
      BY <1>2, <2>1
  <1>6. \A i \in 1..Len(b) : (ae \o b)[Len(a) + 1 + i] = b[i]
    <2> SUFFICES ASSUME NEW i \in 1..Len(b) PROVE (ae \o b)[Len(a) + 1 + i] = b[i]
      OBVIOUS
    <2>1. /\ Len(a) + 1 + i \in 1..Len(a) + 1 + Len(b) /\ ~(Len(a) + 1 + i <= Len(a) + 1)
          /\ Len(a) + 1 + i - (Len(a) + 1) = i
      BY <1>3
    <2> QED
      BY <1>5, <2>1
  <1>7. \A i \in 1..Len(a) + 1 : (ae \o b)[i] = ae[i]
    BY <1>3, <1>5
  <1> QED
    BY <1>3, <1>4, <1>5, <1>6, <1>7 DEF ae

\* the list from the timer after the k-th on, which has x left
RestOf(s, k, x) ==
  LET rest == SubSeq(s, k + 1, Len(s))
  IN  IF rest = <<>> THEN <<>> ELSE <<Entry(rest[1].evb, x)>> \o Tail(rest)

LEMMA RestItems ==
  ASSUME NEW s, IsList(s), NEW k \in 0..Len(s), NEW x, k < Len(s) => x \in Nat
  PROVE  LET b == RestOf(s, k, x) IN
         /\ b \in Seq(TimerEntries) /\ Len(b) = Len(s) - k
         /\ k < Len(s) => b[1] = Entry(s[k + 1].evb, x)
         /\ \A i \in 2..Len(s) - k : b[i] = s[k + i]
  <1> DEFINE n == Len(s)
             rest == SubSeq(s, k + 1, n)
             e == Entry(rest[1].evb, x)
             c == Tail(rest)
             b == RestOf(s, k, x)
  <1>1. n \in Nat /\ k \in Nat /\ k <= n /\ \A i \in 1..n : s[i] \in TimerEntries
    BY ListItems
  <1>2. /\ rest \in Seq(TimerEntries) /\ Len(rest) = n - k
        /\ \A i \in 1..n - k : rest[i] = s[k + i]
    <2>1. \A i \in k + 1..n : s[i] \in TimerEntries
      BY <1>1
    <2>2. /\ rest \in Seq(TimerEntries) /\ Len(rest) = IF k + 1 <= n THEN n - (k + 1) + 1 ELSE 0
          /\ \A i \in 1..n - (k + 1) + 1 : rest[i] = s[k + 1 + i - 1]
      BY <1>1, <2>1, SubSeqProperties
    <2> QED
      BY <1>1, <2>2
  <1>3. b = IF rest = <<>> THEN <<>> ELSE <<e>> \o c
    BY DEF RestOf
  <1>4. CASE k = n
    <2> HIDE DEF rest, b
    <2>1. rest = <<>>
      BY <1>1, <1>2, <1>4, EmptySeq
    <2> QED
      BY <1>1, <1>3, <1>4, <2>1, EmptySeq DEF b
  <1>5. CASE k < n
    <2>1. rest # <<>> /\ rest[1] = s[k + 1]
      <3>1. n - k > 0 /\ 1 \in 1..n - k
        BY <1>1, <1>5
      <3>2. Len(rest) > 0
        BY <1>2, <3>1
      <3> HIDE DEF rest
      <3>3. rest # <<>>
        BY <3>2, EmptySeq
      <3> QED
        BY <1>2, <3>1, <3>3
    <2>2. e \in TimerEntries /\ e = Entry(s[k + 1].evb, x)
      <3>1. s[k + 1] \in TimerEntries
        BY <1>1, <1>5
      <3> QED
        BY <1>5, <2>1, <3>1 DEF Entry, TimerEntries
    <2>3. c \in Seq(TimerEntries) /\ Len(c) = n - k - 1 /\ \A i \in 1..Len(c) : c[i] = rest[i + 1]
      BY <1>2, <2>1, HeadTailProperties
    <2> HIDE DEF e, c, rest, b
    <2>4. <<e>> \in Seq(TimerEntries) /\ Len(<<e>>) = 1 /\ <<e>>[1] = e
      BY <2>2
    <2>5. /\ <<e>> \o c \in Seq(TimerEntries) /\ Len(<<e>> \o c) = 1 + Len(c)
          /\ \A i \in 1..1 + Len(c) : (<<e>> \o c)[i] = IF i <= 1 THEN <<e>>[i] ELSE c[i - 1]
      BY <2>3, <2>4, ConcatProperties
    <2>6. b = <<e>> \o c
      BY <1>3, <2>1
    <2>7. \A i \in 2..n - k : (<<e>> \o c)[i] = s[k + i]
      <3> SUFFICES ASSUME NEW i \in 2..n - k PROVE (<<e>> \o c)[i] = s[k + i]
        OBVIOUS
      <3>1. i \in 1..1 + Len(c) /\ ~(i <= 1) /\ i - 1 \in 1..Len(c) /\ i \in 1..n - k
        BY <1>1, <2>3
      <3>2. (<<e>> \o c)[i] = c[i - 1]
        BY <2>5, <3>1
      <3>3. c[i - 1] = rest[i]
        BY <2>3, <3>1
      <3> QED
        BY <1>2, <3>1, <3>2, <3>3
    <2>8. Len(<<e>> \o c) = n - k /\ (<<e>> \o c)[1] = e
      BY <1>1, <1>5, <2>3, <2>4, <2>5
    <2> QED
      BY <2>2, <2>5, <2>6, <2>7, <2>8 DEF b
  <1> QED
    BY <1>1, <1>4, <1>5

\* ADELAY puts t into the list, and the next timer counts on from there.
Inserted(s, k, t, new) ==
  LET rest == SubSeq(s, k + 1, Len(s))
  IN  SubSeq(s, 1, k) \o <<Entry(t, new)>> \o
        (IF rest = <<>> THEN <<>>
         ELSE <<Entry(rest[1].evb, rest[1].e_parm - new)>> \o Tail(rest))

LEMMA InsertedItems ==
  ASSUME NEW s, IsList(s), NEW t \in Timers, NEW k \in 0..Len(s), NEW new \in Nat,
         k < Len(s) => s[k + 1].e_parm >= new
  PROVE  LET r == Inserted(s, k, t, new) IN
         /\ r \in Seq(TimerEntries) /\ Len(r) = Len(s) + 1
         /\ \A i \in 1..k : r[i] = s[i]
         /\ r[k + 1] = Entry(t, new)
         /\ k < Len(s) => r[k + 2] = Entry(s[k + 1].evb, s[k + 1].e_parm - new)
         /\ \A i \in k + 2..Len(s) : r[i + 1] = s[i]
  <1> DEFINE n == Len(s)
             a == SubSeq(s, 1, k)
             rest == SubSeq(s, k + 1, n)
             b == IF rest = <<>> THEN <<>>
                  ELSE <<Entry(rest[1].evb, rest[1].e_parm - new)>> \o Tail(rest)
  <1>1. n \in Nat /\ k \in Nat /\ k <= n /\ \A i \in 1..n : s[i] \in TimerEntries
    BY ListItems
  <1>2. a \in Seq(TimerEntries) /\ Len(a) = k /\ \A i \in 1..k : a[i] = s[i]
    <2>1. \A i \in 1..k : s[i] \in TimerEntries
      BY <1>1
    <2>2. /\ a \in Seq(TimerEntries) /\ Len(a) = IF 1 <= k THEN k - 1 + 1 ELSE 0
          /\ \A i \in 1..k - 1 + 1 : a[i] = s[1 + i - 1]
      BY <1>1, <2>1, SubSeqProperties
    <2> QED
      BY <1>1, <2>2
  <1>4. Entry(t, new) \in TimerEntries
    BY DEF Entry, TimerEntries
  <1>5. /\ b \in Seq(TimerEntries) /\ Len(b) = n - k
        /\ k < n => b[1] = Entry(s[k + 1].evb, s[k + 1].e_parm - new)
        /\ \A i \in 2..n - k : b[i] = s[k + i]
    <2> DEFINE x == rest[1].e_parm - new
    <2>1. k < n => x \in Nat /\ x = s[k + 1].e_parm - new
      <3> SUFFICES ASSUME k < n PROVE x \in Nat /\ x = s[k + 1].e_parm - new
        OBVIOUS
      <3>1. k + 1 \in 1..n /\ \A i \in k + 1..n : s[i] \in TimerEntries
        BY <1>1
      <3>2. rest[1] = s[k + 1]
        <4>1. \A i \in 1..n - (k + 1) + 1 : rest[i] = s[k + 1 + i - 1]
          BY <1>1, <3>1, SubSeqProperties
        <4>2. 1 \in 1..n - (k + 1) + 1 /\ k + 1 + 1 - 1 = k + 1
          BY <1>1, <3>1
        <4> HIDE DEF rest
        <4> QED
          BY <4>1, <4>2
      <3>3. s[k + 1].e_parm \in Nat
        BY <3>1, ListItems
      <3> QED
        BY <3>2, <3>3
    <2>2. b = RestOf(s, k, x)
      BY DEF RestOf
    <2> HIDE DEF x, b
    <2>3. /\ RestOf(s, k, x) \in Seq(TimerEntries) /\ Len(RestOf(s, k, x)) = n - k
          /\ k < n => RestOf(s, k, x)[1] = Entry(s[k + 1].evb, x)
          /\ \A i \in 2..n - k : RestOf(s, k, x)[i] = s[k + i]
      BY <2>1, RestItems
    <2> QED
      BY <2>1, <2>2, <2>3
  <1> HIDE DEF a, b, rest
  <1> DEFINE r == a \o <<Entry(t, new)>> \o b
  <1>6. /\ r \in Seq(TimerEntries) /\ Len(r) = k + 1 + (n - k)
        /\ \A i \in 1..k : r[i] = a[i]
        /\ r[k + 1] = Entry(t, new)
        /\ \A i \in 1..n - k : r[k + 1 + i] = b[i]
    <2> DEFINE e == Entry(t, new)
    <2> HIDE DEF e
    <2>1. /\ a \o <<e>> \o b \in Seq(TimerEntries)
          /\ Len(a \o <<e>> \o b) = Len(a) + 1 + Len(b)
          /\ \A i \in 1..Len(a) : (a \o <<e>> \o b)[i] = a[i]
          /\ (a \o <<e>> \o b)[Len(a) + 1] = e
          /\ \A i \in 1..Len(b) : (a \o <<e>> \o b)[Len(a) + 1 + i] = b[i]
      BY <1>2, <1>4, <1>5, Joined DEF e
    <2> QED
      BY <1>2, <1>5, <2>1 DEF e
  <1> HIDE DEF r
  <1>7. k < n => r[k + 2] = b[1]
    <2> SUFFICES ASSUME k < n PROVE r[k + 2] = b[1]
      OBVIOUS
    <2>1. 1 \in 1..n - k /\ k + 1 + 1 = k + 2
      BY <1>1
    <2> QED
      BY <1>6, <2>1
  <1>8. ASSUME NEW i \in k + 2..n
        PROVE  r[i + 1] = s[i]
    <2>1. i - k \in 2..n - k /\ i - k \in 1..n - k /\ k + 1 + (i - k) = i + 1 /\ k + (i - k) = i
      BY <1>1
    <2>2. r[i + 1] = b[i - k]
      BY <1>6, <2>1
    <2> QED
      BY <1>5, <2>1, <2>2
  <1>9. r = Inserted(s, k, t, new)
    BY DEF r, a, b, rest, Inserted
  <1> QED
    BY <1>1, <1>2, <1>5, <1>6, <1>7, <1>8, <1>9

LEMMA InsertDoes ==
  ASSUME NEW s, IsList(s), NEW p, Ends(s, p), NEW t \in Timers, \A i \in 1..Len(s) : s[i].evb # t,
         NEW n \in Nat, n > 0, NEW k \in 0..Len(s), \A i \in 1..Len(s) : p[i] < n <=> i <= k
  PROVE  LET r == Inserted(s, k, t, n - p[k]) IN
         /\ IsList(r) /\ r # <<>>
         /\ r[1].e_parm = IF k = 0 THEN n ELSE s[1].e_parm
         /\ \A u \in Timers : LeftIn(r)[u] = IF u = t THEN n ELSE LeftIn(s)[u]
  <1> DEFINE m == Len(s)
             new == n - p[k]
             r == Inserted(s, k, t, new)
             q == [i \in 0..m + 1 |-> IF i <= k THEN p[i] ELSE IF i = k + 1 THEN n ELSE p[i - 1]]
  <1>1. /\ m \in Nat /\ k \in Nat /\ k <= m
        /\ \A i \in 1..m : s[i].evb \in Timers /\ s[i].e_parm \in Nat
    BY ListItems
  <1>2. /\ p \in [0..m -> Nat] /\ p[0] = 0
        /\ \A i \in 1..m : p[i] = p[i - 1] + s[i].e_parm
    BY DEF Ends
  <1>3. p[k] \in Nat /\ p[k] < n
    BY <1>1, <1>2
  <1>4. new \in Nat /\ new > 0 /\ p[k] + new = n
    BY <1>3
  <1>5. k < m => /\ s[k + 1].e_parm \in Nat /\ s[k + 1].e_parm >= new /\ p[k + 1] \in Nat
                 /\ p[k + 1] = p[k] + s[k + 1].e_parm
    <2> SUFFICES ASSUME k < m
                 PROVE  /\ s[k + 1].e_parm \in Nat /\ s[k + 1].e_parm >= new /\ p[k + 1] \in Nat
                        /\ p[k + 1] = p[k] + s[k + 1].e_parm
      OBVIOUS
    <2>1. k + 1 \in 1..m /\ k + 1 \in 0..m /\ ~(k + 1 <= k) /\ k + 1 - 1 = k
      BY <1>1
    <2>2. ~(p[k + 1] < n) /\ p[k + 1] \in Nat /\ p[k + 1] = p[k] + s[k + 1].e_parm
      BY <1>2, <2>1
    <2> QED
      BY <1>1, <1>3, <2>1, <2>2
  <1> HIDE DEF new
  <1>6. /\ r \in Seq(TimerEntries) /\ Len(r) = m + 1
        /\ \A i \in 1..k : r[i] = s[i]
        /\ r[k + 1] = Entry(t, new)
        /\ k < m => r[k + 2] = Entry(s[k + 1].evb, s[k + 1].e_parm - new)
        /\ \A i \in k + 2..m : r[i + 1] = s[i]
    BY <1>4, <1>5, InsertedItems
  <1> HIDE DEF r
  <1>7. /\ \A i \in 1..k : i \in 1..m /\ r[i].evb = s[i].evb /\ r[i].e_parm = s[i].e_parm
        /\ r[k + 1].evb = t /\ r[k + 1].e_parm = new
        /\ \A i \in k + 1..m : r[i + 1].evb = s[i].evb
        /\ k < m => r[k + 2].e_parm = s[k + 1].e_parm - new
        /\ \A i \in k + 2..m : r[i + 1].e_parm = s[i].e_parm
    <2>1. k < m => r[k + 2].evb = s[k + 1].evb /\ r[k + 2].e_parm = s[k + 1].e_parm - new
      BY <1>6 DEF Entry
    <2>2. ASSUME NEW i \in k + 1..m
          PROVE  r[i + 1].evb = s[i].evb
      <3>1. CASE i = k + 1
        <4>1. i + 1 = k + 2 /\ k < m
          BY <1>1, <3>1
        <4> QED
          BY <2>1, <3>1, <4>1
      <3>2. CASE i # k + 1
        <4>1. i \in k + 2..m
          BY <1>1, <3>2
        <4> QED
          BY <1>6, <4>1
      <3> QED
        BY <3>1, <3>2
    <2>3. r[k + 1].evb = t /\ r[k + 1].e_parm = new
      BY <1>6 DEF Entry
    <2>4. \A i \in 1..k : i \in 1..m
      BY <1>1
    <2> QED
      BY <1>6, <2>1, <2>2, <2>3, <2>4
  <1>8. ASSUME NEW i \in 1..m + 1
        PROVE  r[i].evb = IF i <= k THEN s[i].evb ELSE IF i = k + 1 THEN t ELSE s[i - 1].evb
    <2>1. CASE i <= k
      BY <1>1, <1>7, <2>1
    <2>2. CASE i = k + 1
      BY <1>1, <1>7, <2>2
    <2>3. CASE i > k + 1
      <3>1. i - 1 \in k + 1..m /\ i - 1 + 1 = i /\ ~(i <= k) /\ i # k + 1
        BY <1>1, <2>3
      <3>2. r[i - 1 + 1].evb = s[i - 1].evb
        BY <1>7, <3>1
      <3> QED
        BY <3>1, <3>2
    <2> QED
      BY <1>1, <2>1, <2>2, <2>3
  <1>9. \A i, j \in 1..m + 1 : r[i].evb = r[j].evb => i = j
    <2> SUFFICES ASSUME NEW i \in 1..m + 1, NEW j \in 1..m + 1, r[i].evb = r[j].evb
                 PROVE  i = j
      OBVIOUS
    <2>1. \A a, b \in 1..m : s[a].evb = s[b].evb => a = b
      BY DEF IsList
    <2>2. ASSUME NEW x \in 1..m + 1, x # k + 1
          PROVE  \E a \in 1..m : /\ r[x].evb = s[a].evb /\ r[x].evb # t
                                 /\ (x <= k /\ a = x) \/ (x > k + 1 /\ a = x - 1)
      <3>1. CASE x <= k
        <4>1. x \in 1..m
          BY <1>1, <3>1
        <4> QED
          BY <1>8, <3>1, <4>1
      <3>2. CASE x > k + 1
        <4>1. x - 1 \in 1..m /\ ~(x <= k)
          BY <1>1, <3>2
        <4> QED
          BY <1>8, <2>2, <3>2, <4>1
      <3> QED
        BY <1>1, <2>2, <3>1, <3>2
    <2>3. r[k + 1].evb = t
      BY <1>7
    <2>4. CASE i # k + 1 /\ j # k + 1
      <3>1. PICK a \in 1..m : r[i].evb = s[a].evb /\ ((i <= k /\ a = i) \/ (i > k + 1 /\ a = i - 1))
        BY <2>2, <2>4
      <3>2. PICK b \in 1..m : r[j].evb = s[b].evb /\ ((j <= k /\ b = j) \/ (j > k + 1 /\ b = j - 1))
        BY <2>2, <2>4
      <3>3. a = b
        BY <2>1, <3>1, <3>2
      <3> QED
        BY <1>1, <3>1, <3>2, <3>3
    <2> QED
      BY <2>2, <2>3, <2>4
  <1>10. r[1].e_parm = (IF k = 0 THEN n ELSE s[1].e_parm) /\ r[1].e_parm > 0
    <2>1. CASE k = 0
      BY <1>1, <1>2, <1>4, <1>7, <2>1
    <2>2. CASE k # 0
      <3>1. 1 \in 1..k /\ 1 \in 1..m /\ s # <<>>
        BY <1>1, <2>2
      <3> QED
        BY <1>7, <2>2, <3>1 DEF IsList
    <2> QED
      BY <2>1, <2>2
  <1>11. IsList(r) /\ r # <<>>
    <2>1. r # <<>>
      BY <1>1, <1>6
    <2> QED
      BY <1>6, <1>9, <1>10, <2>1 DEF IsList
  <1>12. Ends(r, q)
    <2>1. q \in [0..m + 1 -> Nat]
      <3> SUFFICES ASSUME NEW i \in 0..m + 1 PROVE q[i] \in Nat
        OBVIOUS
      <3>1. CASE i <= k
        <4>1. i \in 0..m /\ q[i] = p[i]
          BY <1>1, <3>1
        <4> QED
          BY <1>2, <4>1
      <3>2. CASE i = k + 1
        BY <1>1, <3>2
      <3>3. CASE i > k + 1
        <4>1. i - 1 \in 0..m /\ q[i] = p[i - 1]
          BY <1>1, <3>3
        <4> QED
          BY <1>2, <4>1
      <3> QED
        BY <1>1, <3>1, <3>2, <3>3
    <2>2. q[0] = 0
      BY <1>1, <1>2
    <2>3. ASSUME NEW i \in 1..m + 1
          PROVE  q[i] = q[i - 1] + r[i].e_parm
      <3>1. CASE i <= k
        <4>1. q[i] = p[i] /\ q[i - 1] = p[i - 1] /\ r[i].e_parm = s[i].e_parm /\ i \in 1..m
          BY <1>1, <1>7, <3>1
        <4> QED
          BY <1>2, <4>1
      <3>2. CASE i = k + 1
        <4>1. q[i] = n /\ q[i - 1] = p[k] /\ r[i].e_parm = new
          BY <1>1, <1>7, <3>2
        <4> QED
          BY <1>4, <4>1
      <3>3. CASE i = k + 2
        <4>1. k < m /\ q[i] = p[k + 1] /\ q[i - 1] = n /\ r[i].e_parm = s[k + 1].e_parm - new
          BY <1>1, <1>7, <3>3
        <4>2. s[k + 1].e_parm \in Nat /\ p[k + 1] = p[k] + s[k + 1].e_parm
          BY <1>5, <4>1
        <4> HIDE DEF q
        <4>3. p[k + 1] = n + (s[k + 1].e_parm - new)
          BY <1>3, <1>4, <4>2
        <4> QED
          BY <4>1, <4>3
      <3>4. CASE i > k + 2
        <4>1. q[i] = p[i - 1] /\ q[i - 1] = p[i - 1 - 1] /\ i - 1 \in k + 2..m /\ i - 1 \in 1..m
          BY <1>1, <3>4
        <4>2. r[i - 1 + 1].e_parm = s[i - 1].e_parm /\ i - 1 + 1 = i
          BY <1>7, <4>1
        <4> QED
          BY <1>2, <4>1, <4>2
      <3> QED
        BY <1>1, <3>1, <3>2, <3>3, <3>4
    <2> HIDE DEF q
    <2> QED
      BY <1>6, <2>1, <2>2, <2>3 DEF Ends
  <1>13. /\ \A i \in 1..k : q[i] = p[i]
         /\ q[k + 1] = n
         /\ \A i \in k + 1..m : q[i + 1] = p[i]
    BY <1>1
  <1> HIDE DEF q
  <1>14. Leaves(r, q, LeftIn(r)) /\ Leaves(s, p, LeftIn(s))
    BY <1>11, <1>12, LeftLeaves
  <1>15. ASSUME NEW u \in Timers
         PROVE  LeftIn(r)[u] = IF u = t THEN n ELSE LeftIn(s)[u]
    <2>1. CASE u = t
      <3>1. k + 1 \in 1..Len(r) /\ r[k + 1].evb = u
        BY <1>1, <1>6, <1>7, <2>1
      <3> QED
        BY <1>13, <1>14, <2>1, <3>1 DEF Leaves
    <2>2. ASSUME NEW i \in 1..m, s[i].evb = u
          PROVE  LeftIn(r)[u] = LeftIn(s)[u]
      <3>1. LeftIn(s)[u] = p[i]
        BY <1>14, <2>2 DEF Leaves
      <3>2. CASE i <= k
        <4>1. i \in 1..k /\ i \in 1..Len(r)
          BY <1>1, <1>6, <3>2
        <4>2. r[i].evb = u /\ q[i] = p[i]
          BY <1>7, <1>13, <2>2, <4>1
        <4> QED
          BY <1>14, <3>1, <4>1, <4>2 DEF Leaves
      <3>3. CASE i > k
        <4>1. i \in k + 1..m /\ i + 1 \in 1..Len(r)
          BY <1>1, <1>6, <3>3
        <4>2. r[i + 1].evb = u /\ q[i + 1] = p[i]
          BY <1>7, <1>13, <2>2, <4>1
        <4> QED
          BY <1>14, <3>1, <4>1, <4>2 DEF Leaves
      <3> QED
        BY <1>1, <3>2, <3>3
    <2>3. ASSUME u # t, \A i \in 1..m : s[i].evb # u
          PROVE  LeftIn(r)[u] = LeftIn(s)[u]
      <3>1. \A i \in 1..Len(r) : r[i].evb # u
        <4> SUFFICES ASSUME NEW i \in 1..m + 1 PROVE r[i].evb # u
          BY <1>6
        <4>1. i <= k => i \in 1..m
          BY <1>1
        <4>2. ~(i <= k) /\ i # k + 1 => i - 1 \in 1..m
          BY <1>1
        <4> QED
          BY <1>8, <2>3, <4>1, <4>2
      <3> QED
        BY <1>14, <2>3, <3>1 DEF Leaves
    <2>4. u = t \/ (\E i \in 1..m : s[i].evb = u) \/ (u # t /\ \A i \in 1..m : s[i].evb # u)
      OBVIOUS
    <2>5. \A i \in 1..m : s[i].evb # t
      OBVIOUS
    <2> QED
      BY <2>1, <2>2, <2>3, <2>4, <2>5
  <1> QED
    BY <1>10, <1>11, <1>15 DEF r, new

\* takeoff takes the i-th timer out; the next one inherits its ticks.
Removed(s, i) ==
  SubSeq(s, 1, i - 1) \o
    (IF i = Len(s) THEN <<>>
     ELSE <<Entry(s[i + 1].evb, s[i].e_parm + s[i + 1].e_parm)>> \o SubSeq(s, i + 2, Len(s)))

LEMMA RemovedItems ==
  ASSUME NEW s, IsList(s), NEW i \in 1..Len(s)
  PROVE  LET r == Removed(s, i) IN
         /\ r \in Seq(TimerEntries) /\ Len(r) = Len(s) - 1
         /\ \A j \in 1..i - 1 : r[j] = s[j]
         /\ i < Len(s) => r[i] = Entry(s[i + 1].evb, s[i].e_parm + s[i + 1].e_parm)
         /\ \A j \in i + 1..Len(s) - 1 : r[j] = s[j + 1]
  <1> DEFINE n == Len(s)
             a == SubSeq(s, 1, i - 1)
             b == SubSeq(s, i + 2, n)
             e == Entry(s[i + 1].evb, s[i].e_parm + s[i + 1].e_parm)
             r == Removed(s, i)
  <1>1. n \in Nat /\ i \in Nat /\ i <= n /\ i >= 1 /\ \A j \in 1..n : s[j] \in TimerEntries
    BY ListItems
  <1>2. a \in Seq(TimerEntries) /\ Len(a) = i - 1 /\ \A j \in 1..i - 1 : a[j] = s[j]
    <2>1. \A j \in 1..i - 1 : s[j] \in TimerEntries
      BY <1>1
    <2>2. /\ a \in Seq(TimerEntries) /\ Len(a) = IF 1 <= i - 1 THEN i - 1 - 1 + 1 ELSE 0
          /\ \A j \in 1..i - 1 - 1 + 1 : a[j] = s[1 + j - 1]
      BY <1>1, <2>1, SubSeqProperties
    <2> QED
      BY <1>1, <2>2
  <1>3. CASE i = n
    <2>1. r = a \o <<>>
      BY <1>3 DEF Removed
    <2>2. r = a
      BY <1>2, <2>1, ConcatEmptySeq
    <2> HIDE DEF a, r
    <2> QED
      BY <1>1, <1>2, <1>3, <2>2 DEF r
  <1>4. CASE i < n
    <2>1. /\ b \in Seq(TimerEntries) /\ Len(b) = n - i - 1
          /\ \A j \in 1..n - i - 1 : b[j] = s[i + 1 + j]
      <3>1. \A j \in i + 2..n : s[j] \in TimerEntries
        BY <1>1
      <3>2. /\ b \in Seq(TimerEntries) /\ Len(b) = IF i + 2 <= n THEN n - (i + 2) + 1 ELSE 0
            /\ \A j \in 1..n - (i + 2) + 1 : b[j] = s[i + 2 + j - 1]
        BY <1>1, <3>1, SubSeqProperties
      <3> QED
        BY <1>1, <1>4, <3>2
    <2>2. e \in TimerEntries
      <3>1. s[i] \in TimerEntries /\ s[i + 1] \in TimerEntries
        BY <1>1, <1>4
      <3> QED
        BY <3>1 DEF Entry, TimerEntries
    <2>3. r = a \o (<<e>> \o b)
      <3> DEFINE x == IF i = n THEN <<>> ELSE <<e>> \o b
      <3>1. r = a \o x
        BY DEF Removed
      <3>2. x = <<e>> \o b
        BY <1>1, <1>4
      <3> HIDE DEF x, a, b, e, r
      <3> QED
        BY <3>1, <3>2
    <2> HIDE DEF a, b, e, r
    <2>4. a \o (<<e>> \o b) = a \o <<e>> \o b
      <3>1. <<e>> \in Seq(TimerEntries)
        BY <2>2
      <3>2. a \in Seq(TimerEntries) /\ b \in Seq(TimerEntries)
        BY <1>2, <2>1
      <3> QED
        BY ONLY <3>1, <3>2, ConcatAssociative
    <2>5. /\ r \in Seq(TimerEntries) /\ Len(r) = Len(a) + 1 + Len(b)
          /\ \A j \in 1..Len(a) : r[j] = a[j]
          /\ r[Len(a) + 1] = e
          /\ \A j \in 1..Len(b) : r[Len(a) + 1 + j] = b[j]
      <3>1. a \in Seq(TimerEntries) /\ b \in Seq(TimerEntries)
        BY <1>2, <2>1
      <3>2. /\ a \o <<e>> \o b \in Seq(TimerEntries)
            /\ Len(a \o <<e>> \o b) = Len(a) + 1 + Len(b)
            /\ \A j \in 1..Len(a) : (a \o <<e>> \o b)[j] = a[j]
            /\ (a \o <<e>> \o b)[Len(a) + 1] = e
            /\ \A j \in 1..Len(b) : (a \o <<e>> \o b)[Len(a) + 1 + j] = b[j]
        BY ONLY <2>2, <3>1, Joined
      <3> QED
        BY <2>3, <2>4, <3>2
    <2>6. Len(r) = n - 1 /\ r[i] = e /\ \A j \in 1..i - 1 : r[j] = s[j]
      <3>1. i - 1 + 1 + (n - i - 1) = n - 1 /\ i - 1 + 1 = i
        BY <1>1
      <3> QED
        BY <1>2, <2>1, <2>5, <3>1
    <2>7. ASSUME NEW j \in i + 1..n - 1
          PROVE  r[j] = s[j + 1]
      <3>1. j - i \in 1..n - i - 1 /\ i - 1 + 1 + (j - i) = j /\ i + 1 + (j - i) = j + 1
        BY <1>1
      <3>2. r[j] = b[j - i]
        BY <1>2, <2>1, <2>5, <3>1
      <3> QED
        BY <2>1, <3>1, <3>2
    <2> QED
      BY <2>5, <2>6, <2>7 DEF e, r
  <1> QED
    BY <1>1, <1>3, <1>4

LEMMA TakeoffDoes ==
  ASSUME NEW s, IsList(s), NEW p, Ends(s, p), NEW i \in 1..Len(s)
  PROVE  LET r == Removed(s, i) IN
         /\ IsList(r)
         /\ r # <<>> => s # <<>> /\ r[1].e_parm >= s[1].e_parm
         /\ \A u \in Timers : LeftIn(r)[u] = IF u = s[i].evb THEN 0 ELSE LeftIn(s)[u]
  <1> DEFINE m == Len(s)
             r == Removed(s, i)
             q == [j \in 0..m - 1 |-> IF j < i THEN p[j] ELSE p[j + 1]]
  <1>1. /\ m \in Nat /\ i \in Nat /\ i <= m /\ i >= 1
        /\ \A j \in 1..m : s[j].evb \in Timers /\ s[j].e_parm \in Nat
    BY ListItems
  <1>2. /\ p \in [0..m -> Nat] /\ p[0] = 0
        /\ \A j \in 1..m : p[j] = p[j - 1] + s[j].e_parm
    BY DEF Ends
  <1>3. /\ r \in Seq(TimerEntries) /\ Len(r) = m - 1
        /\ \A j \in 1..i - 1 : r[j] = s[j]
        /\ i < m => r[i] = Entry(s[i + 1].evb, s[i].e_parm + s[i + 1].e_parm)
        /\ \A j \in i + 1..m - 1 : r[j] = s[j + 1]
    BY RemovedItems
  <1> HIDE DEF r
  <1>4. i < m => r[i].evb = s[i + 1].evb /\ r[i].e_parm = s[i].e_parm + s[i + 1].e_parm
    BY <1>3 DEF Entry
  <1>5. ASSUME NEW j \in 1..m - 1
        PROVE  \E a \in 1..m : r[j].evb = s[a].evb /\ ((j < i /\ a = j) \/ (j >= i /\ a = j + 1))
    <2>1. CASE j < i
      <3>1. j \in 1..i - 1 /\ j \in 1..m
        BY <1>1, <2>1
      <3> QED
        BY <1>3, <2>1, <3>1
    <2>2. CASE j = i
      <3>1. i < m /\ j + 1 \in 1..m
        BY <1>1, <2>2
      <3> QED
        BY <1>1, <1>4, <2>2, <3>1
    <2>3. CASE j > i
      <3>1. j \in i + 1..m - 1 /\ j + 1 \in 1..m /\ j >= i
        BY <1>1, <2>3
      <3> QED
        BY <1>3, <3>1
    <2> QED
      BY <1>1, <2>1, <2>2, <2>3
  <1>6. \A a, b \in 1..m - 1 : r[a].evb = r[b].evb => a = b
    <2> SUFFICES ASSUME NEW x \in 1..m - 1, NEW y \in 1..m - 1, r[x].evb = r[y].evb
                 PROVE  x = y
      OBVIOUS
    <2>1. \A a, b \in 1..m : s[a].evb = s[b].evb => a = b
      BY DEF IsList
    <2>2. PICK a \in 1..m : r[x].evb = s[a].evb /\ ((x < i /\ a = x) \/ (x >= i /\ a = x + 1))
      BY <1>5
    <2>3. PICK b \in 1..m : r[y].evb = s[b].evb /\ ((y < i /\ b = y) \/ (y >= i /\ b = y + 1))
      BY <1>5
    <2>4. a = b
      BY <2>1, <2>2, <2>3
    <2> QED
      BY <1>1, <2>2, <2>3, <2>4
  <1>7. r # <<>> => s # <<>> /\ r[1].e_parm >= s[1].e_parm /\ r[1].e_parm > 0
    <2> SUFFICES ASSUME r # <<>>
                 PROVE  s # <<>> /\ r[1].e_parm >= s[1].e_parm /\ r[1].e_parm > 0
      OBVIOUS
    <2>1. m - 1 > 0
      <3>1. Len(r) > 0
        BY <1>3, EmptySeq
      <3> QED
        BY <1>3, <3>1
    <2>2. s # <<>> /\ 1 \in 1..m
      BY <1>1, <2>1
    <2>3. s[1].e_parm \in Nat /\ s[1].e_parm > 0
      BY <1>1, <2>2 DEF IsList
    <2>4. CASE i = 1
      <3>1. i < m /\ i + 1 \in 1..m
        BY <1>1, <2>1, <2>4
      <3>2. r[1].e_parm = s[1].e_parm + s[i + 1].e_parm /\ s[i + 1].e_parm \in Nat
        BY <1>1, <1>4, <2>4, <3>1
      <3> QED
        BY <2>2, <2>3, <3>2
    <2>5. CASE i # 1
      <3>1. 1 \in 1..i - 1
        BY <1>1, <2>5
      <3> QED
        BY <1>3, <2>2, <2>3, <3>1
    <2> QED
      BY <2>4, <2>5
  <1>8. IsList(r)
    BY <1>3, <1>6, <1>7 DEF IsList
  <1>9. Ends(r, q)
    <2>1. q \in [0..m - 1 -> Nat]
      <3> SUFFICES ASSUME NEW j \in 0..m - 1 PROVE q[j] \in Nat
        OBVIOUS
      <3>1. j \in 0..m /\ j + 1 \in 0..m
        BY <1>1
      <3> QED
        BY <1>2, <3>1
    <2>2. q[0] = 0
      BY <1>1, <1>2
    <2>3. ASSUME NEW j \in 1..m - 1
          PROVE  q[j] = q[j - 1] + r[j].e_parm
      <3>1. CASE j < i
        <4>1. q[j] = p[j] /\ q[j - 1] = p[j - 1] /\ r[j].e_parm = s[j].e_parm /\ j \in 1..m
          BY <1>1, <1>3, <3>1
        <4> QED
          BY <1>2, <4>1
      <3>2. CASE j = i
        <4>1. /\ i < m /\ i + 1 \in 1..m /\ i - 1 \in 0..m /\ i \in 0..m /\ i + 1 \in 0..m
              /\ q[j] = p[i + 1] /\ q[j - 1] = p[i - 1] /\ i + 1 - 1 = i
          BY <1>1, <3>2
        <4>2. r[j].e_parm = s[i].e_parm + s[i + 1].e_parm
          BY <1>4, <3>2, <4>1
        <4>3. p[i + 1] = p[i] + s[i + 1].e_parm /\ p[i] = p[i - 1] + s[i].e_parm
          BY <1>2, <4>1
        <4>4. p[i - 1] \in Nat /\ s[i].e_parm \in Nat /\ s[i + 1].e_parm \in Nat
          BY <1>1, <1>2, <4>1
        <4> HIDE DEF q
        <4> QED
          BY <4>1, <4>2, <4>3, <4>4
      <3>3. CASE j > i
        <4>1. q[j] = p[j + 1] /\ q[j - 1] = p[j] /\ j \in i + 1..m - 1 /\ j + 1 \in 1..m /\ j + 1 - 1 = j
          BY <1>1, <3>3
        <4>2. r[j].e_parm = s[j + 1].e_parm
          BY <1>3, <4>1
        <4> QED
          BY <1>2, <4>1, <4>2
      <3> QED
        BY <1>1, <3>1, <3>2, <3>3
    <2> HIDE DEF q
    <2> QED
      BY <1>3, <2>1, <2>2, <2>3 DEF Ends
  <1>10. /\ \A j \in 1..i - 1 : q[j] = p[j]
         /\ \A j \in i..m - 1 : q[j] = p[j + 1]
    BY <1>1
  <1> HIDE DEF q
  <1>11. Leaves(r, q, LeftIn(r)) /\ Leaves(s, p, LeftIn(s))
    BY <1>8, <1>9, LeftLeaves
  <1>12. ASSUME NEW u \in Timers
         PROVE  LeftIn(r)[u] = IF u = s[i].evb THEN 0 ELSE LeftIn(s)[u]
    <2>0. \A a, b \in 1..m : s[a].evb = s[b].evb => a = b
      BY DEF IsList
    <2>1. CASE u = s[i].evb \/ \A j \in 1..m : s[j].evb # u
      <3>1. ASSUME NEW j \in 1..m - 1 PROVE r[j].evb # u
        <4>1. PICK a \in 1..m : r[j].evb = s[a].evb /\ ((j < i /\ a = j) \/ (j >= i /\ a = j + 1))
          BY <1>5
        <4>2. a # i
          BY <1>1, <4>1
        <4> QED
          BY <2>0, <2>1, <4>1, <4>2
      <3>2. LeftIn(r)[u] = 0
        BY <1>3, <1>11, <3>1 DEF Leaves
      <3>3. (\A j \in 1..m : s[j].evb # u) => LeftIn(s)[u] = 0
        BY <1>11 DEF Leaves
      <3> QED
        BY <2>1, <3>2, <3>3
    <2>2. ASSUME NEW j \in 1..m, s[j].evb = u, j # i
          PROVE  LeftIn(r)[u] = LeftIn(s)[u] /\ u # s[i].evb
      <3>1. LeftIn(s)[u] = p[j] /\ u # s[i].evb
        BY <1>11, <2>0, <2>2 DEF Leaves
      <3>2. CASE j < i
        <4>1. j \in 1..i - 1 /\ j \in 1..Len(r)
          BY <1>1, <1>3, <3>2
        <4>2. r[j].evb = u /\ q[j] = p[j]
          BY <1>3, <1>10, <2>2, <4>1
        <4> QED
          BY <1>11, <3>1, <4>1, <4>2 DEF Leaves
      <3>3. CASE j > i
        <4>1. j - 1 \in 1..m - 1 /\ j - 1 \in i..m - 1 /\ j - 1 + 1 = j /\ j - 1 >= i /\ ~(j - 1 < i)
          BY <1>1, <3>3
        <4>2. PICK a \in 1..m : r[j - 1].evb = s[a].evb
                                /\ ((j - 1 < i /\ a = j - 1) \/ (j - 1 >= i /\ a = j - 1 + 1))
          BY <1>5, <4>1
        <4>3. r[j - 1].evb = u /\ q[j - 1] = p[j]
          BY <1>10, <2>2, <4>1, <4>2
        <4> QED
          BY <1>3, <1>11, <3>1, <4>1, <4>3 DEF Leaves
      <3> QED
        BY <1>1, <2>2, <3>2, <3>3
    <2> QED
      BY <2>1, <2>2
  <1> QED
    BY <1>7, <1>8, <1>12 DEF r

\* tchange takes c ticks off: the timers that end by then are gone.
LEMMA ChargeDoes ==
  ASSUME NEW s, IsList(s), NEW p, Ends(s, p), NEW c \in Nat, NEW k \in 0..Len(s),
         \A i \in 1..Len(s) : p[i] <= c <=> i <= k
  PROVE  LET r == RestOf(s, k, p[k + 1] - c) IN
         /\ IsList(r)
         /\ \A u \in Timers : LeftIn(r)[u] = IF LeftIn(s)[u] > c THEN LeftIn(s)[u] - c ELSE 0
  <1> DEFINE m == Len(s)
             x == p[k + 1] - c
             r == RestOf(s, k, x)
             q == [j \in 0..m - k |-> IF j = 0 THEN 0 ELSE p[k + j] - c]
  <1>1. /\ m \in Nat /\ k \in Nat /\ k <= m
        /\ \A j \in 1..m : s[j].evb \in Timers /\ s[j].e_parm \in Nat
    BY ListItems
  <1>2. /\ p \in [0..m -> Nat] /\ p[0] = 0
        /\ \A j \in 1..m : p[j] = p[j - 1] + s[j].e_parm
    BY DEF Ends
  <1>3. ASSUME NEW j \in 1..m - k
        PROVE  k + j \in 1..m /\ p[k + j] \in Nat /\ p[k + j] > c
    <2>1. k + j \in 1..m /\ k + j \in 0..m /\ ~(k + j <= k)
      BY <1>1
    <2>2. p[k + j] \in Nat /\ ~(p[k + j] <= c)
      BY <1>2, <2>1
    <2> QED
      BY <2>1, <2>2
  <1>4. k < m => x \in Nat /\ x > 0
    <2> SUFFICES ASSUME k < m PROVE x \in Nat /\ x > 0
      OBVIOUS
    <2>1. 1 \in 1..m - k
      BY <1>1
    <2>2. p[k + 1] \in Nat /\ p[k + 1] > c
      BY <1>3, <2>1
    <2> QED
      BY <2>2
  <1> HIDE DEF x
  <1>5. /\ r \in Seq(TimerEntries) /\ Len(r) = m - k
        /\ k < m => r[1] = Entry(s[k + 1].evb, x)
        /\ \A j \in 2..m - k : r[j] = s[k + j]
    BY <1>4, RestItems
  <1> HIDE DEF r
  <1>6. ASSUME NEW j \in 1..m - k
        PROVE  /\ r[j].evb = s[k + j].evb
               /\ r[j].e_parm = IF j = 1 THEN x ELSE s[k + j].e_parm
    <2>1. CASE j = 1
      <3>1. k < m
        BY <1>1
      <3> QED
        BY <1>5, <2>1, <3>1 DEF Entry
    <2>2. CASE j # 1
      <3>1. j \in 2..m - k
        BY <1>1, <2>2
      <3> QED
        BY <1>5, <2>2, <3>1
    <2> QED
      BY <2>1, <2>2
  <1>7. IsList(r)
    <2>1. \A a, b \in 1..m : s[a].evb = s[b].evb => a = b
      BY DEF IsList
    <2>2. ASSUME NEW a \in 1..m - k, NEW b \in 1..m - k, r[a].evb = r[b].evb
          PROVE  a = b
      <3>1. k + a = k + b
        BY <1>3, <1>6, <2>1, <2>2
      <3> QED
        BY <1>1, <3>1
    <2>3. r # <<>> => r[1].e_parm > 0
      <3> SUFFICES ASSUME r # <<>> PROVE r[1].e_parm > 0
        OBVIOUS
      <3>1. Len(r) > 0
        BY <1>5, EmptySeq
      <3>2. k < m /\ 1 \in 1..m - k
        BY <1>1, <1>5, <3>1
      <3> QED
        BY <1>4, <1>6, <3>2
    <2> QED
      BY <1>5, <2>2, <2>3 DEF IsList
  <1>8. Ends(r, q)
    <2>1. q \in [0..m - k -> Nat]
      <3> SUFFICES ASSUME NEW j \in 0..m - k PROVE q[j] \in Nat
        OBVIOUS
      <3>1. CASE j = 0
        BY <3>1
      <3>2. CASE j # 0
        <4>1. j \in 1..m - k
          BY <1>1, <3>2
        <4>2. p[k + j] \in Nat /\ p[k + j] > c /\ q[j] = p[k + j] - c
          BY <1>3, <3>2, <4>1
        <4> HIDE DEF q
        <4> QED
          BY <4>2
      <3> QED
        BY <3>1, <3>2
    <2>2. q[0] = 0
      BY <1>1
    <2>3. ASSUME NEW j \in 1..m - k
          PROVE  q[j] = q[j - 1] + r[j].e_parm
      <3>1. q[j] = p[k + j] - c
        BY <1>1
      <3>2. CASE j = 1
        <4>1. q[j - 1] = 0 /\ r[j].e_parm = p[k + 1] - c
          BY <1>6, <2>2, <3>2 DEF x
        <4>2. p[k + 1] - c \in Int
          BY <1>3, <3>2
        <4> HIDE DEF q
        <4> QED
          BY <3>1, <3>2, <4>1, <4>2
      <3>3. CASE j # 1
        <4>1. j - 1 \in 1..m - k /\ k + j \in 1..m /\ k + j - 1 = k + (j - 1)
          BY <1>1, <3>3
        <4>2. q[j - 1] = p[k + (j - 1)] - c /\ r[j].e_parm = s[k + j].e_parm
          BY <1>1, <1>6, <3>3, <4>1
        <4>3. p[k + j] = p[k + (j - 1)] + s[k + j].e_parm
          BY <1>2, <4>1
        <4>4. p[k + (j - 1)] \in Nat /\ s[k + j].e_parm \in Nat
          BY <1>1, <1>3, <4>1
        <4> HIDE DEF q
        <4> QED
          BY <3>1, <4>2, <4>3, <4>4
      <3> QED
        BY <3>2, <3>3
    <2> HIDE DEF q
    <2> QED
      BY <1>5, <2>1, <2>2, <2>3 DEF Ends
  <1>9. \A j \in 1..m - k : q[j] = p[k + j] - c
    BY <1>1
  <1> HIDE DEF q
  <1>10. Leaves(r, q, LeftIn(r)) /\ Leaves(s, p, LeftIn(s))
    BY <1>7, <1>8, LeftLeaves
  <1>11. ASSUME NEW u \in Timers
         PROVE  LeftIn(r)[u] = IF LeftIn(s)[u] > c THEN LeftIn(s)[u] - c ELSE 0
    <2>0. \A a, b \in 1..m : s[a].evb = s[b].evb => a = b
      BY DEF IsList
    <2>1. ASSUME \A j \in 1..m : s[j].evb # u
          PROVE  LeftIn(r)[u] = 0 /\ LeftIn(s)[u] = 0
      <3>1. \A j \in 1..m - k : r[j].evb # u
        BY <1>3, <1>6, <2>1
      <3> QED
        BY <1>5, <1>10, <2>1, <3>1 DEF Leaves
    <2>2. ASSUME NEW j \in 1..m, s[j].evb = u
          PROVE  LeftIn(r)[u] = IF LeftIn(s)[u] > c THEN LeftIn(s)[u] - c ELSE 0
      <3>1. LeftIn(s)[u] = p[j] /\ p[j] \in Nat
        <4>1. j \in 0..m
          BY <1>1
        <4> QED
          BY <1>2, <1>10, <2>2, <4>1 DEF Leaves
      <3>2. CASE j <= k
        <4>1. p[j] <= c
          BY <3>2
        <4>2. ASSUME NEW i \in 1..m - k PROVE r[i].evb # u
          <5>1. k + i \in 1..m /\ k + i # j
            BY <1>1, <3>2
          <5> QED
            BY <1>6, <2>0, <2>2, <5>1
        <4>3. LeftIn(r)[u] = 0
          BY <1>5, <1>10, <4>2 DEF Leaves
        <4> QED
          BY <3>1, <4>1, <4>3
      <3>3. CASE j > k
        <4>1. j - k \in 1..m - k /\ k + (j - k) = j
          BY <1>1, <3>3
        <4>2. r[j - k].evb = u /\ q[j - k] = p[j] - c /\ p[j] > c
          BY <1>3, <1>6, <1>9, <2>2, <4>1
        <4>3. LeftIn(r)[u] = q[j - k]
          BY <1>5, <1>10, <4>1, <4>2 DEF Leaves
        <4> QED
          BY <3>1, <4>2, <4>3
      <3> QED
        BY <1>1, <3>2, <3>3
    <2>3. c \in Nat
      OBVIOUS
    <2> QED
      BY <2>1, <2>2, <2>3
  <1> QED
    BY <1>7, <1>11 DEF r, x

-----------------------------------------------------------------------------
(* Ticks that have been counted.                                           *)

Total(w) ==
  LET S[i \in 0..Len(w)] == IF i = 0 THEN 0 ELSE S[i - 1] + w[i]
  IN  S[Len(w)]

LEMMA UnchargedIs ==
  /\ Uncharged = Total(forks) + (IF CMP_TICK > 0 THEN NUM_TICK ELSE 0)
  /\ Uncharged' = Total(forks') + (IF CMP_TICK' > 0 THEN NUM_TICK' ELSE 0)
  BY DEF Uncharged, Total

LEMMA TotalAddsUp ==
  ASSUME NEW w \in Seq(Nat), NEW p, Sums(Len(w), w, p)
  PROVE  Total(w) = p[Len(w)]
  <1> DEFINE n == Len(w)
             Rec(h) == h = [i \in 0..n |-> IF i = 0 THEN 0 ELSE h[i - 1] + w[i]]
             S == CHOOSE h : Rec(h)
  <1>1. n \in Nat
    OBVIOUS
  <1>2. Rec([i \in 0..n |-> p[i]])
    <2> DEFINE q == [i \in 0..n |-> p[i]]
    <2>1. \A i \in 0..n : q[i] = IF i = 0 THEN 0 ELSE q[i - 1] + w[i]
      BY <1>1 DEF Sums
    <2> QED
      BY <2>1
  <1>3. Rec(S)
    BY <1>2
  <1>4. Total(w) = S[n]
    BY DEF Total
  <1> HIDE DEF S
  <1>5. S[0] = p[0]
    BY <1>1, <1>3 DEF Sums
  <1>6. Grows(n, w, S) /\ Grows(n, w, p)
    BY <1>1, <1>3 DEF Sums, Grows
  <1> HIDE DEF n, Rec
  <1>7. \A i \in 0..n : S[i] = p[i]
    BY ONLY <1>1, <1>5, <1>6, SumsAgree
  <1>8. n \in 0..n
    BY <1>1
  <1> QED
    BY <1>4, <1>7, <1>8 DEF n

LEMMA TotalNat ==
  ASSUME NEW w \in Seq(Nat)
  PROVE  Total(w) \in Nat /\ (w = <<>> => Total(w) = 0)
  <1>1. Len(w) \in Nat /\ \A i \in 1..Len(w) : w[i] \in Nat
    OBVIOUS
  <1>2. PICK p : Sums(Len(w), w, p)
    BY <1>1, SumsExist
  <1>3. Total(w) = p[Len(w)]
    BY <1>2, TotalAddsUp
  <1>4. p \in [0..Len(w) -> Nat] /\ p[0] = 0 /\ Len(w) \in 0..Len(w)
    BY <1>1, <1>2 DEF Sums
  <1> QED
    BY <1>3, <1>4

LEMMA TotalAppend ==
  ASSUME NEW w \in Seq(Nat), NEW c \in Nat
  PROVE  Total(Append(w, c)) = Total(w) + c
  <1> DEFINE n == Len(w)
             g == Append(w, c)
  <1>1. n \in Nat /\ \A i \in 1..n : w[i] \in Nat
    OBVIOUS
  <1>2. g \in Seq(Nat) /\ Len(g) = n + 1 /\ (\A i \in 1..n : g[i] = w[i]) /\ g[n + 1] = c
    BY AppendProperties
  <1> HIDE DEF g
  <1>3. PICK p : Sums(n, w, p)
    BY <1>1, SumsExist
  <1> DEFINE q == [i \in 0..n + 1 |-> IF i <= n THEN p[i] ELSE p[n] + c]
  <1>4. p \in [0..n -> Nat] /\ p[0] = 0 /\ \A i \in 1..n : p[i] = p[i - 1] + w[i]
    BY <1>3 DEF Sums
  <1>5. Sums(n + 1, g, q)
    <2>1. q \in [0..n + 1 -> Nat] /\ q[0] = 0
      <3>1. p[n] \in Nat
        BY <1>1, <1>4
      <3> QED
        BY <1>1, <1>4, <3>1
    <2>2. ASSUME NEW i \in 1..n + 1
          PROVE  q[i] = q[i - 1] + g[i]
      <3>1. CASE i <= n
        <4>1. q[i] = p[i] /\ q[i - 1] = p[i - 1] /\ i \in 1..n
          BY <1>1, <3>1
        <4> QED
          BY <1>2, <1>4, <4>1
      <3>2. CASE i = n + 1
        <4>1. q[i] = p[n] + c /\ q[i - 1] = p[n]
          BY <1>1, <3>2
        <4> QED
          BY <1>2, <3>2, <4>1
      <3> QED
        BY <1>1, <3>1, <3>2
    <2> HIDE DEF q
    <2> QED
      BY <2>1, <2>2 DEF Sums
  <1>6. Total(g) = q[n + 1] /\ Total(w) = p[n]
    <2>1. Sums(Len(g), g, q)
      BY <1>2, <1>5
    <2>2. Total(g) = q[Len(g)]
      BY <1>2, <2>1, TotalAddsUp
    <2> QED
      BY <1>2, <1>3, <2>2, TotalAddsUp
  <1>7. q[n + 1] = p[n] + c
    BY <1>1
  <1> QED
    BY <1>6, <1>7 DEF g

LEMMA TotalTail ==
  ASSUME NEW w \in Seq(Nat), w # <<>>
  PROVE  Total(w) = w[1] + Total(Tail(w)) /\ Tail(w) \in Seq(Nat) /\ w[1] \in Nat /\ Head(w) = w[1]
  <1> DEFINE n == Len(w)
             g == Tail(w)
  <1>1. n \in Nat /\ n > 0 /\ \A i \in 1..n : w[i] \in Nat
    BY EmptySeq
  <1>2. g \in Seq(Nat) /\ Len(g) = n - 1 /\ \A i \in 1..n - 1 : g[i] = w[i + 1]
    BY HeadTailProperties
  <1> HIDE DEF g
  <1>3. PICK p : Sums(n - 1, g, p)
    <2>1. n - 1 \in Nat /\ \A i \in 1..n - 1 : g[i] \in Nat
      BY <1>1, <1>2
    <2> QED
      BY <2>1, SumsExist
  <1> DEFINE q == [i \in 0..n |-> IF i = 0 THEN 0 ELSE w[1] + p[i - 1]]
  <1>4. p \in [0..n - 1 -> Nat] /\ p[0] = 0 /\ \A i \in 1..n - 1 : p[i] = p[i - 1] + g[i]
    BY <1>3 DEF Sums
  <1>5. w[1] \in Nat
    BY <1>1
  <1>6. Sums(n, w, q)
    <2>1. q \in [0..n -> Nat] /\ q[0] = 0
      <3>1. ASSUME NEW i \in 0..n, i # 0 PROVE p[i - 1] \in Nat
        <4>1. i - 1 \in 0..n - 1
          BY <1>1, <3>1
        <4> HIDE DEF q, n
        <4> QED
          BY <1>4, <4>1
      <3> QED
        BY <1>1, <1>5, <3>1
    <2>2. ASSUME NEW i \in 1..n
          PROVE  q[i] = q[i - 1] + w[i]
      <3>1. CASE i = 1
        <4>1. q[i] = w[1] + p[0] /\ q[i - 1] = 0
          BY <1>1, <3>1
        <4> QED
          BY <1>4, <1>5, <3>1, <4>1
      <3>2. CASE i # 1
        <4>1. q[i] = w[1] + p[i - 1] /\ q[i - 1] = w[1] + p[i - 1 - 1] /\ i - 1 \in 1..n - 1
          BY <1>1, <3>2
        <4>0. i - 1 - 1 \in 0..n - 1 /\ i - 1 + 1 = i
          BY <1>1, <3>2
        <4> HIDE DEF q, n
        <4>2. p[i - 1] = p[i - 1 - 1] + g[i - 1] /\ g[i - 1] = w[i]
          BY <1>2, <1>4, <4>0, <4>1
        <4>3. p[i - 1 - 1] \in Nat /\ w[i] \in Nat
          BY <1>1, <1>4, <4>0
        <4> QED
          BY <1>5, <4>1, <4>2, <4>3
      <3> QED
        BY <3>1, <3>2
    <2> HIDE DEF q
    <2> QED
      BY <2>1, <2>2 DEF Sums
  <1>7. Total(w) = q[n]
    BY <1>6, TotalAddsUp
  <1>8. Total(g) = p[n - 1]
    <2>1. Sums(Len(g), g, p)
      BY <1>2, <1>3
    <2> QED
      BY <1>2, <2>1, TotalAddsUp
  <1>9. q[n] = w[1] + p[n - 1]
    BY <1>1
  <1> QED
    BY <1>2, <1>5, <1>7, <1>8, <1>9 DEF g

-----------------------------------------------------------------------------
(* The inductive invariant, and what the steps do to it.                   *)

\* no timer has more left than the longest time
Within == \A t \in Timers : left[t] <= Longest
\* what a timer may still ask for are later ticks than those that were counted
Owing == \A t \in Timers : owed[t] > 0 => owed[t] + Uncharged <= left[t]

TimerInv == TypeOK /\ Armed /\ Within /\ Owing

LEMMA TypeParts ==
  ASSUME TypeOK
  PROVE  /\ IsList(dlr) /\ CMP_TICK \in Nat /\ NUM_TICK \in Nat /\ changed \in BOOLEAN
         /\ owed \in [Timers -> Nat] /\ forks \in Seq(Nat \ {0}) /\ forks \in Seq(Nat)
         /\ Len(forks) \in Nat /\ Len(forks) <= Room
  <1>1. forks \in Seq(Nat \ {0}) /\ forks \in Seq(Nat) /\ Len(forks) \in Nat
    <2>1. forks \in Seq(Nat \ {0})
      BY DEF TypeOK
    <2>2. Nat \ {0} \subseteq Nat
      OBVIOUS
    <2> QED
      BY <2>1, <2>2, SeqMonotonic
  <1>2. DOMAIN dlr = 1..Len(dlr)
    BY DEF TypeOK
  <1> QED
    BY <1>1, <1>2 DEF TypeOK, IsList, TimerEntries

LEMMA TypeNext ==
  ASSUME IsList(dlr'), CMP_TICK' \in Nat, NUM_TICK' \in Nat, changed' \in BOOLEAN,
         owed' \in [Timers -> Nat], forks' \in Seq(Nat \ {0}), Len(forks') <= Room
  PROVE  TypeOK'
  <1>1. DOMAIN dlr' = 1..Len(dlr')
    BY ListItems
  <1> QED
    BY <1>1 DEF TypeOK, IsList, TimerEntries

\* what a list leaves is a time for each timer
LEMMA LeftNat ==
  ASSUME NEW s, IsList(s)
  PROVE  LeftIn(s) \in [Timers -> Nat]
  <1>1. PICK p : Ends(s, p)
    BY EndsExist
  <1>2. Leaves(s, p, LeftIn(s))
    BY <1>1, LeftLeaves
  <1>3. Len(s) \in Nat
    BY ListItems
  <1>4. ASSUME NEW t \in Timers
        PROVE  LeftIn(s)[t] \in Nat
    <2>1. CASE \A i \in 1..Len(s) : s[i].evb # t
      BY <1>2, <2>1 DEF Leaves
    <2>2. ASSUME NEW i \in 1..Len(s), s[i].evb = t
          PROVE  LeftIn(s)[t] \in Nat
      <3>1. i \in 0..Len(s)
        BY <1>3
      <3> QED
        BY <1>1, <1>2, <2>2, <3>1 DEF Leaves, Ends
    <2> QED
      BY <2>1, <2>2
  <1>5. LeftIn(s) = [t \in Timers |-> LeftIn(s)[t]]
    BY DEF LeftIn
  <1> HIDE DEF LeftIn
  <1> QED
    BY <1>4, <1>5

LEMMA LeftType ==
  ASSUME TypeOK
  PROVE  left \in [Timers -> Nat] /\ Uncharged \in Nat
  <1>1. left \in [Timers -> Nat]
    BY TypeParts, LeftIs, LeftNat
  <1>2. Total(forks) \in Nat
    BY TypeParts, TotalNat
  <1> QED
    BY <1>1, <1>2, TypeParts, UnchargedIs

\* The timers the list has that end before n ticks are its first ones.
LEMMA FirstOnes ==
  ASSUME TypeOK, NEW n \in Nat, NEW p, Ends(dlr, p)
  PROVE  LET k == Cardinality({i \in DOMAIN dlr : SumTo(i) < n})
             l == Cardinality({i \in DOMAIN dlr : SumTo(i) <= n})
         IN  /\ k \in 0..Len(dlr) /\ l \in 0..Len(dlr)
             /\ \A i \in 1..Len(dlr) : p[i] < n <=> i <= k
             /\ \A i \in 1..Len(dlr) : p[i] <= n <=> i <= l
             /\ SumTo(k) = p[k]
             /\ l < Len(dlr) => SumTo(l + 1) = p[l + 1]
  <1> DEFINE m == Len(dlr)
             A == {i \in DOMAIN dlr : SumTo(i) < n}
             B == {i \in DOMAIN dlr : SumTo(i) <= n}
             k == Cardinality(A)
             l == Cardinality(B)
  <1>1. IsList(dlr)
    BY TypeParts
  <1>2. m \in Nat /\ DOMAIN dlr = 1..m
    BY <1>1, ListItems
  <1>3. \A i \in 0..m : SumTo(i) = p[i]
    <2> SUFFICES ASSUME NEW i \in 0..m PROVE SumTo(i) = p[i]
      OBVIOUS
    <2>1. SumTo(i) = Deltas(dlr, i)
      BY DEF SumTo, Deltas
    <2> QED
      BY <1>1, <2>1, DeltasAddUp
  <1>4. \A i, j \in 0..m : i <= j => p[i] <= p[j]
    BY <1>1, EndsGrow
  <1>5. \A i \in 0..m : p[i] \in Nat
    BY DEF Ends
  <1>6. \A i \in 1..m : i \in 0..m
    BY <1>2
  <1>7. /\ A \in SUBSET (1..m) /\ \A i \in 1..m : i \in A <=> p[i] < n
        /\ B \in SUBSET (1..m) /\ \A i \in 1..m : i \in B <=> p[i] <= n
    BY <1>2, <1>3, <1>6
  <1> HIDE DEF A, B
  <1>8. \A i, j \in 1..m : i <= j /\ j \in A => i \in A
    BY <1>4, <1>5, <1>6, <1>7
  <1>9. \A i, j \in 1..m : i <= j /\ j \in B => i \in B
    BY <1>4, <1>5, <1>6, <1>7
  <1> HIDE DEF m
  <1>10. k \in 0..m /\ \A i \in 1..m : i \in A <=> i <= k
    BY <1>2, <1>7, <1>8, Prefix
  <1>11. l \in 0..m /\ \A i \in 1..m : i \in B <=> i <= l
    BY <1>2, <1>7, <1>9, Prefix
  <1>12. l < m => l + 1 \in 0..m
    BY <1>2, <1>11
  <1> HIDE DEF k, l
  <1>13. /\ k \in 0..m /\ l \in 0..m
         /\ \A i \in 1..m : p[i] < n <=> i <= k
         /\ \A i \in 1..m : p[i] <= n <=> i <= l
         /\ SumTo(k) = p[k]
         /\ l < m => SumTo(l + 1) = p[l + 1]
    BY <1>3, <1>7, <1>10, <1>11, <1>12
  <1> QED
    BY <1>13 DEF k, l, A, B, m

\* ADELAY sets a timer, and counts down to its end if it is the first.
LEMMA adelayStep ==
  ASSUME TimerAssumption, TimerInv, NEW t \in Timers, NEW ticks \in Delays, adelay(t, ticks)
  PROVE  TimerInv' /\ Down!Set(t)
  <1> DEFINE n == IF ticks = 0 THEN 1 ELSE ticks
             K == Cardinality({i \in DOMAIN dlr : SumTo(i) < n})
  <1>1. /\ ~changed /\ left[t] = 0 /\ count(n) /\ UNCHANGED <<forks, changed>>
        /\ owed' = [owed EXCEPT ![t] = IF n > Uncharged THEN n - Uncharged ELSE 0]
    BY DEF adelay
  <1>2. dlr' = Inserted(dlr, K, t, n - SumTo(K))
    BY DEF adelay, Inserted
  <1>3. n \in Nat /\ n > 0 /\ n <= Longest /\ Longest \in Nat
    <2>1. ticks \in Nat /\ ticks < Longest /\ Longest \in Nat /\ Longest # 0
      BY DEF TimerAssumption
    <2> QED
      BY <2>1
  <1>4. TypeOK /\ IsList(dlr) /\ Armed /\ Within /\ Owing
    BY TypeParts DEF TimerInv
  <1>5. PICK p : Ends(dlr, p)
    BY <1>4, EndsExist
  <1> HIDE DEF n
  <1>6. PICK k \in 0..Len(dlr) : /\ \A i \in 1..Len(dlr) : p[i] < n <=> i <= k
                                 /\ dlr' = Inserted(dlr, k, t, n - p[k])
    <2>1. /\ K \in 0..Len(dlr) /\ \A i \in 1..Len(dlr) : p[i] < n <=> i <= K
          /\ SumTo(K) = p[K]
      BY <1>3, <1>4, <1>5, FirstOnes
    <2> HIDE DEF K
    <2> QED
      BY <1>2, <2>1
  <1>7. \A i \in 1..Len(dlr) : dlr[i].evb # t
    <2>1. Leaves(dlr, p, left)
      BY <1>4, <1>5, LeftIs, LeftLeaves
    <2>2. \A i \in 1..Len(dlr) : p[i] \in Nat /\ p[i] > 0
      BY <1>4, <1>5, EndsGrow
    <2> QED
      BY <1>1, <2>1, <2>2 DEF Leaves
  <1>8. /\ IsList(dlr') /\ dlr' # <<>>
        /\ dlr'[1].e_parm = IF k = 0 THEN n ELSE dlr[1].e_parm
        /\ \A u \in Timers : LeftIn(dlr')[u] = IF u = t THEN n ELSE LeftIn(dlr)[u]
    <2> DEFINE r == Inserted(dlr, k, t, n - p[k])
    <2>1. /\ IsList(r) /\ r # <<>>
          /\ r[1].e_parm = IF k = 0 THEN n ELSE dlr[1].e_parm
          /\ \A u \in Timers : LeftIn(r)[u] = IF u = t THEN n ELSE LeftIn(dlr)[u]
      BY <1>3, <1>4, <1>5, <1>6, <1>7, InsertDoes
    <2> HIDE DEF r
    <2>2. dlr' = r
      BY <1>6 DEF r
    <2> QED
      BY <2>1, <2>2
  <1>9. /\ left \in [Timers -> Nat] /\ left' \in [Timers -> Nat] /\ Uncharged \in Nat
        /\ \A u \in Timers : left'[u] = IF u = t THEN n ELSE left[u]
    BY <1>4, <1>8, LeftIs, LeftNat, LeftType
  <1>10. /\ CMP_TICK' \in Nat /\ NUM_TICK' \in Nat /\ CMP_TICK' > 0 /\ CMP_TICK' <= n
         /\ CMP_TICK > 0 => CMP_TICK' <= CMP_TICK
         /\ Uncharged' = Uncharged
    <2>1. CMP_TICK \in Nat /\ NUM_TICK \in Nat
      BY <1>4, TypeParts
    <2>2. CASE CMP_TICK > 0
      <3>1. CMP_TICK' = Least(n, CMP_TICK) /\ NUM_TICK' = NUM_TICK
        BY <1>1, <2>2 DEF count
      <3>2. /\ CMP_TICK' \in Nat /\ CMP_TICK' > 0 /\ CMP_TICK' <= n /\ CMP_TICK' <= CMP_TICK
        BY <1>3, <2>1, <2>2, <3>1 DEF Least
      <3> QED
        BY <1>1, <2>1, <2>2, <3>1, <3>2, UnchargedIs
    <2>3. CASE ~(CMP_TICK > 0)
      <3>1. CMP_TICK' = n /\ NUM_TICK' = 0
        BY <1>1, <2>3 DEF count
      <3> QED
        BY <1>1, <1>3, <2>1, <2>3, <3>1, UnchargedIs
    <2> QED
      BY <2>2, <2>3
  <1>11. /\ owed' \in [Timers -> Nat]
         /\ owed'[t] = IF n > Uncharged THEN n - Uncharged ELSE 0
         /\ \A u \in Timers : u # t => owed'[u] = owed[u]
    <2> DEFINE x == IF n > Uncharged THEN n - Uncharged ELSE 0
    <2>1. x \in Nat
      BY <1>3, <1>9
    <2> HIDE DEF x
    <2>2. owed' = [owed EXCEPT ![t] = x] /\ owed \in [Timers -> Nat]
      BY <1>1, <1>4, TypeParts DEF x
    <2>3. owed' \in [Timers -> Nat] /\ owed'[t] = x /\ \A u \in Timers : u # t => owed'[u] = owed[u]
      BY <2>1, <2>2
    <2> QED
      BY <2>3 DEF x
  <1>12. TypeOK'
    BY <1>1, <1>4, <1>8, <1>10, <1>11, TypeParts, TypeNext
  <1>13. Armed'
    <2> SUFFICES ASSUME ~changed', forks' = <<>>
                 PROVE  CMP_TICK' > 0 /\ CMP_TICK' <= dlr'[1].e_parm
      BY DEF Armed
    <2>1. CASE k = 0
      BY <1>8, <1>10, <2>1
    <2>2. CASE k # 0
      <3>1. dlr # <<>> /\ dlr'[1].e_parm = dlr[1].e_parm /\ 1 \in 1..Len(dlr)
        BY <1>4, <1>8, <2>2, ListItems
      <3>2. CMP_TICK > 0 /\ CMP_TICK <= dlr[1].e_parm /\ dlr[1].e_parm \in Nat /\ CMP_TICK \in Nat
        BY <1>1, <1>4, <3>1, TypeParts, ListItems DEF Armed
      <3> QED
        BY <1>10, <3>1, <3>2
    <2> QED
      BY <2>1, <2>2
  <1>14. Within'
    BY <1>3, <1>4, <1>9 DEF Within
  <1>15. Owing'
    <2> SUFFICES ASSUME NEW u \in Timers, owed'[u] > 0
                 PROVE  owed'[u] + Uncharged <= left'[u]
      BY <1>10 DEF Owing
    <2>1. CASE u = t
      BY <1>3, <1>9, <1>11, <2>1
    <2>2. CASE u # t
      BY <1>4, <1>9, <1>11, <2>2 DEF Owing
    <2> QED
      BY <2>1, <2>2
  <1>16. Down!Set(t)
    <2>1. left'[t] = n
      BY <1>9
    <2>2. left' = [left EXCEPT ![t] = left'[t]]
      BY <1>9, <2>1
    <2> QED
      BY <1>1, <1>3, <2>1, <2>2 DEF Down!Set
  <1> QED
    BY <1>12, <1>13, <1>14, <1>15, <1>16 DEF TimerInv

\* acancel takes a timer off, and no other time changes.
LEMMA takeoffStep ==
  ASSUME TimerAssumption, TimerInv, NEW t \in Timers, takeoff(t)
  PROVE  TimerInv' /\ Down!Cancel(t)
  <1>1. TypeOK /\ IsList(dlr) /\ Armed /\ Within /\ Owing
    BY TypeParts DEF TimerInv
  <1>2. /\ ~changed /\ UNCHANGED <<CMP_TICK, NUM_TICK, forks, changed>>
        /\ owed' = [owed EXCEPT ![t] = 0]
    BY DEF takeoff
  <1>3. PICK i \in 1..Len(dlr) : dlr[i].evb = t /\ dlr' = Removed(dlr, i)
    BY <1>1, ListItems DEF takeoff, Removed
  <1>4. PICK p : Ends(dlr, p)
    BY <1>1, EndsExist
  <1>5. /\ IsList(dlr')
        /\ dlr' # <<>> => dlr # <<>> /\ dlr'[1].e_parm >= dlr[1].e_parm
        /\ \A u \in Timers : LeftIn(dlr')[u] = IF u = t THEN 0 ELSE LeftIn(dlr)[u]
    <2> DEFINE r == Removed(dlr, i)
    <2>1. /\ IsList(r)
          /\ r # <<>> => dlr # <<>> /\ r[1].e_parm >= dlr[1].e_parm
          /\ \A u \in Timers : LeftIn(r)[u] = IF u = dlr[i].evb THEN 0 ELSE LeftIn(dlr)[u]
      BY <1>1, <1>4, TakeoffDoes
    <2> HIDE DEF r
    <2>2. dlr' = r
      BY <1>3 DEF r
    <2> QED
      BY <1>3, <2>1, <2>2
  <1>6. /\ left \in [Timers -> Nat] /\ left' \in [Timers -> Nat]
        /\ \A u \in Timers : left'[u] = IF u = t THEN 0 ELSE left[u]
    BY <1>1, <1>5, LeftIs, LeftNat, LeftType
  <1>7. left[t] > 0
    <2>1. Leaves(dlr, p, left)
      BY <1>1, <1>4, LeftIs, LeftLeaves
    <2>2. \A j \in 1..Len(dlr) : p[j] \in Nat /\ p[j] > 0
      BY <1>1, <1>4, EndsGrow
    <2> QED
      BY <1>3, <2>1, <2>2 DEF Leaves
  <1>8. /\ owed' \in [Timers -> Nat] /\ owed'[t] = 0
        /\ \A u \in Timers : u # t => owed'[u] = owed[u]
    BY <1>1, <1>2, TypeParts
  <1>9. Uncharged' = Uncharged
    BY <1>2, UnchargedIs
  <1>10. TypeOK'
    BY <1>1, <1>2, <1>5, <1>8, TypeParts, TypeNext
  <1>11. Armed'
    <2> SUFFICES ASSUME dlr' # <<>>, ~changed', forks' = <<>>
                 PROVE  CMP_TICK' > 0 /\ CMP_TICK' <= dlr'[1].e_parm
      BY DEF Armed
    <2>1. CMP_TICK > 0 /\ CMP_TICK <= dlr[1].e_parm
      BY <1>1, <1>2, <1>5 DEF Armed
    <2>2. dlr[1].e_parm \in Nat /\ dlr'[1].e_parm \in Nat /\ CMP_TICK \in Nat
      <3>1. 1 \in 1..Len(dlr) /\ 1 \in 1..Len(dlr')
        <4>1. dlr # <<>> /\ dlr' # <<>> /\ dlr \in Seq(TimerEntries) /\ dlr' \in Seq(TimerEntries)
          BY <1>1, <1>5 DEF IsList
        <4> QED
          BY <4>1
      <3> QED
        BY <1>1, <1>5, <3>1, ListItems, TypeParts
    <2> QED
      BY <1>2, <1>5, <2>1, <2>2
  <1>12. Within' /\ Owing'
    BY <1>1, <1>6, <1>8, <1>9 DEF Within, Owing, TimerAssumption
  <1>13. Down!Cancel(t)
    <2>1. left' = [left EXCEPT ![t] = 0]
      BY <1>6
    <2> QED
      BY <1>7, <2>1 DEF Down!Cancel
  <1> QED
    BY <1>10, <1>11, <1>12, <1>13 DEF TimerInv

\* A tick is counted, or forks what has been counted.
LEMMA TickStep ==
  ASSUME TimerAssumption, TimerInv, Tick
  PROVE  TimerInv' /\ left' = left
  <1>1. TypeOK /\ IsList(dlr) /\ Armed /\ Within /\ Owing
    BY TypeParts DEF TimerInv
  <1>2. /\ CMP_TICK \in Nat /\ NUM_TICK \in Nat /\ Len(forks) \in Nat /\ Len(forks) <= Room
        /\ forks \in Seq(Nat \ {0}) /\ forks \in Seq(Nat)
        /\ changed \in BOOLEAN /\ owed \in [Timers -> Nat] /\ Room \in Nat
    BY <1>1, TypeParts DEF TimerAssumption
  <1>3. dlr' = dlr /\ changed' = changed /\ left' = left
    <2>1. dlr' = dlr /\ changed' = changed
      BY DEF Tick, tikcod, clockvars
    <2> QED
      BY <2>1, LeftIs
  <1>4. /\ CMP_TICK' \in Nat /\ NUM_TICK' \in Nat /\ forks' \in Seq(Nat \ {0})
        /\ Len(forks') <= Room
        /\ Uncharged' \in {Uncharged, Uncharged + 1}
        /\ forks = forks' \/ forks' # <<>>
        /\ CMP_TICK > 0 => (CMP_TICK' > 0 /\ CMP_TICK' <= CMP_TICK) \/ forks' # <<>>
    <2>1. Total(forks) \in Nat
      BY <1>2, TotalNat
    <2>2. CASE CMP_TICK = 0 /\ UNCHANGED clockvars
      BY <1>2, <2>1, <2>2, UnchargedIs DEF clockvars
    <2>3. CASE CMP_TICK > 1 /\ NUM_TICK' = NUM_TICK + 1 /\ CMP_TICK' = CMP_TICK - 1 /\ UNCHANGED forks
      BY <1>2, <2>1, <2>3, UnchargedIs
    <2>4. CASE /\ CMP_TICK = 1 /\ CMP_TICK' = 0 /\ NUM_TICK' = NUM_TICK + 1
               /\ Len(forks) < Room /\ forks' = Append(forks, NUM_TICK + 1)
      <3>1. NUM_TICK + 1 \in Nat \ {0} /\ NUM_TICK + 1 \in Nat
        BY <1>2
      <3>2. forks' \in Seq(Nat \ {0}) /\ forks' # <<>> /\ Len(forks') = Len(forks) + 1
        BY <1>2, <2>4, <3>1, AppendProperties
      <3>3. Total(forks') = Total(forks) + (NUM_TICK + 1)
        BY <1>2, <2>4, <3>1, TotalAppend
      <3> QED
        BY <1>2, <2>1, <2>4, <3>2, <3>3, UnchargedIs
    <2>5. CASE /\ CMP_TICK = 1 /\ NUM_TICK' = NUM_TICK + 1 /\ UNCHANGED <<CMP_TICK, forks>>
      BY <1>2, <2>1, <2>5, UnchargedIs
    <2> QED
      BY <2>2, <2>3, <2>4, <2>5 DEF Tick, tikcod
  <1>5. /\ owed' \in [Timers -> Nat]
        /\ \A t \in Timers : owed'[t] = IF owed[t] > 0 THEN owed[t] - 1 ELSE 0
    <2>1. owed' = [t \in Timers |-> IF owed[t] > 0 THEN owed[t] - 1 ELSE 0]
      BY DEF Tick
    <2>2. \A t \in Timers : owed[t] \in Nat
      BY <1>2
    <2> QED
      BY <2>1, <2>2
  <1>6. TypeOK'
    BY <1>1, <1>2, <1>3, <1>4, <1>5, TypeNext
  <1>7. Armed'
    <2> SUFFICES ASSUME dlr # <<>>, ~changed, forks' = <<>>
                 PROVE  CMP_TICK' > 0 /\ CMP_TICK' <= dlr[1].e_parm
      BY <1>3 DEF Armed
    <2>1. CMP_TICK > 0 /\ CMP_TICK <= dlr[1].e_parm
      BY <1>1, <1>4 DEF Armed
    <2>2. dlr[1].e_parm \in Nat
      <3>1. 1 \in 1..Len(dlr)
        BY <1>1 DEF IsList
      <3> QED
        BY <1>1, <3>1, ListItems
    <2> QED
      BY <1>2, <1>4, <2>1, <2>2
  <1>8. Within'
    BY <1>1, <1>3 DEF Within
  <1>9. Owing'
    <2> SUFFICES ASSUME NEW t \in Timers, owed'[t] > 0
                 PROVE  owed'[t] + Uncharged' <= left[t]
      BY <1>3 DEF Owing
    <2>1. owed[t] \in Nat /\ left[t] \in Nat /\ Uncharged \in Nat
      BY <1>1, <1>2, LeftType
    <2>2. owed[t] > 0 /\ owed'[t] = owed[t] - 1
      BY <1>5, <2>1
    <2>3. owed[t] + Uncharged <= left[t]
      BY <1>1, <2>2 DEF Owing
    <2> QED
      BY <1>4, <2>1, <2>2, <2>3
  <1> QED
    BY <1>3, <1>6, <1>7, <1>8, <1>9 DEF TimerInv

\* tchange takes what was counted off every timer.
LEMMA tchangeDoes ==
  ASSUME TimerAssumption, TimerInv, tchange
  PROVE  \E c \in Nat :
           /\ c > 0 /\ c <= Uncharged /\ Uncharged' = Uncharged - c
           /\ IsList(dlr') /\ forks' \in Seq(Nat \ {0}) /\ Len(forks') <= Room
           /\ \A t \in Timers : left'[t] = IF left[t] > c THEN left[t] - c ELSE 0
  <1>1. TypeOK /\ IsList(dlr)
    BY TypeParts DEF TimerInv
  <1>2. /\ CMP_TICK \in Nat /\ NUM_TICK \in Nat /\ Len(forks) \in Nat /\ Len(forks) <= Room
        /\ forks \in Seq(Nat \ {0}) /\ forks \in Seq(Nat) /\ Room \in Nat
    BY <1>1, TypeParts DEF TimerAssumption
  <1>3. /\ forks # <<>> /\ dlr' = charge(Head(forks)) /\ forks' = Tail(forks)
        /\ UNCHANGED <<CMP_TICK, NUM_TICK>>
    BY DEF tchange
  <1>4. PICK c \in Nat : c = Head(forks) /\ c > 0
    <2>1. Head(forks) \in Nat \ {0}
      BY <1>2, <1>3, HeadTailProperties
    <2> QED
      BY <2>1
  <1>5. PICK p : Ends(dlr, p)
    BY <1>1, EndsExist
  <1>6. PICK k \in 0..Len(dlr) : /\ \A i \in 1..Len(dlr) : p[i] <= c <=> i <= k
                                 /\ dlr' = RestOf(dlr, k, SumTo(k + 1) - c)
                                 /\ k < Len(dlr) => SumTo(k + 1) = p[k + 1]
    <2> DEFINE K == Cardinality({i \in DOMAIN dlr : SumTo(i) <= c})
    <2>1. /\ K \in 0..Len(dlr) /\ \A i \in 1..Len(dlr) : p[i] <= c <=> i <= K
          /\ K < Len(dlr) => SumTo(K + 1) = p[K + 1]
      BY <1>1, <1>5, FirstOnes
    <2>2. dlr' = RestOf(dlr, K, SumTo(K + 1) - c)
      BY <1>3, <1>4 DEF charge, RestOf
    <2> HIDE DEF K
    <2> QED
      BY <2>1, <2>2
  <1>7. dlr' = RestOf(dlr, k, p[k + 1] - c)
    <2>1. CASE k < Len(dlr)
      BY <1>6, <2>1
    <2>2. CASE k = Len(dlr)
      <3>1. Len(dlr) \in Nat
        BY <1>1, ListItems
      <3>2. SubSeq(dlr, k + 1, Len(dlr)) = <<>>
        BY <2>2, <3>1, SubSeqEmpty
      <3> QED
        BY <1>6, <3>2 DEF RestOf
    <2>3. k < Len(dlr) \/ k = Len(dlr)
      BY <1>1, ListItems
    <2> QED
      BY <2>1, <2>2, <2>3
  <1>8. /\ IsList(dlr')
        /\ \A u \in Timers : LeftIn(dlr')[u] = IF LeftIn(dlr)[u] > c THEN LeftIn(dlr)[u] - c ELSE 0
    <2> DEFINE r == RestOf(dlr, k, p[k + 1] - c)
    <2>1. /\ IsList(r)
          /\ \A u \in Timers : LeftIn(r)[u] = IF LeftIn(dlr)[u] > c THEN LeftIn(dlr)[u] - c ELSE 0
      BY <1>1, <1>5, <1>6, ChargeDoes
    <2> HIDE DEF r
    <2>2. dlr' = r
      BY <1>7 DEF r
    <2> QED
      BY <2>1, <2>2
  <1>9. /\ Total(forks) = c + Total(forks') /\ Total(forks') \in Nat
        /\ forks' \in Seq(Nat \ {0}) /\ Len(forks') = Len(forks) - 1
    <2>1. /\ Tail(forks) \in Seq(Nat \ {0}) /\ Len(Tail(forks)) = Len(forks) - 1
      BY <1>2, <1>3, HeadTailProperties
    <2>2. /\ Total(forks) = forks[1] + Total(Tail(forks)) /\ Tail(forks) \in Seq(Nat)
          /\ Head(forks) = forks[1]
      BY <1>2, <1>3, TotalTail
    <2>3. Total(Tail(forks)) \in Nat
      BY <2>2, TotalNat
    <2> QED
      BY <1>3, <1>4, <2>1, <2>2, <2>3
  <1>10. c <= Uncharged /\ Uncharged' = Uncharged - c
    BY <1>2, <1>3, <1>9, UnchargedIs
  <1>11. \A t \in Timers : left'[t] = IF left[t] > c THEN left[t] - c ELSE 0
    BY <1>8, LeftIs
  <1>12. Len(forks') <= Room
    BY <1>2, <1>9
  <1> QED
    BY <1>4, <1>8, <1>9, <1>10, <1>11, <1>12

LEMMA tchangeStep ==
  ASSUME TimerAssumption, TimerInv, tchange
  PROVE  /\ TimerInv'
         /\ \E c \in 1..Longest : Down!Elapse(c)
         /\ \A t \in Timers : left[t] > 0 /\ left'[t] = 0 => owed[t] = 0
  <1>1. TypeOK /\ Within /\ Owing
    BY DEF TimerInv
  <1>2. PICK c \in Nat :
          /\ c > 0 /\ c <= Uncharged /\ Uncharged' = Uncharged - c
          /\ IsList(dlr') /\ forks' \in Seq(Nat \ {0}) /\ Len(forks') <= Room
          /\ \A t \in Timers : left'[t] = IF left[t] > c THEN left[t] - c ELSE 0
    BY tchangeDoes
  <1>3. left \in [Timers -> Nat] /\ Uncharged \in Nat /\ owed \in [Timers -> Nat]
    BY <1>1, LeftType, TypeParts
  <1>4. left' \in [Timers -> Nat]
    BY <1>2, LeftIs, LeftNat
  <1>5. /\ changed' /\ UNCHANGED <<CMP_TICK, NUM_TICK>>
        /\ owed' = [t \in Timers |-> IF left'[t] = 0 THEN 0 ELSE owed[t]]
    BY DEF tchange
  <1>6. /\ owed' \in [Timers -> Nat]
        /\ \A t \in Timers : owed'[t] = IF left'[t] = 0 THEN 0 ELSE owed[t]
    <2>1. \A t \in Timers : owed[t] \in Nat
      BY <1>3
    <2> QED
      BY <1>5, <2>1
  <1>7. TypeOK'
    <2>1. changed' \in BOOLEAN
      BY DEF tchange
    <2> QED
      BY <1>1, <1>2, <1>5, <1>6, <2>1, TypeParts, TypeNext
  <1>8. Armed'
    BY <1>5 DEF Armed
  <1>9. Longest \in Nat /\ Longest > 0
    BY DEF TimerAssumption
  <1>10. \A t \in Timers : left[t] \in Nat /\ left'[t] \in Nat /\ left[t] <= Longest
    BY <1>1, <1>3, <1>4 DEF Within
  <1>11. Within'
    <2> SUFFICES ASSUME NEW t \in Timers PROVE left'[t] <= Longest
      BY DEF Within
    <2>1. left'[t] = (IF left[t] > c THEN left[t] - c ELSE 0) /\ left[t] \in Nat /\ left[t] <= Longest
      BY <1>2, <1>10
    <2> QED
      BY <1>9, <2>1
  <1>12. Owing'
    <2> SUFFICES ASSUME NEW t \in Timers, owed'[t] > 0
                 PROVE  owed'[t] + Uncharged' <= left'[t]
      BY DEF Owing
    <2>1. owed'[t] = owed[t] /\ left'[t] # 0
      BY <1>6
    <2>2. left'[t] = left[t] - c /\ owed[t] + Uncharged <= left[t]
      BY <1>1, <1>2, <2>1 DEF Owing
    <2>3. owed[t] \in Nat /\ left[t] \in Nat
      BY <1>3
    <2> QED
      BY <1>2, <1>3, <2>1, <2>2, <2>3
  <1>13. ASSUME NEW t \in Timers, left[t] > 0, left'[t] = 0
         PROVE  owed[t] = 0
    <2>1. owed[t] \in Nat /\ left[t] \in Nat
      BY <1>3
    <2>2. left[t] <= c
      BY <1>2, <1>13, <2>1
    <2>3. ~(owed[t] > 0)
      BY <1>1, <1>2, <1>3, <2>1, <2>2 DEF Owing
    <2> QED
      BY <2>1, <2>3
  <1>14. \E e \in 1..Longest : Down!Elapse(e)
    <2> DEFINE e == IF c > Longest THEN Longest ELSE c
    <2>1. e \in 1..Longest
      BY <1>2, <1>9
    <2>2. ASSUME NEW t \in Timers
          PROVE  left'[t] = IF left[t] > e THEN left[t] - e ELSE 0
      <3>1. left'[t] = (IF left[t] > c THEN left[t] - c ELSE 0) /\ left[t] \in Nat /\ left[t] <= Longest
        BY <1>2, <1>10
      <3> QED
        BY <1>9, <3>1
    <2> HIDE DEF e
    <2>3. left' = [t \in Timers |-> IF left[t] > e THEN left[t] - e ELSE 0]
      BY <1>4, <2>2
    <2>4. Down!Elapse(e)
      BY <2>3 DEF Down!Elapse
    <2> QED
      BY <2>1, <2>4
  <1> QED
    BY <1>7, <1>8, <1>11, <1>12, <1>13, <1>14 DEF TimerInv

\* then it counts down to the end of the first.
LEMMA rearmStep ==
  ASSUME TimerAssumption, TimerInv, rearm
  PROVE  TimerInv' /\ left' = left
  <1>1. TypeOK /\ IsList(dlr) /\ Within /\ Owing
    BY TypeParts DEF TimerInv
  <1>2. /\ ~changed' /\ UNCHANGED <<dlr, forks, owed>>
        /\ IF dlr = <<>> THEN UNCHANGED <<CMP_TICK, NUM_TICK>>
           ELSE CMP_TICK' = dlr[1].e_parm /\ NUM_TICK' = 0
    BY DEF rearm
  <1>3. /\ CMP_TICK \in Nat /\ NUM_TICK \in Nat /\ forks \in Seq(Nat)
    BY <1>1, TypeParts
  <1>4. left' = left
    BY <1>2, LeftIs
  <1>5. dlr # <<>> => dlr[1].e_parm \in Nat /\ dlr[1].e_parm > 0
    <2>1. dlr # <<>> => 1 \in 1..Len(dlr)
      BY <1>1 DEF IsList
    <2> QED
      BY <1>1, <2>1, ListItems DEF IsList
  <1>6. CMP_TICK' \in Nat /\ NUM_TICK' \in Nat
    BY <1>2, <1>3, <1>5
  <1>7. Uncharged' <= Uncharged /\ Uncharged' \in Nat /\ Uncharged \in Nat
    <2>1. Total(forks) \in Nat /\ Total(forks') = Total(forks)
      BY <1>2, <1>3, TotalNat
    <2> QED
      BY <1>2, <1>3, <1>6, <2>1, UnchargedIs
  <1>8. TypeOK'
    <2>1. changed' \in BOOLEAN
      BY DEF rearm
    <2> QED
      BY <1>1, <1>2, <1>6, <2>1, TypeParts, TypeNext
  <1>9. Armed'
    BY <1>2, <1>5 DEF Armed
  <1>10. Within' /\ Owing'
    <2>1. left \in [Timers -> Nat] /\ owed \in [Timers -> Nat]
      BY <1>1, LeftType, TypeParts
    <2>2. Within'
      BY <1>1, <1>4 DEF Within
    <2>3. Owing'
      <3> SUFFICES ASSUME NEW t \in Timers, owed[t] > 0 PROVE owed[t] + Uncharged' <= left[t]
        BY <1>2, <1>4 DEF Owing
      <3>1. owed[t] + Uncharged <= left[t] /\ owed[t] \in Nat /\ left[t] \in Nat
        BY <1>1, <2>1 DEF Owing
      <3> QED
        BY <1>7, <3>1
    <2> QED
      BY <2>2, <2>3
  <1> QED
    BY <1>4, <1>8, <1>9, <1>10 DEF TimerInv

-----------------------------------------------------------------------------
(* The theorems.                                                           *)

LEMMA TimerStart ==
  ASSUME TimerAssumption, TimerInit
  PROVE  TimerInv /\ Down!CountInit
  <1>1. /\ CMP_TICK = 0 /\ NUM_TICK = 0 /\ dlr = <<>> /\ forks = <<>> /\ ~changed
        /\ owed = [t \in Timers |-> 0]
    BY DEF TimerInit
  <1>2. left = [t \in Timers |-> 0]
    <2>1. DOMAIN dlr = {}
      BY <1>1
    <2>2. \A t \in Timers : {i \in DOMAIN dlr : dlr[i].evb = t} = {}
      BY <2>1
    <2> QED
      BY <2>2 DEF left
  <1>3. TypeOK
    <2>1. dlr \in Seq([evb : Timers, e_parm : Nat]) /\ DOMAIN dlr = {}
      BY <1>1
    <2>2. forks \in Seq(Nat \ {0}) /\ Len(forks) <= Room
      BY <1>1 DEF TimerAssumption
    <2>3. owed \in [Timers -> Nat] /\ CMP_TICK \in Nat /\ NUM_TICK \in Nat
      BY <1>1
    <2>4. changed \in BOOLEAN
      BY DEF TimerInit
    <2> QED
      BY <1>1, <2>1, <2>2, <2>3, <2>4 DEF TypeOK
  <1> QED
    BY <1>1, <1>2, <1>3 DEF TimerInv, Armed, Within, Owing, TimerAssumption, Down!CountInit

LEMMA TimerStep ==
  ASSUME TimerAssumption, TimerInv, [TimerNext]_timervars
  PROVE  /\ TimerInv'
         /\ [Down!CountNext]_left
         /\ \A t \in Timers : tchange /\ left[t] > 0 /\ left'[t] = 0 => owed[t] = 0
  <1>1. ASSUME NEW t \in Timers, (\E n \in Delays : adelay(t, n)) \/ takeoff(t)
        PROVE  TimerInv' /\ Down!CountNext
    BY <1>1, adelayStep, takeoffStep DEF Down!CountNext
  <1>2. CASE Tick
    BY <1>2, TickStep
  <1>3. CASE tchange
    BY <1>3, tchangeStep DEF Down!CountNext
  <1>4. CASE rearm
    BY <1>4, rearmStep
  <1>5. CASE UNCHANGED timervars
    <2>1. UNCHANGED <<CMP_TICK, NUM_TICK, dlr, forks, changed, owed>>
      BY <1>5 DEF timervars, clockvars
    <2>2. left' = left /\ Uncharged' = Uncharged
      BY <2>1, LeftIs, UnchargedIs
    <2>3. TypeOK' /\ Armed'
      BY <2>1 DEF TimerInv, TypeOK, Armed
    <2> QED
      BY <2>1, <2>2, <2>3 DEF TimerInv, Within, Owing
  <1>6. TimerInv' /\ [Down!CountNext]_left
    BY <1>1, <1>2, <1>3, <1>4, <1>5 DEF TimerNext
  <1>7. \A t \in Timers : tchange /\ left[t] > 0 /\ left'[t] = 0 => owed[t] = 0
    BY tchangeStep
  <1> QED
    BY <1>6, <1>7

\* The invariant of the timers: the delay list names each timer once, its first has
\* time left, the countdown never ends later than that, and the ticks a timer may
\* still ask for are not among those counted and not charged.
THEOREM TimerInvariant ==
  ASSUME TimerAssumption
  PROVE  TimerSpec => []TimerInv
  <1>1. TimerInit => TimerInv
    BY TimerStart
  <1>2. TimerInv /\ [TimerNext]_timervars => TimerInv'
    BY TimerStep
  <1> QED
    BY <1>1, <1>2, PTL DEF TimerSpec

\* No timer is overslept: while there is one, the tick interrupt counts down to no
\* later than the end of the first, or tchange is on its way (ADELAY in
\* gemasync.c, tchange in gemflag.c, tikcod in ratrbp.S).
THEOREM AlwaysArmed ==
  ASSUME TimerAssumption
  PROVE  TimerSpec => [](TypeOK /\ Armed)
  <1>1. TimerInv => TypeOK /\ Armed
    BY DEF TimerInv
  <1> QED
    BY <1>1, TimerInvariant, PTL

\* Each timer counts down on its own: the deltas of the list are the times the
\* timers have left, whatever is inserted, taken off or charged.
THEOREM TimersRefine ==
  ASSUME TimerAssumption
  PROVE  TimerSpec => TimersCountDown
  <1>1. TimerInit => Down!CountInit
    BY TimerStart
  <1>2. TimerInv /\ [TimerNext]_timervars => [Down!CountNext]_left
    BY TimerStep
  <1> QED
    BY <1>1, <1>2, TimerInvariant, PTL DEF TimerSpec, TimersCountDown, Down!CountSpec

\* No timer ends earlier than by the ticks that had been counted, and not charged,
\* when it was set (gemasync.c:165).
THEOREM NeverEarly ==
  ASSUME TimerAssumption
  PROVE  TimerSpec => NotEarly
  <1>1. TimerInv /\ [TimerNext]_timervars =>
          [\A t \in Timers : tchange /\ left[t] > 0 /\ left'[t] = 0 => owed[t] = 0]_timervars
    BY TimerStep
  <1> QED
    BY <1>1, TimerInvariant, PTL DEF TimerSpec, NotEarly

-----------------------------------------------------------------------------
(* The clicks of the mouse button.                                         *)

Calls == [code : {"bchange"}, new : {UP, DOWN}, clicks : Int] \cup [code : {"mchange"}]
Reports == [code : {"bchange"}, new : {UP, DOWN}, clicks : Int]

Limit == gl_dclick + 3 * (MaxClicks - 1)

Registers ==
  /\ gl_btrue \in {UP, DOWN} /\ gl_bdesired \in {UP, DOWN}
  /\ gl_bclick \in Int /\ pushed \in Int /\ gl_bdelay \in Int
  /\ events \in Seq(Calls) /\ Len(events) <= Entries
  /\ button \in {UP, DOWN}
  /\ step \in {"idle", "amount", "b_delay", "sub", "push", "report", "true"}
  /\ dropped \in BOOLEAN /\ overtaken \in BOOLEAN
MouseTypeOK == Registers /\ wait \in [Procs -> Waits \cup {nowait}]

\* the delay never comes round to zero without a tick
Delaying ==
  ~overtaken =>
    /\ gl_bdelay = 0 \/ (gl_bclick >= 1 /\ gl_bclick <= MaxClicks /\ gl_bdelay > 0
                         /\ gl_bdelay <= gl_dclick + 3 * (gl_bclick - 1))
    /\ step \in {"b_delay", "sub"} => 0 <= pushed /\ pushed <= Limit

\* what the button will be for programs when the queue is empty
Becomes(fs, b, v) ==
  \/ (\A j \in 1..Len(fs) : fs[j].code = "mchange") /\ b = v
  \/ \E i \in 1..Len(fs) :
       /\ fs[i].code = "bchange" /\ fs[i].new = v
       /\ \A j \in 1..Len(fs) : j > i => fs[j].code = "mchange"

\* unless it is being gathered, they will see it as it is
Reported ==
  ~dropped /\ ~overtaken /\ gl_bdelay = 0 =>
    /\ step \in {"idle", "amount", "b_delay", "sub"} => Becomes(events, button, gl_btrue)
    /\ step = "true" => Becomes(events, button, gl_btrue) \/ Becomes(events, button, gl_bdesired)

ClickInv == MouseTypeOK /\ Delaying /\ Reported /\ PendingCounted

-----------------------------------------------------------------------------
(* Words, and the queue.                                                   *)

LEMMA WordIs ==
  ASSUME ClickAssumption, NEW n \in Int, -Half <= n, n < Half
  PROVE  Word(n) = n
  BY DEF Word, ClickAssumption

LEMMA BecomesLast ==
  ASSUME NEW fs \in Seq(Calls), NEW r \in Reports, NEW b
  PROVE  Append(fs, r) \in Seq(Calls) /\ Becomes(Append(fs, r), b, r.new)
  <1>1. r \in Calls /\ r.code = "bchange"
    BY DEF Calls, Reports
  <1>2. /\ Append(fs, r) \in Seq(Calls) /\ Len(Append(fs, r)) = Len(fs) + 1
        /\ Append(fs, r)[Len(fs) + 1] = r /\ Len(fs) \in Nat
    BY <1>1
  <1> QED
    BY <1>1, <1>2 DEF Becomes

LEMMA BecomesMove ==
  ASSUME NEW fs \in Seq(Calls), NEW b, NEW v, Becomes(fs, b, v)
  PROVE  LET g == Append(fs, [code |-> "mchange"])
         IN  g \in Seq(Calls) /\ Becomes(g, b, v)
  <1> DEFINE c == [code |-> "mchange"]
             g == Append(fs, c)
  <1>1. c \in Calls /\ c.code = "mchange"
    BY DEF Calls
  <1> HIDE DEF c
  <1>2. /\ g \in Seq(Calls) /\ Len(g) = Len(fs) + 1 /\ Len(fs) \in Nat
        /\ g[Len(fs) + 1] = c /\ \A i \in 1..Len(fs) : g[i] = fs[i]
    BY <1>1
  <1> HIDE DEF g
  <1>3. Becomes(g, b, v)
    BY <1>1, <1>2 DEF Becomes
  <1> QED
    BY <1>2, <1>3 DEF g, c

LEMMA BecomesTail ==
  ASSUME NEW fs \in Seq(Calls), fs # <<>>, NEW b, NEW v, Becomes(fs, b, v)
  PROVE  /\ Tail(fs) \in Seq(Calls) /\ Len(Tail(fs)) = Len(fs) - 1
         /\ Head(fs) \in Calls
         /\ Head(fs).code = "bchange" => Becomes(Tail(fs), Head(fs).new, v)
         /\ Head(fs).code = "mchange" => Becomes(Tail(fs), b, v)
  <1> DEFINE t == Tail(fs)
  <1>1. /\ t \in Seq(Calls) /\ Len(t) = Len(fs) - 1 /\ Len(fs) \in Nat /\ Len(fs) > 0
        /\ Head(fs) = fs[1] /\ fs[1] \in Calls /\ \A i \in 1..Len(t) : t[i] = fs[i + 1]
    BY HeadTailProperties, EmptySeq
  <1> HIDE DEF t
  <1>2. ASSUME NEW c, \/ fs[1].code = "bchange" /\ c = fs[1].new
                      \/ fs[1].code = "mchange" /\ c = b
        PROVE  Becomes(t, c, v)
    <2>1. CASE (\A j \in 1..Len(fs) : fs[j].code = "mchange") /\ b = v
      BY <1>1, <1>2, <2>1 DEF Becomes
    <2>2. ASSUME NEW i \in 1..Len(fs), fs[i].code = "bchange", fs[i].new = v,
                 \A j \in 1..Len(fs) : j > i => fs[j].code = "mchange"
          PROVE  Becomes(t, c, v)
      <3>1. CASE i = 1
        BY <1>1, <1>2, <2>2, <3>1 DEF Becomes
      <3>2. CASE i > 1
        <4>1. i - 1 \in 1..Len(t) /\ t[i - 1] = fs[i]
          BY <1>1, <3>2
        <4>2. \A j \in 1..Len(t) : j > i - 1 => t[j].code = "mchange"
          BY <1>1, <2>2
        <4> QED
          BY <2>2, <4>1, <4>2 DEF Becomes
      <3> QED
        BY <3>1, <3>2
    <2> QED
      BY <2>1, <2>2 DEF Becomes
  <1> QED
    BY <1>1, <1>2 DEF t

\* what is queued whole is queued last
LEMMA QueueDoes ==
  ASSUME ClickAssumption, Registers, NEW reports \in Seq(Reports), Len(reports) > 0, Queue(reports)
  PROVE  /\ events' \in Seq(Calls) /\ Len(events') <= Entries /\ dropped' \in BOOLEAN
         /\ ~dropped' => \A b : Becomes(events', b, reports[Len(reports)].new)
  <1> DEFINE room == Entries - Len(events)
             n == IF Len(reports) < room THEN Len(reports) ELSE room
             s == SubSeq(reports, 1, n)
  <1>1. /\ Len(events) \in Nat /\ Len(reports) \in Nat /\ Entries \in Nat /\ events \in Seq(Calls)
        /\ n \in Nat /\ n <= Len(reports) /\ n <= room /\ dropped \in BOOLEAN
    BY DEF MouseTypeOK, Registers, ClickAssumption
  <1>2. events' = events \o s /\ dropped' = IF n < Len(reports) THEN TRUE
                                           ELSE IF n > 0 THEN FALSE ELSE dropped
    BY DEF Queue
  <1>3. /\ s \in Seq(Reports) /\ Len(s) = n
        /\ \A i \in 1..n : s[i] = reports[i]
    BY <1>1, SubSeqProperties
  <1> HIDE DEF n, s
  <1>4. Reports \subseteq Calls
    BY DEF Reports, Calls
  <1>5. s \in Seq(Calls)
    BY <1>3, <1>4
  <1>6. /\ events' \in Seq(Calls) /\ Len(events') = Len(events) + n
        /\ \A i \in 1..n : events'[Len(events) + i] = s[i]
    <2> DEFINE fs == events
    <2>1. fs \in Seq(Calls) /\ s \in Seq(Calls) /\ Len(s) = n /\ n \in Nat
      BY <1>1, <1>3, <1>5
    <2> HIDE DEF fs
    <2>2. /\ fs \o s \in Seq(Calls) /\ Len(fs \o s) = Len(fs) + n
          /\ \A i \in 1..n : (fs \o s)[Len(fs) + i] = s[i]
      BY <2>1
    <2> QED
      BY <1>2, <2>2 DEF fs
  <1>7. ASSUME ~dropped', NEW b
        PROVE  Becomes(events', b, reports[Len(reports)].new)
    <2>1. n = Len(reports)
      BY <1>1, <1>2, <1>7
    <2>2. events'[Len(events')] = reports[Len(reports)] /\ Len(events') \in 1..Len(events')
      BY <1>1, <1>3, <1>6, <2>1
    <2>3. reports[Len(reports)].code = "bchange"
      <3>1. reports[Len(reports)] \in Reports
        BY <1>1
      <3> QED
        BY <3>1 DEF Reports
    <2> QED
      BY <1>1, <2>2, <2>3 DEF Becomes
  <1>8. Len(events') <= Entries
    BY <1>1, <1>6
  <1>9. dropped' \in BOOLEAN
    BY <1>1, <1>2
  <1> QED
    BY <1>6, <1>7, <1>8, <1>9

-----------------------------------------------------------------------------
(* Who waits for several clicks is counted.                                *)

\* the wait of p begins or ends
LEMMA WaitChanges ==
  ASSUME ClickAssumption, MouseTypeOK, NEW p \in Procs, NEW w \in Waits \cup {nowait},
         wait' = [wait EXCEPT ![p] = w], wait[p] = nowait \/ w = nowait
  PROVE  /\ wait' \in [Procs -> Waits \cup {nowait}]
         /\ Cardinality(Multi') = Cardinality(Multi) - One(wait[p]) + One(w)
         /\ Cardinality(Multi) \in Nat
         /\ Cardinality(Multi) >= One(wait[p])
         /\ One(wait[p]) \in {0, 1} /\ One(w) \in {0, 1}
  <1>1. /\ wait' \in [Procs -> Waits \cup {nowait}] /\ wait'[p] = w
        /\ \A q \in Procs : q # p => wait'[q] = wait[q]
    BY DEF MouseTypeOK
  <1>2. IsFiniteSet(Multi) /\ Multi \subseteq Procs
    BY FS_Subset DEF Multi, ClickAssumption
  <1>3. Cardinality(Multi) \in Nat
    BY <1>2, FS_CardinalityType
  <1>4. Multi' = {q \in Procs : Several(wait'[q])}
    BY DEF Multi
  <1>5. CASE Several(wait[p])
    <2>1. w = nowait /\ ~Several(w) /\ p \in Multi
      BY <1>5 DEF Several, Multi
    <2>2. Multi' = Multi \ {p}
      BY <1>1, <1>4, <2>1 DEF Multi
    <2>3. Cardinality(Multi') = Cardinality(Multi) - 1
      BY <1>2, <2>1, <2>2, FS_RemoveElement
    <2>4. Cardinality(Multi) >= 1
      BY <1>2, <1>3, <2>1, FS_EmptySet
    <2> QED
      BY <1>1, <1>3, <1>5, <2>1, <2>3, <2>4 DEF One
  <1>6. CASE ~Several(wait[p]) /\ Several(w)
    <2>1. p \notin Multi
      BY <1>6 DEF Multi
    <2>2. Multi' = Multi \cup {p}
      BY <1>1, <1>4, <1>6 DEF Multi
    <2>3. Cardinality(Multi') = Cardinality(Multi) + 1
      BY <1>2, <2>1, <2>2, FS_AddElement
    <2> QED
      BY <1>1, <1>3, <1>6, <2>3 DEF One
  <1>7. CASE ~Several(wait[p]) /\ ~Several(w)
    <2>1. Multi' = Multi
      BY <1>1, <1>4, <1>7 DEF Multi
    <2> QED
      BY <1>1, <1>3, <1>7, <2>1 DEF One
  <1> QED
    BY <1>5, <1>6, <1>7

LEMMA PendingKept ==
  ASSUME ClickAssumption
  PROVE  MouseTypeOK /\ PendingCounted /\ [ClickNext]_clickvars
           => PendingCounted' /\ wait' \in [Procs -> Waits \cup {nowait}]
  <1> SUFFICES ASSUME MouseTypeOK, PendingCounted, [ClickNext]_clickvars
               PROVE  PendingCounted' /\ wait' \in [Procs -> Waits \cup {nowait}]
    OBVIOUS
  <1>1. CASE UNCHANGED progvars
    BY <1>1 DEF progvars, PendingCounted, Multi, Several, MouseTypeOK
  <1>2. CASE ~Fault /\ bchange
    <2>1. PICK p \in Procs :
            IF wait[p] # nowait /\ downorup(button', wait[p])
            THEN /\ gl_bpend' = gl_bpend - One(wait[p])
                 /\ wait' = [wait EXCEPT ![p] = nowait]
            ELSE UNCHANGED <<gl_bpend, wait>>
      BY <1>2 DEF bchange
    <2>2. miscounted' = miscounted /\ gl_bpend = Cardinality(Multi)
      BY <1>2 DEF bchange, Fault, PendingCounted
    <2>3. CASE UNCHANGED <<gl_bpend, wait>>
      BY <2>2, <2>3 DEF PendingCounted, Multi, Several, MouseTypeOK
    <2>4. CASE gl_bpend' = gl_bpend - One(wait[p]) /\ wait' = [wait EXCEPT ![p] = nowait]
      <3>1. One(nowait) = 0
        BY DEF One, Several
      <3>2. /\ wait' \in [Procs -> Waits \cup {nowait}]
            /\ Cardinality(Multi') = Cardinality(Multi) - One(wait[p]) + One(nowait)
            /\ Cardinality(Multi) \in Nat /\ One(wait[p]) \in {0, 1}
        BY <2>4, WaitChanges
      <3> QED
        BY <2>2, <2>4, <3>1, <3>2 DEF PendingCounted
    <2> QED
      BY <2>1, <2>3, <2>4
  <1>3. ASSUME NEW p \in Procs, ~Fault, acancel(p)
        PROVE  PendingCounted' /\ wait' \in [Procs -> Waits \cup {nowait}]
    <2>1. /\ wait' = [wait EXCEPT ![p] = nowait] /\ gl_bpend = Cardinality(Multi)
          /\ gl_bpend' = IF gl_bpend # 0 THEN gl_bpend - One(wait[p]) ELSE 0
      BY <1>3 DEF acancel, Fault, PendingCounted
    <2>2. One(nowait) = 0
      BY DEF One, Several
    <2>3. /\ wait' \in [Procs -> Waits \cup {nowait}]
          /\ Cardinality(Multi') = Cardinality(Multi) - One(wait[p]) + One(nowait)
          /\ Cardinality(Multi) \in Nat /\ One(wait[p]) \in {0, 1}
          /\ Cardinality(Multi) >= One(wait[p])
      BY <2>1, WaitChanges
    <2> QED
      BY <2>1, <2>2, <2>3 DEF PendingCounted
  <1>4. ASSUME NEW p \in Procs, NEW w \in Waits, ~Fault, iasync(p, w)
        PROVE  PendingCounted' /\ wait' \in [Procs -> Waits \cup {nowait}]
    <2>1. /\ wait' = [wait EXCEPT ![p] = w] /\ gl_bpend = Cardinality(Multi)
          /\ gl_bpend' = gl_bpend + One(w) /\ wait[p] = nowait
      BY <1>4 DEF iasync, Fault, PendingCounted
    <2>2. One(nowait) = 0
      BY DEF One, Several
    <2>3. /\ wait' \in [Procs -> Waits \cup {nowait}]
          /\ Cardinality(Multi') = Cardinality(Multi) - One(wait[p]) + One(w)
          /\ Cardinality(Multi) \in Nat /\ One(w) \in {0, 1}
      BY <2>1, WaitChanges
    <2> QED
      BY <2>1, <2>2, <2>3 DEF PendingCounted
  <1>5. CASE ~Fault /\ sh_main
    <2>1. /\ gl_bpend' = 0 /\ miscounted' = (Multi # {}) /\ wait' = wait
      BY <1>5 DEF sh_main
    <2>2. Multi' = Multi
      BY <2>1 DEF Multi
    <2>3. Cardinality({}) = 0
      BY FS_EmptySet
    <2> QED
      BY <2>1, <2>2, <2>3 DEF PendingCounted, MouseTypeOK
  <1> QED
    BY <1>1, <1>2, <1>3, <1>4, <1>5 DEF ClickNext, clickvars, b_click, tick, far_mchange, mchange, b_delay,
       Amount, TestDelay, SubDelay, PushClicks, QueueClicks, QueueTrue, Move, progvars

-----------------------------------------------------------------------------
(* What has not been reported is being gathered.                           *)

Core == Registers /\ Delaying /\ Reported

LEMMA OneReport ==
  ASSUME NEW new \in {UP, DOWN}, NEW n \in Int
  PROVE  LET r == <<Report(new, n)>>
         IN  r \in Seq(Reports) /\ Len(r) = 1 /\ r[1].new = new /\ r[1] = Report(new, n)
             /\ Report(new, n) \in Reports
  BY DEF Report, Reports

\* the last report of what was gathered is the button as it is
LEMMA GatheredLast ==
  ASSUME Registers
  PROVE  /\ Gathered \in Seq(Reports) /\ Len(Gathered) > 0
         /\ Gathered[Len(Gathered)].new = gl_btrue
  <1> DEFINE a == Report(gl_bdesired, gl_bclick)
             b == Report(gl_btrue, 1)
  <1>1. a \in Reports /\ b \in Reports /\ a.new = gl_bdesired /\ b.new = gl_btrue
    BY DEF Registers, Report, Reports
  <1>2. Gathered = IF gl_btrue = gl_bdesired THEN <<a>> \o <<>> ELSE <<a>> \o <<b>>
    BY DEF Gathered
  <1> HIDE DEF a, b
  <1>3. <<a>> \in Seq(Reports) /\ <<b>> \in Seq(Reports) /\ <<>> \in Seq(Reports)
    BY <1>1
  <1>4. /\ <<a>> \o <<>> \in Seq(Reports) /\ Len(<<a>> \o <<>>) = 1
        /\ (<<a>> \o <<>>)[1] = a
    BY <1>1, <1>3
  <1>5. /\ <<a>> \o <<b>> \in Seq(Reports) /\ Len(<<a>> \o <<b>>) = 2
        /\ (<<a>> \o <<b>>)[2] = b
    BY <1>1, <1>3
  <1> QED
    BY <1>1, <1>2, <1>4, <1>5

LEMMA ClickKeeps ==
  ASSUME ClickAssumption, Core, ~overtaken, b_click
  PROVE  Core'
  <1>0. {gl_dclick, MaxClicks, Half} \subseteq Nat \ {0} /\ Half > Limit
    BY DEF ClickAssumption, Limit
  <1>1. /\ Registers /\ Delaying /\ Reported /\ ~overtaken
        /\ UNCHANGED <<button, step, pushed, overtaken>>
    BY DEF Core, b_click, progvars, movevars
  <1>2. gl_btrue' \in {UP, DOWN}
    <2>1. gl_btrue' = 1 - gl_btrue
      BY DEF b_click
    <2> QED
      BY <1>1, <2>1 DEF Registers, UP, DOWN
  <1>3. CASE /\ gl_bdelay # 0 /\ gl_btrue' = gl_bdesired /\ gl_bclick < MaxClicks
             /\ gl_bclick' = gl_bclick + 1 /\ gl_bdelay' = Word(gl_bdelay + 3)
             /\ UNCHANGED <<gl_bdesired, events, dropped>>
    <2>1. /\ gl_bclick \in Int /\ gl_bdelay \in Int /\ gl_bclick >= 1 /\ gl_bdelay > 0
          /\ gl_bdelay <= gl_dclick + 3 * (gl_bclick - 1)
      BY <1>1, <1>3 DEF Delaying, Registers
    <2>2. gl_bdelay + 3 <= Limit
      BY <1>0, <1>3, <2>1 DEF Limit
    <2>3. gl_bdelay' = gl_bdelay + 3
      BY <1>0, <1>3, <2>1, <2>2, WordIs DEF Limit
    <2>4. Delaying'
      BY <1>0, <1>1, <1>3, <2>1, <2>3 DEF Delaying
    <2>5. Registers'
      BY <1>1, <1>2, <1>3, <2>1, <2>3 DEF Registers
    <2>6. Reported'
      BY <2>1, <2>3 DEF Reported
    <2> QED
      BY <2>4, <2>5, <2>6 DEF Core
  <1>4. CASE gl_bdelay # 0 /\ UNCHANGED <<gl_bclick, gl_bdelay, gl_bdesired, events, dropped>>
    BY <1>1, <1>2, <1>4 DEF Core, Registers, Delaying, Reported
  <1>5. CASE /\ gl_bclick' = 1 /\ gl_bdesired' = gl_btrue' /\ gl_bdelay' = gl_dclick
             /\ UNCHANGED <<events, dropped>>
    <2>1. Registers'
      BY <1>0, <1>1, <1>2, <1>5 DEF Registers
    <2>2. Delaying'
      BY <1>0, <1>1, <1>5 DEF Delaying
    <2>3. Reported'
      BY <1>0, <1>1, <1>5 DEF Reported
    <2> QED
      BY <2>1, <2>2, <2>3 DEF Core
  <1>6. CASE gl_bdelay = 0 /\ Queue(<<Report(gl_btrue', 1)>>) /\ UNCHANGED <<gl_bdesired, gl_bclick, gl_bdelay>>
    <2>0. PICK new \in {UP, DOWN} : new = gl_btrue'
      BY <1>2
    <2>1. /\ <<Report(new, 1)>> \in Seq(Reports) /\ Len(<<Report(new, 1)>>) = 1
          /\ <<Report(new, 1)>>[1].new = new
      BY OneReport
    <2>2. PICK r \in Seq(Reports) : Len(r) = 1 /\ r[1].new = new /\ Queue(r)
      BY <1>6, <2>0, <2>1
    <2>3. /\ events' \in Seq(Calls) /\ Len(events') <= Entries /\ dropped' \in BOOLEAN
          /\ ~dropped' => \A b : Becomes(events', b, r[Len(r)].new)
      <3>1. Len(r) > 0
        BY <2>2
      <3>2. Registers /\ Queue(r)
        BY <1>1, <2>2
      <3> QED
        BY ONLY ClickAssumption, <3>1, <3>2, QueueDoes
    <2>4. ~dropped' => Becomes(events', button', gl_btrue')
      BY <2>0, <2>2, <2>3
    <2> QED
      BY <1>1, <1>2, <1>6, <2>3, <2>4 DEF Core, Registers, Delaying, Reported
  <1> QED
    BY <1>3, <1>4, <1>5, <1>6 DEF b_click

LEMMA TickKeeps ==
  ASSUME ClickAssumption, Core, ~overtaken, tick
  PROVE  Core'
  <1>0. {gl_dclick, MaxClicks, Half} \subseteq Nat \ {0} /\ Half > Limit
    BY DEF ClickAssumption, Limit
  <1>1. /\ Registers /\ Delaying /\ Reported /\ ~overtaken /\ gl_bdelay # 0
        /\ UNCHANGED <<button, step, pushed, gl_btrue, gl_bdesired, gl_bclick, overtaken>>
    BY DEF Core, tick, progvars, movevars
  <1>2. /\ gl_bclick \in Int /\ gl_bdelay \in Int /\ gl_bclick >= 1 /\ gl_bdelay > 0
        /\ gl_bclick <= MaxClicks /\ gl_bdelay <= gl_dclick + 3 * (gl_bclick - 1)
    BY <1>1 DEF Delaying, Registers
  <1>3. gl_bdelay' = gl_bdelay - 1
    BY <1>0, <1>2, WordIs DEF Limit, tick
  <1>4. Delaying'
    BY <1>0, <1>1, <1>2, <1>3 DEF Delaying
  <1>5. CASE gl_bdelay' = 0
    <2>1. Queue(Gathered)
      BY <1>5 DEF tick
    <2>2. /\ Gathered \in Seq(Reports) /\ Len(Gathered) > 0
          /\ Gathered[Len(Gathered)].new = gl_btrue
      BY <1>1, GatheredLast
    <2>3. /\ events' \in Seq(Calls) /\ Len(events') <= Entries /\ dropped' \in BOOLEAN
          /\ ~dropped' => \A b : Becomes(events', b, Gathered[Len(Gathered)].new)
      BY <1>1, <2>1, <2>2, QueueDoes
    <2>4. ~dropped' => Becomes(events', button', gl_btrue')
      BY <1>1, <2>2, <2>3
    <2> QED
      <3>1. Registers'
        BY <1>1, <1>2, <1>3, <2>3 DEF Registers
      <3>2. Reported'
        BY <2>4, <1>1 DEF Reported, Core
      <3> QED
        BY <1>4, <3>1, <3>2 DEF Core
  <1>6. CASE gl_bdelay' # 0
    <2>1. UNCHANGED <<events, dropped>>
      BY <1>6 DEF tick
    <2> QED
      <3>1. Registers'
        BY <1>1, <1>2, <1>3, <2>1 DEF Registers
      <3>2. Reported'
        BY <1>6 DEF Reported
      <3> QED
        BY <1>4, <3>1, <3>2 DEF Core
  <1> QED
    BY <1>5, <1>6

LEMMA ForksKeep ==
  ASSUME ClickAssumption, Core, far_mchange \/ bchange \/ mchange
  PROVE  Core'
  <1>1. /\ Registers /\ Delaying /\ Reported /\ events \in Seq(Calls) /\ Len(events) \in Nat
        /\ UNCHANGED <<pushed, gl_btrue, gl_bdesired, gl_bclick, gl_bdelay, dropped, overtaken>>
        /\ Entries \in Nat
    BY DEF Core, Registers, far_mchange, bchange, mchange, intrvars, movevars, progvars, ClickAssumption
  <1>2. CASE far_mchange
    <2>1. /\ Len(events) < Entries /\ events' = Append(events, [code |-> "mchange"])
          /\ UNCHANGED <<button, step>>
      BY <1>2 DEF far_mchange, progvars, movevars
    <2>2. events' \in Seq(Calls) /\ Len(events') <= Entries
      BY <1>1, <2>1 DEF Calls
    <2>3. \A v : Becomes(events, button, v) => Becomes(events', button, v)
      BY <1>1, <2>1, BecomesMove
    <2>4. Reported'
      BY <1>1, <2>1, <2>3 DEF Reported
    <2> QED
      BY <1>1, <2>1, <2>2, <2>4 DEF Core, Registers, Delaying
  <1>3. CASE bchange
    <2>1. /\ step = "idle" /\ step' = "idle" /\ events # <<>> /\ Head(events).code = "bchange"
          /\ events' = Tail(events) /\ button' = Head(events).new
      BY <1>3 DEF bchange, movevars
    <2>2. Head(events) \in Calls /\ events' \in Seq(Calls) /\ Len(events') <= Entries
      BY <1>1, <2>1 DEF Registers
    <2>3. button' \in {UP, DOWN}
      BY <2>1, <2>2 DEF Calls
    <2>4. \A v : Becomes(events, button, v) => Becomes(events', button', v)
      BY <1>1, <2>1, BecomesTail
    <2>5. Reported'
      BY <1>1, <2>1, <2>4 DEF Reported
    <2> QED
      BY <1>1, <2>1, <2>2, <2>3, <2>5 DEF Core, Registers, Delaying
  <1>4. CASE mchange
    <2>1. /\ step = "idle" /\ step' \in {"idle", "amount"} /\ events # <<>>
          /\ Head(events).code = "mchange"
          /\ events' = Tail(events) /\ button' = button
      BY <1>4 DEF mchange, progvars
    <2>2. Head(events) \in Calls /\ events' \in Seq(Calls) /\ Len(events') <= Entries
      BY <1>1, <2>1 DEF Registers
    <2>4. \A v : Becomes(events, button, v) => Becomes(events', button', v)
      BY <1>1, <2>1, BecomesTail
    <2>5. Reported'
      BY <1>1, <2>1, <2>4 DEF Reported
    <2> QED
      BY <1>1, <2>1, <2>2, <2>5 DEF Core, Registers, Delaying
  <1> QED
    BY <1>2, <1>3, <1>4

\* mchange ends the gathering early
LEMMA MoveKeeps ==
  ASSUME ClickAssumption, Core, ~overtaken, b_delay
  PROVE  Core'
  <1>0. {gl_dclick, MaxClicks, Half} \subseteq Nat \ {0} /\ Half > Limit
    BY DEF ClickAssumption, Limit
  <1>1. /\ Registers /\ Delaying /\ Reported /\ ~overtaken
        /\ gl_bdelay \in Int /\ pushed \in Int /\ gl_bclick \in Int
        /\ UNCHANGED <<gl_btrue, gl_bdesired, gl_bclick, button>>
    BY DEF Core, b_delay, Amount, TestDelay, SubDelay, PushClicks, QueueClicks, QueueTrue, Move,
       progvars, intrvars, Registers
  <1>2. gl_bdelay >= 0 /\ gl_bdelay <= Limit
    <2>1. CASE gl_bdelay = 0
      BY <1>0, <1>1, <2>1 DEF Delaying, Limit
    <2>2. CASE gl_bdelay # 0
      BY <1>0, <1>1, <2>2 DEF Delaying, Limit
    <2> QED
      BY <2>1, <2>2
  <1>3. CASE Amount
    <2>1. /\ step = "amount" /\ step' = "b_delay" /\ pushed' = gl_bdelay
          /\ UNCHANGED <<gl_bdelay, events, dropped, overtaken>>
      BY <1>3 DEF Amount, Move, intrvars
    <2>2. Registers'
      BY <1>1, <2>1 DEF Registers
    <2>3. Delaying'
      BY <1>1, <1>2, <2>1 DEF Delaying
    <2>4. Reported'
      BY <1>1, <2>1 DEF Reported
    <2> QED
      BY <2>2, <2>3, <2>4 DEF Core
  <1>4. CASE TestDelay
    <2>1. /\ step = "b_delay" /\ UNCHANGED <<gl_bdelay, events, dropped, overtaken>>
          /\ \/ step' = "idle" /\ pushed' = 0
             \/ step' = "sub" /\ pushed' = pushed
      BY <1>4 DEF TestDelay, Move, intrvars
    <2>2. Registers'
      BY <1>1, <2>1 DEF Registers
    <2>3. Delaying'
      BY <1>1, <1>2, <2>1 DEF Delaying
    <2>4. Reported'
      BY <1>1, <2>1 DEF Reported
    <2> QED
      BY <2>2, <2>3, <2>4 DEF Core
  <1>5. CASE SubDelay
    <2>1. /\ step = "sub" /\ pushed' = 0 /\ UNCHANGED <<events, dropped>>
          /\ gl_bdelay' = Word(gl_bdelay - pushed)
          /\ overtaken' = (overtaken \/ gl_bdelay' < 0)
          /\ step' = IF gl_bdelay' = 0 THEN "push" ELSE "idle"
      BY <1>5 DEF SubDelay
    <2>2. 0 <= pushed /\ pushed <= Limit
      BY <1>1, <2>1 DEF Delaying
    <2>3. gl_bdelay' = gl_bdelay - pushed
      <3>1. -Half <= gl_bdelay - pushed /\ gl_bdelay - pushed < Half /\ gl_bdelay - pushed \in Int
        BY <1>0, <1>1, <1>2, <2>2 DEF Limit
      <3> QED
        BY <2>1, <3>1, WordIs
    <2>4. overtaken' \in BOOLEAN /\ gl_bdelay' \in Int
      BY <1>1, <2>1, <2>3 DEF Registers
    <2>5. Registers'
      BY <1>1, <2>1, <2>4 DEF Registers
    <2>6. Delaying'
      <3>1. gl_bdelay' <= gl_bdelay
        BY <1>1, <1>2, <2>2, <2>3
      <3>2. ~overtaken' => ~(gl_bdelay' < 0)
        BY <2>1
      <3>3. step' \notin {"b_delay", "sub"} /\ gl_bclick' = gl_bclick
        BY <1>1, <2>1
      <3>4. gl_bdelay = 0 \/ (gl_bclick >= 1 /\ gl_bclick <= MaxClicks /\ gl_bdelay > 0
                               /\ gl_bdelay <= gl_dclick + 3 * (gl_bclick - 1))
        BY <1>1 DEF Delaying
      <3>5. gl_dclick \in Nat
        BY <1>0
      <3> SUFFICES ASSUME ~(gl_bdelay' < 0), gl_bdelay' # 0
                   PROVE  gl_bclick >= 1 /\ gl_bclick <= MaxClicks /\ gl_bdelay' > 0
                          /\ gl_bdelay' <= gl_dclick + 3 * (gl_bclick - 1)
        BY <3>2, <3>3 DEF Delaying
      <3> QED
        BY <1>1, <1>2, <2>4, <3>1, <3>4, <3>5
    <2>7. Reported'
      <3>1. CASE gl_bdelay' = 0
        BY <2>1, <3>1 DEF Reported
      <3>2. CASE gl_bdelay' # 0
        BY <3>2 DEF Reported
      <3> QED
        BY <3>1, <3>2
    <2> QED
      BY <2>5, <2>6, <2>7 DEF Core
  <1>6. CASE PushClicks
    <2>1. /\ step' = "report" /\ pushed' = gl_bclick
          /\ step = "push" /\ UNCHANGED <<gl_bdelay, events, dropped, overtaken>>
      BY <1>6 DEF PushClicks, Move, intrvars
    <2>2. Registers'
      BY <1>1, <2>1 DEF Registers
    <2>3. Delaying'
      BY <1>1, <1>2, <2>1 DEF Delaying
    <2>4. Reported'
      BY <2>1 DEF Reported
    <2> QED
      BY <2>2, <2>3, <2>4 DEF Core
  <1>7. CASE QueueClicks
    <2>1. /\ step = "report" /\ step' = "true" /\ pushed' = 0
          /\ Queue(<<Report(gl_bdesired, pushed)>>) /\ UNCHANGED <<gl_bdelay, overtaken>>
      BY <1>7 DEF QueueClicks, Move, intrvars
    <2>2. gl_bdesired \in {UP, DOWN}
      BY <1>1 DEF Registers
    <2>3. PICK r \in Seq(Reports) : Len(r) = 1 /\ r[1].new = gl_bdesired /\ Queue(r)
      BY <1>1, <2>1, <2>2, OneReport
    <2>4. /\ events' \in Seq(Calls) /\ Len(events') <= Entries /\ dropped' \in BOOLEAN
          /\ ~dropped' => \A b : Becomes(events', b, r[Len(r)].new)
      <3>1. Len(r) > 0 /\ Registers /\ Queue(r)
        BY <1>1, <2>3
      <3> QED
        BY ONLY ClickAssumption, <3>1, QueueDoes
    <2>5. ~dropped' => Becomes(events', button', gl_bdesired')
      BY <1>1, <2>3, <2>4
    <2>6. Registers'
      BY <1>1, <2>1, <2>4 DEF Registers
    <2>7. Delaying'
      BY <1>1, <1>2, <2>1 DEF Delaying
    <2>8. Reported'
      BY <2>1, <2>5 DEF Reported
    <2> QED
      BY <2>6, <2>7, <2>8 DEF Core
  <1>8. CASE QueueTrue
    <2>1. /\ step = "true" /\ step' = "idle" /\ UNCHANGED <<pushed, gl_bdelay, overtaken>>
      BY <1>8 DEF QueueTrue, Move, intrvars
    <2>2. Delaying'
      BY <1>1, <1>2, <2>1 DEF Delaying
    <2>3. CASE gl_btrue = gl_bdesired /\ UNCHANGED <<events, dropped>>
      <3>1. Registers'
        BY <1>1, <2>1, <2>3 DEF Registers
      <3>2. Reported'
        BY <1>1, <2>1, <2>3 DEF Reported
      <3> QED
        BY <2>2, <3>1, <3>2 DEF Core
    <2>4. CASE Queue(<<Report(gl_btrue, 1)>>)
      <3>1. gl_btrue \in {UP, DOWN}
        BY <1>1 DEF Registers
      <3>2. PICK r \in Seq(Reports) : Len(r) = 1 /\ r[1].new = gl_btrue /\ Queue(r)
        <4>1. /\ <<Report(gl_btrue, 1)>> \in Seq(Reports) /\ Len(<<Report(gl_btrue, 1)>>) = 1
              /\ <<Report(gl_btrue, 1)>>[1].new = gl_btrue
          BY <3>1, OneReport
        <4> QED
          BY <2>4, <4>1
      <3>3. /\ events' \in Seq(Calls) /\ Len(events') <= Entries /\ dropped' \in BOOLEAN
            /\ ~dropped' => \A b : Becomes(events', b, r[Len(r)].new)
        <4>1. Len(r) > 0 /\ Registers /\ Queue(r)
          BY <1>1, <3>2
        <4> QED
          BY ONLY ClickAssumption, <4>1, QueueDoes
      <3>4. ~dropped' => Becomes(events', button', gl_btrue')
        BY <1>1, <3>2, <3>3
      <3>5. Registers'
        BY <1>1, <2>1, <3>3 DEF Registers
      <3>6. Reported'
        BY <2>1, <3>4 DEF Reported
      <3> QED
        BY <2>2, <3>5, <3>6 DEF Core
    <2> QED
      BY <1>8, <2>3, <2>4 DEF QueueTrue
  <1> QED
    BY <1>3, <1>4, <1>5, <1>6, <1>7, <1>8 DEF b_delay

LEMMA CoreKept ==
  ASSUME ClickAssumption
  PROVE  Core /\ [ClickNext]_clickvars => Core'
  <1> SUFFICES ASSUME Core, [ClickNext]_clickvars PROVE Core'
    OBVIOUS
  <1>1. CASE UNCHANGED <<intrvars, events, button, movevars, dropped, overtaken>>
    BY <1>1 DEF Core, Registers, Delaying, Reported, intrvars, movevars
  <1>2. CASE UNCHANGED clickvars
    BY <1>1, <1>2 DEF clickvars, progvars
  <1>3. ASSUME NEW p \in Procs, acancel(p) \/ (\E w \in Waits : iasync(p, w)) PROVE Core'
    BY <1>1, <1>3 DEF acancel, iasync
  <1>4. CASE sh_main
    BY <1>1, <1>4 DEF sh_main
  <1>5. CASE ~overtaken /\ (b_click \/ tick \/ b_delay)
    BY <1>5, ClickKeeps, TickKeeps, MoveKeeps
  <1>6. CASE far_mchange \/ bchange \/ mchange
    BY <1>6, ForksKeep
  <1> QED
    BY <1>2, <1>3, <1>4, <1>5, <1>6 DEF ClickNext, Fault

-----------------------------------------------------------------------------
(* The theorems.                                                           *)

LEMMA ClickInitial ==
  ASSUME ClickAssumption
  PROVE  ClickInit => ClickInv
  <1> SUFFICES ASSUME ClickInit PROVE ClickInv
    OBVIOUS
  <1>1. <<>> \in Seq(Calls) /\ Len(<<>>) = 0 /\ Entries \in Nat
    BY DEF ClickAssumption
  <1>2. MouseTypeOK
    <2>1. Registers
      <3>1. events \in Seq(Calls) /\ Len(events) <= Entries
        BY <1>1 DEF ClickInit
      <3> QED
        <4>1. /\ gl_btrue \in {UP, DOWN} /\ gl_bdesired \in {UP, DOWN} /\ button \in {UP, DOWN}
              /\ gl_bclick \in Int /\ pushed \in Int /\ gl_bdelay \in Int
          BY DEF ClickInit
        <4>2. step = "idle" /\ dropped \in BOOLEAN /\ overtaken \in BOOLEAN
          BY DEF ClickInit
        <4> QED
          BY <3>1, <4>1, <4>2 DEF Registers
    <2>2. wait \in [Procs -> Waits \cup {nowait}]
      BY DEF ClickInit
    <2> QED
      BY <2>1, <2>2 DEF MouseTypeOK
  <1>3. Delaying
    BY DEF ClickInit, Delaying
  <1>4. Becomes(<<>>, UP, UP)
    BY <1>1 DEF Becomes
  <1>5. Reported
    BY <1>4 DEF ClickInit, Reported
  <1>6. Multi = {}
    BY DEF ClickInit, Multi, Several
  <1>7. PendingCounted
    BY <1>6, FS_EmptySet DEF ClickInit, PendingCounted
  <1> QED
    BY <1>2, <1>3, <1>5, <1>7 DEF ClickInv

\* The inductive invariant: the delay stays among the values two clicks can
\* have led to, the button as it is has been reported, is being gathered, or
\* is about to be reported by mchange, and who waits is counted.
THEOREM ClicksInvariant ==
  ASSUME ClickAssumption
  PROVE  ClickSpec => []ClickInv
  <1>1. ClickInit => ClickInv
    BY ClickInitial
  <1>2. ClickInv /\ [ClickNext]_clickvars => ClickInv'
    <2> SUFFICES ASSUME ClickInv, [ClickNext]_clickvars PROVE ClickInv'
      OBVIOUS
    <2>1. Core /\ PendingCounted /\ MouseTypeOK
      BY DEF ClickInv, Core, MouseTypeOK
    <2>2. Core'
      BY <2>1, CoreKept
    <2>3. PendingCounted' /\ wait' \in [Procs -> Waits \cup {nowait}]
      BY <2>1, PendingKept
    <2> QED
      BY <2>2, <2>3 DEF ClickInv, Core, MouseTypeOK
  <1> QED
    BY <1>1, <1>2, PTL DEF ClickSpec

\* PendingCounted, for any number of programs: gl_bpend counts the waits for
\* more than one click, however they end (gemasync.c, geminput.c).
THEOREM WaitsCounted ==
  ASSUME ClickAssumption
  PROVE  ClickSpec => []PendingCounted
  <1>1. ClickInv => PendingCounted
    BY DEF ClickInv
  <1> QED
    BY <1>1, ClicksInvariant, PTL

\* Settled, for any size of the fork queue and any time a click may take: when
\* nothing is under way, programs see the button as it is (ratrbp.S).
THEOREM ButtonSettles ==
  ASSUME ClickAssumption
  PROVE  ClickSpec => []Settled
  <1>1. ClickInv => Settled
    <2> SUFFICES ASSUME ClickInv, Still, ~dropped, ~overtaken PROVE button = gl_btrue
      BY DEF Settled
    <2>1. Becomes(<<>>, button, gl_btrue)
      BY DEF ClickInv, Reported, Still
    <2>2. Len(<<>>) = 0
      OBVIOUS
    <2> QED
      BY <2>1, <2>2 DEF Becomes
  <1> QED
    BY <1>1, ClicksInvariant, PTL

-----------------------------------------------------------------------------
(* What the VDI is left with                                               *)

VdiCalls == {"hide", "show", "force", "draw", "getmouse", "putmouse"} \cup Forms

\* how often the cursor is hidden, its form, and the form getmouse has kept
VdiStates == [hid : Nat, form : Forms, kept : Forms]

\* what a call of the VDI is to do
Effect(op, s) ==
  CASE op = "hide" -> [s EXCEPT !.hid = @ + 1]
    [] op = "show" -> [s EXCEPT !.hid = IF @ = 0 THEN 0 ELSE @ - 1]
    [] op = "force" -> [s EXCEPT !.hid = 0]
    [] op = "draw" -> s
    [] op = "getmouse" -> [s EXCEPT !.kept = s.form]
    [] op = "putmouse" -> [s EXCEPT !.form = s.kept, !.kept = arrow]
    [] OTHER -> [s EXCEPT !.form = op]

\* and when it may be made
Allowed(op, s) == op \in VdiCalls /\ (op \in {"draw", "putmouse"} => s.hid > 0)

\* The calls lead from s to fs.
Leads(ops, s, fs) ==
  \E way \in [0..Len(ops) -> VdiStates] :
    /\ way[0] = s /\ way[Len(ops)] = fs
    /\ \A i \in 1..Len(ops) : Allowed(ops[i], way[i - 1]) /\ way[i] = Effect(ops[i], way[i - 1])

\* where the call under way has got to, when it began in s
Stage(s) ==
  /\ vdistep \in {"call", "dis", "putdata", "head", "picture", "packet", "unlock",
                  "replace", "restore", "retrieve", "mark", "paint", "dec"}
  /\ vdistep \in {"replace", "restore"} => Op = "hide" /\ s.hid = 0
  /\ vdistep = "dis" => Op \in {"show", "force"}
  /\ vdistep \in {"retrieve", "mark", "paint", "dec"} =>
       \/ Op = "show" /\ s.hid = 1
       \/ Op = "force" /\ s.hid > 0
  /\ vdistep \in {"head", "picture", "packet", "unlock"} => Op \in Forms
  /\ vdistep = "putdata" => Op = "putmouse"
  /\ HIDE_CNT =
       IF vdistep \in {"replace", "restore", "retrieve", "mark", "paint", "dec"} THEN 1
       ELSE IF vdistep = "dis" /\ Op = "force" /\ s.hid > 0 THEN 1 ELSE s.hid
  /\ mouse_flag = IF vdistep \in {"head", "picture", "packet", "unlock"} THEN 1 ELSE 0
  /\ mouse_cdb =
       IF vdistep \in {"packet", "unlock"} THEN <<Op, Op>>
       ELSE IF vdistep = "picture" THEN <<Op, s.form>>
       ELSE IF vdistep = "putdata" THEN <<s.kept, s.form>> ELSE <<s.form, s.form>>
  /\ mform = <<s.kept, s.kept>>

Gl == [moff : Nat, mouse : BOOLEAN, tmpmon : BOOLEAN, tmpmoff : Nat,
       maddr : BOOLEAN, mntree : BOOLEAN, ops : Seq(VdiCalls)]

\* what the AES has to find when the calls have been made
Meets(g, fs, off, form) ==
  /\ g \in Gl /\ off \in Nat /\ form \in Forms
  /\ ~g.maddr =>
       /\ g.moff = off /\ fs.form = form
       /\ fs.hid = IF off = 0 THEN 0 ELSE 1
       /\ g.mouse => off = 0
       /\ g.mntree /\ off = 0 => g.mouse
  /\ g.maddr =>
       /\ g.moff = 0 /\ g.mouse /\ fs.hid = 0 /\ fs.form = arrow /\ fs.kept = form
       /\ g.tmpmoff = off /\ (g.tmpmon <=> off = 0)

Course == \E s \in VdiStates, fs \in VdiStates :
  Stage(s) /\ Leads(gl.ops, s, fs) /\ Meets(gl, fs, offs, wish)

-----------------------------------------------------------------------------
(* What the screen shows                                                   *)

Pictures == {<<fs, fs>> : fs \in Forms}
Bare(q) == screen[q] = [bg |-> canvas[q], cur |-> none]

\* the cursor is on the screen at save_block.at
OnScreen ==
  /\ screen[save_block.at].cur \in Pictures
  /\ screen[save_block.at].bg = canvas[save_block.at]
  /\ save_block.cell = [bg |-> canvas[save_block.at], cur |-> none]
  /\ \A q \in Places \ {save_block.at} : Bare(q)

Picture ==
  /\ IF vdistep = "restore" \/ (save_block.ready /\ vdistep # "paint") THEN OnScreen
     ELSE \A q \in Places : Bare(q)
  /\ save_block.ready <=> HIDE_CNT = 0 \/ vdistep \in {"replace", "paint", "dec"}
  /\ vdistep = "paint" => save_block.at = xy

\* the cursor is where it should be, or is about to be drawn again
Followed ==
  /\ xydraw = GCURXY
  /\ vbl = "read" => HIDE_CNT = 0 /\ mouse_flag = 0
  /\ ~draw_flag /\ vdistep \in {"mark", "paint", "dec"} => xy = GCURXY
  /\ ~draw_flag /\ vbl = "idle" /\ vdistep \notin {"picture", "packet"}
       /\ (HIDE_CNT = 0 \/ vdistep = "dec")
     => save_block.at = GCURXY /\ screen[save_block.at].cur = mouse_cdb

CursorType ==
  /\ {GCURXY, xydraw, xy, save_block.at} \subseteq Places /\ draw_flag \in BOOLEAN
  /\ vbl \in {"idle", "read"}
  /\ save_block \in [ready : BOOLEAN, at : Places, cell : [bg : {0, 1}, cur : {none} \cup Pictures]]
  /\ canvas \in [Places -> {0, 1}]
  /\ screen \in [Places -> [bg : {0, 1}, cur : {none} \cup Pictures]]

CursorInv == CursorType /\ Course /\ Picture /\ Followed

-----------------------------------------------------------------------------
(* Lists of calls                                                          *)

LEMMA EffectIs ==
  ASSUME CursorAssumption, NEW s \in VdiStates
  PROVE  /\ \A op \in VdiCalls : Effect(op, s) \in VdiStates
         /\ Effect("hide", s) = [hid |-> s.hid + 1, form |-> s.form, kept |-> s.kept]
         /\ Effect("show", s) = [hid |-> IF s.hid = 0 THEN 0 ELSE s.hid - 1, form |-> s.form, kept |-> s.kept]
         /\ Effect("force", s) = [hid |-> 0, form |-> s.form, kept |-> s.kept]
         /\ Effect("draw", s) = s
         /\ Effect("getmouse", s) = [hid |-> s.hid, form |-> s.form, kept |-> s.form]
         /\ Effect("putmouse", s) = [hid |-> s.hid, form |-> s.kept, kept |-> arrow]
         /\ \A op \in Forms : Effect(op, s) = [hid |-> s.hid, form |-> op, kept |-> s.kept]
  <1>1. /\ Effect("hide", s) = [hid |-> s.hid + 1, form |-> s.form, kept |-> s.kept]
        /\ Effect("show", s) = [hid |-> IF s.hid = 0 THEN 0 ELSE s.hid - 1, form |-> s.form, kept |-> s.kept]
        /\ Effect("force", s) = [hid |-> 0, form |-> s.form, kept |-> s.kept]
        /\ Effect("draw", s) = s
    BY DEF Effect, VdiStates
  <1>2. /\ Effect("getmouse", s) = [hid |-> s.hid, form |-> s.form, kept |-> s.form]
        /\ Effect("putmouse", s) = [hid |-> s.hid, form |-> s.kept, kept |-> arrow]
    BY DEF Effect, VdiStates
  <1>3. \A op \in Forms : Effect(op, s) = [hid |-> s.hid, form |-> op, kept |-> s.kept]
    BY DEF Effect, VdiStates, CursorAssumption
  <1>4. \A op \in VdiCalls : Effect(op, s) \in VdiStates
    BY <1>1, <1>2, <1>3 DEF VdiCalls, VdiStates, CursorAssumption
  <1> QED
    BY <1>1, <1>2, <1>3, <1>4

LEMMA LeadsNowhere ==
  ASSUME NEW s \in VdiStates
  PROVE  Leads(<<>>, s, s) /\ \A fs : Leads(<<>>, s, fs) => fs = s
  <1>1. Leads(<<>>, s, s)
    <2> DEFINE way == [i \in 0..0 |-> s]
    <2>1. Len(<<>>) = 0 /\ 1..0 = {}
      OBVIOUS
    <2>2. way \in [0..0 -> VdiStates] /\ way[0] = s
      OBVIOUS
    <2> HIDE DEF way
    <2> QED
      BY <2>1, <2>2 DEF Leads
  <1> QED
    BY <1>1 DEF Leads

LEMMA LeadsMore ==
  ASSUME CursorAssumption, NEW ops \in Seq(VdiCalls), NEW s, NEW fs \in VdiStates,
         Leads(ops, s, fs), NEW op, Allowed(op, fs)
  PROVE  Leads(Append(ops, op), s, Effect(op, fs)) /\ Append(ops, op) \in Seq(VdiCalls)
  <1> DEFINE n == Len(ops)
             more == Append(ops, op)
  <1>1. /\ n \in Nat /\ op \in VdiCalls /\ more \in Seq(VdiCalls) /\ Len(more) = n + 1
        /\ more[n + 1] = op /\ \A i \in 1..n : more[i] = ops[i]
    BY DEF Allowed
  <1>2. PICK way \in [0..n -> VdiStates] :
          /\ way[0] = s /\ way[n] = fs
          /\ \A i \in 1..n : Allowed(ops[i], way[i - 1]) /\ way[i] = Effect(ops[i], way[i - 1])
    BY DEF Leads
  <1> DEFINE on == [i \in 0..n + 1 |-> IF i = n + 1 THEN Effect(op, fs) ELSE way[i]]
  <1>3. Effect(op, fs) \in VdiStates
    BY <1>1, EffectIs
  <1>4. on \in [0..Len(more) -> VdiStates] /\ on[0] = s /\ on[Len(more)] = Effect(op, fs)
    BY <1>1, <1>2, <1>3
  <1>5. ASSUME NEW i \in 1..Len(more)
        PROVE  Allowed(more[i], on[i - 1]) /\ on[i] = Effect(more[i], on[i - 1])
    <2>1. CASE i = n + 1
      <3>1. on[i - 1] = fs /\ on[i] = Effect(op, fs) /\ more[i] = op
        BY <1>1, <1>2, <2>1
      <3> QED
        BY <3>1
    <2>2. CASE i # n + 1
      <3>1. i \in 1..n /\ on[i - 1] = way[i - 1] /\ on[i] = way[i] /\ more[i] = ops[i]
        BY <1>1, <2>2
      <3> QED
        BY <3>1, <1>2
    <2> QED
      BY <2>1, <2>2
  <1> HIDE DEF on, more
  <1>6. Leads(more, s, Effect(op, fs))
    BY <1>4, <1>5 DEF Leads
  <1> QED
    BY <1>1, <1>6 DEF more

LEMMA LeadsOn ==
  ASSUME NEW ops \in Seq(VdiCalls), ops # <<>>, NEW s \in VdiStates, NEW fs \in VdiStates, Leads(ops, s, fs)
  PROVE  /\ Allowed(Head(ops), s) /\ Leads(Tail(ops), Effect(Head(ops), s), fs)
         /\ Tail(ops) \in Seq(VdiCalls) /\ Effect(Head(ops), s) \in VdiStates
  <1> DEFINE n == Len(ops)
             rest == Tail(ops)
  <1>1. /\ n \in Nat \ {0} /\ rest \in Seq(VdiCalls) /\ Len(rest) = n - 1 /\ Head(ops) = ops[1]
        /\ \A i \in 1..n - 1 : rest[i] = ops[i + 1]
    OBVIOUS
  <1>2. PICK way \in [0..n -> VdiStates] :
          /\ way[0] = s /\ way[n] = fs
          /\ \A i \in 1..n : Allowed(ops[i], way[i - 1]) /\ way[i] = Effect(ops[i], way[i - 1])
    BY DEF Leads
  <1>3. Allowed(ops[1], s) /\ way[1] = Effect(ops[1], s) /\ way[1] \in VdiStates
    <2>1. 1 \in 1..n /\ 1 - 1 = 0 /\ 1 \in 0..n
      BY <1>1
    <2> QED
      BY <1>2, <2>1
  <1> DEFINE on == [i \in 0..n - 1 |-> way[i + 1]]
  <1>4. on \in [0..Len(rest) -> VdiStates] /\ on[0] = way[1] /\ on[Len(rest)] = fs
    BY <1>1, <1>2
  <1>5. ASSUME NEW i \in 1..Len(rest)
        PROVE  Allowed(rest[i], on[i - 1]) /\ on[i] = Effect(rest[i], on[i - 1])
    <2>1. /\ i + 1 \in 1..n /\ on[i - 1] = way[(i + 1) - 1] /\ on[i] = way[i + 1]
          /\ rest[i] = ops[i + 1]
      BY <1>1
    <2> QED
      BY <1>2, <2>1
  <1> HIDE DEF on, rest
  <1>6. Leads(rest, way[1], fs)
    BY <1>4, <1>5 DEF Leads
  <1> QED
    BY <1>1, <1>3, <1>6 DEF rest

-----------------------------------------------------------------------------
(* Calls of the AES                                                        *)

\* The calls g has collected lead from s to fs.
Makes(g, s, fs) == g \in Gl /\ s \in VdiStates /\ fs \in VdiStates /\ Leads(g.ops, s, fs)
Rest(g) == <<g.tmpmon, g.tmpmoff, g.maddr, g.mntree>>
Vdi3(hid, form, kept) == [hid |-> hid, form |-> form, kept |-> kept]

LEMMA DoMakes ==
  ASSUME CursorAssumption, NEW g, NEW s, NEW fs, Makes(g, s, fs), NEW op, Allowed(op, fs)
  PROVE  /\ Makes(Do(g, op), s, Effect(op, fs))
         /\ Do(g, op).moff = g.moff /\ (Do(g, op).mouse <=> g.mouse) /\ Rest(Do(g, op)) = Rest(g)
  <1>1. /\ Leads(Append(g.ops, op), s, Effect(op, fs)) /\ Append(g.ops, op) \in Seq(VdiCalls)
        /\ Effect(op, fs) \in VdiStates
    BY LeadsMore, EffectIs DEF Makes, Gl, Allowed
  <1>2. /\ Do(g, op) \in Gl /\ Do(g, op).ops = Append(g.ops, op)
        /\ Do(g, op).moff = g.moff /\ (Do(g, op).mouse <=> g.mouse) /\ Rest(Do(g, op)) = Rest(g)
    BY <1>1 DEF Makes, Gl, Do, Rest
  <1> QED
    BY <1>1, <1>2 DEF Makes

LEMMA MoffMakes ==
  ASSUME CursorAssumption, NEW g, NEW s, NEW fs, Makes(g, s, fs)
  PROVE  /\ Makes(gsx_moff(g), s, IF g.moff = 0 THEN Vdi3(fs.hid + 1, fs.form, fs.kept) ELSE fs)
         /\ gsx_moff(g).moff = g.moff + 1
         /\ (gsx_moff(g).mouse <=> g.mouse /\ g.moff # 0) /\ Rest(gsx_moff(g)) = Rest(g)
  <1>1. CASE g.moff = 0
    <2> DEFINE off == [g EXCEPT !.mouse = FALSE]
               h == Do(off, "hide")
    <2>1. /\ Makes(off, s, fs) /\ off.moff = g.moff /\ ~off.mouse /\ Rest(off) = Rest(g)
      BY DEF Makes, Gl, Rest
    <2>2. Allowed("hide", fs) /\ Effect("hide", fs) = Vdi3(fs.hid + 1, fs.form, fs.kept)
      BY EffectIs DEF Makes, Allowed, VdiCalls, Vdi3
    <2> HIDE DEF off
    <2>3. /\ Makes(h, s, Vdi3(fs.hid + 1, fs.form, fs.kept))
          /\ h.moff = 0 /\ ~h.mouse /\ Rest(h) = Rest(g)
      BY <1>1, <2>1, <2>2, DoMakes
    <2>4. gsx_moff(g) = [h EXCEPT !.moff = @ + 1]
      BY <1>1 DEF gsx_moff, off
    <2> HIDE DEF h
    <2>5. /\ [h EXCEPT !.moff = @ + 1] \in Gl /\ [h EXCEPT !.moff = @ + 1].ops = h.ops
          /\ [h EXCEPT !.moff = @ + 1].moff = 1 /\ ~[h EXCEPT !.moff = @ + 1].mouse
          /\ Rest([h EXCEPT !.moff = @ + 1]) = Rest(g)
      BY <2>3 DEF Makes, Gl, Rest
    <2> QED
      BY <1>1, <2>3, <2>4, <2>5 DEF Makes
  <1>2. CASE g.moff # 0
    BY <1>2 DEF Makes, Gl, Rest, gsx_moff
  <1> QED
    BY <1>1, <1>2

LEMMA MonMakes ==
  ASSUME CursorAssumption, NEW g, NEW s, NEW fs, Makes(g, s, fs), g.moff > 0
  PROVE  /\ Makes(gsx_mon(g), s,
                  IF g.moff = 1 THEN Vdi3(IF fs.hid = 0 THEN 0 ELSE fs.hid - 1, fs.form, fs.kept) ELSE fs)
         /\ gsx_mon(g).moff = g.moff - 1
         /\ (gsx_mon(g).mouse <=> g.moff = 1 \/ g.mouse) /\ Rest(gsx_mon(g)) = Rest(g)
  <1> DEFINE h == [g EXCEPT !.moff = @ - 1]
  <1>1. Makes(h, s, fs) /\ h.moff = g.moff - 1 /\ (h.mouse <=> g.mouse) /\ Rest(h) = Rest(g)
    BY DEF Makes, Gl, Rest
  <1>2. gsx_mon(g) = IF h.moff = 0 THEN Do([h EXCEPT !.mouse = TRUE], "show") ELSE h
    BY DEF gsx_mon
  <1>g. g \in Gl /\ g.moff \in Nat
    BY DEF Makes, Gl
  <1> HIDE DEF h
  <1>3. CASE g.moff = 1
    <2> DEFINE on == [h EXCEPT !.mouse = TRUE]
    <2>1. /\ Makes(on, s, fs) /\ on.moff = 0 /\ on.mouse /\ Rest(on) = Rest(g)
      <3>1. h \in Gl
        BY <1>1 DEF Makes
      <3>2. on \in Gl /\ on.moff = h.moff /\ on.mouse /\ on.ops = h.ops
        BY <3>1 DEF Gl
      <3>3. Rest(on) = Rest(h)
        BY <3>1 DEF Gl, Rest
      <3> QED
        BY <1>1, <1>3, <3>2, <3>3, <1>g DEF Makes
    <2>2. /\ Allowed("show", fs)
          /\ Effect("show", fs) = Vdi3(IF fs.hid = 0 THEN 0 ELSE fs.hid - 1, fs.form, fs.kept)
      BY EffectIs DEF Makes, Allowed, VdiCalls, Vdi3
    <2>3. gsx_mon(g) = Do(on, "show")
      BY <1>1, <1>2, <1>3
    <2> HIDE DEF on
    <2>4. /\ Makes(Do(on, "show"), s, Effect("show", fs)) /\ Do(on, "show").moff = 0
          /\ Do(on, "show").mouse /\ Rest(Do(on, "show")) = Rest(g)
      BY <2>1, <2>2, DoMakes
    <2> QED
      BY <1>3, <2>2, <2>3, <2>4
  <1>4. CASE g.moff # 1
    BY <1>1, <1>2, <1>4, <1>g DEF Makes
  <1> QED
    BY <1>3, <1>4

\* The form is set; whether the mouse shows does not change.
LEMMA MfsetMakes ==
  ASSUME CursorAssumption, NEW g, NEW s, NEW fs, Makes(g, s, fs), NEW form \in Forms
  PROVE  /\ Makes(gsx_mfset(g, form), s, Vdi3(fs.hid, form, fs.kept))
         /\ gsx_mfset(g, form).moff = g.moff /\ (gsx_mfset(g, form).mouse <=> g.moff = 0 \/ g.mouse)
         /\ Rest(gsx_mfset(g, form)) = Rest(g)
  <1> DEFINE off == gsx_moff(g)
             h == Do(off, form)
             hid == IF g.moff = 0 THEN fs.hid + 1 ELSE fs.hid
  <1>1. g.moff \in Nat /\ fs.hid \in Nat /\ fs = Vdi3(fs.hid, fs.form, fs.kept) /\ g.mouse \in BOOLEAN
    BY DEF Makes, Gl, VdiStates, Vdi3
  <1>2. /\ Makes(off, s, Vdi3(hid, fs.form, fs.kept)) /\ off.moff = g.moff + 1
        /\ (off.mouse <=> g.mouse /\ g.moff # 0) /\ Rest(off) = Rest(g)
    BY <1>1, MoffMakes
  <1>3. /\ Allowed(form, Vdi3(hid, fs.form, fs.kept))
        /\ Effect(form, Vdi3(hid, fs.form, fs.kept)) = Vdi3(hid, form, fs.kept)
    <2>1. Vdi3(hid, fs.form, fs.kept) \in VdiStates
      BY <1>2 DEF Makes
    <2> HIDE DEF hid
    <2> QED
      BY <2>1, EffectIs DEF Allowed, VdiCalls, CursorAssumption, Vdi3
  <1> HIDE DEF off
  <1>4. /\ Makes(h, s, Vdi3(hid, form, fs.kept)) /\ h.moff = g.moff + 1
        /\ (h.mouse <=> g.mouse /\ g.moff # 0) /\ Rest(h) = Rest(g)
    BY <1>2, <1>3, DoMakes
  <1>5. gsx_mfset(g, form) = gsx_mon(h)
    BY DEF gsx_mfset, off
  <1> HIDE DEF h
  <1>6. /\ Makes(gsx_mon(h), s, IF h.moff = 1
                   THEN Vdi3(IF hid = 0 THEN 0 ELSE hid - 1, form, fs.kept) ELSE Vdi3(hid, form, fs.kept))
        /\ gsx_mon(h).moff = h.moff - 1 /\ (gsx_mon(h).mouse <=> h.moff = 1 \/ h.mouse)
        /\ Rest(gsx_mon(h)) = Rest(h)
    <2>1. h.moff > 0 /\ Vdi3(hid, form, fs.kept).hid = hid /\ Vdi3(hid, form, fs.kept).form = form
          /\ Vdi3(hid, form, fs.kept).kept = fs.kept
      BY <1>1, <1>4 DEF Vdi3
    <2> HIDE DEF hid
    <2> QED
      BY <1>4, <2>1, MonMakes
  <1> QED
    BY <1>1, <1>4, <1>5, <1>6

\* The same of drawing, with the mouse hidden meanwhile.
LEMMA DrawMakes ==
  ASSUME CursorAssumption, NEW g, NEW s, NEW fs, Makes(g, s, fs), g.moff > 0 => fs.hid > 0
  PROVE  /\ Makes(ob_draw(g), s, fs)
         /\ ob_draw(g).moff = g.moff /\ (ob_draw(g).mouse <=> g.moff = 0 \/ g.mouse)
         /\ Rest(ob_draw(g)) = Rest(g)
  <1> DEFINE off == gsx_moff(g)
             h == Do(off, "draw")
             hid == IF g.moff = 0 THEN fs.hid + 1 ELSE fs.hid
  <1>1. g.moff \in Nat /\ fs.hid \in Nat /\ fs = Vdi3(fs.hid, fs.form, fs.kept) /\ g.mouse \in BOOLEAN
    BY DEF Makes, Gl, VdiStates, Vdi3
  <1>2. /\ Makes(off, s, Vdi3(hid, fs.form, fs.kept)) /\ off.moff = g.moff + 1
        /\ (off.mouse <=> g.mouse /\ g.moff # 0) /\ Rest(off) = Rest(g)
    BY <1>1, MoffMakes
  <1>3. /\ Allowed("draw", Vdi3(hid, fs.form, fs.kept))
        /\ Effect("draw", Vdi3(hid, fs.form, fs.kept)) = Vdi3(hid, fs.form, fs.kept)
    <2>1. Vdi3(hid, fs.form, fs.kept) \in VdiStates /\ hid > 0
      BY <1>1, <1>2 DEF Makes
    <2> HIDE DEF hid
    <2> QED
      BY <2>1, EffectIs DEF Allowed, VdiCalls, Vdi3
  <1> HIDE DEF off
  <1>4. /\ Makes(h, s, Vdi3(hid, fs.form, fs.kept)) /\ h.moff = g.moff + 1
        /\ (h.mouse <=> g.mouse /\ g.moff # 0) /\ Rest(h) = Rest(g)
    BY <1>2, <1>3, DoMakes
  <1>5. ob_draw(g) = gsx_mon(h)
    BY DEF ob_draw, off
  <1> HIDE DEF h
  <1>6. /\ Makes(gsx_mon(h), s, IF h.moff = 1
                   THEN Vdi3(IF hid = 0 THEN 0 ELSE hid - 1, fs.form, fs.kept) ELSE Vdi3(hid, fs.form, fs.kept))
        /\ gsx_mon(h).moff = h.moff - 1 /\ (gsx_mon(h).mouse <=> h.moff = 1 \/ h.mouse)
        /\ Rest(gsx_mon(h)) = Rest(h)
    <2>1. h.moff > 0 /\ Vdi3(hid, fs.form, fs.kept).hid = hid /\ Vdi3(hid, fs.form, fs.kept).form = fs.form
          /\ Vdi3(hid, fs.form, fs.kept).kept = fs.kept
      BY <1>1, <1>4 DEF Vdi3
    <2> HIDE DEF hid
    <2> QED
      BY <1>4, <2>1, MonMakes
  <1> QED
    BY <1>1, <1>4, <1>5, <1>6

LEMMA RatinitMakes ==
  ASSUME CursorAssumption, NEW g, NEW s, NEW fs, Makes(g, s, fs)
  PROVE  /\ Makes(ratinit(g), s, Vdi3(0, fs.form, fs.kept))
         /\ ratinit(g).moff = 0 /\ (ratinit(g).mouse <=> g.mouse) /\ Rest(ratinit(g)) = Rest(g)
  <1> DEFINE h == Do(g, "force")
  <1>1. Allowed("force", fs) /\ Effect("force", fs) = Vdi3(0, fs.form, fs.kept)
    BY EffectIs DEF Makes, Allowed, VdiCalls, Vdi3
  <1>2. Makes(h, s, Vdi3(0, fs.form, fs.kept)) /\ (h.mouse <=> g.mouse) /\ Rest(h) = Rest(g)
    BY <1>1, DoMakes
  <1>3. ratinit(g) = [h EXCEPT !.moff = 0]
    BY DEF ratinit
  <1> HIDE DEF h
  <1> QED
    BY <1>2, <1>3 DEF Makes, Gl, Rest

\* ctlmouse(TRUE), called when the mouse shows exactly if it is not hidden
LEMMA OnMakes ==
  ASSUME CursorAssumption, NEW g, NEW s, NEW fs, Makes(g, s, fs),
         g.mouse <=> g.moff = 0, fs.hid = IF g.moff = 0 THEN 0 ELSE 1
  PROVE  /\ Makes(ctlmouseOn(g), s, Vdi3(0, arrow, fs.form))
         /\ ctlmouseOn(g).moff = 0 /\ ctlmouseOn(g).mouse /\ ctlmouseOn(g).maddr
         /\ (ctlmouseOn(g).tmpmon <=> g.mouse) /\ ctlmouseOn(g).tmpmoff = g.moff
         /\ (ctlmouseOn(g).mntree <=> g.mntree)
  <1> DEFINE a == Do(g, "getmouse")
             saved == [a EXCEPT !.maddr = TRUE, !.tmpmon = g.mouse, !.tmpmoff = g.moff]
             set == gsx_mfset(saved, arrow)
             shows == [set EXCEPT !.mouse = TRUE]
             visible == IF set.mouse THEN set ELSE Do(shows, "force")
  <1>g. /\ g \in Gl /\ g.moff \in Nat /\ g.mouse \in BOOLEAN /\ g.mntree \in BOOLEAN
        /\ fs \in VdiStates /\ fs = Vdi3(fs.hid, fs.form, fs.kept) /\ fs.form \in Forms /\ fs.hid \in Nat
        /\ arrow \in Forms
    BY DEF Makes, Gl, VdiStates, Vdi3, CursorAssumption
  <1>1. Allowed("getmouse", fs) /\ Effect("getmouse", fs) = Vdi3(fs.hid, fs.form, fs.form)
    BY <1>g, EffectIs DEF Allowed, VdiCalls, Vdi3
  <1>2. /\ Makes(a, s, Vdi3(fs.hid, fs.form, fs.form))
        /\ a.moff = g.moff /\ (a.mouse <=> g.mouse) /\ Rest(a) = Rest(g)
    BY <1>1, DoMakes
  <1> HIDE DEF a
  <1>3. /\ saved \in Gl /\ saved.ops = a.ops /\ saved.moff = a.moff /\ saved.mouse = a.mouse
        /\ saved.maddr /\ (saved.tmpmon <=> g.mouse) /\ saved.tmpmoff = g.moff
        /\ saved.mntree = a.mntree
    BY <1>2, <1>g DEF Makes, Gl
  <1>4. Makes(saved, s, Vdi3(fs.hid, fs.form, fs.form)) /\ (saved.mntree <=> g.mntree)
    BY <1>2, <1>3 DEF Makes, Rest
  <1> HIDE DEF saved
  <1>5. Vdi3(fs.hid, fs.form, fs.form).hid = fs.hid /\ Vdi3(fs.hid, fs.form, fs.form).kept = fs.form
    BY DEF Vdi3
  <1>6. /\ Makes(set, s, Vdi3(fs.hid, arrow, fs.form)) /\ set.moff = g.moff
        /\ (set.mouse <=> g.moff = 0)
        /\ Rest(set) = Rest(saved)
    BY <1>2, <1>3, <1>4, <1>5, <1>g, MfsetMakes
  <1> HIDE DEF set
  <1>7. /\ set \in Gl /\ set.maddr /\ (set.tmpmon <=> g.mouse) /\ set.tmpmoff = g.moff
        /\ (set.mntree <=> g.mntree)
    BY <1>3, <1>4, <1>6 DEF Makes, Rest
  <1>8. /\ Makes(visible, s, Vdi3(0, arrow, fs.form)) /\ visible.mouse
        /\ Rest(visible) = Rest(set)
    <2>1. CASE set.mouse
      BY <2>1, <1>6
    <2>2. CASE ~set.mouse
      <3>1. /\ shows \in Gl /\ shows.ops = set.ops /\ shows.mouse /\ Rest(shows) = Rest(set)
        BY <1>7 DEF Gl, Rest
      <3>2. Makes(shows, s, Vdi3(fs.hid, arrow, fs.form))
        BY <3>1, <1>6 DEF Makes
      <3> HIDE DEF shows
      <3>3. /\ Allowed("force", Vdi3(fs.hid, arrow, fs.form))
            /\ Effect("force", Vdi3(fs.hid, arrow, fs.form)) = Vdi3(0, arrow, fs.form)
        BY <1>6, EffectIs DEF Makes, Allowed, VdiCalls, Vdi3
      <3>4. /\ Makes(Do(shows, "force"), s, Vdi3(0, arrow, fs.form))
            /\ Do(shows, "force").mouse /\ Rest(Do(shows, "force")) = Rest(set)
        BY <3>1, <3>2, <3>3, DoMakes
      <3> QED
        BY <2>2, <3>4
    <2> QED
      BY <2>1, <2>2
  <1>9. ctlmouseOn(g) = [visible EXCEPT !.moff = 0]
    BY DEF ctlmouseOn, a, saved, set
  <1> HIDE DEF visible
  <1>10. /\ visible \in Gl /\ visible.maddr /\ (visible.tmpmon <=> g.mouse)
         /\ visible.tmpmoff = g.moff /\ (visible.mntree <=> g.mntree)
    BY <1>7, <1>8 DEF Makes, Rest
  <1>11. /\ [visible EXCEPT !.moff = 0] \in Gl /\ [visible EXCEPT !.moff = 0].ops = visible.ops
         /\ [visible EXCEPT !.moff = 0].moff = 0 /\ [visible EXCEPT !.moff = 0].mouse
         /\ [visible EXCEPT !.moff = 0].maddr /\ ([visible EXCEPT !.moff = 0].tmpmon <=> g.mouse)
         /\ [visible EXCEPT !.moff = 0].tmpmoff = g.moff
         /\ ([visible EXCEPT !.moff = 0].mntree <=> g.mntree)
    BY <1>8, <1>10 DEF Gl
  <1> QED
    BY <1>8, <1>9, <1>11 DEF Makes

\* ctlmouse(FALSE), called while the mouse shows
LEMMA OffMakes ==
  ASSUME CursorAssumption, NEW g, NEW s, NEW fs, Makes(g, s, fs), fs.hid = 0,
         NEW show \in {"show", "force"}
  PROVE  /\ Makes(ctlmouseOff(g, show), s, Vdi3(IF g.tmpmon THEN 0 ELSE 1, fs.kept, arrow))
         /\ ctlmouseOff(g, show).moff = g.tmpmoff /\ (ctlmouseOff(g, show).mouse <=> g.tmpmon)
         /\ ~ctlmouseOff(g, show).maddr /\ (ctlmouseOff(g, show).mntree <=> g.mntree)
  <1> DEFINE hidden == Do(g, "hide")
             taken == Do(hidden, "putmouse")
             again == IF g.tmpmon THEN Do(taken, show) ELSE taken
  <1>g. /\ g \in Gl /\ g.tmpmoff \in Nat /\ g.tmpmon \in BOOLEAN /\ g.mntree \in BOOLEAN
        /\ fs \in VdiStates /\ fs = Vdi3(0, fs.form, fs.kept)
    BY DEF Makes, Gl, VdiStates, Vdi3
  <1>1. Allowed("hide", fs) /\ Effect("hide", fs) = Vdi3(1, fs.form, fs.kept)
    BY <1>g, EffectIs DEF Allowed, VdiCalls, Vdi3
  <1>2. Makes(hidden, s, Vdi3(1, fs.form, fs.kept)) /\ Rest(hidden) = Rest(g)
    BY <1>1, DoMakes
  <1> HIDE DEF hidden
  <1>3. /\ Allowed("putmouse", Vdi3(1, fs.form, fs.kept))
        /\ Effect("putmouse", Vdi3(1, fs.form, fs.kept)) = Vdi3(1, fs.kept, arrow)
    <2> DEFINE x == Vdi3(1, fs.form, fs.kept)
    <2>1. x \in VdiStates /\ x.hid = 1 /\ x.kept = fs.kept
      BY <1>2 DEF Makes, Vdi3
    <2> HIDE DEF x
    <2>2. Allowed("putmouse", x)
      BY <2>1 DEF Allowed, VdiCalls
    <2>3. Effect("putmouse", x) = [hid |-> x.hid, form |-> x.kept, kept |-> arrow]
      BY <2>1, EffectIs
    <2>4. Effect("putmouse", x) = Vdi3(1, fs.kept, arrow)
      BY <2>1, <2>3 DEF Vdi3
    <2> QED
      BY <2>2, <2>4 DEF x
  <1>4. Makes(taken, s, Vdi3(1, fs.kept, arrow)) /\ Rest(taken) = Rest(g)
    BY <1>2, <1>3, DoMakes
  <1> HIDE DEF taken
  <1>5. /\ Allowed(show, Vdi3(1, fs.kept, arrow))
        /\ Effect(show, Vdi3(1, fs.kept, arrow)) = Vdi3(0, fs.kept, arrow)
    <2> DEFINE x == Vdi3(1, fs.kept, arrow)
    <2>1. x \in VdiStates /\ x.hid = 1 /\ x.form = fs.kept /\ x.kept = arrow
      BY <1>4 DEF Makes, Vdi3
    <2> HIDE DEF x
    <2>2. Allowed(show, x)
      BY <2>1 DEF Allowed, VdiCalls
    <2>3. Effect(show, x) = [hid |-> 0, form |-> x.form, kept |-> x.kept]
      <3>1. CASE show = "show"
        <4>1. Effect(show, x) = [hid |-> IF x.hid = 0 THEN 0 ELSE x.hid - 1, form |-> x.form, kept |-> x.kept]
          BY <2>1, <3>1, EffectIs
        <4> QED
          BY <4>1, <2>1
      <3>2. CASE show = "force"
        BY <2>1, <3>2, EffectIs
      <3> QED
        BY <3>1, <3>2
    <2>4. Effect(show, x) = Vdi3(0, fs.kept, arrow)
      BY <2>1, <2>3 DEF Vdi3
    <2> QED
      BY <2>2, <2>4 DEF x
  <1>6. /\ Makes(again, s, Vdi3(IF g.tmpmon THEN 0 ELSE 1, fs.kept, arrow))
        /\ Rest(again) = Rest(g)
    BY <1>4, <1>5, DoMakes
  <1> DEFINE h == [again EXCEPT !.mouse = g.tmpmon, !.moff = g.tmpmoff, !.maddr = FALSE,
                                !.tmpmon = FALSE, !.tmpmoff = 0]
  <1>7. ctlmouseOff(g, show) = h
    BY DEF ctlmouseOff, hidden, taken
  <1> HIDE DEF again
  <1>8. again \in Gl /\ (again.mntree <=> g.mntree)
    BY <1>6 DEF Makes, Rest
  <1>9. /\ h \in Gl /\ h.ops = again.ops /\ h.moff = g.tmpmoff /\ (h.mouse <=> g.tmpmon)
        /\ ~h.maddr /\ h.mntree = again.mntree
    BY <1>8, <1>g DEF Gl
  <1> HIDE DEF h
  <1> QED
    BY <1>6, <1>7, <1>8, <1>9 DEF Makes

\* The calls of the AES are made when those of the VDI before them are done.
LEMMA AtRest ==
  ASSUME CursorAssumption, gl.ops = <<>>, NEW s \in VdiStates, NEW fs \in VdiStates,
         Stage(s), Leads(gl.ops, s, fs), Meets(gl, fs, offs, wish)
  PROVE  s = fs /\ Makes(gl, s, s) /\ vdistep = "call"
  <1>1. s = fs
    BY LeadsNowhere
  <1>2. Op = none /\ none \notin Forms
        /\ none \notin {"hide", "show", "force", "draw", "getmouse", "putmouse"}
    BY DEF Op, CursorAssumption
  <1>3. vdistep = "call"
    BY <1>2 DEF Stage
  <1> QED
    BY <1>1, <1>3 DEF Makes, Meets

LEMMA CallCourse ==
  ASSUME CursorAssumption, gl.ops = <<>>, NEW s \in VdiStates, vdistep = "call", Stage(s),
         NEW new, Call(new), NEW fs, Makes(new, s, fs), Meets(new, fs, offs', wish')
  PROVE  Course'
  <1>1. Stage(s)'
    BY DEF Stage, Call, vblvars, shown
  <1>2. gl' = new /\ fs \in VdiStates
    BY DEF Call, Makes
  <1> QED
    BY <1>1, <1>2 DEF Course, Makes

\* A call is made with the mouse taken back from a menu or an alert and lent
\* to it again.
LEMMA OnMeets ==
  ASSUME CursorAssumption, NEW g, NEW s, NEW fs, Makes(g, s, fs), NEW off \in Nat,
         g.mouse <=> g.moff = 0, g.moff = off, fs.hid = IF off = 0 THEN 0 ELSE 1
  PROVE  \E k : Makes(ctlmouseOn(g), s, k) /\ Meets(ctlmouseOn(g), k, off, fs.form)
  <1>1. /\ Makes(ctlmouseOn(g), s, Vdi3(0, arrow, fs.form))
        /\ ctlmouseOn(g).moff = 0 /\ ctlmouseOn(g).mouse /\ ctlmouseOn(g).maddr
        /\ (ctlmouseOn(g).tmpmon <=> g.mouse) /\ ctlmouseOn(g).tmpmoff = g.moff
    BY OnMakes
  <1>2. fs.form \in Forms
    BY DEF Makes, VdiStates
  <1>3. Meets(ctlmouseOn(g), Vdi3(0, arrow, fs.form), off, fs.form)
    BY <1>1, <1>2 DEF Makes, Meets, Vdi3
  <1> QED
    BY <1>1, <1>3

LEMMA OffMeets ==
  ASSUME CursorAssumption, NEW g, NEW s, NEW fs, Makes(g, s, fs), NEW off, NEW form,
         Meets(g, fs, off, form), g.maddr, NEW show \in {"show", "force"}
  PROVE  LET h == ctlmouseOff(g, show)
             k == Vdi3(IF off = 0 THEN 0 ELSE 1, form, arrow)
         IN  Makes(h, s, k) /\ Meets(h, k, off, form) /\ ~h.maddr /\ (h.mouse <=> off = 0)
  <1> DEFINE h == ctlmouseOff(g, show)
             k == Vdi3(IF off = 0 THEN 0 ELSE 1, form, arrow)
  <1>1. fs.hid = 0 /\ fs.kept = form /\ g.tmpmoff = off /\ (g.tmpmon <=> off = 0)
        /\ off \in Nat /\ form \in Forms
    BY DEF Meets
  <1>2. /\ Makes(h, s, k) /\ h.moff = off /\ (h.mouse <=> off = 0) /\ ~h.maddr
    BY <1>1, OffMakes
  <1>3. k.hid = (IF off = 0 THEN 0 ELSE 1) /\ k.form = form
    BY DEF Vdi3
  <1> HIDE DEF h, k
  <1>4. Meets(h, k, off, form)
    BY <1>1, <1>2, <1>3 DEF Meets, Makes
  <1> QED
    BY <1>2, <1>4 DEF h, k

AesCall ==
  \/ M_OFF \/ M_ON \/ (\E form \in Forms : graf_mouse(form) \/ SetForm(form))
  \/ Draw \/ (\E showit \in BOOLEAN : menu_bar(showit)) \/ mn_do \/ fm_alert \/ Leave \/ NextProgram

LEMMA CallsKeepCourse ==
  ASSUME CursorAssumption, Course, AesCall
  PROVE  Course'
  <1>1. gl.ops = <<>>
    BY DEF AesCall, M_OFF, M_ON, graf_mouse, SetForm, Draw, menu_bar, mn_do, fm_alert, Leave,
           NextProgram, Call
  <1>2. PICK s \in VdiStates, fs \in VdiStates :
          Stage(s) /\ Leads(gl.ops, s, fs) /\ Meets(gl, fs, offs, wish)
    BY DEF Course
  <1>3. s = fs /\ Makes(gl, s, s) /\ vdistep = "call"
    BY <1>1, <1>2, AtRest
  <1>4. Meets(gl, s, offs, wish)
    BY <1>2, <1>3
  <1>5. /\ offs \in Nat /\ wish \in Forms /\ arrow \in Forms /\ s = Vdi3(s.hid, s.form, s.kept)
        /\ gl.mouse \in BOOLEAN /\ gl.moff \in Nat /\ gl.mntree \in BOOLEAN
        /\ gl.maddr \in BOOLEAN /\ s.hid \in Nat
    BY <1>4 DEF Meets, Gl, VdiStates, Vdi3, CursorAssumption
  <1>6. ~gl.maddr =>
          /\ gl.moff = offs /\ s.form = wish /\ s.hid = (IF offs = 0 THEN 0 ELSE 1)
          /\ (gl.mouse => offs = 0) /\ (gl.mntree /\ offs = 0 => gl.mouse)
    BY <1>4 DEF Meets
  \* from here on one need only find what the new calls meet
  <1>7. ASSUME NEW new, Call(new), NEW k, Makes(new, s, k), Meets(new, k, offs', wish')
        PROVE  Course'
    BY ONLY <1>1, <1>2, <1>3, <1>7, CallCourse, CursorAssumption
  \* what the mouse is taken back with
  <1>8. ASSUME gl.maddr, NEW g \in TakenBack
        PROVE  /\ Makes(g, s, Vdi3(IF offs = 0 THEN 0 ELSE 1, wish, arrow))
               /\ Meets(g, Vdi3(IF offs = 0 THEN 0 ELSE 1, wish, arrow), offs, wish)
               /\ ~g.maddr /\ (g.mouse <=> offs = 0) /\ g.moff = offs
    <2>1. PICK show \in {"show", "force"} : g = ctlmouseOff(gl, show)
      BY <1>8 DEF TakenBack
    <2> HIDE DEF Vdi3
    <2>2. /\ Makes(g, s, Vdi3(IF offs = 0 THEN 0 ELSE 1, wish, arrow))
          /\ Meets(g, Vdi3(IF offs = 0 THEN 0 ELSE 1, wish, arrow), offs, wish)
          /\ ~g.maddr /\ (g.mouse <=> offs = 0)
      BY <1>3, <1>4, <1>8, <2>1, OffMeets
    <2> QED
      BY <2>2 DEF Meets
  <1> DEFINE b == Vdi3(IF offs = 0 THEN 0 ELSE 1, wish, arrow)
  <1>b. b.hid = (IF offs = 0 THEN 0 ELSE 1) /\ b.form = wish /\ b.kept = arrow
    BY DEF Vdi3
  <1>9. ~gl.maddr => TakenBack = {gl}
    BY DEF TakenBack
  <1>10. CASE M_OFF
    <2>1. PICK g \in TakenBack : Call(Returned(gsx_moff(g)))
      BY <1>10 DEF M_OFF
    <2>2. offs' = offs + 1 /\ wish' = wish
      BY <1>10 DEF M_OFF
    <2>3. CASE ~gl.maddr
      <3>1. Call(gsx_moff(gl))
        BY <1>9, <2>1, <2>3 DEF Returned
      <3> DEFINE k == IF gl.moff = 0 THEN Vdi3(s.hid + 1, s.form, s.kept) ELSE s
      <3>2. /\ Makes(gsx_moff(gl), s, k) /\ gsx_moff(gl).moff = gl.moff + 1
            /\ (gsx_moff(gl).mouse <=> gl.mouse /\ gl.moff # 0) /\ Rest(gsx_moff(gl)) = Rest(gl)
        BY <1>3, MoffMakes
      <3>3. k.hid = 1 /\ k.form = wish
        BY <1>5, <1>6, <2>3 DEF Vdi3
      <3> HIDE DEF k
      <3>4. Meets(gsx_moff(gl), k, offs', wish')
        BY <1>5, <1>6, <2>2, <2>3, <3>2, <3>3 DEF Meets, Makes, Rest
      <3> QED
        BY <1>7, <3>1, <3>2, <3>4
    <2>4. CASE gl.maddr
      <3>1. Call(ctlmouseOn(gsx_moff(g)))
        BY <2>1, <2>4 DEF Returned
      <3>2. Makes(g, s, b) /\ (g.mouse <=> offs = 0) /\ g.moff = offs
        BY <1>8, <2>4
      <3> DEFINE k == IF g.moff = 0 THEN Vdi3(b.hid + 1, b.form, b.kept) ELSE b
      <3> HIDE DEF b
      <3>3. /\ Makes(gsx_moff(g), s, k) /\ gsx_moff(g).moff = g.moff + 1
            /\ (gsx_moff(g).mouse <=> g.mouse /\ g.moff # 0)
        BY <3>2, MoffMakes
      <3>4. k.hid = 1 /\ k.form = wish
        BY <1>b, <1>5, <3>2 DEF Vdi3
      <3> HIDE DEF k
      <3>5. \E n : Makes(ctlmouseOn(gsx_moff(g)), s, n) /\ Meets(ctlmouseOn(gsx_moff(g)), n, offs + 1, k.form)
        BY <1>5, <3>2, <3>3, <3>4, OnMeets
      <3> QED
        BY <1>7, <2>2, <3>1, <3>4, <3>5
    <2> QED
      BY <1>5, <2>3, <2>4
  <1>11. CASE M_ON
    <2>1. PICK g \in TakenBack : Call(Returned(gsx_mon(g)))
      BY <1>11 DEF M_ON
    <2>2. offs > 0 /\ offs' = offs - 1 /\ wish' = wish
      BY <1>11 DEF M_ON
    <2>3. CASE ~gl.maddr
      <3>1. Call(gsx_mon(gl))
        BY <1>9, <2>1, <2>3 DEF Returned
      <3> DEFINE k == IF gl.moff = 1 THEN Vdi3(IF s.hid = 0 THEN 0 ELSE s.hid - 1, s.form, s.kept) ELSE s
      <3>2. /\ Makes(gsx_mon(gl), s, k) /\ gsx_mon(gl).moff = gl.moff - 1
            /\ (gsx_mon(gl).mouse <=> gl.moff = 1 \/ gl.mouse) /\ Rest(gsx_mon(gl)) = Rest(gl)
        BY <1>3, <1>6, <2>2, <2>3, MonMakes
      <3>3. k.hid = (IF offs - 1 = 0 THEN 0 ELSE 1) /\ k.form = wish
        BY <1>5, <1>6, <2>2, <2>3 DEF Vdi3
      <3> HIDE DEF k
      <3>4. Meets(gsx_mon(gl), k, offs', wish')
        BY <1>5, <1>6, <2>2, <2>3, <3>2, <3>3 DEF Meets, Makes, Rest
      <3> QED
        BY <1>7, <3>1, <3>2, <3>4
    <2>4. CASE gl.maddr
      <3>1. Call(ctlmouseOn(gsx_mon(g)))
        BY <2>1, <2>4 DEF Returned
      <3>2. Makes(g, s, b) /\ (g.mouse <=> offs = 0) /\ g.moff = offs
        BY <1>8, <2>4
      <3> DEFINE k == IF g.moff = 1 THEN Vdi3(IF b.hid = 0 THEN 0 ELSE b.hid - 1, b.form, b.kept) ELSE b
      <3> HIDE DEF b
      <3>3. /\ Makes(gsx_mon(g), s, k) /\ gsx_mon(g).moff = g.moff - 1
            /\ (gsx_mon(g).mouse <=> g.moff = 1 \/ g.mouse)
        BY <2>2, <3>2, MonMakes
      <3>4. k.hid = (IF offs - 1 = 0 THEN 0 ELSE 1) /\ k.form = wish
        BY <1>b, <1>5, <2>2, <3>2 DEF Vdi3
      <3> HIDE DEF k
      <3>5. offs - 1 \in Nat /\ (gsx_mon(g).mouse <=> gsx_mon(g).moff = 0) /\ gsx_mon(g).moff = offs - 1
        BY <1>5, <2>2, <3>2, <3>3
      <3>6. \E n : Makes(ctlmouseOn(gsx_mon(g)), s, n) /\ Meets(ctlmouseOn(gsx_mon(g)), n, offs - 1, k.form)
        BY <3>3, <3>4, <3>5, OnMeets
      <3> QED
        BY <1>7, <2>2, <3>1, <3>4, <3>6
    <2> QED
      BY <1>5, <2>3, <2>4
  <1>12. ASSUME NEW form \in Forms, graf_mouse(form)
         PROVE  Course'
    <2>1. PICK g \in TakenBack : Call(Returned(gsx_mfset(g, form)))
      BY <1>12 DEF graf_mouse
    <2>2. offs' = offs /\ wish' = form
      BY <1>12 DEF graf_mouse
    <2>3. CASE ~gl.maddr
      <3>1. Call(gsx_mfset(gl, form))
        BY <1>9, <2>1, <2>3 DEF Returned
      <3> DEFINE k == Vdi3(s.hid, form, s.kept)
      <3>2. /\ Makes(gsx_mfset(gl, form), s, k) /\ gsx_mfset(gl, form).moff = gl.moff
            /\ (gsx_mfset(gl, form).mouse <=> gl.moff = 0 \/ gl.mouse)
            /\ Rest(gsx_mfset(gl, form)) = Rest(gl)
        BY <1>3, MfsetMakes
      <3>3. k.hid = s.hid /\ k.form = form
        BY DEF Vdi3
      <3> HIDE DEF k
      <3>4. Meets(gsx_mfset(gl, form), k, offs', wish')
        BY <1>5, <1>6, <2>2, <2>3, <3>2, <3>3 DEF Meets, Makes, Rest
      <3> QED
        BY <1>7, <3>1, <3>2, <3>4
    <2>4. CASE gl.maddr
      <3>1. Call(ctlmouseOn(gsx_mfset(g, form)))
        BY <2>1, <2>4 DEF Returned
      <3>2. Makes(g, s, b) /\ (g.mouse <=> offs = 0) /\ g.moff = offs
        BY <1>8, <2>4
      <3> DEFINE k == Vdi3(b.hid, form, b.kept)
      <3> HIDE DEF b
      <3>3. /\ Makes(gsx_mfset(g, form), s, k) /\ gsx_mfset(g, form).moff = g.moff
            /\ (gsx_mfset(g, form).mouse <=> g.moff = 0 \/ g.mouse)
        BY <3>2, MfsetMakes
      <3>4. k.hid = (IF offs = 0 THEN 0 ELSE 1) /\ k.form = form
        BY <1>b DEF Vdi3
      <3> HIDE DEF k
      <3>5. \E n : /\ Makes(ctlmouseOn(gsx_mfset(g, form)), s, n)
                   /\ Meets(ctlmouseOn(gsx_mfset(g, form)), n, offs, k.form)
        BY <1>5, <3>2, <3>3, <3>4, OnMeets
      <3> QED
        BY <1>7, <2>2, <3>1, <3>4, <3>5
    <2> QED
      BY <1>5, <2>3, <2>4
  <1>13. ASSUME NEW form \in Forms, SetForm(form)
         PROVE  Course'
    <2>1. ~gl.maddr /\ wish' = form /\ offs' = offs /\ Call(Do(gl, form))
      BY <1>13 DEF SetForm
    <2>2. Allowed(form, s) /\ Effect(form, s) = Vdi3(s.hid, form, s.kept)
      <3>1. form \in VdiCalls /\ form \notin {"draw", "putmouse"}
        BY DEF VdiCalls, CursorAssumption
      <3>2. Effect(form, s) = [hid |-> s.hid, form |-> form, kept |-> s.kept]
        BY EffectIs
      <3> QED
        BY <3>1, <3>2 DEF Allowed, Vdi3
    <2> DEFINE k == Vdi3(s.hid, form, s.kept)
               new == Do(gl, form)
    <2>3. /\ Makes(new, s, k) /\ new.moff = gl.moff /\ (new.mouse <=> gl.mouse) /\ Rest(new) = Rest(gl)
      BY <1>3, <2>2, DoMakes
    <2>4. k.hid = s.hid /\ k.form = form
      BY DEF Vdi3
    <2> HIDE DEF k, new
    <2>5. Meets(new, k, offs', wish')
      BY <1>5, <1>6, <2>1, <2>3, <2>4 DEF Meets, Makes, Rest
    <2> QED
      BY <1>7, <2>1, <2>3, <2>5 DEF new
  <1>14. CASE Draw
    <2>1. ~gl.maddr /\ offs > 0 /\ wish' = wish /\ offs' = offs /\ Call(Do(gl, "draw"))
      BY <1>14 DEF Draw, asked
    <2>2. Allowed("draw", s) /\ Effect("draw", s) = s
      <3>1. "draw" \in VdiCalls /\ s.hid > 0
        BY <1>5, <1>6, <2>1 DEF VdiCalls
      <3>2. Effect("draw", s) = s
        BY EffectIs
      <3> QED
        BY <3>1, <3>2 DEF Allowed
    <2> DEFINE new == Do(gl, "draw")
    <2>3. /\ Makes(new, s, s) /\ new.moff = gl.moff /\ (new.mouse <=> gl.mouse) /\ Rest(new) = Rest(gl)
      BY <1>3, <2>2, DoMakes
    <2> HIDE DEF new
    <2>4. Meets(new, s, offs', wish')
      BY <1>5, <1>6, <2>1, <2>3 DEF Meets, Makes, Rest
    <2> QED
      BY <1>7, <2>1, <2>3, <2>4 DEF new
  <1>d. /\ Makes(ob_draw(gl), s, s)
        /\ ob_draw(gl).moff = gl.moff /\ (ob_draw(gl).mouse <=> gl.moff = 0 \/ gl.mouse)
        /\ Rest(ob_draw(gl)) = Rest(gl)
    <2>1. gl.moff > 0 => s.hid > 0
      BY <1>4, <1>5, <1>6 DEF Meets
    <2> QED
      BY <1>3, <2>1, DrawMakes
  <1>15. ASSUME NEW showit \in BOOLEAN, menu_bar(showit)
         PROVE  Course'
    <2>1. wish' = wish /\ offs' = offs
      BY <1>15 DEF menu_bar, asked
    <2>2. CASE showit
      <3> DEFINE d == ob_draw(gl)
                 new == [d EXCEPT !.mntree = TRUE]
      <3>1. Call(new)
        BY <1>15, <2>2 DEF menu_bar
      <3>2. /\ d \in Gl /\ d.moff = gl.moff /\ (d.mouse <=> gl.moff = 0 \/ gl.mouse)
            /\ Rest(d) = Rest(gl) /\ Makes(d, s, s)
        BY <1>d DEF Makes
      <3> HIDE DEF d
      <3>3. /\ new \in Gl /\ new.ops = d.ops /\ new.moff = d.moff /\ new.mouse = d.mouse /\ new.mntree
            /\ new.maddr = d.maddr /\ new.tmpmon = d.tmpmon /\ new.tmpmoff = d.tmpmoff
        BY <3>2 DEF Gl
      <3> HIDE DEF new
      <3>4. Makes(new, s, s)
        BY <3>2, <3>3 DEF Makes
      <3>5. Meets(new, s, offs', wish')
        <4>1. /\ d.maddr = gl.maddr /\ d.tmpmon = gl.tmpmon /\ d.tmpmoff = gl.tmpmoff
          BY <3>2 DEF Rest
        <4>2. CASE gl.maddr
          BY <1>4, <2>1, <3>2, <3>3, <4>1, <4>2 DEF Meets
        <4>3. CASE ~gl.maddr
          BY <1>4, <2>1, <3>2, <3>3, <4>1, <4>3 DEF Meets
        <4> QED
          BY <1>5, <4>2, <4>3
      <3> QED
        BY <1>7, <3>1, <3>4, <3>5
    <2>3. CASE ~showit
      <3> DEFINE new == [gl EXCEPT !.mntree = FALSE]
      <3>1. Call(new)
        BY <1>15, <2>3 DEF menu_bar
      <3>2. gl \in Gl
        BY <1>3 DEF Makes
      <3>3. /\ new \in Gl /\ new.ops = gl.ops /\ new.moff = gl.moff /\ new.mouse = gl.mouse /\ ~new.mntree
            /\ new.maddr = gl.maddr /\ new.tmpmon = gl.tmpmon /\ new.tmpmoff = gl.tmpmoff
        BY <3>2 DEF Gl
      <3> HIDE DEF new
      <3>4. Makes(new, s, s)
        BY <1>3, <3>3 DEF Makes
      <3>5. Meets(new, s, offs', wish')
        <4>1. CASE gl.maddr
          BY <1>4, <2>1, <3>3, <4>1 DEF Meets
        <4>2. CASE ~gl.maddr
          BY <1>4, <2>1, <3>3, <4>2 DEF Meets
        <4> QED
          BY <1>5, <4>1, <4>2
      <3> QED
        BY <1>7, <3>1, <3>4, <3>5
    <2> QED
      BY <2>2, <2>3
  <1>16. CASE mn_do
    <2>1. ~gl.maddr /\ gl.mntree /\ Call(ctlmouseOn(gl)) /\ wish' = wish /\ offs' = offs
      BY <1>16 DEF mn_do, asked
    <2>2. (gl.mouse <=> gl.moff = 0) /\ gl.moff = offs /\ s.hid = (IF offs = 0 THEN 0 ELSE 1) /\ s.form = wish
      BY <1>6, <2>1
    <2>3. \E k : Makes(ctlmouseOn(gl), s, k) /\ Meets(ctlmouseOn(gl), k, offs, s.form)
      BY <1>3, <1>5, <2>2, OnMeets
    <2> QED
      BY <1>7, <2>1, <2>2, <2>3
  <1>17. CASE fm_alert
    <2> DEFINE d == ob_draw(gl)
    <2>1. ~gl.maddr /\ Call(ctlmouseOn(d)) /\ wish' = wish /\ offs' = offs
      BY <1>17 DEF fm_alert, asked
    <2>2. /\ Makes(d, s, s) /\ (d.mouse <=> d.moff = 0) /\ d.moff = offs
          /\ s.hid = (IF offs = 0 THEN 0 ELSE 1) /\ s.form = wish
      BY <1>6, <1>d, <2>1
    <2> HIDE DEF d
    <2>3. \E k : Makes(ctlmouseOn(d), s, k) /\ Meets(ctlmouseOn(d), k, offs, s.form)
      BY <1>5, <2>2, OnMeets
    <2> QED
      BY <1>7, <2>1, <2>2, <2>3
  <1>18. CASE Leave
    <2>1. PICK show \in {"show", "force"} : Call(ctlmouseOff(gl, show))
      BY <1>18 DEF Leave
    <2>2. gl.maddr /\ wish' = wish /\ offs' = offs
      BY <1>18 DEF Leave, asked
    <2>3. ctlmouseOff(gl, show) \in TakenBack
      BY <2>2 DEF TakenBack
    <2>4. Makes(ctlmouseOff(gl, show), s, b) /\ Meets(ctlmouseOff(gl, show), b, offs, wish)
      BY <1>8, <2>2, <2>3
    <2> HIDE DEF b
    <2> QED
      BY <1>7, <2>1, <2>2, <2>4
  <1>19. CASE NextProgram
    <2> DEFINE bare == [gl EXCEPT !.mntree = FALSE]
               d == ob_draw(bare)
               new == ratinit(d)
    <2>1. ~gl.maddr /\ Call(new) /\ wish' = wish /\ offs' = 0
      BY <1>19 DEF NextProgram
    <2>2. gl \in Gl
      BY <1>3 DEF Makes
    <2>3. /\ bare \in Gl /\ bare.ops = gl.ops /\ bare.moff = gl.moff /\ ~bare.mntree /\ ~bare.maddr
      BY <2>1, <2>2 DEF Gl
    <2>4. Makes(bare, s, s) /\ (bare.moff > 0 => s.hid > 0)
      BY <1>3, <1>5, <1>6, <2>1, <2>3 DEF Makes
    <2> HIDE DEF bare
    <2>5. Makes(d, s, s) /\ Rest(d) = Rest(bare)
      BY <2>4, DrawMakes
    <2> HIDE DEF d
    <2>6. Makes(new, s, Vdi3(0, s.form, s.kept)) /\ new.moff = 0 /\ Rest(new) = Rest(d)
      BY <2>5, RatinitMakes
    <2> HIDE DEF new
    <2>7. ~new.mntree /\ ~new.maddr
      BY <2>3, <2>5, <2>6 DEF Rest
    <2>8. Meets(new, Vdi3(0, s.form, s.kept), offs', wish')
      BY <1>5, <1>6, <2>1, <2>6, <2>7 DEF Meets, Makes, Vdi3
    <2> QED
      BY <1>7, <2>1, <2>6, <2>8
  <1> QED
    BY <1>10, <1>11, <1>12, <1>13, <1>14, <1>15, <1>16, <1>17, <1>18, <1>19 DEF AesCall

-----------------------------------------------------------------------------
(* Calls of the VDI                                                        *)

LEMMA StaysInCall ==
  ASSUME NEW s \in VdiStates, NEW fs \in VdiStates, Leads(gl.ops, s, fs), Meets(gl, fs, offs, wish),
         UNCHANGED <<gl, asked>>, Stage(s)'
  PROVE  Course'
  BY DEF Course, asked

LEMMA EndsCall ==
  ASSUME gl.ops # <<>>, NEW s \in VdiStates, NEW fs \in VdiStates,
         Leads(gl.ops, s, fs), Meets(gl, fs, offs, wish),
         gl' = [gl EXCEPT !.ops = Tail(@)], UNCHANGED asked,
         NEW t, t = Effect(Op, s), Stage(t)'
  PROVE  Course'
  <1>1. gl \in Gl /\ gl.ops \in Seq(VdiCalls)
    BY DEF Meets, Gl
  <1>2. /\ Leads(Tail(gl.ops), t, fs) /\ Tail(gl.ops) \in Seq(VdiCalls)
        /\ t \in VdiStates
    BY <1>1, LeadsOn DEF Op
  <1>3. /\ gl' \in Gl /\ gl'.ops = Tail(gl.ops) /\ gl'.moff = gl.moff /\ gl'.mouse = gl.mouse
        /\ gl'.tmpmon = gl.tmpmon /\ gl'.tmpmoff = gl.tmpmoff /\ gl'.maddr = gl.maddr
        /\ gl'.mntree = gl.mntree
    BY <1>1, <1>2 DEF Gl
  <1>4. Meets(gl', fs, offs, wish)
    BY <1>3 DEF Meets
  <1>5. Meets(gl, fs, offs, wish)'
    BY <1>4 DEF asked
  <1>6. Leads(gl.ops, t, fs)'
    BY <1>2, <1>3
  <1> QED
    BY <1>2, <1>5, <1>6 DEF Course

\* what is asked of the VDI may be done
LEMMA OpAllowed ==
  ASSUME CursorAssumption, NEW s \in VdiStates, NEW fs \in VdiStates,
         Leads(gl.ops, s, fs), Meets(gl, fs, offs, wish)
  PROVE  /\ gl.ops = <<>> => Op \notin VdiCalls
         /\ gl.ops # <<>> => Allowed(Op, s)
  <1>1. gl.ops \in Seq(VdiCalls)
    BY DEF Meets, Gl
  <1> QED
    BY <1>1, LeadsOn DEF Op, CursorAssumption, VdiCalls

LEMMA HidingKeepsCourse ==
  ASSUME CursorAssumption, Course, hide \/ cur_replace \/ restore
  PROVE  Course'
  <1>1. PICK s \in VdiStates, fs \in VdiStates :
          Stage(s) /\ Leads(gl.ops, s, fs) /\ Meets(gl, fs, offs, wish)
    BY DEF Course
  <1>2. s.hid \in Nat /\ (gl.ops = <<>> => Op \notin VdiCalls)
    BY <1>1, OpAllowed DEF VdiStates
  <1>3. /\ Op = "hide" /\ gl.ops # <<>> /\ Op \notin Forms
        /\ Effect(Op, s) = [hid |-> s.hid + 1, form |-> s.form, kept |-> s.kept]
    <2>1. Op = "hide" /\ "hide" \in VdiCalls /\ "hide" \notin Forms
      BY <1>1 DEF hide, cur_replace, restore, Go, Done, Stage, VdiCalls, CursorAssumption
    <2> QED
      BY <1>2, <2>1, EffectIs
  <1>e. PICK t : t = Effect(Op, s)
    OBVIOUS
  <1>4. CASE hide
    <2>1. CASE HIDE_CNT' = 1
      <3>1. UNCHANGED <<gl, asked>> /\ vdistep' = "replace" /\ vdistep = "call" /\ Op' = Op
        BY <1>4, <2>1 DEF hide, Go, Op
      <3>2. Stage(s)'
        BY <1>1, <1>2, <1>3, <1>4, <2>1, <3>1 DEF Stage, hide
      <3> QED
        BY <1>1, <3>1, <3>2, StaysInCall
    <2>2. CASE HIDE_CNT' # 1
      <3>1. /\ gl' = [gl EXCEPT !.ops = Tail(@)] /\ UNCHANGED asked
            /\ vdistep' = "call" /\ vdistep = "call"
        BY <1>4, <2>2 DEF hide, Done
      <3>2. Stage(t)'
        BY <1>1, <1>2, <1>3, <1>e, <1>4, <3>1 DEF Stage, hide
      <3> QED
        BY <1>1, <1>3, <1>e, <3>1, <3>2, EndsCall
    <2> QED
      BY <2>1, <2>2
  <1>5. CASE cur_replace
    <2>1. CASE save_block.ready
      <3>1. UNCHANGED <<gl, asked>> /\ vdistep' = "restore" /\ vdistep = "replace" /\ Op' = Op
        BY <1>5, <2>1 DEF cur_replace, Go, Op
      <3>2. Stage(s)'
        BY <1>1, <1>2, <1>3, <1>5, <3>1 DEF Stage, cur_replace
      <3> QED
        BY <1>1, <3>1, <3>2, StaysInCall
    <2>2. CASE ~save_block.ready
      <3>1. /\ gl' = [gl EXCEPT !.ops = Tail(@)] /\ UNCHANGED asked
            /\ vdistep' = "call" /\ vdistep = "replace"
        BY <1>5, <2>2 DEF cur_replace, Done
      <3>2. Stage(t)'
        BY <1>1, <1>2, <1>3, <1>e, <1>5, <3>1 DEF Stage, cur_replace
      <3> QED
        BY <1>1, <1>3, <1>e, <3>1, <3>2, EndsCall
    <2> QED
      BY <2>1, <2>2
  <1>6. CASE restore
    <2>1. /\ gl' = [gl EXCEPT !.ops = Tail(@)] /\ UNCHANGED asked
          /\ vdistep' = "call" /\ vdistep = "restore"
      BY <1>6 DEF restore, Done
    <2>2. Stage(t)'
      BY <1>1, <1>2, <1>3, <1>e, <1>6, <2>1 DEF Stage, restore
    <2> QED
      BY <1>1, <1>3, <1>e, <2>1, <2>2, EndsCall
  <1> QED
    BY <1>4, <1>5, <1>6

LEMMA ShowingKeepsCourse ==
  ASSUME CursorAssumption, Course,
         v_show_c \/ dis_cur \/ retrieve \/ cur_display \/ paint \/ dec_hide_cnt
  PROVE  Course'
  <1>1. PICK s \in VdiStates, fs \in VdiStates :
          Stage(s) /\ Leads(gl.ops, s, fs) /\ Meets(gl, fs, offs, wish)
    BY DEF Course
  <1>2. s.hid \in Nat /\ (gl.ops = <<>> => Op \notin VdiCalls)
    BY <1>1, OpAllowed DEF VdiStates
  <1>3. /\ Op \in {"show", "force"} /\ gl.ops # <<>> /\ Op \notin Forms
        /\ Effect(Op, s).hid = (IF Op = "force" \/ s.hid = 0 THEN 0 ELSE s.hid - 1)
        /\ Effect(Op, s).form = s.form /\ Effect(Op, s).kept = s.kept
    <2>1. Op \in {"show", "force"} /\ {"show", "force"} \subseteq VdiCalls
          /\ "show" \notin Forms /\ "force" \notin Forms
      BY <1>1 DEF v_show_c, dis_cur, retrieve, cur_display, paint, dec_hide_cnt, Go, Done, Stage,
                  VdiCalls, CursorAssumption
    <2>2. CASE Op = "show"
      <3>1. Effect("show", s) = [hid |-> IF s.hid = 0 THEN 0 ELSE s.hid - 1, form |-> s.form, kept |-> s.kept]
        BY EffectIs
      <3> QED
        BY <1>2, <2>1, <2>2, <3>1
    <2>3. CASE Op = "force"
      <3>1. Effect("force", s) = [hid |-> 0, form |-> s.form, kept |-> s.kept]
        BY EffectIs
      <3> QED
        BY <1>2, <2>1, <2>3, <3>1
    <2> QED
      BY <2>1, <2>2, <2>3
  <1>e. PICK t : t = Effect(Op, s)
    OBVIOUS
  <1>4. CASE v_show_c
    <2>1. UNCHANGED <<gl, asked>> /\ vdistep' = "dis" /\ vdistep = "call" /\ Op' = Op
      BY <1>4 DEF v_show_c, Go, Op
    <2>2. Stage(s)'
      BY <1>1, <1>2, <1>3, <1>4, <2>1 DEF Stage, v_show_c
    <2> QED
      BY <1>1, <2>1, <2>2, StaysInCall
  <1>5. CASE dis_cur
    <2>1. CASE HIDE_CNT = 1
      <3>1. UNCHANGED <<gl, asked>> /\ vdistep' = "retrieve" /\ vdistep = "dis" /\ Op' = Op
        BY <1>5, <2>1 DEF dis_cur, Go, Op
      <3>2. Stage(s)'
        BY <1>1, <1>2, <1>3, <1>5, <2>1, <3>1 DEF Stage, dis_cur
      <3> QED
        BY <1>1, <3>1, <3>2, StaysInCall
    <2>2. CASE HIDE_CNT # 1
      <3>1. /\ gl' = [gl EXCEPT !.ops = Tail(@)] /\ UNCHANGED asked
            /\ vdistep' = "call" /\ vdistep = "dis"
        BY <1>5, <2>2 DEF dis_cur, Done
      <3>2. Stage(t)'
        BY <1>1, <1>2, <1>3, <1>e, <1>5, <2>2, <3>1 DEF Stage, dis_cur
      <3> QED
        BY <1>1, <1>3, <1>e, <3>1, <3>2, EndsCall
    <2> QED
      BY <2>1, <2>2
  <1>6. CASE retrieve \/ cur_display \/ paint
    <2>1. /\ UNCHANGED <<gl, asked>> /\ Op' = Op
          /\ vdistep' \in {"mark", "paint", "dec"} /\ vdistep \in {"retrieve", "mark", "paint"}
          /\ UNCHANGED <<HIDE_CNT, mouse_flag, mouse_cdb, mform>>
      BY <1>6 DEF retrieve, cur_display, paint, Go, Op
    <2>2. Stage(s)'
      BY <1>1, <1>2, <1>3, <2>1 DEF Stage
    <2> QED
      BY <1>1, <2>1, <2>2, StaysInCall
  <1>7. CASE dec_hide_cnt
    <2>1. /\ gl' = [gl EXCEPT !.ops = Tail(@)] /\ UNCHANGED asked
          /\ vdistep' = "call" /\ vdistep = "dec"
      BY <1>7 DEF dec_hide_cnt, Done
    <2>2. Stage(t)'
      BY <1>1, <1>2, <1>3, <1>e, <1>7, <2>1 DEF Stage, dec_hide_cnt
    <2> QED
      BY <1>1, <1>3, <1>e, <2>1, <2>2, EndsCall
  <1> QED
    BY <1>4, <1>5, <1>6, <1>7

LEMMA FormKeepsCourse ==
  ASSUME CursorAssumption, Course, vsc_form \/ form_head \/ form_picture \/ packet \/ unlock
  PROVE  Course'
  <1>1. PICK s \in VdiStates, fs \in VdiStates :
          Stage(s) /\ Leads(gl.ops, s, fs) /\ Meets(gl, fs, offs, wish)
    BY DEF Course
  <1>2. s.hid \in Nat /\ (gl.ops = <<>> => Op \notin VdiCalls)
    BY <1>1, OpAllowed DEF VdiStates
  <1>3. /\ Op \in Forms /\ gl.ops # <<>>
        /\ Op \notin {"hide", "show", "force", "draw", "getmouse", "putmouse"}
        /\ Effect(Op, s) = [hid |-> s.hid, form |-> Op, kept |-> s.kept]
    <2>1. Op \in Forms /\ Forms \subseteq VdiCalls
      BY <1>1 DEF vsc_form, form_head, form_picture, packet, unlock, Go, Done, Stage, VdiCalls
    <2> QED
      BY <1>2, <2>1, EffectIs DEF CursorAssumption
  <1>e. PICK t : t = Effect(Op, s)
    OBVIOUS
  <1>4. CASE vsc_form
    <2>1. UNCHANGED <<gl, asked>> /\ vdistep' = "head" /\ vdistep = "call" /\ Op' = Op
      BY <1>4 DEF vsc_form, Go, Op
    <2>2. Stage(s)'
      BY <1>1, <1>2, <1>3, <1>4, <2>1 DEF Stage, vsc_form
    <2> QED
      BY <1>1, <2>1, <2>2, StaysInCall
  <1>5. CASE form_head
    <2>1. UNCHANGED <<gl, asked>> /\ vdistep' = "picture" /\ vdistep = "head" /\ Op' = Op
      BY <1>5 DEF form_head, Go, Op
    <2>2. Stage(s)'
      BY <1>1, <1>2, <1>3, <1>5, <2>1 DEF Stage, form_head
    <2> QED
      BY <1>1, <2>1, <2>2, StaysInCall
  <1>6. CASE form_picture
    <2>1. UNCHANGED <<gl, asked>> /\ vdistep' = "packet" /\ vdistep = "picture" /\ Op' = Op
      BY <1>6 DEF form_picture, Go, Op
    <2>2. Stage(s)'
      BY <1>1, <1>2, <1>3, <1>6, <2>1 DEF Stage, form_picture
    <2> QED
      BY <1>1, <2>1, <2>2, StaysInCall
  <1>7. CASE packet
    <2>1. UNCHANGED <<gl, asked>> /\ vdistep' = "unlock" /\ vdistep = "packet" /\ Op' = Op
      BY <1>7 DEF packet, Go, Op
    <2>2. Stage(s)'
      BY <1>1, <1>2, <1>3, <1>7, <2>1 DEF Stage, packet
    <2> QED
      BY <1>1, <2>1, <2>2, StaysInCall
  <1>8. CASE unlock
    <2>1. /\ gl' = [gl EXCEPT !.ops = Tail(@)] /\ UNCHANGED asked
          /\ vdistep' = "call" /\ vdistep = "unlock"
      BY <1>8 DEF unlock, Done
    <2>2. Stage(t)'
      BY <1>1, <1>2, <1>3, <1>e, <1>8, <2>1 DEF Stage, unlock
    <2> QED
      BY <1>1, <1>3, <1>e, <2>1, <2>2, EndsCall
  <1> QED
    BY <1>4, <1>5, <1>6, <1>7, <1>8

LEMMA CopyKeepsCourse ==
  ASSUME CursorAssumption, Course, getmouse \/ putmouse \/ putdata \/ \E q \in Places : draw(q)
  PROVE  Course'
  <1>1. PICK s \in VdiStates, fs \in VdiStates :
          Stage(s) /\ Leads(gl.ops, s, fs) /\ Meets(gl, fs, offs, wish)
    BY DEF Course
  <1>2. s.hid \in Nat /\ (gl.ops = <<>> => Op \notin VdiCalls)
    BY <1>1, OpAllowed DEF VdiStates
  <1>3. /\ Op \in {"getmouse", "putmouse", "draw"} /\ gl.ops # <<>> /\ Op \notin Forms
        /\ Op = "getmouse" => Effect(Op, s) = [hid |-> s.hid, form |-> s.form, kept |-> s.form]
        /\ Op = "putmouse" => Effect(Op, s) = [hid |-> s.hid, form |-> s.kept, kept |-> arrow]
        /\ Op = "draw" => Effect(Op, s) = s
    <2>1. /\ Op \in {"getmouse", "putmouse", "draw"}
          /\ {"getmouse", "putmouse", "draw"} \subseteq VdiCalls
          /\ "getmouse" \notin Forms /\ "putmouse" \notin Forms /\ "draw" \notin Forms
      BY <1>1 DEF getmouse, putmouse, putdata, draw, Go, Done, Stage, VdiCalls, CursorAssumption
    <2> QED
      BY <1>2, <2>1, EffectIs
  <1>e. PICK t : t = Effect(Op, s)
    OBVIOUS
  <1>4. CASE getmouse
    <2>1. /\ gl' = [gl EXCEPT !.ops = Tail(@)] /\ UNCHANGED asked /\ Op = "getmouse"
          /\ vdistep' = "call" /\ vdistep = "call"
      BY <1>4 DEF getmouse, Done
    <2>2. Stage(t)'
      BY <1>1, <1>2, <1>3, <1>e, <1>4, <2>1 DEF Stage, getmouse
    <2> QED
      BY <1>1, <1>3, <1>e, <2>1, <2>2, EndsCall
  <1>5. CASE putmouse
    <2>1. UNCHANGED <<gl, asked>> /\ vdistep' = "putdata" /\ vdistep = "call" /\ Op' = Op
      BY <1>5 DEF putmouse, Go, Op
    <2>2. Stage(s)'
      BY <1>1, <1>2, <1>3, <1>5, <2>1 DEF Stage, putmouse
    <2> QED
      BY <1>1, <2>1, <2>2, StaysInCall
  <1>6. CASE putdata
    <2>1. /\ gl' = [gl EXCEPT !.ops = Tail(@)] /\ UNCHANGED asked
          /\ vdistep' = "call" /\ vdistep = "putdata" /\ Op = "putmouse"
      BY <1>1, <1>6 DEF putdata, Done, Stage
    <2>2. Stage(t)'
      BY <1>1, <1>2, <1>3, <1>e, <1>6, <2>1 DEF Stage, putdata
    <2> QED
      BY <1>1, <1>3, <1>e, <2>1, <2>2, EndsCall
  <1>7. ASSUME NEW q \in Places, draw(q)
        PROVE  Course'
    <2>1. /\ gl' = [gl EXCEPT !.ops = Tail(@)] /\ UNCHANGED asked
          /\ vdistep' = "call" /\ vdistep = "call" /\ Op = "draw"
      BY <1>7 DEF draw, Done
    <2>2. Stage(t)'
      BY <1>1, <1>2, <1>3, <1>e, <1>7, <2>1 DEF Stage, draw
    <2> QED
      BY <1>1, <1>3, <1>e, <2>1, <2>2, EndsCall
  <1> QED
    BY <1>4, <1>5, <1>6, <1>7

-----------------------------------------------------------------------------
(* The screen                                                              *)

\* what the screen depends on
Device ==
  /\ HIDE_CNT \in Nat /\ mouse_flag \in {0, 1}
  /\ vdistep \in {"replace", "restore", "retrieve", "mark", "paint", "dec"} => HIDE_CNT = 1
  /\ vdistep \in {"head", "picture", "packet", "unlock"} <=> mouse_flag = 1
  /\ vdistep = "putdata" => HIDE_CNT > 0
  /\ vdistep = "call" /\ Op \in {"draw", "putmouse"} => HIDE_CNT > 0
  /\ vdistep \notin {"picture", "putdata"} => mouse_cdb \in Pictures
  /\ gl.ops = <<>> => vdistep = "call"

LEMMA DeviceIs ==
  ASSUME CursorAssumption, Course
  PROVE  Device
  <1>1. PICK s \in VdiStates, fs \in VdiStates :
          Stage(s) /\ Leads(gl.ops, s, fs) /\ Meets(gl, fs, offs, wish)
    BY DEF Course
  <1>2. s.hid \in Nat /\ s.form \in Forms
    BY DEF VdiStates
  <1>3. (gl.ops = <<>> => Op \notin VdiCalls) /\ (Op \in {"draw", "putmouse"} => s.hid > 0)
    <2>1. {"draw", "putmouse"} \subseteq VdiCalls
      BY DEF VdiCalls
    <2> QED
      BY <1>1, <2>1, OpAllowed DEF Allowed
  <1>4. Op \in Forms => <<Op, Op>> \in Pictures
    BY DEF Pictures
  <1>5. <<s.form, s.form>> \in Pictures
    BY <1>2 DEF Pictures
  <1>6. "putmouse" # "force"
    OBVIOUS
  <1>7. /\ HIDE_CNT \in Nat /\ mouse_flag \in {0, 1}
        /\ vdistep \in {"replace", "restore", "retrieve", "mark", "paint", "dec"} => HIDE_CNT = 1
        /\ vdistep \in {"head", "picture", "packet", "unlock"} <=> mouse_flag = 1
        /\ vdistep = "putdata" => HIDE_CNT > 0
        /\ vdistep = "call" /\ Op \in {"draw", "putmouse"} => HIDE_CNT > 0
    BY <1>1, <1>2, <1>3 DEF Stage
  <1>8. vdistep \notin {"picture", "putdata"} => mouse_cdb \in Pictures
    BY <1>1, <1>4, <1>5 DEF Stage
  <1>9. gl.ops = <<>> => vdistep = "call"
    BY <1>1, <1>3 DEF Stage, VdiCalls
  <1> QED
    BY <1>7, <1>8, <1>9 DEF Device

Display == CursorType /\ Picture /\ Followed

LEMMA CallsKeepDisplay ==
  ASSUME Device, Device', Display, AesCall
  PROVE  Display'
  <1>1. /\ UNCHANGED <<HIDE_CNT, mouse_flag, mouse_cdb, vblvars, shown, vdistep, xy, mform>>
    BY DEF AesCall, M_OFF, M_ON, graf_mouse, SetForm, Draw, menu_bar, mn_do, fm_alert, Leave,
           NextProgram, Call
  <1> QED
    BY <1>1 DEF Display, CursorType, Picture, Followed, OnScreen, Bare, vblvars, shown

LEMMA MouseKeepsDisplay ==
  ASSUME Device, Device', Display, NEW p \in Places, mouse_rel(p)
  PROVE  Display'
  <1>1. CursorType'
    BY DEF Display, CursorType, mouse_rel, MOV_CUR, shown
  <1>2. Picture'
    BY DEF Display, Picture, OnScreen, Bare, mouse_rel, shown
  <1>3. Followed'
    BY DEF Display, Followed, mouse_rel, MOV_CUR, shown
  <1> QED
    BY <1>1, <1>2, <1>3 DEF Display

LEMMA VblKeepsDisplay ==
  ASSUME Device, Device', Display, vb_draw \/ vb_redraw
  PROVE  Display'
  <1>1. CASE vb_draw
    <2>1. CursorType'
      BY <1>1 DEF Display, CursorType, vb_draw, shown
    <2>2. Picture'
      BY <1>1 DEF Display, Picture, OnScreen, Bare, vb_draw, shown
    <2>3. Followed'
      BY <1>1 DEF Display, Followed, Device, vb_draw, shown
    <2> QED
      BY <2>1, <2>2, <2>3 DEF Display
  <1>2. CASE vb_redraw
    <2>1. /\ HIDE_CNT = 0 /\ mouse_flag = 0 /\ vbl = "read" /\ vbl' = "idle" /\ save_block.ready
          /\ vdistep \notin {"replace", "restore", "mark", "paint", "dec", "picture", "packet", "putdata"}
          /\ mouse_cdb \in Pictures
      BY <1>2 DEF Display, Followed, Picture, Device, vb_redraw
    <2>2. OnScreen /\ save_block.at \in Places /\ xydraw = GCURXY /\ xydraw \in Places
      BY <2>1 DEF Display, Picture, CursorType, Followed
    <2>3. /\ Replaced \in [Places -> [bg : {0, 1}, cur : {none} \cup Pictures]]
          /\ \A q \in Places : Replaced[q] = [bg |-> canvas[q], cur |-> none]
      <3>1. Replaced = [screen EXCEPT ![save_block.at] = save_block.cell]
        BY <2>1 DEF Replaced
      <3>2. save_block.cell \in [bg : {0, 1}, cur : {none} \cup Pictures]
        BY DEF Display, CursorType
      <3>3. screen \in [Places -> [bg : {0, 1}, cur : {none} \cup Pictures]]
        BY DEF Display, CursorType
      <3> QED
        BY <2>2, <3>1, <3>2, <3>3 DEF OnScreen, Bare
    <2>4. /\ save_block' = [ready |-> TRUE, at |-> xydraw, cell |-> Replaced[xydraw]]
          /\ screen' = [Replaced EXCEPT ![xydraw].cur = mouse_cdb]
          /\ UNCHANGED <<HIDE_CNT, mouse_flag, mouse_cdb, GCURXY, xydraw, draw_flag, canvas, vdistep, xy>>
      BY <1>2 DEF vb_redraw
    <2> HIDE DEF Replaced
    <2>5. /\ save_block'.ready /\ save_block'.at = xydraw
          /\ save_block'.cell = [bg |-> canvas[xydraw], cur |-> none]
          /\ save_block' \in [ready : BOOLEAN, at : Places, cell : [bg : {0, 1}, cur : {none} \cup Pictures]]
      BY <2>2, <2>3, <2>4
    <2>6. /\ screen' \in [Places -> [bg : {0, 1}, cur : {none} \cup Pictures]]
          /\ screen'[xydraw] = [bg |-> canvas[xydraw], cur |-> mouse_cdb]
          /\ \A q \in Places \ {xydraw} : screen'[q] = [bg |-> canvas[q], cur |-> none]
      <3>1. [Replaced[xydraw] EXCEPT !.cur = mouse_cdb] = [bg |-> canvas[xydraw], cur |-> mouse_cdb]
        BY <2>2, <2>3
      <3>2. [bg |-> canvas[xydraw], cur |-> mouse_cdb] \in [bg : {0, 1}, cur : {none} \cup Pictures]
        BY <2>1, <2>2 DEF Display, CursorType
      <3> QED
        BY <2>2, <2>3, <2>4, <3>1, <3>2
    <2>7. CursorType'
      BY <2>1, <2>4, <2>5, <2>6 DEF Display, CursorType
    <2>8. OnScreen'
      BY <2>1, <2>2, <2>4, <2>5, <2>6 DEF OnScreen, Bare
    <2>9. Picture'
      BY <2>1, <2>4, <2>5, <2>8 DEF Picture
    <2>10. Followed'
      BY <2>1, <2>2, <2>4, <2>5, <2>6 DEF Display, Followed
    <2> QED
      BY <2>7, <2>9, <2>10 DEF Display
  <1> QED
    BY <1>1, <1>2

LEMMA HidingKeepsDisplay ==
  ASSUME Device, Device', Display, hide \/ cur_replace \/ restore
  PROVE  Display'
  <1>1. CASE hide
    <2>1. /\ vdistep = "call" /\ HIDE_CNT' = HIDE_CNT + 1 /\ HIDE_CNT \in Nat /\ vbl = "idle"
          /\ vdistep' = (IF HIDE_CNT' = 1 THEN "replace" ELSE "call")
          /\ UNCHANGED <<mouse_flag, mouse_cdb, GCURXY, xydraw, draw_flag, vbl, save_block, screen, canvas, xy>>
      BY <1>1 DEF hide, Go, Done, Device, vblvars, shown
    <2>2. CursorType'
      BY <2>1 DEF Display, CursorType
    <2>3. Picture'
      BY <2>1 DEF Display, Picture, OnScreen, Bare
    <2>4. Followed'
      BY <2>1 DEF Display, Followed
    <2> QED
      BY <2>2, <2>3, <2>4 DEF Display
  <1>2. CASE cur_replace
    <2>1. /\ vdistep = "replace" /\ HIDE_CNT = 1 /\ vbl = "idle" /\ save_block.ready
          /\ vdistep' = "restore"
          /\ UNCHANGED <<HIDE_CNT, mouse_flag, mouse_cdb, GCURXY, xydraw, draw_flag, vbl, screen, canvas, xy>>
      BY <1>2 DEF cur_replace, Go, Done, Device, Display, Picture, vblvars
    <2>2. /\ ~save_block'.ready /\ save_block'.at = save_block.at /\ save_block'.cell = save_block.cell
          /\ save_block' \in [ready : BOOLEAN, at : Places, cell : [bg : {0, 1}, cur : {none} \cup Pictures]]
      BY <1>2 DEF cur_replace, Display, CursorType
    <2>3. CursorType'
      BY <2>1, <2>2 DEF Display, CursorType
    <2>4. Picture'
      BY <2>1, <2>2 DEF Display, Picture, OnScreen, Bare
    <2>5. Followed'
      BY <2>1, <2>2 DEF Display, Followed
    <2> QED
      BY <2>3, <2>4, <2>5 DEF Display
  <1>3. CASE restore
    <2>1. /\ vdistep = "restore" /\ HIDE_CNT = 1 /\ vbl = "idle" /\ vdistep' = "call"
          /\ screen' = [screen EXCEPT ![save_block.at] = save_block.cell]
          /\ UNCHANGED <<HIDE_CNT, mouse_flag, mouse_cdb, GCURXY, xydraw, draw_flag, vbl, save_block, canvas, xy>>
      BY <1>3 DEF restore, Done, Device, vblvars
    <2>2. OnScreen /\ ~save_block.ready
      BY <2>1 DEF Display, Picture
    <2>3. CursorType'
      BY <2>1 DEF Display, CursorType
    <2>4. Picture'
      BY <2>1, <2>2 DEF Display, Picture, OnScreen, Bare, CursorType
    <2>5. Followed'
      BY <2>1 DEF Display, Followed
    <2> QED
      BY <2>3, <2>4, <2>5 DEF Display
  <1> QED
    BY <1>1, <1>2, <1>3

LEMMA ShowingKeepsDisplay ==
  ASSUME Device, Device', Display,
         v_show_c \/ dis_cur \/ retrieve \/ cur_display \/ paint \/ dec_hide_cnt
  PROVE  Display'
  <1>1. CASE v_show_c
    <2>1. /\ vdistep = "call" /\ vdistep' = "dis" /\ vbl = "idle" /\ HIDE_CNT \in Nat
          /\ HIDE_CNT' = HIDE_CNT \/ (HIDE_CNT # 0 /\ HIDE_CNT' = 1)
          /\ UNCHANGED <<mouse_flag, mouse_cdb, GCURXY, xydraw, draw_flag, vbl, save_block, screen, canvas, xy>>
      BY <1>1 DEF v_show_c, Go, Device, vblvars, shown
    <2>2. CursorType'
      BY <2>1 DEF Display, CursorType
    <2>3. Picture'
      BY <2>1 DEF Display, Picture, OnScreen, Bare
    <2>4. Followed'
      BY <2>1 DEF Display, Followed
    <2> QED
      BY <2>2, <2>3, <2>4 DEF Display
  <1>2. CASE dis_cur
    <2>1. /\ vdistep = "dis" /\ vbl = "idle" /\ HIDE_CNT \in Nat
          /\ \/ vdistep' = "retrieve" /\ HIDE_CNT = 1 /\ HIDE_CNT' = 1
             \/ vdistep' = "call" /\ HIDE_CNT = 0 /\ HIDE_CNT' = 0
             \/ vdistep' = "call" /\ HIDE_CNT > 0 /\ HIDE_CNT' > 0
          /\ UNCHANGED <<mouse_flag, mouse_cdb, GCURXY, xydraw, draw_flag, vbl, save_block, screen, canvas, xy>>
      BY <1>2 DEF dis_cur, Go, Done, Device, vblvars, shown
    <2>2. CursorType'
      BY <2>1 DEF Display, CursorType
    <2>3. Picture'
      BY <2>1 DEF Display, Picture, OnScreen, Bare
    <2>4. Followed'
      BY <2>1 DEF Display, Followed
    <2> QED
      BY <2>2, <2>3, <2>4 DEF Display
  <1>3. CASE retrieve
    <2>1. /\ vdistep = "retrieve" /\ vdistep' = "mark" /\ vbl = "idle" /\ HIDE_CNT = 1
          /\ xy' = GCURXY /\ draw_flag' = FALSE
          /\ UNCHANGED <<HIDE_CNT, mouse_flag, mouse_cdb, GCURXY, xydraw, vbl, save_block, screen, canvas>>
      BY <1>3 DEF retrieve, Go, Device, shown
    <2>2. CursorType'
      BY <2>1 DEF Display, CursorType
    <2>3. Picture'
      BY <2>1 DEF Display, Picture, OnScreen, Bare
    <2>4. Followed'
      BY <2>1 DEF Display, Followed
    <2> QED
      BY <2>2, <2>3, <2>4 DEF Display
  <1>4. CASE cur_display
    <2>1. /\ vdistep = "mark" /\ vdistep' = "paint" /\ vbl = "idle" /\ HIDE_CNT = 1
          /\ UNCHANGED <<HIDE_CNT, mouse_flag, mouse_cdb, GCURXY, xydraw, draw_flag, vbl, screen, canvas, xy>>
      BY <1>4 DEF cur_display, Go, Device, vblvars
    <2>2. /\ save_block'.ready /\ save_block'.at = xy
          /\ save_block' \in [ready : BOOLEAN, at : Places, cell : [bg : {0, 1}, cur : {none} \cup Pictures]]
      BY <1>4 DEF cur_display, Display, CursorType
    <2>3. CursorType'
      BY <2>1, <2>2 DEF Display, CursorType
    <2>4. Picture'
      BY <2>1, <2>2 DEF Display, Picture, Bare
    <2>5. Followed'
      BY <2>1 DEF Display, Followed
    <2> QED
      BY <2>3, <2>4, <2>5 DEF Display
  <1>5. CASE paint
    <2>1. /\ vdistep = "paint" /\ vdistep' = "dec" /\ vbl = "idle" /\ HIDE_CNT = 1 /\ mouse_cdb \in Pictures
          /\ save_block.ready /\ save_block.at = xy /\ xy \in Places
          /\ UNCHANGED <<HIDE_CNT, mouse_flag, mouse_cdb, GCURXY, xydraw, draw_flag, vbl, canvas, xy>>
      BY <1>5 DEF paint, Go, Device, Display, Picture, CursorType, vblvars
    <2>2. screen[xy] = [bg |-> canvas[xy], cur |-> none] /\ screen[xy] \in [bg : {0, 1}, cur : {none} \cup Pictures]
      BY <2>1 DEF Display, Picture, Bare, CursorType
    <2>3. /\ save_block'.ready /\ save_block'.at = xy /\ save_block'.cell = screen[xy]
          /\ save_block' \in [ready : BOOLEAN, at : Places, cell : [bg : {0, 1}, cur : {none} \cup Pictures]]
      BY <1>5, <2>1, <2>2 DEF paint, Display, CursorType
    <2>4. /\ screen' \in [Places -> [bg : {0, 1}, cur : {none} \cup Pictures]]
          /\ screen'[xy].bg = canvas[xy] /\ screen'[xy].cur = mouse_cdb
          /\ \A q \in Places \ {xy} : screen'[q] = screen[q]
      <3>1. screen \in [Places -> [bg : {0, 1}, cur : {none} \cup Pictures]]
        BY DEF Display, CursorType
      <3>2. /\ [screen[xy] EXCEPT !.cur = mouse_cdb] \in [bg : {0, 1}, cur : {none} \cup Pictures]
            /\ [screen[xy] EXCEPT !.cur = mouse_cdb].bg = canvas[xy]
            /\ [screen[xy] EXCEPT !.cur = mouse_cdb].cur = mouse_cdb
        BY <2>1, <2>2
      <3> QED
        BY <1>5, <2>1, <3>1, <3>2 DEF paint
    <2>5. CursorType'
      BY <2>1, <2>3, <2>4 DEF Display, CursorType
    <2>6. Picture'
      BY <2>1, <2>2, <2>3, <2>4 DEF Display, Picture, OnScreen, Bare
    <2>7. Followed'
      BY <2>1, <2>3, <2>4 DEF Display, Followed
    <2> QED
      BY <2>5, <2>6, <2>7 DEF Display
  <1>6. CASE dec_hide_cnt
    <2>1. /\ vdistep = "dec" /\ vdistep' = "call" /\ vbl = "idle" /\ HIDE_CNT = 1 /\ HIDE_CNT' = 0
          /\ UNCHANGED <<mouse_flag, mouse_cdb, GCURXY, xydraw, draw_flag, vbl, save_block, screen, canvas, xy>>
      BY <1>6 DEF dec_hide_cnt, Done, Device, vblvars, shown
    <2>2. CursorType'
      BY <2>1 DEF Display, CursorType
    <2>3. Picture'
      BY <2>1 DEF Display, Picture, OnScreen, Bare
    <2>4. Followed'
      BY <2>1 DEF Display, Followed
    <2> QED
      BY <2>2, <2>3, <2>4 DEF Display
  <1> QED
    BY <1>1, <1>2, <1>3, <1>4, <1>5, <1>6

LEMMA FormKeepsDisplay ==
  ASSUME Device, Device', Display, vsc_form \/ form_head \/ form_picture \/ packet \/ unlock
  PROVE  Display'
  <1>1. /\ vbl = "idle" /\ UNCHANGED <<HIDE_CNT, GCURXY, vbl, save_block, screen, canvas, xy>>
        /\ vdistep' \in {"head", "picture", "packet", "unlock", "call"}
        /\ vdistep \in {"head", "picture", "packet", "unlock", "call"}
    BY DEF vsc_form, form_head, form_picture, packet, unlock, Go, Done, vblvars, shown
  <1>2. \/ xydraw' = xydraw /\ draw_flag' = draw_flag
        \/ xydraw' = GCURXY /\ draw_flag'
    BY DEF vsc_form, form_head, form_picture, packet, unlock, vblvars, MOV_CUR
  <1>3. CursorType'
    BY <1>1, <1>2 DEF Display, CursorType
  <1>4. Picture'
    BY <1>1 DEF Display, Picture, OnScreen, Bare
  <1>5. Followed'
    <2>1. \/ vdistep = "call" /\ vdistep' = "head" /\ mouse_cdb' = mouse_cdb /\ draw_flag' = draw_flag
          \/ vdistep' \in {"picture", "packet"}
          \/ vdistep' = "unlock" /\ draw_flag'
          \/ vdistep = "unlock" /\ vdistep' = "call" /\ mouse_cdb' = mouse_cdb /\ draw_flag' = draw_flag
      BY DEF vsc_form, form_head, form_picture, packet, unlock, Go, Done, vblvars, MOV_CUR
    <2> QED
      BY <1>1, <1>2, <2>1 DEF Display, Followed
  <1> QED
    BY <1>3, <1>4, <1>5 DEF Display

LEMMA CopyKeepsDisplay ==
  ASSUME Device, Device', Display, getmouse \/ putmouse \/ putdata \/ \E q \in Places : draw(q)
  PROVE  Display'
  <1>1. CASE getmouse \/ putmouse \/ putdata
    <2>1. /\ vbl = "idle"
          /\ UNCHANGED <<HIDE_CNT, mouse_flag, GCURXY, xydraw, draw_flag, vbl, save_block, screen, canvas, xy>>
          /\ vdistep' \in {"putdata", "call"} /\ vdistep \in {"putdata", "call"}
          /\ mouse_cdb' = mouse_cdb \/ HIDE_CNT > 0
      BY <1>1 DEF getmouse, putmouse, putdata, Go, Done, vblvars, shown, Device
    <2>2. CursorType'
      BY <2>1 DEF Display, CursorType
    <2>3. Picture'
      BY <2>1 DEF Display, Picture, OnScreen, Bare
    <2>4. Followed'
      BY <2>1 DEF Display, Followed, Device
    <2> QED
      BY <2>2, <2>3, <2>4 DEF Display
  <1>2. ASSUME NEW q \in Places, draw(q)
        PROVE  Display'
    <2>1. /\ vbl = "idle" /\ vdistep = "call" /\ vdistep' = "call" /\ HIDE_CNT > 0 /\ HIDE_CNT \in Nat
          /\ UNCHANGED <<HIDE_CNT, mouse_flag, mouse_cdb, GCURXY, xydraw, draw_flag, vbl, save_block, xy>>
          /\ canvas' = [canvas EXCEPT ![q] = 1 - @]
          /\ screen' = [screen EXCEPT ![q] = [bg |-> 1 - canvas[q], cur |-> none]]
      BY <1>2 DEF draw, Done, vblvars, Device
    <2>2. ~save_block.ready /\ \A p \in Places : Bare(p)
      BY <2>1 DEF Display, Picture
    <2>3. CursorType'
      BY <2>1 DEF Display, CursorType
    <2>4. Picture'
      BY <2>1, <2>2 DEF Display, Picture, Bare, CursorType
    <2>5. Followed'
      BY <2>1 DEF Display, Followed
    <2> QED
      BY <2>3, <2>4, <2>5 DEF Display
  <1> QED
    BY <1>1, <1>2

-----------------------------------------------------------------------------
(* The invariant                                                           *)

LEMMA InterruptsKeepCourse ==
  ASSUME Course, (\E q \in Places : mouse_rel(q)) \/ vb_draw \/ vb_redraw
  PROVE  Course'
  <1>1. PICK s \in VdiStates, fs \in VdiStates :
          Stage(s) /\ Leads(gl.ops, s, fs) /\ Meets(gl, fs, offs, wish)
    BY DEF Course
  <1>2. UNCHANGED <<HIDE_CNT, mouse_flag, mouse_cdb, vdistep, gl, mform, asked>>
    BY DEF mouse_rel, vb_draw, vb_redraw
  <1>3. Stage(s)'
    BY <1>1, <1>2 DEF Stage, Op
  <1> QED
    BY <1>1, <1>2, <1>3, StaysInCall

LEMMA InitCourse ==
  ASSUME CursorAssumption, CursorInit
  PROVE  Course
  <1> DEFINE s == Vdi3(Boot, arrow, arrow)
             fs == Vdi3(0, arrow, arrow)
             set == gsx_mfset(Start, arrow)
  <1>1. s \in VdiStates /\ s.hid = Boot /\ s.form = arrow /\ s.kept = arrow /\ arrow \in Forms
    BY DEF CursorAssumption, VdiStates, Vdi3
  <1>2. Makes(Start, s, s)
    BY <1>1, LeadsNowhere DEF Makes, Start, Gl
  <1> HIDE DEF s
  <1>3. Start.moff = 0 /\ ~Start.maddr
    BY DEF Start
  <1>4. /\ Makes(set, s, Vdi3(Boot, arrow, arrow)) /\ set.moff = 0 /\ set.mouse
        /\ Rest(set) = Rest(Start)
    BY <1>1, <1>2, <1>3, MfsetMakes
  <1>5. Vdi3(Boot, arrow, arrow).form = arrow /\ Vdi3(Boot, arrow, arrow).kept = arrow
    BY DEF Vdi3
  <1> HIDE DEF set
  <1>6. /\ Makes(ratinit(set), s, fs) /\ ratinit(set).moff = 0
        /\ ratinit(set).mouse /\ Rest(ratinit(set)) = Rest(Start)
    BY <1>4, <1>5, RatinitMakes
  <1>7. gl = ratinit(set) /\ offs = 0 /\ wish = arrow
    BY DEF CursorInit, set
  <1>8. Meets(gl, fs, offs, wish)
    BY <1>1, <1>3, <1>6, <1>7 DEF Meets, Makes, Rest, Vdi3
  <1>9. Stage(s)
    BY <1>1 DEF Stage, CursorInit
  <1> QED
    BY <1>6, <1>7, <1>8, <1>9, <1>1 DEF Course, Makes

LEMMA InitDisplay ==
  ASSUME CursorAssumption, CursorInit
  PROVE  Display
  <1>1. save_block = [ready |-> FALSE, at |-> GCURXY, cell |-> [bg |-> 0, cur |-> none]]
    BY DEF CursorInit
  <1>2. CursorType
    BY <1>1 DEF CursorInit, CursorType
  <1>3. Picture
    BY <1>1 DEF CursorInit, CursorAssumption, Picture, Bare
  <1>4. Followed
    BY DEF CursorInit, Followed
  <1> QED
    BY <1>2, <1>3, <1>4 DEF Display

\* The calls still to be made lead the VDI from where it is to what the AES
\* takes it to be, in every state.
THEOREM CursorCourse ==
  ASSUME CursorAssumption
  PROVE  CursorSpec => []Course
  <1>1. CursorInit => Course
    BY InitCourse
  <1>2. Course /\ [CursorNext]_cursorvars => Course'
    <2> SUFFICES ASSUME Course, [CursorNext]_cursorvars
                 PROVE  Course'
      OBVIOUS
    <2>1. CASE UNCHANGED cursorvars
      <3>1. PICK s \in VdiStates, fs \in VdiStates :
              Stage(s) /\ Leads(gl.ops, s, fs) /\ Meets(gl, fs, offs, wish)
        BY DEF Course
      <3>2. UNCHANGED <<HIDE_CNT, mouse_flag, mouse_cdb, vdistep, gl, mform, asked>>
        BY <2>1 DEF cursorvars
      <3>3. Stage(s)'
        BY <3>1, <3>2 DEF Stage, Op
      <3> QED
        BY <3>1, <3>2, <3>3, StaysInCall
    <2>2. CASE (\E q \in Places : mouse_rel(q)) \/ vb_draw \/ vb_redraw
      BY <2>2, InterruptsKeepCourse
    <2>3. CASE Vdi
      BY <2>3, HidingKeepsCourse, ShowingKeepsCourse, FormKeepsCourse, CopyKeepsCourse DEF Vdi
    <2>4. CASE AesCall
      BY <2>4, CallsKeepCourse
    <2> QED
      BY <2>1, <2>2, <2>3, <2>4 DEF CursorNext, AesCall
  <1> QED
    BY <1>1, <1>2, PTL DEF CursorSpec

\* The cursor is on the screen once, over what was drawn there, while the VDI
\* has it shown and nowhere otherwise; and it is where the mouse is or vb_draw
\* is to draw it there.
THEOREM CursorInvariant ==
  ASSUME CursorAssumption
  PROVE  CursorSpec => []CursorInv
  <1>1. CursorInit => Display
    BY InitDisplay
  <1>2. Course => Device
    BY DeviceIs
  <1>3. Display /\ Device /\ Device' /\ [CursorNext]_cursorvars => Display'
    <2> SUFFICES ASSUME Display, Device, Device', [CursorNext]_cursorvars
                 PROVE  Display'
      OBVIOUS
    <2>1. CASE UNCHANGED cursorvars
      BY <2>1 DEF cursorvars, vblvars, shown, Display, CursorType, Picture, Followed, OnScreen, Bare
    <2>2. CASE (\E q \in Places : mouse_rel(q)) \/ vb_draw \/ vb_redraw
      BY <2>2, MouseKeepsDisplay, VblKeepsDisplay
    <2>3. CASE Vdi
      BY <2>3, HidingKeepsDisplay, ShowingKeepsDisplay, FormKeepsDisplay, CopyKeepsDisplay DEF Vdi
    <2>4. CASE AesCall
      BY <2>4, CallsKeepDisplay
    <2> QED
      BY <2>1, <2>2, <2>3, <2>4 DEF CursorNext, AesCall
  <1>4. Display /\ Course => CursorInv
    BY DEF Display, CursorInv
  <1> QED
    BY <1>1, <1>2, <1>3, <1>4, CursorCourse, PTL DEF CursorSpec

LEMMA InvIsRight ==
  ASSUME CursorAssumption, CursorInv
  PROVE  CursorRight
  <1>1. PICK s \in VdiStates, fs \in VdiStates :
          Stage(s) /\ Leads(gl.ops, s, fs) /\ Meets(gl, fs, offs, wish)
    BY DEF CursorInv, Course
  <1>2. Display /\ Device
    BY DeviceIs DEF CursorInv, Display
  <1>3. NoTraces
    <2> SUFFICES ASSUME NEW q \in Places
                 PROVE  \/ Bare(q)
                        \/ /\ save_block.at = q /\ (save_block.ready \/ vdistep = "restore")
                           /\ save_block.cell = [bg |-> canvas[q], cur |-> none]
      BY DEF NoTraces, Bare
    <2> QED
      BY <1>2 DEF Display, Picture, OnScreen
  <1>4. Whole
    BY <1>2 DEF Display, CursorType, Whole, Pictures
  <1>5. ASSUME Quiet
        PROVE  IF HIDE_CNT = 0 THEN Visible /\ save_block.at = GCURXY ELSE ~save_block.ready
    <2>1. vdistep = "call" /\ vbl = "idle" /\ ~draw_flag
      BY <1>2, <1>5 DEF Device, Quiet
    <2> QED
      BY <1>2, <2>1 DEF Display, Picture, Followed, Visible
  <1>6. ASSUME gl.ops = <<>>
        PROVE  IF gl.maddr THEN mouse_cdb = <<arrow, arrow>> /\ HIDE_CNT = 0
               ELSE mouse_cdb = <<wish, wish>> /\ (HIDE_CNT = 0 <=> offs = 0)
    <2>1. s = fs /\ vdistep = "call"
      BY <1>1, <1>6, AtRest
    <2>2. mouse_cdb = <<fs.form, fs.form>> /\ HIDE_CNT = fs.hid
      BY <1>1, <2>1 DEF Stage
    <2> QED
      BY <1>1, <2>2 DEF Meets, Gl
  <1> QED
    BY <1>3, <1>4, <1>5, <1>6 DEF CursorRight

\* Whatever the interrupts and the calls do in between: the picture behind the
\* cursor is put back, the cursor is drawn whole, where the mouse is, and a
\* program finds the form and the visibility it asked for when menus and
\* alerts have had the mouse.
THEOREM CursorAlwaysRight ==
  ASSUME CursorAssumption
  PROVE  CursorSpec => []CursorRight
  <1>1. CursorInv => CursorRight
    BY InvIsRight
  <1> QED
    BY <1>1, CursorInvariant, PTL
=============================================================================
