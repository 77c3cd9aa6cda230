------------------------------ MODULE ForkQueue -----------------------------
(***************************************************************************)
(* The fork queue of the AES (forkq and forker in aes/gemdisp.c) at the    *)
(* grain of its accesses to memory, as the listing of the ROM shows them.  *)
(* An interrupt comes between any two steps of a process and runs to its   *)
(* end; the handlers of mouse, buttons and tick are never interrupted.     *)
(***************************************************************************)
EXTENDS Naturals, Sequences

CONSTANTS
  NFORKS,   \* slots of the ring g_fpdx
  Forks,    \* the forks: a handler and its argument each
  Callers   \* who queues forks: "isr", and "proc" when keys are polled, a
            \* tape is played or the mouse ends a pending click

ASSUME ForkAssumption ==
  /\ NFORKS \in Nat \ {0}
  /\ Callers \subseteq {"isr", "proc"}
  /\ "none" \notin Forks

VARIABLES
  fpcnt,    \* forks in the ring
  fpt,      \* the slot forkq fills next
  fph,      \* the slot forker empties next
  g_fpdx,   \* the ring
  at,       \* where the interrupt handler and the process are
  arg,      \* the fork each is about to queue
  f,        \* the slot each has in its register
  back,     \* where the process goes when forkq returns
  code,     \* the handler forker has read
  data,     \* the argument forker has read
  torn      \* an interrupt has queued a fork while a process was doing so
            \* (history)

vars == <<fpcnt, fpt, fph, g_fpdx, at, arg, f, back, code, data, torn>>

Frames == {"isr", "proc"}
Slots == 0..NFORKS - 1
InForkq == {"test", "slot", "advance", "compare", "clear", "fill", "count"}
\* between the test of fpcnt and its increment
Midway == InForkq \ {"test"}
InForker == {"while", "take", "head", "data", "code", "run"}

\* frame c runs and is at l: a process runs only when no interrupt is handled
At(c, l) == at[c] = l /\ (c = "isr" \/ at["isr"] = "idle")
Goto(c, l) == at' = [at EXCEPT ![c] = l]

\* a slot number past the end starts again
wrap(i) == IF i >= NFORKS THEN i - NFORKS ELSE i
-----------------------------------------------------------------------------
(* forkq                                                                   *)

\* an interrupt, chkkbd and ap_tplay call it; so does b_delay, for mchange,
\* while forker runs a handler
forkq(c, e) ==
  /\ c \in Callers /\ \E l \in {"idle", "run"} : At(c, l)
  /\ Goto(c, "test")
  /\ arg' = [arg EXCEPT ![c] = e]
  /\ back' = IF c = "proc" THEN at["proc"] ELSE back
  /\ torn' = (torn \/ (c = "isr" /\ at["proc"] \in Midway))
  /\ UNCHANGED <<fpcnt, fpt, fph, g_fpdx, f, code, data>>

Return(c) == Goto(c, IF c = "proc" THEN back ELSE "idle")

\* mutant of Test: a full ring takes another fork
Test_full(c) ==
  /\ At(c, "test")
  /\ IF fpcnt <= NFORKS THEN Goto(c, "slot") ELSE Return(c)
  /\ UNCHANGED <<fpcnt, fpt, fph, g_fpdx, arg, f, back, code, data, torn>>

\* fpcnt < NFORKS; the fork is dropped when the ring is full
Test(c) ==
  /\ At(c, "test")
  /\ IF fpcnt < NFORKS THEN Goto(c, "slot") ELSE Return(c)
  /\ UNCHANGED <<fpcnt, fpt, fph, g_fpdx, arg, f, back, code, data, torn>>

\* f = &D.g_fpdx[fpt]
Slot(c) ==
  /\ At(c, "slot")
  /\ f' = [f EXCEPT ![c] = fpt]
  /\ Goto(c, "advance")
  /\ UNCHANGED <<fpcnt, fpt, fph, g_fpdx, arg, back, code, data, torn>>

\* fpt++
Advance(c) ==
  /\ At(c, "advance")
  /\ fpt' = fpt + 1
  /\ Goto(c, "compare")
  /\ UNCHANGED <<fpcnt, fph, g_fpdx, arg, f, back, code, data, torn>>

\* mutant of Compare: fpt wraps a slot too late
Compare_late(c) ==
  /\ At(c, "compare")
  /\ Goto(c, IF fpt = NFORKS + 1 THEN "clear" ELSE "fill")
  /\ UNCHANGED <<fpcnt, fpt, fph, g_fpdx, arg, f, back, code, data, torn>>

\* fpt == NFORKS
Compare(c) ==
  /\ At(c, "compare")
  /\ Goto(c, IF fpt = NFORKS THEN "clear" ELSE "fill")
  /\ UNCHANGED <<fpcnt, fpt, fph, g_fpdx, arg, f, back, code, data, torn>>

\* fpt = 0
Clear(c) ==
  /\ At(c, "clear")
  /\ fpt' = 0
  /\ Goto(c, "fill")
  /\ UNCHANGED <<fpcnt, fph, g_fpdx, arg, f, back, code, data, torn>>

\* f->f_code, f->f_data: behind the ring it is other memory that is written
Fill(c) ==
  /\ At(c, "fill")
  /\ g_fpdx' = [i \in Slots |-> IF i = f[c] THEN arg[c] ELSE g_fpdx[i]]
  /\ Goto(c, "count")
  /\ UNCHANGED <<fpcnt, fpt, fph, arg, f, back, code, data, torn>>

\* fpcnt++
Count(c) ==
  /\ At(c, "count")
  /\ fpcnt' = fpcnt + 1
  /\ Return(c)
  /\ UNCHANGED <<fpt, fph, g_fpdx, arg, f, back, code, data, torn>>
-----------------------------------------------------------------------------
(* forker, in the process.  The recording of forks is left out.            *)

forker ==
  /\ At("proc", "idle")
  /\ Goto("proc", "while")
  /\ UNCHANGED <<fpcnt, fpt, fph, g_fpdx, arg, f, back, code, data, torn>>

\* while (fpcnt)
While ==
  /\ At("proc", "while")
  /\ Goto("proc", IF fpcnt = 0 THEN "idle" ELSE "take")
  /\ UNCHANGED <<fpcnt, fpt, fph, g_fpdx, arg, f, back, code, data, torn>>

\* fpcnt--
TakeOut ==
  /\ At("proc", "take")
  /\ fpcnt' = fpcnt - 1
  /\ Goto("proc", "head")
  /\ UNCHANGED <<fpt, fph, g_fpdx, arg, f, back, code, data, torn>>

\* f = &D.g_fpdx[fph++], and the wrap: nobody else uses fph
HeadSlot ==
  /\ At("proc", "head")
  /\ f' = [f EXCEPT !["proc"] = fph]
  /\ fph' = wrap(fph + 1)
  /\ Goto("proc", "data")
  /\ UNCHANGED <<fpcnt, fpt, g_fpdx, arg, back, code, data, torn>>

\* f->f_data is pushed, then f->f_code is loaded
ReadData ==
  /\ At("proc", "data")
  /\ data' = g_fpdx[f["proc"]]
  /\ Goto("proc", "code")
  /\ UNCHANGED <<fpcnt, fpt, fph, g_fpdx, arg, f, back, code, torn>>

ReadCode ==
  /\ At("proc", "code")
  /\ code' = g_fpdx[f["proc"]]
  /\ Goto("proc", "run")
  /\ UNCHANGED <<fpcnt, fpt, fph, g_fpdx, arg, f, back, data, torn>>

\* the handler returns
Ran ==
  /\ At("proc", "run")
  /\ Goto("proc", "while")
  /\ UNCHANGED <<fpcnt, fpt, fph, g_fpdx, arg, f, back, code, data, torn>>
-----------------------------------------------------------------------------
Init ==
  /\ fpcnt = 0 /\ fpt = 0 /\ fph = 0
  /\ g_fpdx \in [Slots -> Forks]
  /\ at = [c \in Frames |-> "idle"]
  /\ arg \in [Frames -> Forks]
  /\ f = [c \in Frames |-> 0]
  /\ back = "idle"
  /\ code \in Forks /\ data \in Forks
  /\ torn = FALSE

forkqStep(c) == Test(c) \/ Slot(c) \/ Advance(c) \/ Compare(c) \/ Clear(c)
                  \/ Fill(c) \/ Count(c)

forkerStep == forker \/ While \/ TakeOut \/ HeadSlot \/ ReadData \/ ReadCode
                \/ Ran

Next ==
  \/ \E c \in Frames : (\E e \in Forks : forkq(c, e)) \/ forkqStep(c)
  \/ forkerStep

Spec == Init /\ [][Next]_vars
-----------------------------------------------------------------------------
(* What the queue holds.                                                   *)

\* forkq has filled its slot but not counted it yet
Filled == IF \E c \in Frames : at[c] = "count" THEN 1 ELSE 0

\* forker has counted a fork out but not moved fph yet
Leaving == IF at["proc"] = "head" THEN 1 ELSE 0

\* the i-th slot from the oldest fork
SlotOf(i) == wrap(wrap(fph + Leaving) + i - 1)

queue == [i \in 1..fpcnt + Filled |-> g_fpdx[SlotOf(i)]]

hand ==
  CASE at["proc"] = "head" -> [code |-> g_fpdx[fph], data |-> g_fpdx[fph]]
    [] at["proc"] = "data" ->
         [code |-> g_fpdx[f["proc"]], data |-> g_fpdx[f["proc"]]]
    [] at["proc"] = "code" -> [code |-> g_fpdx[f["proc"]], data |-> data]
    [] at["proc"] = "run" \/ (at["proc"] \in InForkq /\ back = "run") ->
         [code |-> code, data |-> data]
    [] OTHER -> [code |-> "none", data |-> "none"]

Fifo == INSTANCE ForkFifo WITH queue <- queue, hand <- hand

\* Forks are run once each and in the order they were queued, except that an
\* interrupt may replace the one in forker's hand (aes/gemdisp.c:145), and as
\* long as no interrupt queues a fork in the middle of a process's forkq
\* (gemdisp.c:71 asks for interrupts off there, and the processes leave them on).
RunsInOrder == Fifo!FifoInit /\ [][torn' \/ Fifo!FifoNext]_(Fifo!fifoVars)

\* No slot outside the ring is ever filled: forkq wraps fpt before anybody
\* can use it.
FillsRing == \A c \in Frames :
  at[c] \in {"advance", "compare", "clear", "fill"} => f[c] \in Slots

\* the ring as its indices describe it
RingFits ==
  /\ fpcnt \in 0..NFORKS /\ fph \in Slots /\ fpt \in 0..NFORKS
  /\ g_fpdx \in [Slots -> Forks]
  /\ at \in [Frames -> {"idle"} \cup InForkq \cup InForker]
  /\ at["isr"] \in {"idle"} \cup InForkq
  /\ back \in {"idle", "run"}
  /\ arg \in [Frames -> Forks] /\ f \in [Frames -> Slots]
  /\ code \in Forks /\ data \in Forks
  /\ at["proc"] = "take" => fpcnt > 0
  /\ at["proc"] \in Midway => at["isr"] = "idle"
  /\ (\A c \in Frames : at[c] \notin {"compare", "clear", "fill", "count"}) =>
       fpt = SlotOf(fpcnt + 1)
  /\ \A c \in Frames :
       /\ at[c] \in Midway => fpcnt < NFORKS
       /\ at[c] \in Midway \ {"slot"} => f[c] = SlotOf(fpcnt + 1)
       /\ at[c] = "compare" => fpt = SlotOf(fpcnt + 1) + 1
       /\ at[c] = "clear" => fpt = NFORKS /\ SlotOf(fpcnt + 1) + 1 = NFORKS
       /\ at[c] \in {"fill", "count"} => fpt = wrap(SlotOf(fpcnt + 1) + 1)
  /\ at["proc"] \in {"data", "code"} => fph = wrap(f["proc"] + 1)

\* Whoever queues forks, fpt is fpcnt slots after the oldest fork at every
\* instruction and the count never exceeds the ring, until an interrupt queues
\* a fork in the middle of a process's forkq (gemdisp.c:71).
RingOK == torn \/ RingFits
=============================================================================
