------------------------------ MODULE AESTimer ------------------------------
(***************************************************************************)
(* The timers of the AES: the delay list dlr, in which a timer holds the   *)
(* ticks it has left after the one before it, and the two counters the     *)
(* tick interrupt works on (ADELAY in aes/gemasync.c, tchange in           *)
(* aes/gemflag.c, tikcod in aes/ratrbp.S).                                 *)
(***************************************************************************)
EXTENDS Integers, Sequences, FiniteSets

CONSTANTS
  Timers,   \* event blocks a program waits for a time with
  Delays,   \* the times programs ask for, in ticks
  Room,     \* tchange forks the fork queue has room for
  Longest   \* bound: the ticks after which a full fork queue is served

TimerAssumption ==
  /\ Delays \subseteq Nat
  /\ Room \in Nat \ {0} /\ Longest \in Nat \ {0}
  /\ \A n \in Delays : n < Longest

VARIABLES
  CMP_TICK,  \* ticks to go until tchange is forked, 0 when not counting
  NUM_TICK,  \* ticks counted since the delay list was last brought up to date
  dlr,       \* the timers in the order they end, with e_parm
  forks,     \* arguments of the tchange forks not run yet
  changed,   \* tchange has updated the list but not CMP_TICK yet
  owed       \* history: ticks a timer may still ask for before it ends

clockvars == <<CMP_TICK, NUM_TICK, dlr, forks, changed>>
timervars == <<clockvars, owed>>

SumTo(k) ==
  LET S[i \in 0..k] == IF i = 0 THEN 0 ELSE S[i - 1] + dlr[i].e_parm
  IN  S[k]

\* the timers of the list, and what each has left
left == [t \in Timers |->
  LET at == {i \in DOMAIN dlr : dlr[i].evb = t}
  IN  IF at = {} THEN 0 ELSE SumTo(CHOOSE i \in at : TRUE)]

Entry(t, n) == [evb |-> t, e_parm |-> n]

\* ticks that have been counted and will be charged to the timers
Uncharged ==
  LET S[i \in 0..Len(forks)] == IF i = 0 THEN 0 ELSE S[i - 1] + forks[i]
  IN  S[Len(forks)] + (IF CMP_TICK > 0 THEN NUM_TICK ELSE 0)

Least(m, n) == IF m < n THEN m ELSE n
-----------------------------------------------------------------------------
\* mutant of count: a shorter time does not shorten the countdown
count_kept(n) ==
  IF CMP_TICK > 0
  THEN UNCHANGED <<CMP_TICK, NUM_TICK>>
  ELSE CMP_TICK' = n /\ NUM_TICK' = 0

\* ADELAY: the countdown is started, or shortened
count(n) ==
  IF CMP_TICK > 0
  THEN CMP_TICK' = Least(n, CMP_TICK) /\ UNCHANGED NUM_TICK
  ELSE CMP_TICK' = n /\ NUM_TICK' = 0

\* iasync(ADELAY): t goes before the first timer that ends no earlier
adelay(t, ticks) ==
  LET n == IF ticks = 0 THEN 1 ELSE ticks
      k == Cardinality({i \in DOMAIN dlr : SumTo(i) < n})
      new == n - SumTo(k)
      rest == SubSeq(dlr, k + 1, Len(dlr))
  IN
  /\ ~changed /\ left[t] = 0
  /\ count(n)
  /\ dlr' = SubSeq(dlr, 1, k) \o <<Entry(t, new)>> \o
            (IF rest = <<>> THEN <<>>
             ELSE <<Entry(rest[1].evb, rest[1].e_parm - new)>> \o Tail(rest))
  /\ UNCHANGED <<forks, changed>>
  /\ owed' = [owed EXCEPT ![t] = IF n > Uncharged THEN n - Uncharged ELSE 0]

\* mutant of takeoff: the next timer does not inherit the ticks
takeoff_short(t) ==
  /\ ~changed /\ left[t] > 0
  /\ dlr' = SelectSeq(dlr, LAMBDA d : d.evb # t)
  /\ UNCHANGED <<CMP_TICK, NUM_TICK, forks, changed>>
  /\ owed' = [owed EXCEPT ![t] = 0]

\* acancel, takeoff: the next timer inherits the ticks of t
takeoff(t) ==
  /\ ~changed
  /\ \E i \in DOMAIN dlr :
       /\ dlr[i].evb = t
       /\ dlr' = SubSeq(dlr, 1, i - 1) \o
                 (IF i = Len(dlr) THEN <<>>
                  ELSE <<Entry(dlr[i + 1].evb, dlr[i].e_parm + dlr[i + 1].e_parm)>>
                         \o SubSeq(dlr, i + 2, Len(dlr)))
  /\ UNCHANGED <<CMP_TICK, NUM_TICK, forks, changed>>
  /\ owed' = [owed EXCEPT ![t] = 0]

\* mutant of tikcod: a tick is not tried again when the fork queue is full
tikcod_dropped ==
  /\ CMP_TICK > 0
  /\ NUM_TICK' = NUM_TICK + 1
  /\ CMP_TICK' = CMP_TICK - 1
  /\ \/ CMP_TICK > 1 /\ UNCHANGED forks
     \/ CMP_TICK = 1 /\ Len(forks) < Room /\ forks' = Append(forks, NUM_TICK + 1)
     \/ CMP_TICK = 1 /\ UNCHANGED forks
  /\ UNCHANGED <<dlr, changed>>

\* tikcod: the last tick forks tchange, and is tried again when it cannot,
\* because the queue is full of these or of other forks
tikcod ==
  /\ CMP_TICK > 0
  /\ NUM_TICK' = NUM_TICK + 1
  /\ \/ CMP_TICK > 1 /\ CMP_TICK' = CMP_TICK - 1 /\ UNCHANGED forks
     \/ CMP_TICK = 1 /\ CMP_TICK' = 0
        /\ Len(forks) < Room /\ forks' = Append(forks, NUM_TICK + 1)
     \/ CMP_TICK = 1 /\ NUM_TICK < Longest /\ UNCHANGED <<CMP_TICK, forks>>
  /\ UNCHANGED <<dlr, changed>>

\* a tick, counted or not
Tick ==
  /\ tikcod \/ (CMP_TICK = 0 /\ UNCHANGED clockvars)
  /\ owed' = [t \in Timers |-> IF owed[t] > 0 THEN owed[t] - 1 ELSE 0]

\* mutant of charge: each timer is charged all the ticks again
charge_all(c) ==
  LET k == Cardinality({i \in DOMAIN dlr : SumTo(i) <= c})
      rest == SubSeq(dlr, k + 1, Len(dlr))
  IN  IF rest = <<>> THEN <<>>
      ELSE IF rest[1].e_parm <= c THEN Tail(rest)
      ELSE <<Entry(rest[1].evb, rest[1].e_parm - c)>> \o Tail(rest)

\* the delay list after c ticks: the timers whose time is up are gone
charge(c) ==
  LET k == Cardinality({i \in DOMAIN dlr : SumTo(i) <= c})
      rest == SubSeq(dlr, k + 1, Len(dlr))
  IN  IF rest = <<>> THEN <<>>
      ELSE <<Entry(rest[1].evb, SumTo(k + 1) - c)>> \o Tail(rest)

\* tchange, up to where it turns interrupts off
tchange ==
  /\ ~changed /\ forks # <<>>
  /\ dlr' = charge(Head(forks))
  /\ forks' = Tail(forks)
  /\ changed' = TRUE
  /\ UNCHANGED <<CMP_TICK, NUM_TICK>>
  /\ owed' = [t \in Timers |-> IF left'[t] = 0 THEN 0 ELSE owed[t]]

\* tchange: count down for the first timer
rearm ==
  /\ changed /\ changed' = FALSE
  /\ IF dlr = <<>> THEN UNCHANGED <<CMP_TICK, NUM_TICK>>
     ELSE CMP_TICK' = dlr[1].e_parm /\ NUM_TICK' = 0
  /\ UNCHANGED <<dlr, forks, owed>>
-----------------------------------------------------------------------------
TimerInit ==
  /\ CMP_TICK = 0 /\ NUM_TICK = 0 /\ dlr = <<>> /\ forks = <<>>
  /\ changed = FALSE
  /\ owed = [t \in Timers |-> 0]

TimerNext ==
  \/ \E t \in Timers : (\E n \in Delays : adelay(t, n)) \/ takeoff(t)
  \/ Tick \/ tchange \/ rearm

\* the clock ticks and forker runs; programs need do nothing
TimerSpec == TimerInit /\ [][TimerNext]_timervars /\ WF_timervars(Tick) /\ WF_timervars(tchange) /\ WF_timervars(rearm)
-----------------------------------------------------------------------------
\* Counters, deltas and history stay in range; the first timer of the list
\* has time left, or tchange would have removed it.
TypeOK ==
  /\ CMP_TICK \in Nat /\ NUM_TICK \in Nat /\ changed \in BOOLEAN
  /\ dlr \in Seq([evb : Timers, e_parm : Nat])
  /\ owed \in [Timers -> Nat] /\ forks \in Seq(Nat \ {0}) /\ Len(forks) <= Room
  /\ dlr # <<>> => dlr[1].e_parm > 0
  /\ \A i, j \in DOMAIN dlr : dlr[i].evb = dlr[j].evb => i = j

\* The delay list is what it stands for: whatever is inserted, taken off or
\* charged, every other timer keeps the time it has left.
Down == INSTANCE Countdown WITH left <- left
TimersCountDown == Down!CountSpec

\* A timer is never overslept: while there is one the tick interrupt counts
\* down to no later than the end of the first, or tchange is on its way.
Armed == dlr # <<>> =>
  \/ changed \/ forks # <<>>
  \/ CMP_TICK > 0 /\ CMP_TICK <= dlr[1].e_parm

\* A timer ends early by no more than the ticks that had been counted and not
\* charged when it was set.  It may end early by that much: neither ADELAY nor
\* tchange tells these from later ticks (aes/gemasync.c:165).
NotEarly == [][
  \A t \in Timers : tchange /\ left[t] > 0 /\ left'[t] = 0 =>
    owed[t] = 0]_timervars

\* Every timer ends, or is cancelled.
TimerEnds == \A t \in Timers : left[t] > 0 ~> left[t] = 0
=============================================================================
