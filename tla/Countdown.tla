------------------------------ MODULE Countdown -----------------------------
(* What the AES timers are to do (aes/gemflag.c, gemasync.c): every timer  *)
(* counts down on its own, by the ticks that have gone by.                 *)
EXTENDS Naturals

CONSTANTS
  Timers,    \* timer event blocks
  Longest    \* the most ticks taken off at once

VARIABLE left  \* ticks a timer has left, 0 when it is not set

CountInit == left = [t \in Timers |-> 0]

Set(t) ==
  /\ left[t] = 0
  /\ left'[t] \in Nat \ {0}
  /\ left' = [left EXCEPT ![t] = left'[t]]

Cancel(t) == left[t] > 0 /\ left' = [left EXCEPT ![t] = 0]

Elapse(c) ==
  left' = [t \in Timers |-> IF left[t] > c THEN left[t] - c ELSE 0]

CountNext ==
  \/ \E t \in Timers : Set(t) \/ Cancel(t)
  \/ \E c \in 1..Longest : Elapse(c)

CountSpec == CountInit /\ [][CountNext]_left
=============================================================================
