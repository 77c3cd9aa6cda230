------------------------------ MODULE ForkFifo ------------------------------
(* What the fork queue of the AES promises to its users (aes/gemdisp.c,    *)
(* forkq and forker): forks are run in the order they were queued, each    *)
(* once.  There is one exception.  forker counts a fork out before it has  *)
(* read it, so an interrupt that then queues a fork into a queue that was  *)
(* full replaces the code, or code and data, of the fork in its hand.      *)
EXTENDS Naturals, Sequences

CONSTANTS
  NFORKS,   \* how many forks the queue holds
  Forks     \* the forks (a handler and its argument)

VARIABLES
  queue,    \* the forks to be run, oldest first
  hand      \* the handler and the argument of the fork being run, if any

fifoVars == <<queue, hand>>

NoFork == [code |-> "none", data |-> "none"]

\* what a fork in the hand turns into when e is queued
Spoiled(e) ==
  IF hand # NoFork /\ Len(queue) = NFORKS - 1
  THEN {hand, [hand EXCEPT !.code = e], [code |-> e, data |-> e]}
  ELSE {hand}

Put(e) ==
  /\ Len(queue) < NFORKS
  /\ queue' = Append(queue, e)
  /\ hand' \in Spoiled(e)

Take ==
  /\ hand = NoFork /\ queue # <<>>
  /\ hand' = [code |-> Head(queue), data |-> Head(queue)]
  /\ queue' = Tail(queue)

Run ==
  /\ hand # NoFork
  /\ hand' = NoFork
  /\ UNCHANGED queue

FifoInit == queue = <<>> /\ hand = NoFork

FifoNext == (\E e \in Forks : Put(e)) \/ Take \/ Run

FifoSpec == FifoInit /\ [][FifoNext]_fifoVars
=============================================================================
