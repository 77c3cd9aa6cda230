---------------------------- MODULE MCInterrupts ----------------------------
(* Instances for TLC of what interrupt handlers share with the programs    *)
(* they interrupt: the fork queue, the timers and the clicks of the AES,   *)
(* the buffers of the serial port, and the mouse cursor.  They do not meet *)
(* at the grain they are modelled at, so that a behaviour is one of them.  *)
EXTENDS ForkQueue, AESTimer, Serial, Clicks, Cursor, TLC

CONSTANTS
  Parts,                \* what is checked: "queue", "timers", "serial",
                        \* "clicks", "cursor"
  fork1, fork2,         \* two forks suffice to tell which one a slot holds
  here, there,          \* the ends of the serial line
  BeyondTear            \* whether the fork queue is looked at once it is torn

VARIABLE part

ASSUME Instances ==
  TimerAssumption /\ SerialAssumption /\ ClickAssumption /\ CursorAssumption

ForkPair == {fork1, fork2}
IsrAndProc == {"isr", "proc"}
Ends == (here :> there) @@ (there :> here)
ClickWaits == {[val |-> DOWN, clicks |-> 2], [val |-> UP, clicks |-> 1]}

Timer(A) == part = "timers" /\ A /\ UNCHANGED <<part, vars, serialvars, clickvars, cursorvars>>

MCInit ==
  /\ part \in Parts /\ Init /\ TimerInit /\ SerialInit /\ ClickInit /\ CursorInit
  /\ part # "cursor" => GCURXY = here
  /\ part # "queue" => \A e \in {code, data, arg["isr"], arg["proc"]} \cup {g_fpdx[k] : k \in Slots} : e = fork1
MCNext ==
  \/ /\ part = "queue" /\ (torn => BeyondTear)
     /\ Next /\ UNCHANGED <<part, timervars, serialvars, clickvars, cursorvars>>
  \/ /\ part = "queue" /\ torn /\ ~BeyondTear
     /\ UNCHANGED <<part, vars, timervars, serialvars, clickvars, cursorvars>>
  \/ Timer(TimerNext)
  \/ part = "serial" /\ SerialNext /\ UNCHANGED <<part, vars, timervars, clickvars, cursorvars>>
  \/ part = "clicks" /\ ClickNext /\ UNCHANGED <<part, vars, timervars, serialvars, cursorvars>>
  \/ part = "cursor" /\ CursorNext /\ UNCHANGED <<part, vars, timervars, serialvars, clickvars>>

MCSpec ==
  /\ MCInit /\ [][MCNext]_<<part, vars, timervars, serialvars, clickvars, cursorvars>>
  /\ WF_timervars(Timer(Tick))
  /\ WF_timervars(Timer(tchange)) /\ WF_timervars(Timer(rearm))
=============================================================================
