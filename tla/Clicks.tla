------------------------------- MODULE Clicks -------------------------------
(* How the AES counts the clicks of a mouse button: the button interrupt   *)
(* and the tick, which gather clicks while some program waits for more     *)
(* than one (aes/ratrbp.S), the forks they queue, and bchange, mchange and *)
(* the waits of programs in process context (geminput.c, gemasync.c).      *)
(* mchange ends the gathering early, with interrupts on: its steps are     *)
(* taken apart.  There is one button, down or up.                          *)
EXTENDS Integers, Sequences, FiniteSets

CONSTANTS
  Procs,      \* programs that wait for the button
  Entries,    \* of the fork queue
  gl_dclick,  \* ticks a second click may take
  Half,       \* 2^15: words are -Half..Half-1
  MaxClicks,  \* bounds the clicks gathered at a time
  nowait,
  Waits       \* what they wait for: [val |-> UP or DOWN, clicks |-> 1 or 2]

UP == 0
DOWN == 1

ClickAssumption ==
  /\ {Entries, gl_dclick, MaxClicks, Half} \subseteq Nat \ {0}
  /\ Half > gl_dclick + 3 * (MaxClicks - 1)
  /\ IsFiniteSet(Procs) /\ nowait \notin Waits
  /\ Waits \subseteq [val : {UP, DOWN}, clicks : Nat]

VARIABLES
  gl_btrue, gl_bdesired, gl_bclick, gl_bdelay,   \* of the interrupts
  events,   \* the fork queue: calls of bchange and mchange
  gl_bpend, \* how many wait for more than one click
  button,   \* the button as programs see it
  wait,     \* c_bsleep of each program: what it waits for, or nowait
  step, pushed,  \* where mchange is, and the argument on its stack
  dropped,     \* history: the last report was lost in a full queue
  miscounted,  \* history: somebody waited when gl_bpend was reset
  overtaken    \* history: a tick has come between the two halves of
               \* b_delay(gl_bdelay), which leaves a delay below zero

intrvars == <<gl_btrue, gl_bdesired, gl_bclick, gl_bdelay>>
progvars == <<gl_bpend, button, wait, miscounted>>
movevars == <<step, pushed>>
clickvars == <<intrvars, events, progvars, movevars, dropped, overtaken>>

Word(n) == ((n + Half) % (2 * Half)) - Half

ClickInit ==
  /\ gl_btrue = UP /\ gl_bdesired = UP /\ gl_bclick = 0 /\ gl_bdelay = 0
  /\ events = <<>> /\ gl_bpend = 0 /\ button = UP
  /\ wait = [p \in Procs |-> nowait]
  /\ step = "idle" /\ pushed = 0
  /\ dropped = FALSE /\ miscounted = FALSE /\ overtaken = FALSE
-----------------------------------------------------------------------------
(* The fork queue: what does not fit is dropped. *)

Report(new, n) == [code |-> "bchange", new |-> new, clicks |-> n]

\* reports are queued one after the other
Queue(reports) ==
  LET room == Entries - Len(events)
      n == IF Len(reports) < room THEN Len(reports) ELSE room
  IN  /\ events' = events \o SubSeq(reports, 1, n)
      /\ dropped' = IF n < Len(reports) THEN TRUE
                    ELSE IF n > 0 THEN FALSE ELSE dropped

\* mutant of Gathered: that the button is up again is not reported
Gathered_only == <<Report(gl_bdesired, gl_bclick)>>
\* what b_delay queues when the time is up
Gathered ==
  <<Report(gl_bdesired, gl_bclick)>> \o
  (IF gl_btrue = gl_bdesired THEN <<>> ELSE <<Report(gl_btrue, 1)>>)

-----------------------------------------------------------------------------
(* Interrupts *)

\* b_click: the button has changed
b_click ==
  LET new == 1 - gl_btrue IN
  /\ gl_btrue' = new
  /\ UNCHANGED <<progvars, movevars, overtaken>>
  /\ \/ /\ gl_bdelay # 0
        /\ IF new = gl_bdesired
           THEN /\ gl_bclick < MaxClicks
                /\ gl_bclick' = gl_bclick + 1 /\ gl_bdelay' = Word(gl_bdelay + 3)
           ELSE UNCHANGED <<gl_bclick, gl_bdelay>>
        /\ UNCHANGED <<gl_bdesired, events, dropped>>
     \/ /\ gl_bdelay = 0 /\ gl_bpend # 0 /\ new # UP
        /\ gl_bclick' = 1 /\ gl_bdesired' = new /\ gl_bdelay' = gl_dclick
        /\ UNCHANGED <<events, dropped>>
     \/ /\ gl_bdelay = 0 /\ (gl_bpend = 0 \/ new = UP)
        /\ Queue(<<Report(new, 1)>>)
        /\ UNCHANGED <<gl_bdesired, gl_bclick, gl_bdelay>>

\* b_delay(1) of tikcod
tick ==
  /\ gl_bdelay # 0
  /\ gl_bdelay' = Word(gl_bdelay - 1)
  /\ IF gl_bdelay' = 0 THEN Queue(Gathered) ELSE UNCHANGED <<events, dropped>>
  /\ UNCHANGED <<gl_btrue, gl_bdesired, gl_bclick, progvars, movevars, overtaken>>

\* far_mchange
far_mchange ==
  /\ Len(events) < Entries /\ events' = Append(events, [code |-> "mchange"])
  /\ UNCHANGED <<intrvars, progvars, movevars, dropped, overtaken>>

-----------------------------------------------------------------------------
(* Forks *)

downorup(new, w) == w.val = new
Several(w) == w # nowait /\ w.clicks > 1
One(w) == IF Several(w) THEN 1 ELSE 0

\* bchange with post_button for whoever owns the mouse
bchange ==
  /\ step = "idle" /\ events # <<>> /\ Head(events).code = "bchange"
  /\ events' = Tail(events)
  /\ button' = Head(events).new
  /\ \E p \in Procs :
       IF wait[p] # nowait /\ downorup(button', wait[p])
       THEN /\ gl_bpend' = gl_bpend - One(wait[p])
            /\ wait' = [wait EXCEPT ![p] = nowait]
       ELSE UNCHANGED <<gl_bpend, wait>>
  /\ UNCHANGED <<intrvars, movevars, dropped, miscounted, overtaken>>

\* mchange: the mouse has moved so far that no more clicks are gathered, or not
mchange ==
  /\ step = "idle" /\ events # <<>> /\ Head(events).code = "mchange"
  /\ events' = Tail(events)
  /\ step' \in IF gl_bdelay # 0 THEN {"amount", "idle"} ELSE {"idle"}
  /\ UNCHANGED <<intrvars, progvars, pushed, dropped, overtaken>>

Move(from, to) ==
  step = from /\ step' = to /\ UNCHANGED <<progvars, overtaken>>

Amount ==
  /\ Move("amount", "b_delay") /\ pushed' = gl_bdelay
  /\ UNCHANGED <<intrvars, events, dropped>>
\* b_delay(gl_bdelay) in process context
TestDelay ==
  /\ IF gl_bdelay = 0 THEN Move("b_delay", "idle") /\ pushed' = 0
                      ELSE Move("b_delay", "sub") /\ UNCHANGED pushed
  /\ UNCHANGED <<intrvars, events, dropped>>
SubDelay ==
  /\ step = "sub" /\ pushed' = 0
  /\ gl_bdelay' = Word(gl_bdelay - pushed)
  /\ overtaken' = (overtaken \/ gl_bdelay' < 0)
  /\ step' = IF gl_bdelay' = 0 THEN "push" ELSE "idle"
  /\ UNCHANGED <<gl_btrue, gl_bdesired, gl_bclick, events, progvars, dropped>>
PushClicks ==
  /\ Move("push", "report") /\ pushed' = gl_bclick
  /\ UNCHANGED <<intrvars, events, dropped>>
QueueClicks ==
  /\ Move("report", "true") /\ Queue(<<Report(gl_bdesired, pushed)>>) /\ pushed' = 0
  /\ UNCHANGED intrvars
QueueTrue ==
  /\ Move("true", "idle")
  /\ IF gl_btrue = gl_bdesired THEN UNCHANGED <<events, dropped>>
     ELSE Queue(<<Report(gl_btrue, 1)>>)
  /\ UNCHANGED <<intrvars, pushed>>

b_delay == Amount \/ TestDelay \/ SubDelay \/ PushClicks \/ QueueClicks \/ QueueTrue

-----------------------------------------------------------------------------
(* Programs *)

\* ev_button or ev_multi comes to wait for the button, reports not yet run or
\* not: ev_button does not call forker, and interrupts go on after ev_multi has
iasync(p, w) ==
  /\ step = "idle"
  /\ wait[p] = nowait /\ ~downorup(button, w)
  /\ wait' = [wait EXCEPT ![p] = w] /\ gl_bpend' = gl_bpend + One(w)
  /\ UNCHANGED <<intrvars, events, button, movevars, dropped, miscounted, overtaken>>

\* mutant of acancel: only an answered wait is counted off
acancel_pending(p) ==
  /\ step = "idle" /\ wait[p] # nowait
  /\ wait' = [wait EXCEPT ![p] = nowait]
  /\ UNCHANGED <<intrvars, events, gl_bpend, button, miscounted, movevars, dropped, overtaken>>
\* something else has happened
acancel(p) ==
  /\ step = "idle" /\ wait[p] # nowait
  /\ wait' = [wait EXCEPT ![p] = nowait]
  /\ gl_bpend' = IF gl_bpend # 0 THEN gl_bpend - One(wait[p]) ELSE 0
  /\ UNCHANGED <<intrvars, events, button, movevars, dropped, miscounted, overtaken>>

Multi == {p \in Procs : Several(wait[p])}

\* the shell is about to start the next application
sh_main ==
  /\ step = "idle" /\ gl_bpend' = 0
  /\ miscounted' = (Multi # {})
  /\ UNCHANGED <<intrvars, events, button, wait, movevars, dropped, overtaken>>

\* Two faults of the code end what is modelled: a delay below zero, which counts
\* as a click under way until it has come round to zero, and a count that was
\* reset while somebody waited.
Fault == overtaken \/ miscounted

ClickNext ==
  \/ /\ ~Fault
     /\ \/ b_click \/ tick \/ far_mchange
        \/ bchange \/ mchange \/ b_delay
        \/ \E p \in Procs : acancel(p) \/ \E w \in Waits : iasync(p, w)
        \/ sh_main
  \/ Fault /\ UNCHANGED clickvars

ClickSpec == ClickInit /\ [][ClickNext]_clickvars
-----------------------------------------------------------------------------
\* gl_bpend tells how many wait for more than one click, however their waits
\* end: clicks are gathered for nobody, or a double click comes as two single
\* ones, when iasync, post_button and acancel do not agree.
PendingCounted == miscounted \/ gl_bpend = Cardinality(Multi)

\* Once nothing is under way any more, programs see the button as it is,
\* whatever clicks were gathered, reported early or interrupted, unless the
\* last report found the fork queue full (b_click, b_delay).
Still == gl_bdelay = 0 /\ step = "idle" /\ events = <<>>
Settled == Still /\ ~dropped /\ ~overtaken => button = gl_btrue
=============================================================================
