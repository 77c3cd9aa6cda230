--------------------------- MODULE Devices_proofs ---------------------------
(* Proofs about the serial port, for buffers of any size, about changing    *)
(* disks, for any disks and any number of ticks, about the driver that      *)
(* moves sectors, for any tracks and faults, and about the console, for     *)
(* lines of any length and tabs of any width.                               *)
EXTENDS Serial, Floppy, FloppyDriver, Console, Integers, NaturalsInduction,
        WellFoundedInduction, TLAPS

-----------------------------------------------------------------------------
(* The serial port.                                                        *)

Hand == {XON, XOFF}
Bytes == {datum, XON, XOFF, nothing}

Port ==
  [rx : 0..size - 1, tx : 0..outsize - 1, highwater : BOOLEAN, xoff : BOOLEAN,
   xonoffc : Hand \cup {nothing}, UDR : Bytes, d0 : Bytes,
   at : {"idle", "got", "cleared", "kick", "out"}, withheld : BOOLEAN]

\* who waits for the transmitter finds it busy
Waiting(s) == s.d0 # nothing => s.UDR # nothing
\* while XON is still to be asked for, the buffer is below the high mark
Below(s) ==
  /\ ~s.highwater => s.rx < high
  /\ s.at = "cleared" => ~s.highwater
\* Sending, of one port
Started(s) ==
  (s.tx > 0 \/ s.xonoffc # nothing) /\ ~s.xoff => s.UDR # nothing \/ s.at \in {"kick", "out"}
Fit(s) == s \in Port /\ Waiting(s) /\ Below(s) /\ Started(s)

\* the last handshake byte that is not yet on the line
Asked(s) ==
  IF s.xonoffc # nothing THEN s.xonoffc
  ELSE IF s.d0 \in Hand THEN s.d0 ELSE IF s.UDR \in Hand THEN s.UDR ELSE nothing
\* what the other end will have been told, when all has arrived
Told(s, l, xoff) ==
  IF Asked(s) # nothing THEN Asked(s)
  ELSE IF l \in Hand THEN l ELSE IF xoff THEN XOFF ELSE XON
OwedInv == \A p \in Ports :
  LET q == Other[p]
  IN  Told(port[q], line[q], port[p].xoff) = XOFF
        => port[q].highwater \/ port[q].at = "cleared"

PortsOK == port \in [Ports -> Port] /\ line \in [Ports -> Bytes] /\ \A p \in Ports : Fit(port[p])

-----------------------------------------------------------------------------
(* The handlers.                                                           *)

\* iorecout takes what is next, or there is nothing or the other end has
\* asked to wait
LEMMA IorecoutDoes ==
  ASSUME SerialAssumption, NEW s \in Port, s.d0 = nothing
  PROVE  \/ (s.xoff \/ (s.xonoffc = nothing /\ s.tx = 0)) /\ iorecout(s) = s
         \/ /\ ~s.xoff /\ s.xonoffc # nothing /\ s.UDR = nothing
            /\ iorecout(s) = [s EXCEPT !.xonoffc = nothing, !.UDR = s.xonoffc]
         \/ /\ ~s.xoff /\ s.xonoffc # nothing /\ s.UDR # nothing
            /\ iorecout(s) = [s EXCEPT !.xonoffc = nothing, !.d0 = s.xonoffc]
         \/ /\ ~s.xoff /\ s.xonoffc = nothing /\ s.tx > 0 /\ s.UDR = nothing
            /\ iorecout(s) = [s EXCEPT !.tx = @ - 1, !.UDR = datum]
         \/ /\ ~s.xoff /\ s.xonoffc = nothing /\ s.tx > 0 /\ s.UDR # nothing
            /\ iorecout(s) = [s EXCEPT !.tx = @ - 1, !.d0 = datum]
  <1>1. s.tx \in Nat
    BY DEF SerialAssumption, Port
  <1>2. CASE s.xoff
    BY <1>2 DEF iorecout
  <1>3. CASE ~s.xoff /\ s.xonoffc # nothing
    BY <1>3 DEF iorecout, Send, Ready, Port
  <1>4. CASE ~s.xoff /\ s.xonoffc = nothing /\ s.tx > 0
    BY <1>4 DEF iorecout, Send, Ready, Port
  <1>5. CASE ~s.xoff /\ s.xonoffc = nothing /\ ~(s.tx > 0)
    BY <1>1, <1>5 DEF iorecout
  <1> QED
    BY <1>2, <1>3, <1>4, <1>5

\* what iorecout does to the fields
LEMMA IorecoutFields ==
  ASSUME SerialAssumption, NEW s \in Port, s.d0 = nothing
  PROVE  LET u == iorecout(s) IN
         /\ u \in Port /\ Waiting(u) /\ Asked(u) = Asked(s)
         /\ u.rx = s.rx /\ u.highwater = s.highwater /\ u.xoff = s.xoff
         /\ u.at = s.at /\ u.withheld = s.withheld
         /\ (u.tx > 0 \/ u.xonoffc # nothing) /\ ~u.xoff => u.UDR # nothing
         /\ s.xoff => u = s
         /\ ~s.xoff => u.xonoffc = nothing
         /\ s.xonoffc = nothing => u.d0 \notin Hand /\ (u.UDR \in Hand <=> s.UDR \in Hand)
         /\ s.UDR # nothing => u.UDR = s.UDR
         /\ s.xonoffc # nothing /\ ~s.xoff =>
              IF s.UDR = nothing THEN u.UDR = s.xonoffc /\ u.d0 = nothing ELSE u.d0 = s.xonoffc
  <1> DEFINE u == iorecout(s)
  <1>1. s.tx \in Nat /\ (s.tx > 0 => s.tx - 1 \in 0..outsize - 1) /\ datum # nothing
    BY DEF SerialAssumption, Port
  <1>2. CASE u = s /\ (s.xoff \/ (s.xonoffc = nothing /\ s.tx = 0))
    BY <1>1, <1>2 DEF SerialAssumption, Port, Waiting, Asked, Hand
  <1>3. CASE /\ ~s.xoff /\ s.xonoffc # nothing /\ s.UDR = nothing
             /\ u = [s EXCEPT !.xonoffc = nothing, !.UDR = s.xonoffc]
    BY <1>1, <1>3 DEF SerialAssumption, Port, Waiting, Asked, Hand, Bytes
  <1>4. CASE /\ ~s.xoff /\ s.xonoffc # nothing /\ s.UDR # nothing
             /\ u = [s EXCEPT !.xonoffc = nothing, !.d0 = s.xonoffc]
    BY <1>1, <1>4 DEF SerialAssumption, Port, Waiting, Asked, Hand, Bytes
  <1>5. CASE /\ ~s.xoff /\ s.xonoffc = nothing /\ s.tx > 0 /\ s.UDR = nothing
             /\ u = [s EXCEPT !.tx = @ - 1, !.UDR = datum]
    BY <1>1, <1>5 DEF SerialAssumption, Port, Waiting, Asked, Hand, Bytes
  <1>6. CASE /\ ~s.xoff /\ s.xonoffc = nothing /\ s.tx > 0 /\ s.UDR # nothing
             /\ u = [s EXCEPT !.tx = @ - 1, !.d0 = datum]
    BY <1>1, <1>6 DEF SerialAssumption, Port, Waiting, Asked, Hand, Bytes
  <1> QED
    BY <1>2, <1>3, <1>4, <1>5, <1>6, IorecoutDoes

\* Sending can always be started
LEMMA ReadyFields ==
  ASSUME SerialAssumption, NEW s \in Port, s.d0 = nothing
  PROVE  LET u == SendIfReady(s) IN
         /\ u \in Port /\ u.d0 = nothing /\ Asked(u) = Asked(s)
         /\ u.rx = s.rx /\ u.highwater = s.highwater /\ u.xoff = s.xoff
         /\ u.at = s.at /\ u.withheld = s.withheld
         /\ (u.tx > 0 \/ u.xonoffc # nothing) /\ ~u.xoff => u.UDR # nothing
         /\ s.xoff => u = s
         /\ s.xonoffc = nothing => u.xonoffc = nothing /\ (u.UDR \in Hand <=> s.UDR \in Hand)
         /\ s.xonoffc # nothing => u.xonoffc = s.xonoffc \/ (u.xonoffc = nothing /\ u.UDR = s.xonoffc)
         /\ s.UDR # nothing => u = s
         /\ s.UDR = nothing /\ ~s.xoff => u.xonoffc = nothing
  <1>1. CASE s.UDR # nothing
    BY <1>1 DEF SendIfReady, Ready
  <1>2. CASE s.UDR = nothing
    <2>1. SendIfReady(s) = iorecout(s)
      BY <1>2 DEF SendIfReady, Ready
    <2>2. Waiting(iorecout(s)) /\ iorecout(s) \in Port
      BY IorecoutFields
    <2>3. iorecout(s).d0 = nothing
      BY <1>2, IorecoutDoes DEF Port
    <2> QED
      BY <1>2, <2>1, <2>3, IorecoutFields
  <1> QED
    BY <1>1, <1>2

\* what the receiver's interrupt does, when nobody waits for the transmitter
LEMMA RcvrintFields ==
  ASSUME SerialAssumption, NEW e \in Port, e.d0 = nothing, NEW byte \in Bytes
  PROVE  LET r == rcvrint(e, byte)
             new == r.highwater /\ ~e.highwater
         IN
         /\ r \in Port /\ r.d0 = nothing /\ r.at = e.at /\ r.withheld = e.withheld
         /\ r.rx = IF byte = datum /\ e.rx # size - 1 THEN e.rx + 1 ELSE e.rx
         /\ r.xoff <=> byte = XOFF \/ (e.xoff /\ byte # XON)
         /\ e.highwater => r.highwater
         /\ ~r.highwater => r.rx = e.rx \/ r.rx < high
         /\ new => /\ r.rx = e.rx + 1 /\ r.rx >= high /\ Asked(r) = XOFF
                   /\ \/ r.xonoffc = XOFF /\ (r.xoff \/ e.UDR # nothing)
                      \/ r.xonoffc = nothing /\ r.UDR = XOFF
         /\ ~new => Asked(r) = Asked(e)
         /\ ~new /\ e.xonoffc = nothing => r.xonoffc = nothing /\ (r.UDR \in Hand <=> e.UDR \in Hand)
         /\ e.UDR # nothing => r.UDR = e.UDR
         /\ r.xoff => r.UDR = e.UDR
         /\ (r.tx > 0 \/ r.xonoffc # nothing) /\ ~r.xoff =>
              r.UDR # nothing \/ ((e.tx > 0 \/ e.xonoffc # nothing) /\ ~e.xoff)
  <1> DEFINE r == rcvrint(e, byte)
  <1>1. e.rx \in 0..size - 1 /\ size \in Nat /\ high \in Nat
    BY DEF SerialAssumption, Port
  <1>2. CASE byte = XOFF
    <2>1. r = [e EXCEPT !.xoff = TRUE]
      BY <1>2 DEF rcvrint, SerialAssumption
    <2> QED
      BY <1>2, <2>1 DEF Port, Asked, SerialAssumption
  <1>3. CASE byte = XON
    <2> DEFINE f == [e EXCEPT !.xoff = FALSE]
    <2>1. r = SendIfReady(f)
      BY <1>3 DEF rcvrint, SerialAssumption
    <2>2. f \in Port /\ f.d0 = nothing /\ Asked(f) = Asked(e)
      BY DEF Port, Asked
    <2>3. /\ f.rx = e.rx /\ f.highwater = e.highwater /\ f.xoff = FALSE /\ f.at = e.at
          /\ f.withheld = e.withheld /\ f.xonoffc = e.xonoffc /\ f.UDR = e.UDR /\ f.tx = e.tx
      BY DEF Port
    <2> HIDE DEF f
    <2> QED
      BY <1>3, <2>1, <2>2, <2>3, ReadyFields DEF SerialAssumption
  <1>4. CASE byte = datum /\ e.rx # size - 1
    <2> DEFINE f == [e EXCEPT !.rx = @ + 1]
    <2>1. r = Store(e)
      BY <1>4 DEF rcvrint, Full, SerialAssumption
    <2>2. f \in Port /\ f.rx = e.rx + 1
      BY <1>1, <1>4 DEF Port
    <2>3. CASE f.rx >= high /\ ~f.highwater
      <3> DEFINE g == [f EXCEPT !.highwater = TRUE, !.xonoffc = XOFF]
      <3>1. r = SendIfReady(g)
        BY <2>1, <2>3 DEF Store
      <3>2. g \in Port /\ g.d0 = nothing /\ Asked(g) = XOFF
        BY <2>2 DEF Port, Asked, Hand, SerialAssumption
      <3>3. /\ g.rx = e.rx + 1 /\ g.highwater = TRUE /\ g.xoff = e.xoff /\ g.at = e.at
            /\ g.withheld = e.withheld /\ g.xonoffc = XOFF /\ g.UDR = e.UDR /\ g.tx = e.tx
        BY <2>2 DEF Port
      <3>4. ~e.highwater
        BY <2>3 DEF Port
      <3> HIDE DEF f, g
      <3> QED
        BY <1>4, <2>2, <2>3, <3>1, <3>2, <3>3, <3>4, ReadyFields DEF SerialAssumption
    <2>4. CASE ~(f.rx >= high /\ ~f.highwater)
      <3>1. r = f
        BY <2>1, <2>4 DEF Store
      <3> QED
        BY <1>1, <1>4, <2>2, <2>4, <3>1 DEF Port, Asked, SerialAssumption
    <2> QED
      BY <2>3, <2>4
  <1>5. CASE byte = nothing \/ (byte = datum /\ e.rx = size - 1)
    <2>1. r = e
      BY <1>5 DEF rcvrint, Full, SerialAssumption
    <2> QED
      BY <1>1, <1>5, <2>1 DEF SerialAssumption
  <1> QED
    BY <1>2, <1>3, <1>4, <1>5 DEF Bytes

\* the time of a byte, for the end that gets byte
LEMMA InterruptsFields ==
  ASSUME SerialAssumption, NEW s, Fit(s), InTime(s), NEW byte \in Bytes
  PROVE  LET u == Interrupts(s, byte)
             new == u.highwater /\ ~s.highwater
         IN
         /\ Fit(u) /\ u.at = s.at
         /\ u.rx = IF byte = datum /\ s.rx # size - 1 THEN s.rx + 1 ELSE s.rx
         /\ u.xoff <=> byte = XOFF \/ (s.xoff /\ byte # XON)
         /\ s.highwater => u.highwater
         /\ s.withheld => u.withheld
         /\ new => Asked(u) = XOFF
         /\ ~new => Asked(s) = IF Asked(u) # nothing THEN Asked(u)
                               ELSE IF s.UDR \in Hand THEN s.UDR ELSE nothing
         /\ new /\ ~u.withheld =>
              /\ u.rx = high /\ u.xonoffc = nothing
              /\ u.d0 = XOFF \/ (u.d0 \notin Hand /\ u.UDR = XOFF)
         /\ ~new /\ s.xonoffc = nothing =>
              /\ u.xonoffc = nothing /\ u.d0 \notin Hand
              /\ (u.UDR \in Hand <=> s.d0 \in Hand) /\ (s.d0 # nothing => u.UDR = s.d0)
         /\ u.xoff => u.UDR = s.d0 /\ u.d0 = nothing
  <1> DEFINE e == Emptied(s)
             r == rcvrint(e, byte)
             t == Withhold(r)
             u == Interrupts(s, byte)
  <1>1. /\ s \in Port /\ Waiting(s) /\ Below(s) /\ Started(s)
        /\ size \in Nat /\ high \in Nat /\ low \in Nat /\ low < high /\ high < size
        /\ nothing \notin Hand /\ datum \notin Hand
    BY DEF Fit, SerialAssumption, Hand
  <1>2. /\ e \in Port /\ e.d0 = nothing /\ e.UDR = s.d0 /\ e.rx = s.rx /\ e.tx = s.tx
        /\ e.highwater = s.highwater /\ e.xoff = s.xoff /\ e.at = s.at
        /\ e.xonoffc = s.xonoffc /\ e.withheld = s.withheld
    BY <1>1 DEF Emptied, Port, Bytes
  <1>3. Asked(s) = IF Asked(e) # nothing THEN Asked(e)
                   ELSE IF s.UDR \in Hand THEN s.UDR ELSE nothing
    BY <1>1, <1>2 DEF Asked
  <1>4. /\ r \in Port /\ r.d0 = nothing /\ r.at = s.at /\ r.withheld = s.withheld
        /\ r.rx = IF byte = datum /\ s.rx # size - 1 THEN s.rx + 1 ELSE s.rx
        /\ r.xoff <=> byte = XOFF \/ (s.xoff /\ byte # XON)
        /\ s.highwater => r.highwater
        /\ ~r.highwater => r.rx = s.rx \/ r.rx < high
        /\ r.highwater /\ ~s.highwater =>
             /\ r.rx = s.rx + 1 /\ r.rx >= high /\ Asked(r) = XOFF
             /\ \/ r.xonoffc = XOFF /\ (r.xoff \/ s.d0 # nothing)
                \/ r.xonoffc = nothing /\ r.UDR = XOFF
        /\ ~(r.highwater /\ ~s.highwater) => Asked(r) = Asked(e)
        /\ ~(r.highwater /\ ~s.highwater) /\ s.xonoffc = nothing =>
             r.xonoffc = nothing /\ (r.UDR \in Hand <=> s.d0 \in Hand)
        /\ s.d0 # nothing => r.UDR = s.d0
        /\ r.xoff => r.UDR = s.d0
        /\ (r.tx > 0 \/ r.xonoffc # nothing) /\ ~r.xoff =>
              r.UDR # nothing \/ ((s.tx > 0 \/ s.xonoffc # nothing) /\ ~s.xoff)
    <2> HIDE DEF e
    <2> QED
      BY <1>2, RcvrintFields
  <1> HIDE DEF e, r
  <1>5. /\ t \in Port /\ t.d0 = nothing /\ t.UDR = r.UDR /\ t.rx = r.rx /\ t.tx = r.tx
        /\ t.highwater = r.highwater /\ t.xoff = r.xoff /\ t.at = r.at
        /\ t.xonoffc = r.xonoffc /\ Asked(t) = Asked(r)
        /\ t.withheld <=> r.withheld \/ (r.xoff /\ r.xonoffc = XOFF)
    BY <1>4 DEF Withhold, Port, Asked
  <1> HIDE DEF t
  <1>6. Below(t)
    BY <1>1, <1>4, <1>5 DEF Below, InTime, Port
  <1>7. t.highwater /\ ~s.highwater => t.rx = high
    BY <1>1, <1>4, <1>5 DEF Below, Port
  <1>8. CASE s.UDR = nothing
    <2>1. s.d0 = nothing /\ u = t
      BY <1>1, <1>8 DEF Waiting, Interrupts, Ready, e, r, t
    <2>2. Started(t)
      BY <1>1, <1>4, <1>5, <1>8 DEF Started
    <2>3. Fit(u)
      BY <1>5, <1>6, <2>1, <2>2 DEF Fit, Waiting
    <2> HIDE DEF u
    <2>4. ~(u.highwater /\ ~s.highwater) => Asked(s) = IF Asked(u) # nothing THEN Asked(u)
                               ELSE IF s.UDR \in Hand THEN s.UDR ELSE nothing
      BY <1>1, <1>3, <1>4, <1>5, <1>8, <2>1
    <2>5. u.highwater /\ ~s.highwater /\ ~u.withheld =>
              u.rx = high /\ u.xonoffc = nothing /\ u.d0 \notin Hand /\ u.UDR = XOFF
      BY <1>1, <1>4, <1>5, <1>7, <2>1
    <2> QED
      BY <1>1, <1>4, <1>5, <1>8, <2>1, <2>3, <2>4, <2>5 DEF u
  <1>9. CASE s.UDR # nothing
    <2>1. u = iorecout(t)
      BY <1>9 DEF Interrupts, Ready, e, r, t
    <2> HIDE DEF u
    <2>2. /\ u \in Port /\ Waiting(u) /\ Asked(u) = Asked(t)
          /\ u.rx = t.rx /\ u.highwater = t.highwater /\ u.xoff = t.xoff
          /\ u.at = t.at /\ u.withheld = t.withheld
          /\ (u.tx > 0 \/ u.xonoffc # nothing) /\ ~u.xoff => u.UDR # nothing
          /\ t.xoff => u = t
          /\ ~t.xoff => u.xonoffc = nothing
          /\ t.xonoffc = nothing => u.d0 \notin Hand /\ (u.UDR \in Hand <=> t.UDR \in Hand)
          /\ t.UDR # nothing => u.UDR = t.UDR
          /\ t.xonoffc # nothing /\ ~t.xoff =>
              IF t.UDR = nothing THEN u.UDR = t.xonoffc /\ u.d0 = nothing ELSE u.d0 = t.xonoffc
      BY <1>5, <2>1, IorecoutFields
    <2>3. Fit(u)
      BY <1>6, <2>2 DEF Fit, Below, Started
    <2>4. u.highwater /\ ~s.highwater /\ ~u.withheld =>
              /\ u.rx = high /\ u.xonoffc = nothing
              /\ u.d0 = XOFF \/ (u.d0 \notin Hand /\ u.UDR = XOFF)
      <3> SUFFICES ASSUME u.highwater, ~s.highwater, ~u.withheld
                   PROVE  /\ u.rx = high /\ u.xonoffc = nothing
                          /\ u.d0 = XOFF \/ (u.d0 \notin Hand /\ u.UDR = XOFF)
        OBVIOUS
      <3>1. t.highwater /\ r.highwater /\ ~t.withheld /\ XOFF # nothing
        BY <1>5, <2>2 DEF SerialAssumption
      <3>2. u.rx = high
        BY <1>7, <2>2, <3>1
      <3>3. CASE t.xonoffc = XOFF /\ (r.xoff \/ s.d0 # nothing)
        <4>1. ~t.xoff
          BY <1>5, <3>1, <3>3
        <4>2. t.UDR # nothing
          BY <1>4, <1>5, <3>3, <4>1
        <4> QED
          BY <2>2, <3>1, <3>2, <3>3, <4>1, <4>2
      <3>4. CASE t.xonoffc = nothing /\ t.UDR = XOFF
        BY <2>2, <3>1, <3>2, <3>4
      <3> QED
        BY <1>4, <1>5, <3>1, <3>3, <3>4
    <2>5. ~(u.highwater /\ ~s.highwater) => Asked(s) = IF Asked(u) # nothing THEN Asked(u)
                               ELSE IF s.UDR \in Hand THEN s.UDR ELSE nothing
      BY <1>1, <1>3, <1>4, <1>5, <2>2
    <2>6. ~(u.highwater /\ ~s.highwater) /\ s.xonoffc = nothing =>
              /\ u.xonoffc = nothing /\ u.d0 \notin Hand
              /\ (u.UDR \in Hand <=> s.d0 \in Hand) /\ (s.d0 # nothing => u.UDR = s.d0)
      BY <1>1, <1>4, <1>5, <2>2
    <2>7. u.xoff => u.UDR = s.d0 /\ u.d0 = nothing
      BY <1>4, <1>5, <2>2
    <2> QED
      BY <1>1, <1>4, <1>5, <2>2, <2>3, <2>4, <2>5, <2>6, <2>7 DEF u
  <1> QED
    BY <1>8, <1>9

-----------------------------------------------------------------------------
(* The invariant.                                                          *)

LEMMA InitOK ==
  ASSUME SerialAssumption
  PROVE  SerialInit => PortsOK /\ OwedInv
  <1> SUFFICES ASSUME SerialInit PROVE PortsOK /\ OwedInv
    OBVIOUS
  <1>1. 0 \in 0..size - 1 /\ 0 \in 0..outsize - 1 /\ 0 < high /\ nothing \notin Hand /\ XON # XOFF
    BY DEF SerialAssumption, Hand
  <1>2. \A p \in Ports : port[p] = Idle /\ line[p] = nothing
    BY DEF SerialInit
  <1>3. Idle \in Port /\ Fit(Idle) /\ Asked(Idle) = nothing
    BY <1>1 DEF Idle, Port, Fit, Waiting, Below, Started, Asked, Bytes
  <1>4. PortsOK
    BY <1>2, <1>3 DEF PortsOK, SerialInit, Bytes
  <1>5. \A p \in Ports : Told(port[Other[p]], line[Other[p]], port[p].xoff) = XON
    <2> TAKE p \in Ports
    <2>1. Other[p] \in Ports
      BY DEF SerialAssumption
    <2>2. port[Other[p]] = Idle /\ port[p] = Idle /\ line[Other[p]] = nothing /\ Idle.xoff = FALSE
      BY <1>2, <2>1 DEF Idle
    <2> QED
      BY <1>1, <1>3, <2>2 DEF Told
  <1> QED
    BY <1>1, <1>4, <1>5 DEF OwedInv

\* a step of the program at p that keeps what the other end is to be told
LEMMA ProgramKeeps ==
  ASSUME SerialAssumption, PortsOK, OwedInv, NEW p \in Ports, NEW new, Program(p, new),
         Fit(new), new.xoff = port[p].xoff,
         \/ Asked(new) = XON
         \/ /\ Asked(new) = Asked(port[p])
            /\ port[p].highwater \/ port[p].at = "cleared"
                 => new.highwater \/ new.at = "cleared"
  PROVE  PortsOK' /\ OwedInv'
  <1>1. port' = [port EXCEPT ![p] = new] /\ line' = line
    BY DEF Program
  <1>2. port'[p] = new /\ \A q \in Ports : q # p => port'[q] = port[q]
    BY <1>1 DEF PortsOK
  <1>3. PortsOK'
    BY <1>1, <1>2 DEF PortsOK, Fit
  <1>4. OwedInv'
    <2> SUFFICES ASSUME NEW q \in Ports,
                        Told(port'[Other[q]], line[Other[q]], port'[q].xoff) = XOFF
                 PROVE  port'[Other[q]].highwater \/ port'[Other[q]].at = "cleared"
      BY <1>1 DEF OwedInv
    <2>1. Other[q] \in Ports /\ XON # XOFF /\ nothing # XON /\ nothing # XOFF
      BY DEF SerialAssumption
    <2>2. port'[q].xoff = port[q].xoff
      BY <1>2
    <2>3. CASE Other[q] # p
      BY <1>2, <2>1, <2>2, <2>3 DEF OwedInv
    <2>4. CASE Other[q] = p
      <3>1. Asked(new) # XON
        BY <1>2, <2>1, <2>4 DEF Told
      <3>2. Told(port[p], line[p], port[q].xoff) = XOFF
        BY <1>2, <2>2, <2>4, <3>1 DEF Told
      <3> QED
        BY <1>2, <2>4, <3>1, <3>2 DEF OwedInv
    <2> QED
      BY <2>3, <2>4
  <1> QED
    BY <1>3, <1>4

LEMMA ByteTimeFields ==
  ASSUME SerialAssumption, PortsOK, ByteTime, NEW p \in Ports
  PROVE  /\ Fit(port[p]) /\ InTime(port[p]) /\ line[Other[p]] \in Bytes
         /\ port'[p] = Interrupts(port[p], line[Other[p]]) /\ line'[p] = port[p].UDR
  BY DEF PortsOK, ByteTime, SerialAssumption

LEMMA ByteTimeKeeps ==
  ASSUME SerialAssumption, PortsOK, OwedInv, ByteTime
  PROVE  PortsOK' /\ OwedInv'
  <1>1. \A p \in Ports : Fit(port'[p]) /\ port'[p] \in Port /\ line'[p] \in Bytes
    <2> TAKE p \in Ports
    <2>1. Fit(port[p]) /\ InTime(port[p]) /\ line[Other[p]] \in Bytes
          /\ port'[p] = Interrupts(port[p], line[Other[p]]) /\ line'[p] = port[p].UDR
      BY ByteTimeFields
    <2>2. Fit(Interrupts(port[p], line[Other[p]]))
      BY <2>1, InterruptsFields
    <2> QED
      BY <2>1, <2>2 DEF Fit, Port
  <1>2. PortsOK'
    <2>1. /\ port' = [q \in Ports |-> Interrupts(port[q], line[Other[q]])]
          /\ line' = [q \in Ports |-> port[q].UDR]
      BY DEF ByteTime
    <2>2. port' = [q \in Ports |-> port'[q]] /\ line' = [q \in Ports |-> line'[q]]
      BY <2>1
    <2> QED
      BY <1>1, <2>2 DEF PortsOK
  <1>3. OwedInv'
    <2> SUFFICES ASSUME NEW p \in Ports, NEW q \in Ports, q = Other[p],
                        Told(port'[q], line'[q], port'[p].xoff) = XOFF
                 PROVE  port'[q].highwater \/ port'[q].at = "cleared"
      BY DEF OwedInv, SerialAssumption
    <2> DEFINE s == port[q]
               u == port'[q]
               new == u.highwater /\ ~s.highwater
    <2>1. /\ Fit(s) /\ InTime(s) /\ line[Other[q]] \in Bytes
          /\ u = Interrupts(s, line[Other[q]]) /\ line'[q] = s.UDR
      BY ByteTimeFields
    <2>2. /\ u.at = s.at
          /\ s.highwater => u.highwater
          /\ ~new => Asked(s) = IF Asked(u) # nothing THEN Asked(u)
                                ELSE IF s.UDR \in Hand THEN s.UDR ELSE nothing
      <3> HIDE DEF s, u
      <3> QED
        BY <2>1, InterruptsFields
    <2>3. port'[p].xoff <=> line[q] = XOFF \/ (port[p].xoff /\ line[q] # XON)
      <3>1. /\ Fit(port[p]) /\ InTime(port[p]) /\ line[q] \in Bytes
            /\ port'[p] = Interrupts(port[p], line[q])
        BY ByteTimeFields
      <3> QED
        BY <3>1, InterruptsFields
    <2>4. CASE new
      BY <2>4
    <2>5. CASE ~new
      <3>1. XON # XOFF /\ nothing # XON /\ nothing # XOFF /\ nothing \notin Hand
        BY DEF SerialAssumption, Hand
      <3>2. Told(u, s.UDR, port'[p].xoff) = XOFF
        BY <2>1
      <3>3. Told(s, line[q], port[p].xoff) = XOFF
        <4> HIDE DEF s, u, new
        <4>1. CASE Asked(u) # nothing
          BY <2>2, <2>5, <3>2, <4>1 DEF Told
        <4>2. CASE Asked(u) = nothing /\ s.UDR \in Hand
          BY <2>2, <2>5, <3>1, <3>2, <4>2 DEF Told
        <4>3. CASE Asked(u) = nothing /\ s.UDR \notin Hand
          <5>1. port'[p].xoff /\ Asked(s) = nothing
            BY <2>2, <2>5, <3>1, <3>2, <4>3 DEF Told
          <5> QED
            BY <2>3, <5>1, <3>1 DEF Told, Hand
        <4> QED
          BY <4>1, <4>2, <4>3
      <3>4. s.highwater \/ s.at = "cleared"
        BY <3>3 DEF OwedInv
      <3> QED
        BY <2>2, <3>4
    <2> QED
      BY <2>4, <2>5
  <1> QED
    BY <1>2, <1>3

\* what a step of the program leaves in its port
LEMMA ProgramFields ==
  ASSUME SerialAssumption, PortsOK, NEW p \in Ports,
         bcon6in(p) \/ bcon6out(p) \/ Finish(p)
  PROVE  \E new :
           /\ Program(p, new) /\ Fit(new) /\ new.xoff = port[p].xoff
           /\ \/ Asked(new) = XON
              \/ /\ Asked(new) = Asked(port[p])
                 /\ port[p].highwater \/ port[p].at = "cleared"
                      => new.highwater \/ new.at = "cleared"
           /\ new.rx <= port[p].rx
           /\ new.highwater => port[p].highwater
           /\ new.highwater /\ ~new.withheld => ~port[p].withheld
           /\ port[p].xonoffc = nothing /\ new.highwater =>
                /\ new.xonoffc = nothing /\ new.d0 \notin Hand
                /\ new.UDR \in Hand <=> port[p].UDR \in Hand
                /\ port[p].UDR \in Hand => new.UDR = port[p].UDR
           /\ port[p].xoff => new.UDR = port[p].UDR /\ new.d0 = port[p].d0
  <1> DEFINE s == port[p]
             Good(new) ==
               /\ Fit(new) /\ new.xoff = s.xoff
               /\ \/ Asked(new) = XON
                  \/ /\ Asked(new) = Asked(s)
                     /\ s.highwater \/ s.at = "cleared" => new.highwater \/ new.at = "cleared"
               /\ new.rx <= s.rx
               /\ new.highwater => s.highwater
               /\ new.highwater /\ ~new.withheld => ~s.withheld
               /\ s.xonoffc = nothing /\ new.highwater =>
                    /\ new.xonoffc = nothing /\ new.d0 \notin Hand
                    /\ new.UDR \in Hand <=> s.UDR \in Hand
                    /\ s.UDR \in Hand => new.UDR = s.UDR
               /\ s.xoff => new.UDR = s.UDR /\ new.d0 = s.d0
  <1>1. /\ s \in Port /\ Waiting(s) /\ Below(s) /\ Started(s)
        /\ size \in Nat /\ outsize \in Nat /\ outsize > 1 /\ high \in Nat /\ low \in Nat
        /\ low < high /\ high < size /\ nothing \notin Hand /\ datum \notin Hand /\ XON # nothing
    BY DEF PortsOK, Fit, SerialAssumption, Hand
  <1>2. CASE bcon6in(p)
    <2> DEFINE new == [s EXCEPT !.rx = @ - 1, !.at = "got"]
    <2>1. Program(p, new) /\ s.at = "idle" /\ s.rx > 0 /\ s.d0 = nothing
      BY <1>2 DEF bcon6in, Program
    <2>2. Fit(new)
      <3>0. s.rx - 1 \in 0..size - 1
        <4>1. s.rx \in 0..size - 1 /\ s.tx \in 0..outsize - 1
          BY <1>1 DEF Port
        <4> QED
          BY <1>1, <2>1, <4>1
      <3>1. new \in Port /\ new.rx = s.rx - 1 /\ new.tx = s.tx /\ new.highwater = s.highwater /\ new.at = "got"
            /\ new.xonoffc = s.xonoffc /\ new.UDR = s.UDR /\ new.d0 = s.d0 /\ new.xoff = s.xoff
        BY <1>1, <2>1, <3>0 DEF Port
      <3>2. Waiting(new) /\ Started(new)
        BY <1>1, <2>1, <3>1 DEF Waiting, Started
      <3>3. Below(new)
        BY <1>1, <2>1, <3>1 DEF Below, Port
      <3> HIDE DEF new
      <3> QED
        BY <3>1, <3>2, <3>3 DEF Fit
    <2>3. Good(new)
      BY <1>1, <2>1, <2>2 DEF Port, Asked
    <2> QED
      BY <2>1, <2>3
  <1>3. CASE bcon6out(p)
    <2> DEFINE new == [s EXCEPT !.tx = @ + 1, !.at = "kick"]
    <2>1. Program(p, new) /\ s.at = "idle" /\ s.tx < outsize - 1 /\ s.d0 = nothing
      BY <1>3 DEF bcon6out, Program
    <2>2. Fit(new)
      <3>0. s.tx + 1 \in 0..outsize - 1
        <4>1. s.rx \in 0..size - 1 /\ s.tx \in 0..outsize - 1
          BY <1>1 DEF Port
        <4> QED
          BY <1>1, <2>1, <4>1
      <3>1. new \in Port /\ new.rx = s.rx /\ new.tx = s.tx + 1 /\ new.highwater = s.highwater /\ new.at = "kick"
            /\ new.xonoffc = s.xonoffc /\ new.UDR = s.UDR /\ new.d0 = s.d0 /\ new.xoff = s.xoff
        BY <1>1, <2>1, <3>0 DEF Port
      <3>2. Waiting(new) /\ Started(new)
        BY <1>1, <2>1, <3>1 DEF Waiting, Started
      <3>3. Below(new)
        BY <1>1, <2>1, <3>1 DEF Below, Port
      <3> HIDE DEF new
      <3> QED
        BY <3>1, <3>2, <3>3 DEF Fit
    <2>3. Good(new)
      BY <1>1, <2>1, <2>2 DEF Port, Asked
    <2> QED
      BY <2>1, <2>3
  <1>4. CASE Enough(p) /\ s.rx <= low /\ s.highwater
    <2> DEFINE new == [s EXCEPT !.highwater = FALSE, !.at = "cleared"]
    <2>1. Program(p, new) /\ s.at = "got" /\ s.d0 = nothing
      BY <1>4 DEF Enough, Program
    <2>2. Fit(new)
      <3>1. new \in Port /\ new.rx = s.rx /\ new.tx = s.tx /\ new.highwater = FALSE /\ new.at = "cleared"
            /\ new.xonoffc = s.xonoffc /\ new.UDR = s.UDR /\ new.d0 = s.d0 /\ new.xoff = s.xoff
        BY <1>1, <1>4, <2>1 DEF Port
      <3>2. Waiting(new) /\ Started(new)
        BY <1>1, <2>1, <3>1 DEF Waiting, Started
      <3>3. Below(new)
        BY <1>1, <1>4, <2>1, <3>1 DEF Below, Port
      <3> HIDE DEF new
      <3> QED
        BY <3>1, <3>2, <3>3 DEF Fit
    <2>3. Good(new)
      BY <1>1, <2>1, <2>2 DEF Port, Asked
    <2> QED
      BY <2>1, <2>3
  <1>5. CASE Enough(p) /\ ~(s.rx <= low /\ s.highwater)
    <2> DEFINE new == [s EXCEPT !.at = "idle"]
    <2>1. Program(p, new) /\ s.at = "got" /\ s.d0 = nothing
      BY <1>5 DEF Enough, Program
    <2>2. Fit(new)
      BY <1>1, <2>1 DEF Fit, Port, Waiting, Below, Started
    <2>3. Good(new)
      BY <1>1, <2>1, <2>2 DEF Port, Asked
    <2> QED
      BY <2>1, <2>3
  <1>6. CASE AskXon(p)
    <2> DEFINE new == [s EXCEPT !.xonoffc = XON, !.withheld = FALSE, !.at = "kick"]
    <2>1. Program(p, new) /\ s.at = "cleared" /\ s.d0 = nothing
      BY <1>6 DEF AskXon, Program
    <2>2. Fit(new) /\ ~new.highwater
      BY <1>1, <2>1 DEF Fit, Port, Waiting, Below, Started, Hand
    <2>3. Good(new)
      BY <1>1, <2>1, <2>2 DEF Port, Asked
    <2> QED
      BY <2>1, <2>3
  <1>7. CASE Kick(p)
    <2> DEFINE new == [s EXCEPT !.at = IF Ready(s) THEN "out" ELSE "idle"]
    <2>1. Program(p, new) /\ s.at = "kick" /\ s.d0 = nothing
      BY <1>7 DEF Kick, Program
    <2>2. Fit(new)
      BY <1>1, <2>1 DEF Fit, Port, Waiting, Below, Started, Ready
    <2>3. Good(new)
      BY <1>1, <2>1, <2>2 DEF Port, Asked, Ready
    <2> QED
      BY <2>1, <2>3
  <1>8. CASE Out(p)
    <2> DEFINE o == iorecout(s)
               new == [o EXCEPT !.at = "idle"]
    <2>1. Program(p, new) /\ s.at = "out" /\ s.d0 = nothing
      BY <1>8 DEF Out, Program
    <2>2. /\ o \in Port /\ Waiting(o) /\ Asked(o) = Asked(s)
          /\ o.rx = s.rx /\ o.highwater = s.highwater /\ o.xoff = s.xoff
          /\ o.at = s.at /\ o.withheld = s.withheld
          /\ (o.tx > 0 \/ o.xonoffc # nothing) /\ ~o.xoff => o.UDR # nothing
          /\ s.xoff => o = s
          /\ ~s.xoff => o.xonoffc = nothing
          /\ s.xonoffc = nothing => o.d0 \notin Hand /\ (o.UDR \in Hand <=> s.UDR \in Hand)
          /\ s.UDR # nothing => o.UDR = s.UDR
      <3> HIDE DEF s
      <3> QED
        BY <1>1, <2>1, IorecoutFields
    <2> HIDE DEF o
    <2>3. /\ new \in Port /\ new.tx = o.tx /\ new.rx = o.rx /\ new.highwater = o.highwater
          /\ new.xoff = o.xoff /\ new.withheld = o.withheld /\ new.at = "idle"
          /\ new.UDR = o.UDR /\ new.d0 = o.d0 /\ new.xonoffc = o.xonoffc
          /\ Asked(new) = Asked(o)
      BY <2>2 DEF Port, Asked
    <2> HIDE DEF new
    <2>4. Fit(new)
      BY <1>1, <2>1, <2>2, <2>3 DEF Fit, Waiting, Below, Started
    <2>5. Good(new)
      <3>1. s.rx \in Int /\ new.rx = s.rx
        BY <1>1, <2>2, <2>3 DEF Port
      <3>2. s.xonoffc = nothing => new.xonoffc = nothing
        BY <2>2, <2>3
      <3> QED
        BY <1>1, <2>1, <2>2, <2>3, <2>4, <3>1, <3>2
    <2> QED
      BY <2>1, <2>5
  <1> HIDE DEF Good
  <1> QED
    BY <1>2, <1>3, <1>4, <1>5, <1>6, <1>7, <1>8 DEF Finish

\* a step that changes nothing keeps the invariant
LEMMA StutterKeeps ==
  ASSUME PortsOK, OwedInv, UNCHANGED serialvars
  PROVE  PortsOK' /\ OwedInv'
  BY DEF PortsOK, OwedInv, Told, Asked, Fit, Waiting, Below, Started, serialvars

LEMMA NextKeeps ==
  ASSUME SerialAssumption
  PROVE  PortsOK /\ OwedInv /\ [SerialNext]_serialvars => PortsOK' /\ OwedInv'
  <1> SUFFICES ASSUME PortsOK, OwedInv, [SerialNext]_serialvars PROVE PortsOK' /\ OwedInv'
    OBVIOUS
  <1>1. CASE ByteTime
    BY <1>1, ByteTimeKeeps
  <1>2. ASSUME NEW p \in Ports, bcon6in(p) \/ bcon6out(p) \/ Finish(p)
        PROVE  PortsOK' /\ OwedInv'
    <2>1. PICK new :
            /\ Program(p, new) /\ Fit(new) /\ new.xoff = port[p].xoff
            /\ \/ Asked(new) = XON
               \/ /\ Asked(new) = Asked(port[p])
                  /\ port[p].highwater \/ port[p].at = "cleared"
                       => new.highwater \/ new.at = "cleared"
      BY <1>2, ProgramFields
    <2> QED
      BY <2>1, ProgramKeeps
  <1>3. CASE UNCHANGED serialvars
    BY <1>3, StutterKeeps
  <1> QED
    BY <1>1, <1>2, <1>3 DEF SerialNext, Wait

\* The buffers, the registers and the flags keep their types; Told is right at
\* every moment: what the other end has been told, counting what is under way,
\* agrees with highwater.
THEOREM PortsAlwaysOK ==
  ASSUME SerialAssumption
  PROVE  SerialSpec => [](PortsOK /\ OwedInv)
  <1>1. SerialInit => PortsOK /\ OwedInv
    BY InitOK
  <1>2. PortsOK /\ OwedInv /\ [SerialNext]_serialvars => (PortsOK /\ OwedInv)'
    BY NextKeeps
  <1> QED
    BY <1>1, <1>2, PTL DEF SerialSpec

\* An end that waits while its own XOFF is under way has been recorded, and of
\* two ends that wait one at least.
CrossInv ==
  /\ \A p \in Ports : port[p].xoff /\ OnWay(p, XOFF) => p \in crossed
  /\ \A p \in Ports : port[p].xoff /\ port[Other[p]].xoff => {p, Other[p]} \cap crossed # {}

LEMMA CrossInit ==
  ASSUME SerialAssumption
  PROVE  SerialInit => CrossInv
  BY DEF SerialAssumption, SerialInit, CrossInv, Idle

LEMMA CrossByteTime ==
  ASSUME SerialAssumption, PortsOK, CrossInv, ByteTime
  PROVE  CrossInv'
  <1>1. ASSUME NEW p \in Ports, port'[p].xoff
        PROVE  /\ line[Other[p]] = XOFF \/ port[p].xoff
               /\ OnWay(p, XOFF)' => OnWay(p, XOFF)
               /\ p \in crossed \/ (line[Other[p]] = XOFF /\ OnWay(p, XOFF)) => p \in crossed'
    <2>1. /\ Fit(port[p]) /\ InTime(port[p]) /\ line[Other[p]] \in Bytes
          /\ port'[p] = Interrupts(port[p], line[Other[p]]) /\ line'[p] = port[p].UDR
      BY ByteTimeFields
    <2>2. /\ port'[p].xoff <=> line[Other[p]] = XOFF \/ (port[p].xoff /\ line[Other[p]] # XON)
          /\ port'[p].xoff => port'[p].UDR = port[p].d0 /\ port'[p].d0 = nothing
      BY <2>1, InterruptsFields
    <2>3. OnWay(p, XOFF)' => OnWay(p, XOFF)
      BY <1>1, <2>1, <2>2 DEF OnWay, SerialAssumption
    <2>4. p \in crossed \/ (line[Other[p]] = XOFF /\ OnWay(p, XOFF)) => p \in crossed'
      BY <1>1 DEF ByteTime
    <2> QED
      BY <1>1, <2>2, <2>3, <2>4
  <1>2. ASSUME NEW p \in Ports, port'[p].xoff, OnWay(p, XOFF)'
        PROVE  p \in crossed'
    BY <1>1, <1>2 DEF CrossInv
  <1>3. ASSUME NEW p \in Ports, NEW q \in Ports, q = Other[p], port'[p].xoff, port'[q].xoff
        PROVE  {p, q} \cap crossed' # {}
    <2>1. Other[q] = p
      BY <1>3 DEF SerialAssumption
    <2>2. CASE port[p].xoff /\ port[q].xoff
      BY <1>1, <1>3, <2>2 DEF CrossInv
    <2>3. CASE ~port[p].xoff
      <3>1. line[q] = XOFF
        BY <1>1, <1>3, <2>3
      <3>2. OnWay(q, XOFF)
        BY <3>1 DEF OnWay
      <3>3. port[q].xoff \/ line[p] = XOFF
        BY <1>1, <1>3, <2>1
      <3> QED
        BY <1>1, <1>3, <2>1, <3>2, <3>3 DEF CrossInv
    <2>4. CASE ~port[q].xoff
      <3>1. line[p] = XOFF
        BY <1>1, <1>3, <2>1, <2>4
      <3>2. OnWay(p, XOFF)
        BY <3>1 DEF OnWay
      <3>3. port[p].xoff \/ line[q] = XOFF
        BY <1>1, <1>3
      <3> QED
        BY <1>1, <1>3, <3>2, <3>3 DEF CrossInv
    <2> QED
      BY <2>2, <2>3, <2>4
  <1> QED
    BY <1>2, <1>3 DEF CrossInv, SerialAssumption

\* A step of the program moves no xoff, and takes nothing for sending while
\* its end waits.
LEMMA ProgramHalted ==
  ASSUME SerialAssumption, PortsOK, NEW p \in Ports,
         bcon6in(p) \/ bcon6out(p) \/ Finish(p)
  PROVE  /\ UNCHANGED <<line, crossed>>
         /\ \A q \in Ports : port'[q].xoff = port[q].xoff
         /\ \A q \in Ports : port[q].xoff => port'[q].d0 = port[q].d0 /\ port'[q].UDR = port[q].UDR
  <1>1. PICK new : /\ Program(p, new) /\ new.xoff = port[p].xoff
                   /\ port[p].xoff => new.UDR = port[p].UDR /\ new.d0 = port[p].d0
    BY ProgramFields
  <1>2. port' = [port EXCEPT ![p] = new] /\ UNCHANGED <<line, crossed>>
    BY <1>1 DEF Program
  <1>3. \A q \in Ports : port'[q] = IF q = p THEN new ELSE port[q]
    BY <1>2 DEF PortsOK
  <1> QED
    BY <1>1, <1>2, <1>3

LEMMA CrossNext ==
  ASSUME SerialAssumption
  PROVE  PortsOK /\ CrossInv /\ [SerialNext]_serialvars => CrossInv'
  <1> SUFFICES ASSUME PortsOK, CrossInv, [SerialNext]_serialvars PROVE CrossInv'
    OBVIOUS
  <1>1. CASE ByteTime
    BY <1>1, CrossByteTime
  <1>2. ASSUME NEW p \in Ports, bcon6in(p) \/ bcon6out(p) \/ Finish(p)
        PROVE  CrossInv'
    BY <1>2, ProgramHalted DEF CrossInv, OnWay, SerialAssumption
  <1>3. CASE UNCHANGED serialvars
    BY <1>3 DEF CrossInv, OnWay, serialvars
  <1> QED
    BY <1>1, <1>2, <1>3 DEF SerialNext, Wait

LEMMA InvNoStall ==
  ASSUME SerialAssumption
  PROVE  PortsOK /\ OwedInv /\ CrossInv => NoStall
  <1> SUFFICES ASSUME PortsOK, OwedInv, CrossInv PROVE NoStall
    OBVIOUS
  <1>1. Sending
    BY DEF Sending, PortsOK, Fit, Started, Ready
  <1>2. Owed
    <2> SUFFICES ASSUME NEW p \in Ports, NEW q \in Ports, q = Other[p], port[p].xoff,
                        ~OnWay(q, XON)
                 PROVE  /\ port[q].highwater \/ port[q].at = "cleared" \/ port[q].xonoffc = XON
                        /\ port[q].xoff => {p, q} \cap crossed # {}
      BY DEF Owed, SerialAssumption
    <2>1. port[q] \in Port /\ XON # XOFF /\ nothing # XON
      BY DEF PortsOK, SerialAssumption
    <2>2. port[q].xonoffc # XON => Told(port[q], line[q], port[p].xoff) = XOFF
      BY <2>1 DEF Told, Asked, Hand, Port, OnWay
    <2>3. port[q].xoff => {p, q} \cap crossed # {}
      BY DEF CrossInv
    <2> QED
      BY <2>2, <2>3 DEF OwedInv
  <1> QED
    BY <1>1, <1>2 DEF NoStall

\* NoStall, for buffers of any size: what may be sent is on its way, and who
\* has been asked to wait is owed an XON that can be sent, unless XOFFs have
\* crossed (chardev.S, iorecout and bcon6in).
THEOREM NeverStalls ==
  ASSUME SerialAssumption
  PROVE  SerialSpec => []NoStall
  <1>1. SerialInit => CrossInv
    BY CrossInit
  <1>2. PortsOK /\ CrossInv /\ [SerialNext]_serialvars => CrossInv'
    BY CrossNext
  <1>3. PortsOK /\ OwedInv /\ CrossInv => NoStall
    BY InvNoStall
  <1> QED
    BY <1>1, <1>2, <1>3, PortsAlwaysOK, PTL DEF SerialSpec

LEMMA DeadByteTime ==
  ASSUME SerialAssumption, PortsOK, ByteTime, NEW p \in Ports, Dead(p)
  PROVE  Dead(p)'
  <1> SUFFICES ASSUME NEW e \in {p, Other[p]}
               PROVE  port'[e].xoff /\ ~OnWay(e, XON)'
    BY DEF Dead, OnWay
  <1>1. e \in Ports /\ Other[e] \in {p, Other[p]}
    BY DEF SerialAssumption
  <1>2. port[e].xoff /\ ~OnWay(e, XON) /\ ~OnWay(Other[e], XON)
    BY <1>1 DEF Dead
  <1>3. /\ Fit(port[e]) /\ InTime(port[e]) /\ line[Other[e]] \in Bytes
        /\ port'[e] = Interrupts(port[e], line[Other[e]]) /\ line'[e] = port[e].UDR
    BY <1>1, ByteTimeFields
  <1>4. /\ port'[e].xoff <=> line[Other[e]] = XOFF \/ (port[e].xoff /\ line[Other[e]] # XON)
        /\ port'[e].xoff => port'[e].UDR = port[e].d0 /\ port'[e].d0 = nothing
    BY <1>3, InterruptsFields
  <1> QED
    BY <1>2, <1>3, <1>4 DEF OnWay, SerialAssumption

\* The exception of NoStall is no delay: where both ends wait and no XON is
\* under way, nothing a program does and no byte that arrives ends that
\* (chardev.S, iorecout returns while xoff is set, whatever xonoffc holds).
THEOREM DeadForGood ==
  ASSUME SerialAssumption
  PROVE  SerialSpec => [][\A p \in Ports : Dead(p) => Dead(p)']_serialvars
  <1>1. PortsOK /\ [SerialNext]_serialvars =>
          [\A p \in Ports : Dead(p) => Dead(p)']_serialvars
    <2> SUFFICES ASSUME PortsOK, [SerialNext]_serialvars, serialvars' # serialvars,
                        NEW p \in Ports, Dead(p)
                 PROVE  Dead(p)'
      OBVIOUS
    <2>1. CASE ByteTime
      BY <2>1, DeadByteTime
    <2>2. ASSUME NEW q \in Ports, bcon6in(q) \/ bcon6out(q) \/ Finish(q)
          PROVE  Dead(p)'
      BY <2>2, ProgramHalted DEF Dead, OnWay, SerialAssumption
    <2> QED
      BY <2>1, <2>2 DEF SerialNext, Wait
  <1> QED
    BY <1>1, PortsAlwaysOK, PTL DEF SerialSpec

-----------------------------------------------------------------------------
(* No byte is lost.                                                        *)

One(byte) == IF byte = datum THEN 1 ELSE 0

\* How far an XOFF has come that has not been held back, and what can still
\* arrive before the other end obeys it: s is the end that has asked, l what
\* it is sending, o the other end and m what that is sending.
Coming(s, l, o, m) ==
  s.highwater /\ ~s.withheld =>
    /\ s.xonoffc = nothing
    /\ \/ s.d0 = XOFF /\ s.rx <= size - 6
       \/ s.d0 \notin Hand /\ s.UDR = XOFF /\ s.rx <= size - 5
       \/ s.d0 \notin Hand /\ s.UDR \notin Hand /\ l = XOFF /\ s.rx <= size - 4
       \/ /\ s.d0 \notin Hand /\ s.UDR \notin Hand /\ l \notin Hand /\ o.xoff
          /\ s.rx + One(m) + One(o.UDR) + One(o.d0) <= size - 1
LossInv == \A p \in Ports : Coming(port[p], line[p], port[Other[p]], line[Other[p]])

LEMMA LossInit ==
  ASSUME SerialAssumption
  PROVE  SerialInit => LossInv
  BY DEF SerialAssumption, SerialInit, LossInv, Coming, Idle

\* the time of a byte brings XOFF one stage further, and at most one byte
LEMMA LossByteTime ==
  ASSUME SerialAssumption, high + 6 <= size, PortsOK, LossInv, ByteTime
  PROVE  LossInv'
  <1> SUFFICES ASSUME NEW p \in Ports, NEW q \in Ports, q = Other[p]
               PROVE  Coming(port'[p], line'[p], port'[q], line'[q])
    BY DEF LossInv, SerialAssumption
  <1> DEFINE s == port[p]
             u == port'[p]
             o == port[q]
             v == port'[q]
             new == u.highwater /\ ~s.highwater
  <1>1. /\ size \in Nat /\ high \in Nat /\ nothing \notin Hand /\ datum \notin Hand
        /\ XON # XOFF /\ XOFF \in Hand /\ XON # nothing /\ XOFF # nothing
    BY DEF SerialAssumption, Hand
  <1>2. /\ Fit(s) /\ InTime(s) /\ line[q] \in Bytes
        /\ u = Interrupts(s, line[q]) /\ line'[p] = s.UDR
    BY ByteTimeFields
  <1>3. /\ Fit(o) /\ InTime(o) /\ line[p] \in Bytes
        /\ v = Interrupts(o, line[p]) /\ line'[q] = o.UDR
    <2>1. Other[q] = p
      BY DEF SerialAssumption
    <2> QED
      BY <2>1, ByteTimeFields
  <1>4. Coming(s, line[p], o, line[q])
    BY DEF LossInv
  <1> HIDE DEF s, u, o, v
  <1>5. /\ u.rx = IF line[q] = datum /\ s.rx # size - 1 THEN s.rx + 1 ELSE s.rx
        /\ s.withheld => u.withheld
        /\ new /\ ~u.withheld =>
             /\ u.rx = high /\ u.xonoffc = nothing
             /\ u.d0 = XOFF \/ (u.d0 \notin Hand /\ u.UDR = XOFF)
        /\ ~new /\ s.xonoffc = nothing =>
             /\ u.xonoffc = nothing /\ u.d0 \notin Hand
             /\ (u.UDR \in Hand <=> s.d0 \in Hand) /\ (s.d0 # nothing => u.UDR = s.d0)
    BY <1>2, InterruptsFields
  <1>6. /\ v.xoff <=> line[p] = XOFF \/ (o.xoff /\ line[p] # XON)
        /\ v.xoff => v.UDR = o.d0 /\ v.d0 = nothing
    BY <1>3, InterruptsFields
  <1>7. s.rx \in Nat /\ s.withheld \in BOOLEAN /\ u.withheld \in BOOLEAN /\ u.rx <= s.rx + One(line[q])
        /\ u.rx \in Nat
    BY <1>1, <1>2, <1>5, InterruptsFields DEF Fit, Port, One
  <1>8. \A b : One(b) \in {0, 1}
    BY DEF One
  <1> SUFFICES ASSUME u.highwater, ~u.withheld
               PROVE  Coming(u, s.UDR, v, o.UDR)
    BY <1>2, <1>3 DEF Coming, u, v, o, s
  <1>9. CASE new
    BY <1>1, <1>5, <1>9 DEF Coming
  <1>10. CASE ~new
    <2>1. s.highwater /\ ~s.withheld /\ s.xonoffc = nothing
      BY <1>4, <1>5, <1>7, <1>10 DEF Coming
    <2>2. /\ u.xonoffc = nothing /\ u.d0 \notin Hand
          /\ (u.UDR \in Hand <=> s.d0 \in Hand) /\ (s.d0 # nothing => u.UDR = s.d0)
      BY <1>5, <1>10, <2>1
    <2>3. CASE s.d0 = XOFF /\ s.rx <= size - 6
      <3>1. u.UDR = XOFF
        BY <1>1, <2>2, <2>3
      <3>2. u.rx <= size - 5
        BY <1>1, <1>7, <1>8, <2>3
      <3> QED
        BY <2>2, <3>1, <3>2 DEF Coming
    <2>4. CASE s.d0 \notin Hand /\ s.UDR = XOFF /\ s.rx <= size - 5
      <3>1. u.UDR \notin Hand
        BY <2>2, <2>4
      <3>2. u.rx <= size - 4
        BY <1>1, <1>7, <1>8, <2>4
      <3> QED
        BY <2>2, <2>4, <3>1, <3>2 DEF Coming
    <2>5. CASE s.d0 \notin Hand /\ s.UDR \notin Hand /\ line[p] = XOFF /\ s.rx <= size - 4
      <3>1. u.UDR \notin Hand /\ v.xoff /\ v.UDR = o.d0 /\ v.d0 = nothing
        BY <1>6, <2>2, <2>5
      <3>2. u.rx + One(o.UDR) + One(v.UDR) + One(v.d0) <= size - 1
        <4>1. One(v.d0) = 0
          BY <1>1, <3>1 DEF One, SerialAssumption
        <4> QED
          BY <1>1, <1>7, <1>8, <2>5, <4>1
      <3> QED
        BY <2>2, <2>5, <3>1, <3>2 DEF Coming
    <2>6. CASE /\ s.d0 \notin Hand /\ s.UDR \notin Hand /\ line[p] \notin Hand /\ o.xoff
               /\ s.rx + One(line[q]) + One(o.UDR) + One(o.d0) <= size - 1
      <3>1. u.UDR \notin Hand /\ v.xoff /\ v.UDR = o.d0 /\ v.d0 = nothing
        BY <1>6, <2>2, <2>6 DEF Hand
      <3>2. u.rx + One(o.UDR) + One(v.UDR) + One(v.d0) <= size - 1
        <4>1. One(v.d0) = 0
          BY <1>1, <3>1 DEF One, SerialAssumption
        <4> QED
          BY <1>1, <1>7, <1>8, <2>6, <3>1, <4>1
      <3> QED
        BY <2>2, <2>6, <3>1, <3>2 DEF Coming
    <2> QED
      BY <1>4, <2>1, <2>3, <2>4, <2>5, <2>6 DEF Coming
  <1> QED
    BY <1>9, <1>10

\* a step of a program keeps the count at its own end and at the other
LEMMA LossProgram ==
  ASSUME SerialAssumption, PortsOK, LossInv, NEW p \in Ports,
         bcon6in(p) \/ bcon6out(p) \/ Finish(p)
  PROVE  LossInv'
  <1>1. PICK new :
           /\ Program(p, new) /\ Fit(new) /\ new.xoff = port[p].xoff
           /\ new.rx <= port[p].rx
           /\ new.highwater => port[p].highwater
           /\ new.highwater /\ ~new.withheld => ~port[p].withheld
           /\ port[p].xonoffc = nothing /\ new.highwater =>
                /\ new.xonoffc = nothing /\ new.d0 \notin Hand
                /\ new.UDR \in Hand <=> port[p].UDR \in Hand
                /\ port[p].UDR \in Hand => new.UDR = port[p].UDR
           /\ port[p].xoff => new.UDR = port[p].UDR /\ new.d0 = port[p].d0
    BY ProgramFields
  <1>2. /\ line' = line /\ port'[p] = new /\ port[p].d0 = nothing
        /\ \A r \in Ports : r # p => port'[r] = port[r]
    BY <1>1 DEF Program, PortsOK
  <1>3. /\ size \in Nat /\ nothing \notin Hand /\ XOFF \in Hand /\ XOFF # nothing /\ datum # nothing
    BY DEF SerialAssumption, Hand
  <1>4. \A b : One(b) \in {0, 1}
    BY DEF One
  <1> SUFFICES ASSUME NEW r \in Ports, NEW q \in Ports, q = Other[r], q # r, Other[q] = r
               PROVE  Coming(port'[r], line[r], port'[q], line[q])
    BY <1>2 DEF LossInv, SerialAssumption
  <1>5. Coming(port[r], line[r], port[q], line[q])
    BY DEF LossInv
  <1>6. CASE r # p /\ q # p
    BY <1>2, <1>5, <1>6
  <1>7. CASE r # p /\ q = p
    <2>1. port'[r] = port[r] /\ port'[q] = new
      BY <1>2, <1>7
    <2> QED
      BY <1>1, <1>5, <1>7, <2>1 DEF Coming
  <1>8. CASE r = p
    <2>1. port'[r] = new /\ port'[q] = port[q]
      BY <1>2, <1>8
    <2> DEFINE s == port[p]
    <2>2. s.rx \in Nat /\ new.rx \in Nat /\ new.withheld \in BOOLEAN
      BY <1>1, <1>3 DEF PortsOK, Fit, Port
    <2> HIDE DEF s
    <2> SUFFICES ASSUME new.highwater, ~new.withheld
                 PROVE  Coming(new, line[p], port[q], line[q])
      BY <1>8, <2>1 DEF Coming
    <2>3. /\ s.highwater /\ ~s.withheld /\ new.rx <= s.rx /\ s.d0 = nothing
          /\ Coming(s, line[p], port[q], line[q])
      BY <1>1, <1>2, <1>5, <1>8 DEF s
    <2>4. s.xonoffc = nothing
      BY <2>3 DEF Coming
    <2>5. /\ new.xonoffc = nothing /\ new.d0 \notin Hand
          /\ new.UDR \in Hand <=> s.UDR \in Hand
          /\ s.UDR \in Hand => new.UDR = s.UDR
      BY <1>1, <2>4 DEF s
    <2>6. CASE s.d0 \notin Hand /\ s.UDR = XOFF /\ s.rx <= size - 5
      BY <1>3, <2>2, <2>3, <2>5, <2>6 DEF Coming
    <2>7. CASE s.d0 \notin Hand /\ s.UDR \notin Hand /\ line[p] = XOFF /\ s.rx <= size - 4
      BY <1>3, <2>2, <2>3, <2>5, <2>7 DEF Coming
    <2>8. CASE /\ s.d0 \notin Hand /\ s.UDR \notin Hand /\ line[p] \notin Hand /\ port[q].xoff
               /\ s.rx + One(line[q]) + One(port[q].UDR) + One(port[q].d0) <= size - 1
      <3>1. new.rx + One(line[q]) + One(port[q].UDR) + One(port[q].d0) <= size - 1
        BY <1>3, <1>4, <2>2, <2>3, <2>8
      <3> QED
        BY <2>5, <2>8, <3>1 DEF Coming
    <2> QED
      BY <1>3, <2>3, <2>6, <2>7, <2>8 DEF Coming
  <1> QED
    BY <1>6, <1>7, <1>8

LEMMA LossNext ==
  ASSUME SerialAssumption, high + 6 <= size
  PROVE  PortsOK /\ LossInv /\ [SerialNext]_serialvars => LossInv'
  <1> SUFFICES ASSUME PortsOK, LossInv, [SerialNext]_serialvars PROVE LossInv'
    OBVIOUS
  <1>1. CASE ByteTime
    BY <1>1, LossByteTime
  <1>2. ASSUME NEW p \in Ports, bcon6in(p) \/ bcon6out(p) \/ Finish(p) PROVE LossInv'
    BY <1>2, LossProgram
  <1>3. CASE UNCHANGED serialvars
    BY <1>3 DEF LossInv, Coming, serialvars
  <1> QED
    BY <1>1, <1>2, <1>3 DEF SerialNext, Wait

\* who has no room has asked, and what arrives was counted
LEMMA NoneLost ==
  ASSUME SerialAssumption
  PROVE  PortsOK /\ LossInv /\ [SerialNext]_serialvars =>
           [\A p \in Ports :
              Full(port[p]) /\ line[Other[p]] = datum /\ line' # line
                => Withhold(port[p]).withheld]_serialvars
  <1> SUFFICES ASSUME PortsOK, LossInv, NEW p \in Ports,
                      Full(port[p]), line[Other[p]] = datum
               PROVE  Withhold(port[p]).withheld
    OBVIOUS
  <1> DEFINE s == port[p]
             o == port[Other[p]]
  <1>1. s \in Port /\ Below(s) /\ s.rx = size - 1
        /\ size \in Nat /\ high \in Nat /\ high < size
    BY DEF PortsOK, Fit, Full, SerialAssumption
  <1>2. s.highwater
    BY <1>1 DEF Below
  <1>3. Coming(s, line[p], o, datum)
    BY DEF LossInv
  <1>4. One(datum) = 1 /\ One(o.UDR) \in {0, 1} /\ One(o.d0) \in {0, 1}
    BY DEF One
  <1>5. s.withheld
    BY <1>1, <1>2, <1>3, <1>4 DEF Coming
  <1> QED
    BY <1>1, <1>5 DEF Withhold, Port

\* NoLoss, for buffers of any size that leave room for six bytes above the
\* high mark (the code's leave 64): the byte under way when XOFF is asked for,
\* those that come in while XOFF waits for the transmitter and crosses the
\* line, and those the other end has handed to its transmitter by then
\* (chardev.S, rcvrint and iorecout).
THEOREM NothingLost ==
  ASSUME SerialAssumption, high + 6 <= size
  PROVE  SerialSpec => NoLoss
  <1>1. SerialSpec => [](PortsOK /\ OwedInv)
    BY PortsAlwaysOK
  <1>2. SerialInit => LossInv
    BY LossInit
  <1>3. PortsOK /\ LossInv /\ [SerialNext]_serialvars => LossInv'
    BY LossNext
  <1>4. PortsOK /\ LossInv /\ [SerialNext]_serialvars =>
           [\A p \in Ports :
              Full(port[p]) /\ line[Other[p]] = datum /\ line' # line
                => Withhold(port[p]).withheld]_serialvars
    BY NoneLost
  <1> QED
    BY <1>1, <1>2, <1>3, <1>4, PTL DEF SerialSpec, NoLoss

-----------------------------------------------------------------------------
(* Changing disks.                                                         *)

-----------------------------------------------------------------------------
(* The inductive invariant.                                                *)

FloppyType ==
  /\ nflops \in {1, 2} /\ curflop \in Drives /\ poll \in Drives
  /\ disk \in [Drives -> Disks \cup {none}] /\ seen \in [Drives -> SUBSET Drives]
  /\ since \in [Drives -> 0..fd_mediach]
  /\ fd_wp \in [Drives -> BOOLEAN] /\ fd_latch \in [Drives -> BOOLEAN]
  /\ drivechange \in [Drives -> {MEDIANOCHANGE, MEDIAMAYCHANGE, MEDIACHANGE}]
  /\ serial \in [Drives -> Disks \cup {none}] /\ logged \in [Drives -> Disks \cup {none}]
  /\ unsure \in [Drives -> BOOLEAN]
  /\ call \in [step : {"idle", "asked", "locked", "alert"}, drv : Drives,
               at : {"bpb", "boot", "move"}, left : Int, again : BOOLEAN]

\* an empty drive that has been noticed shows in the latch
Noticed == \A d \in Drives :
  d \in seen[fd_dev(d)] /\ disk[fd_dev(d)] = none => fd_latch[d]

\* GEMDOS works with the disk whose serial number is known, and with none
\* while it is read
Serials ==
  /\ \A d \in Drives : logged[d] \in {none, serial[d]}
  /\ call.step # "idle" /\ call.at = "bpb" => logged[call.drv] = none

\* the disk of the other logical drive is only asked for in a drive that has two
Asking ==
  /\ call.step = "asked" => nflops = 1 /\ curflop # call.drv
  /\ call.step \in {"locked", "alert"} /\ nflops = 1 => curflop = call.drv

\* whose disk may be in a drive
Active(d) == nflops = 1 => curflop = d
\* its next call finds out
Suspect(d) == drivechange[d] = MEDIACHANGE \/ (fd_latch[d] /\ since[d] = fd_mediach)
\* its boot sector is being read
Checked(d) == call.step \in {"locked", "alert"} /\ call.drv = d /\ call.at = "boot"

\* a disk that was exchanged is suspect, until it is looked at
Watched == \A d \in Drives :
  Known(d) /\ Active(d) /\ ~Right(d) => Suspect(d) \/ Checked(d)
\* and none is moved to or from
Moving == call.step = "locked" /\ call.at = "move" /\ Known(call.drv) => Right(call.drv)

FloppyInv == FloppyType /\ Noticed /\ Serials /\ Asking /\ Watched /\ Moving

-----------------------------------------------------------------------------
(* The actions.                                                            *)

LEMMA Parts ==
  ASSUME FloppyInv
  PROVE  FloppyType /\ Noticed /\ Serials /\ Asking /\ Watched /\ Moving
  BY DEF FloppyInv

LEMMA EjectStep ==
  ASSUME FloppyAssumption, FloppyInv, NEW p \in Drives, Eject(p)
  PROVE  FloppyInv'
  <1>0. Drives = {0, 1} /\ fd_mediach \in Nat
    BY DEF Drives, FloppyAssumption
  <1>1. FloppyType'
    BY <1>0, Parts DEF FloppyType, idle, Eject, Drives, fd_dev, Served, user, media, idle
  <1>2. Noticed'
    BY <1>0, Parts DEF FloppyType, Noticed, Eject, Drives, fd_dev, Served, user, media, idle
  <1>3. Serials'
    BY <1>0, Parts DEF FloppyType, Serials, idle, Eject, Drives, fd_dev, Served, user, media, idle
  <1>4. Asking'
    BY <1>0, Parts DEF FloppyType, Asking, idle, Eject, Drives, fd_dev, Served, user, media, idle
  <1>5. Watched'
    BY <1>0, Parts DEF FloppyType, Watched, Active, Suspect, Checked, Known, Right, Eject, Drives, fd_dev, Served, user, media, idle
  <1>6. Moving'
    BY <1>0, Parts DEF FloppyType, Moving, Known, Right, Eject, Drives, fd_dev, Served, user, media, idle
  <1> QED
    BY <1>1, <1>2, <1>3, <1>4, <1>5, <1>6 DEF FloppyInv

LEMMA InsertStep ==
  ASSUME FloppyAssumption, FloppyInv, NEW p \in Drives, NEW x \in Disks, Insert(p, x)
  PROVE  FloppyInv'
  <1>0. Drives = {0, 1} /\ fd_mediach \in Nat
    BY DEF Drives, FloppyAssumption
  <1>1. FloppyType'
    BY <1>0, Parts DEF FloppyType, idle, Insert, Drives, fd_dev, Served, user, media, idle
  <1>2. Noticed'
    BY <1>0, Parts DEF FloppyType, Noticed, Insert, Drives, fd_dev, Served, user, media, idle
  <1>3. Serials'
    BY <1>0, Parts DEF FloppyType, Serials, idle, Insert, Drives, fd_dev, Served, user, media, idle
  <1>4. Asking'
    BY <1>0, Parts DEF FloppyType, Asking, idle, Insert, Drives, fd_dev, Served, user, media, idle
  <1>5. Watched'
    <2> SUFFICES ASSUME NEW d \in Drives, Known(d)', Active(d)', ~Right(d)', ~Checked(d)'
                 PROVE  Suspect(d)'
      BY DEF Watched
    <2>1. UNCHANGED <<nflops, since, fd_latch, drivechange, curflop, logged, unsure, call>>
      BY DEF Insert, media
    <2>2. CASE fd_dev(d) = p
      <3>1. d \in seen[p] /\ since[d] = fd_mediach /\ disk[p] = none
        BY <2>2 DEF Insert, Served
      <3>2. fd_latch[d]
        BY <2>2, <3>1, Parts DEF Noticed
      <3> QED
        BY <2>1, <3>1, <3>2 DEF Suspect
    <2>3. CASE fd_dev(d) # p
      <3>1. disk'[fd_dev(d)] = disk[fd_dev(d)]
        BY <1>0, <2>3, Parts DEF Insert, FloppyType, fd_dev
      <3> QED
        BY <2>1, <3>1, Parts DEF Watched, Known, Active, Right, Checked, Suspect, fd_dev
    <2> QED
      BY <2>2, <2>3
  <1>6. Moving'
    BY <1>0, Parts DEF FloppyType, Moving, Known, Right, Insert, Drives, fd_dev, Served, user, media, idle
  <1> QED
    BY <1>1, <1>2, <1>3, <1>4, <1>5, <1>6 DEF FloppyInv

\* _flopvbl: what is latched stays latched, and ticks bring since to its bound
LEMMA TickStep ==
  ASSUME FloppyAssumption, FloppyInv, Tick
  PROVE  FloppyInv'
  <1>0. Drives = {0, 1} /\ fd_mediach \in Nat
    BY DEF Drives, FloppyAssumption
  <1> DEFINE q == fd_dev(poll)
  <1>1. poll \in Drives /\ q \in Drives
    BY <1>0, Parts DEF FloppyType, fd_dev
  <1>2. /\ since' \in [Drives -> 0..fd_mediach]
        /\ \A d \in Drives : since[d] = fd_mediach => since'[d] = fd_mediach
    <2>1. since' = [d \in Drives |-> IF since[d] < fd_mediach THEN since[d] + 1 ELSE since[d]]
      BY DEF Tick
    <2>2. \A d \in Drives : since[d] \in 0..fd_mediach
      BY Parts DEF FloppyType
    <2> QED
      BY <1>0, <2>1, <2>2
  <1>3. UNCHANGED <<nflops, disk, drivechange, curflop, serial, logged, unsure, call>>
    BY DEF Tick, media
  <1>4. poll' \in Drives
    BY <1>0, <1>1 DEF Tick
  <1>5. /\ fd_wp' \in [Drives -> BOOLEAN] /\ fd_latch' \in [Drives -> BOOLEAN]
        /\ seen' \in [Drives -> SUBSET Drives]
        /\ \A d \in Drives : fd_latch[d] => fd_latch'[d]
        /\ \A d, p \in Drives : d \in seen'[p] =>
             d \in seen[p] \/ (p = q /\ d = poll /\ disk[q] = none /\ fd_latch'[d])
    <2>1. CASE call.step = "locked"
      <3>1. UNCHANGED <<fd_wp, fd_latch, seen>>
        BY <2>1 DEF Tick
      <3> QED
        BY <3>1, Parts DEF FloppyType
    <2>2. CASE call.step # "locked"
      <3> DEFINE on == disk[q] \in Protected \cup {none}
                 wp == [fd_wp EXCEPT ![poll] = on]
      <3>1. /\ fd_wp' = wp
            /\ fd_latch' = [d \in Drives |-> fd_latch[d] \/ wp[d]]
            /\ seen' = IF disk[q] = none THEN [seen EXCEPT ![q] = @ \cup {poll}] ELSE seen
        BY <2>2 DEF Tick
      <3>2. on \in BOOLEAN /\ (disk[q] = none => on)
        OBVIOUS
      <3> HIDE DEF on, q
      <3>3. wp \in [Drives -> BOOLEAN] /\ wp[poll] = on
        BY <1>1, <3>2, Parts DEF FloppyType
      <3> HIDE DEF wp
      <3>4. fd_latch' \in [Drives -> BOOLEAN] /\ \A d \in Drives : fd_latch'[d] = (fd_latch[d] \/ wp[d])
        BY <3>1, <3>3, Parts DEF FloppyType
      <3>5. /\ seen' \in [Drives -> SUBSET Drives]
            /\ \A d, p \in Drives : d \in seen'[p] =>
                 d \in seen[p] \/ (p = q /\ d = poll /\ disk[q] = none)
        BY <1>1, <3>1, Parts DEF FloppyType
      <3> QED
        BY <1>1, <3>1, <3>2, <3>3, <3>4, <3>5
    <2> QED
      BY <2>1, <2>2
  <1> HIDE DEF q
  <1>6. FloppyType'
    BY <1>2, <1>3, <1>4, <1>5, Parts DEF FloppyType
  <1>7. Noticed'
    <2> SUFFICES ASSUME NEW d \in Drives, d \in seen'[fd_dev(d)], disk[fd_dev(d)] = none
                 PROVE  fd_latch'[d]
      BY <1>3 DEF Noticed, fd_dev
    <2>1. fd_dev(d) \in Drives
      BY <1>0 DEF fd_dev
    <2> QED
      BY <1>5, <2>1, Parts DEF Noticed
  <1>8. Serials' /\ Asking' /\ Moving'
    BY <1>3, Parts DEF Serials, Asking, Moving, Known, Right, fd_dev
  <1>9. Watched'
    BY <1>2, <1>3, <1>5, Parts DEF Watched, Known, Active, Right, Checked, Suspect, fd_dev
  <1> QED
    BY <1>6, <1>7, <1>8, <1>9 DEF FloppyInv

\* bhdv_mediach notes what is latched, and takes back no definite change
LEMMA NotedDoes ==
  ASSUME FloppyType, NEW d \in Drives
  PROVE  /\ Noted(d) \in [Drives -> {MEDIANOCHANGE, MEDIAMAYCHANGE, MEDIACHANGE}]
         /\ \A e \in Drives : drivechange[e] = MEDIACHANGE => Noted(d)[e] = MEDIACHANGE
  BY DEF FloppyType, Noted, MEDIANOCHANGE, MEDIAMAYCHANGE, MEDIACHANGE

LEMMA MediachStep ==
  ASSUME FloppyAssumption, FloppyInv, NEW d \in Drives, Mediach(d)
  PROVE  FloppyInv'
  <1>1. /\ drivechange' = Noted(d)
        /\ UNCHANGED <<nflops, disk, seen, since, poll, fd_wp, fd_latch, curflop, serial, logged,
                       unsure, call>>
    BY DEF Mediach, user, media
  <1>2. /\ drivechange' \in [Drives -> {MEDIANOCHANGE, MEDIAMAYCHANGE, MEDIACHANGE}]
        /\ \A e \in Drives : drivechange[e] = MEDIACHANGE => drivechange'[e] = MEDIACHANGE
    BY <1>1, Parts, NotedDoes
  <1>3. FloppyType'
    BY <1>1, <1>2, Parts DEF FloppyType
  <1>4. Noticed' /\ Serials' /\ Asking' /\ Moving'
    BY <1>1, Parts DEF Noticed, Serials, Asking, Moving, Known, Right, fd_dev
  <1>5. Watched'
    BY <1>1, <1>2, Parts DEF Watched, Known, Active, Right, Checked, Suspect, fd_dev
  <1> QED
    BY <1>3, <1>4, <1>5 DEF FloppyInv

\* floprd or flopwrt begins, on the disk that is in the drive or is asked for
LEMMA EnterDoes ==
  ASSUME FloppyType, NEW c, c \in [step : {"idle", "asked", "locked", "alert"}, drv : Drives,
                                   at : {"bpb", "boot", "move"}, left : Int, again : BOOLEAN],
         NEW at \in {"bpb", "boot", "move"}
  PROVE  /\ Enter(c, at) \in [step : {"asked", "locked"}, drv : Drives,
                              at : {"bpb", "boot", "move"}, left : Int, again : BOOLEAN]
         /\ Enter(c, at).drv = c.drv /\ Enter(c, at).at = at
         /\ Enter(c, at).step = "asked" => nflops = 1 /\ curflop # c.drv
         /\ Enter(c, at).step = "locked" => Active(c.drv)
  BY DEF Enter, Active

\* ckmediach: a suspect disk is forgotten or looked at
LEMMA ckmediachStep ==
  ASSUME FloppyAssumption, FloppyInv, NEW c,
         c \in [step : {"idle", "asked", "locked", "alert"}, drv : Drives,
                at : {"bpb", "boot", "move"}, left : Int, again : BOOLEAN],
         ~Checked(c.drv), call.step = "idle" \/ call.drv = c.drv,
         ckmediach(c), UNCHANGED <<nflops, user, since, poll, fd_wp, fd_latch, curflop>>
  PROVE  FloppyInv'
  <1> DEFINE d == c.drv
  <1>1. d \in Drives
    OBVIOUS
  <1>2. /\ drivechange' = Noted(d)
        /\ UNCHANGED <<nflops, disk, seen, since, poll, fd_wp, fd_latch, curflop, serial>>
    BY DEF ckmediach, E_CHNG, user, media
  <1>3. /\ drivechange' \in [Drives -> {MEDIANOCHANGE, MEDIAMAYCHANGE, MEDIACHANGE}]
        /\ \A e \in Drives : drivechange[e] = MEDIACHANGE => drivechange'[e] = MEDIACHANGE
    BY <1>1, <1>2, Parts, NotedDoes
  <1>4. PICK at \in {"bpb", "boot", "move"} :
          /\ call' = Enter(c, at)
          /\ at = "bpb" => logged' = [logged EXCEPT ![d] = none] /\ unsure' = [unsure EXCEPT ![d] = FALSE]
          /\ at # "bpb" => UNCHANGED <<logged, unsure>>
          /\ at = "move" => bhdv_mediach(d) \notin {MEDIACHANGE, MEDIAMAYCHANGE}
    <2>1. CASE bhdv_mediach(d) = MEDIACHANGE
      <3>1. bhdv_mediach(d) # MEDIAMAYCHANGE
        BY <2>1 DEF MEDIAMAYCHANGE, MEDIACHANGE
      <3>2. E_CHNG(c)
        BY <2>1, <3>1 DEF ckmediach
      <3> QED
        BY <3>2 DEF E_CHNG
    <2>2. CASE bhdv_mediach(d) = MEDIAMAYCHANGE
      BY <2>2 DEF ckmediach, media, MEDIAMAYCHANGE, MEDIACHANGE
    <2>3. CASE bhdv_mediach(d) \notin {MEDIACHANGE, MEDIAMAYCHANGE}
      BY <2>3 DEF ckmediach, media
    <2> QED
      BY <2>1, <2>2, <2>3
  <1>5. /\ call' \in [step : {"asked", "locked"}, drv : Drives,
                      at : {"bpb", "boot", "move"}, left : Int, again : BOOLEAN]
        /\ call'.drv = d /\ call'.at = at
        /\ call'.step = "asked" => nflops = 1 /\ curflop # d
        /\ call'.step = "locked" => Active(d)
    BY <1>4, Parts, EnterDoes
  <1> HIDE DEF d
  <1>6. /\ logged' \in [Drives -> Disks \cup {none}] /\ unsure' \in [Drives -> BOOLEAN]
        /\ \A e \in Drives : logged'[e] = none \/ (logged'[e] = logged[e] /\ unsure'[e] = unsure[e])
        /\ at = "bpb" => logged'[d] = none
        /\ at # "bpb" => logged'[d] = logged[d] /\ unsure'[d] = unsure[d]
    BY <1>1, <1>4, Parts DEF FloppyType
  <1>7. FloppyType'
    BY <1>2, <1>3, <1>5, <1>6, Parts DEF FloppyType
  <1>8. Noticed' /\ Serials'
    BY <1>2, <1>5, <1>6, Parts DEF Noticed, Serials, fd_dev
  <1>9. Asking'
    BY <1>2, <1>5 DEF Asking, Active
  <1>10. \A e \in Drives : Known(e)' => Known(e) /\ logged'[e] = logged[e]
    BY <1>6 DEF Known
  <1>11. at = "move" /\ Known(d) /\ Active(d) => Right(d)
    <2> SUFFICES ASSUME at = "move", Suspect(d) PROVE FALSE
      BY <1>1, Parts DEF Watched, d
    <2>1. bhdv_mediach(d) \notin {MEDIACHANGE, MEDIAMAYCHANGE}
      BY <1>4
    <2>2. since[d] \in 0..fd_mediach
      BY <1>1, Parts DEF FloppyType
    <2> QED
      BY <2>1, <2>2, FloppyAssumption DEF Suspect, bhdv_mediach, FloppyAssumption
  <1>12. Moving'
    BY <1>2, <1>5, <1>10, <1>11 DEF Moving, Right, fd_dev
  <1>13. Watched'
    <2> SUFFICES ASSUME NEW e \in Drives, Known(e)', Active(e)', ~Right(e)'
                 PROVE  Suspect(e)'
      BY DEF Watched
    <2>1. Known(e) /\ Active(e) /\ ~Right(e)
      BY <1>2, <1>10 DEF Active, Right, fd_dev
    <2>2. ~Checked(e)
      BY DEF Checked
    <2>3. Suspect(e)
      BY <2>1, <2>2, Parts DEF Watched
    <2> QED
      BY <1>2, <1>3, <2>3 DEF Suspect
  <1> QED
    BY <1>7, <1>8, <1>9, <1>12, <1>13 DEF FloppyInv

\* Rwabs and Getbpb begin
LEMMA RwabsStep ==
  ASSUME FloppyAssumption, FloppyInv, NEW d \in Drives, NEW n \in Nat, Rwabs(d, n)
  PROVE  FloppyInv'
  <1> DEFINE c == [idle EXCEPT !.drv = d, !.left = n]
  <1>1. /\ c \in [step : {"idle", "asked", "locked", "alert"}, drv : Drives,
                  at : {"bpb", "boot", "move"}, left : Int, again : BOOLEAN]
        /\ c.drv = d
    <2>1. idle \in [step : {"idle", "asked", "locked", "alert"}, drv : Drives,
                     at : {"bpb", "boot", "move"}, left : Int, again : BOOLEAN]
      BY DEF idle, Drives
    <2>2. n \in Int
      OBVIOUS
    <2> QED
      BY <2>1, <2>2
  <1>2. /\ call.step = "idle" /\ ckmediach(c)
        /\ UNCHANGED <<nflops, user, since, poll, fd_wp, fd_latch, curflop>>
    BY DEF Rwabs
  <1>3. ~Checked(d)
    BY <1>2 DEF Checked
  <1> HIDE DEF c
  <1> QED
    BY <1>1, <1>2, <1>3, ckmediachStep

\* a step that leaves all but the call as it is
LEMMA OnlyCall ==
  ASSUME FloppyInv,
         UNCHANGED <<nflops, user, since, poll, fd_wp, fd_latch, drivechange, curflop, media>>,
         call' \in [step : {"idle", "asked", "locked", "alert"}, drv : Drives,
                    at : {"bpb", "boot", "move"}, left : Int, again : BOOLEAN],
         Serials', Asking', Moving', \A d \in Drives : Checked(d) => Checked(d)'
  PROVE  FloppyInv'
  <1>1. FloppyType' /\ Noticed'
    BY Parts DEF FloppyType, Noticed, user, media, fd_dev
  <1>2. Watched'
    BY Parts DEF Watched, Known, Active, Right, Suspect, user, media, fd_dev
  <1> QED
    BY <1>1, <1>2 DEF FloppyInv

LEMMA GetbpbStep ==
  ASSUME FloppyAssumption, FloppyInv, NEW d \in Drives, Getbpb(d)
  PROVE  FloppyInv'
  <1> DEFINE c == [idle EXCEPT !.drv = d]
  <1>1. /\ c \in [step : {"idle", "asked", "locked", "alert"}, drv : Drives,
                  at : {"bpb", "boot", "move"}, left : Int, again : BOOLEAN]
        /\ c.drv = d
    <2>1. idle \in [step : {"idle", "asked", "locked", "alert"}, drv : Drives,
                     at : {"bpb", "boot", "move"}, left : Int, again : BOOLEAN]
      BY DEF idle, Drives
    <2> QED
      BY <2>1
  <1>2. /\ call.step = "idle" /\ logged[d] = none /\ call' = Enter(c, "bpb")
        /\ UNCHANGED <<nflops, user, since, poll, fd_wp, fd_latch, drivechange, curflop, media>>
    BY DEF Getbpb
  <1> HIDE DEF c
  <1>3. /\ call' \in [step : {"asked", "locked"}, drv : Drives,
                      at : {"bpb", "boot", "move"}, left : Int, again : BOOLEAN]
        /\ call'.drv = d /\ call'.at = "bpb"
        /\ call'.step = "asked" => nflops = 1 /\ curflop # d
        /\ call'.step = "locked" => Active(d)
    BY <1>1, <1>2, Parts, EnterDoes
  <1>4. Serials' /\ Moving'
    BY <1>2, <1>3, Parts DEF Serials, Moving, media
  <1>5. Asking'
    BY <1>2, <1>3 DEF Asking, Active
  <1>6. \A e \in Drives : ~Checked(e)
    BY <1>2 DEF Checked
  <1> QED
    BY <1>2, <1>3, <1>4, <1>5, <1>6, OnlyCall

\* the disk asked for is the one whose drive is used next
LEMMA fdchangeStep ==
  ASSUME FloppyAssumption, FloppyInv, fdchange
  PROVE  FloppyInv'
  <1>0. PICK d \in Drives : d = call.drv
    BY Parts DEF FloppyType
  <1>1. /\ call.step = "asked" /\ logged[d] \in {none, disk[0]} /\ nflops = 1 /\ d \in Drives
        /\ fd_latch' = [e \in Drives |-> TRUE] /\ since' = [e \in Drives |-> fd_mediach]
        /\ curflop' = d /\ call' = [call EXCEPT !.step = "locked"]
        /\ UNCHANGED <<nflops, disk, seen, poll, fd_wp, drivechange, serial, logged, unsure>>
    BY <1>0, Parts DEF fdchange, user, media, Asking, FloppyType
  <1>2. /\ call' \in [step : {"locked"}, drv : Drives,
                      at : {"bpb", "boot", "move"}, left : Int, again : BOOLEAN]
        /\ call'.drv = d /\ call'.at = call.at /\ call'.step = "locked"
    BY <1>0, <1>1, Parts DEF FloppyType
  <1>3. FloppyType'
    <2>1. fd_latch' \in [Drives -> BOOLEAN] /\ since' \in [Drives -> 0..fd_mediach]
      BY <1>1, FloppyAssumption DEF FloppyAssumption
    <2> QED
      BY <1>1, <1>2, <2>1, Parts DEF FloppyType
  <1>4. Noticed' /\ Asking'
    BY <1>1, <1>2 DEF Noticed, Asking
  <1>5. Serials'
    BY <1>0, <1>1, <1>2, Parts DEF Serials
  <1>6. Right(d)' \/ ~Known(d)'
    BY <1>1 DEF Right, Known, fd_dev
  <1>7. Moving' /\ Watched'
    BY <1>1, <1>2, <1>6 DEF Moving, Watched, Active
  <1> QED
    BY <1>3, <1>4, <1>5, <1>7 DEF FloppyInv

\* an access leaves only its own drives not long ago
LEMMA AccessedDoes ==
  ASSUME FloppyAssumption, FloppyType
  PROVE  /\ Accessed \in [Drives -> 0..fd_mediach]
         /\ \A e \in Drives : Accessed[e] = since[e] \/ fd_dev(e) = fd_dev(call.drv)
  BY DEF FloppyAssumption, FloppyType, Accessed

\* another drive of the same place is not active, whose disk is not there
LEMMA OnlyActive ==
  ASSUME FloppyType, Asking, call.step = "locked", NEW e \in Drives, Active(e),
         fd_dev(e) = fd_dev(call.drv)
  PROVE  e = call.drv
  BY DEF FloppyType, Asking, Active, fd_dev

LEMMA flopfailStep ==
  ASSUME FloppyAssumption, FloppyInv, flopfail
  PROVE  FloppyInv'
  <1> DEFINE d == call.drv
             p == fd_dev(d)
  <1>1. /\ call.step = "locked" /\ call' = [call EXCEPT !.step = "alert"]
        /\ since' = Accessed
        /\ drivechange' = [drivechange EXCEPT ![p] = MEDIAMAYCHANGE]
        /\ UNCHANGED <<nflops, disk, seen, poll, fd_wp, fd_latch, curflop, serial, logged, unsure>>
    BY DEF flopfail, user, media
  <1>2. d \in Drives /\ p \in Drives
    BY Parts DEF FloppyType, fd_dev, Drives
  <1>3. /\ call' \in [step : {"alert"}, drv : Drives,
                      at : {"bpb", "boot", "move"}, left : Int, again : BOOLEAN]
        /\ call'.drv = d /\ call'.at = call.at /\ call'.step = "alert"
    BY <1>1, Parts DEF FloppyType
  <1>4. /\ since' \in [Drives -> 0..fd_mediach]
        /\ \A e \in Drives : since'[e] = since[e] \/ fd_dev(e) = p
    BY <1>1, Parts, AccessedDoes
  <1>5. /\ drivechange' \in [Drives -> {MEDIANOCHANGE, MEDIAMAYCHANGE, MEDIACHANGE}]
        /\ \A e \in Drives : drivechange'[e] = drivechange[e] \/ e = p
    BY <1>1, <1>2, Parts DEF FloppyType
  <1>6. FloppyType'
    BY <1>1, <1>3, <1>4, <1>5, Parts DEF FloppyType
  <1>7. \A e \in Drives : Active(e) /\ fd_dev(e) = p => e = d
    BY <1>1, Parts, OnlyActive
  <1>8. fd_dev(p) = p
    BY DEF fd_dev
  <1> HIDE DEF d, p
  <1>9. Noticed' /\ Serials' /\ Asking' /\ Moving'
    BY <1>1, <1>3, Parts DEF Noticed, Serials, Asking, Moving, fd_dev, d
  <1>10. Watched'
    <2> SUFFICES ASSUME NEW e \in Drives, Known(e)', Active(e)', ~Right(e)', ~Checked(e)'
                 PROVE  Suspect(e)'
      BY DEF Watched
    <2>1. Known(e) /\ Active(e) /\ ~Right(e)
      BY <1>1 DEF Known, Active, Right, fd_dev
    <2>2. e # d
      <3> SUFFICES ASSUME e = d PROVE FALSE
        OBVIOUS
      <3>1. call.at # "boot"
        BY <1>3 DEF Checked
      <3>2. call.at = "bpb"
        BY <1>1, <1>2, <2>1, <3>1, Parts DEF Moving, FloppyType, d
      <3> QED
        BY <1>1, <2>1, <3>2, Parts DEF Serials, Known, d
    <2>3. fd_dev(e) # p
      BY <1>7, <2>1, <2>2
    <2>4. since'[e] = since[e] /\ drivechange'[e] = drivechange[e] /\ ~Checked(e)
      <3>1. since'[e] = since[e]
        BY <1>4, <2>3
      <3>2. CASE e # p
        BY <1>5, <2>2, <3>1, <3>2 DEF Checked, d
      <3>3. CASE e = p
        BY <1>8, <2>3, <3>3
      <3> QED
        BY <3>2, <3>3
    <2> QED
      BY <1>1, <2>1, <2>4, Parts DEF Watched, Suspect
  <1> QED
    BY <1>6, <1>9, <1>10 DEF FloppyInv

\* an access that comes off: the disk of the drive is known for what it is
LEMMA flopokStep ==
  ASSUME FloppyAssumption, FloppyInv, NEW d \in Drives, d = call.drv,
         call.step = "locked", disk[fd_dev(d)] # none, since' = Accessed,
         UNCHANGED <<nflops, disk, seen, poll, fd_wp, curflop>>,
         fd_latch' \in [Drives -> BOOLEAN],
         drivechange' \in [Drives -> {MEDIANOCHANGE, MEDIAMAYCHANGE, MEDIACHANGE}],
         serial' \in [Drives -> Disks \cup {none}], logged' \in [Drives -> Disks \cup {none}],
         unsure' \in [Drives -> BOOLEAN],
         call' \in [step : {"idle", "asked", "locked", "alert"}, drv : Drives,
                    at : {"bpb", "boot", "move"}, left : Int, again : BOOLEAN],
         \A e \in Drives \ {d} :
           /\ fd_latch'[e] = fd_latch[e] /\ drivechange'[e] = drivechange[e]
           /\ serial'[e] = serial[e] /\ logged'[e] = logged[e] /\ unsure'[e] = unsure[e],
         Known(d)' => Right(d)',
         logged'[d] \in {none, serial'[d]},
         call'.step # "idle" /\ call'.at = "bpb" => logged'[d] = none,
         call'.step \in {"idle", "locked"}, call'.step = "locked" => call'.drv = d
  PROVE  FloppyInv'
  <1>1. /\ since' \in [Drives -> 0..fd_mediach]
        /\ \A e \in Drives : since'[e] = since[e] \/ fd_dev(e) = fd_dev(d)
    BY Parts, AccessedDoes
  <1>2. FloppyType'
    BY <1>1, Parts DEF FloppyType
  <1>3. Noticed'
    BY Parts DEF Noticed, fd_dev
  <1>4. Serials'
    BY Parts DEF Serials
  <1>5. Asking'
    BY Parts DEF Asking
  <1>6. Moving'
    BY DEF Moving
  <1>7. Watched'
    <2> SUFFICES ASSUME NEW e \in Drives, Known(e)', Active(e)', ~Right(e)'
                 PROVE  Suspect(e)'
      BY DEF Watched
    <2>1. (Active(e) /\ ~Right(e)) \/ e = d
      BY DEF Active, Right, fd_dev
    <2>2. e # d
      OBVIOUS
    <2>3. Known(e) /\ Active(e) /\ ~Right(e)
      BY <2>1, <2>2 DEF Known
    <2>4. fd_dev(e) # fd_dev(d)
      BY <2>2, <2>3, Parts, OnlyActive
    <2>5. ~Checked(e)
      BY <2>2 DEF Checked
    <2>6. Suspect(e)
      BY <2>3, <2>5, Parts DEF Watched
    <2> QED
      BY <1>1, <2>2, <2>4, <2>6 DEF Suspect
  <1> QED
    BY <1>2, <1>3, <1>4, <1>5, <1>6, <1>7 DEF FloppyInv

\* the serial number is compared: the disk is the one GEMDOS works with, or forgotten
LEMMA CompareStep ==
  ASSUME FloppyAssumption, FloppyInv, Compare
  PROVE  FloppyInv'
  <1>0. PICK d \in Drives : d = call.drv
    BY Parts DEF FloppyType
  <1>1. /\ call.step = "locked" /\ call.at = "boot" /\ disk[fd_dev(d)] # none /\ since' = Accessed
        /\ UNCHANGED <<nflops, disk, seen, poll, fd_wp, curflop>>
    BY <1>0 DEF Compare, flopok, user
  <1>2. CASE disk[fd_dev(d)] # serial[d]
    <2>1. /\ logged' = [logged EXCEPT ![d] = none] /\ unsure' = [unsure EXCEPT ![d] = FALSE]
          /\ call' = Enter(call, "bpb") /\ UNCHANGED <<serial, fd_latch, drivechange>>
      BY <1>0, <1>2 DEF Compare, E_CHNG
    <2>2. /\ call' \in [step : {"asked", "locked"}, drv : Drives,
                        at : {"bpb", "boot", "move"}, left : Int, again : BOOLEAN]
          /\ call'.drv = d /\ call'.at = "bpb" /\ call'.step = "locked"
      <3>1. call \in [step : {"idle", "asked", "locked", "alert"}, drv : Drives,
                      at : {"bpb", "boot", "move"}, left : Int, again : BOOLEAN]
        BY Parts DEF FloppyType
      <3> QED
        BY <1>0, <1>1, <2>1, <3>1, Parts, EnterDoes DEF Asking
    <2>3. /\ logged' \in [Drives -> Disks \cup {none}] /\ unsure' \in [Drives -> BOOLEAN]
          /\ logged'[d] = none
          /\ \A e \in Drives \ {d} : logged'[e] = logged[e] /\ unsure'[e] = unsure[e]
      BY <2>1, Parts DEF FloppyType
    <2>4. /\ fd_latch' \in [Drives -> BOOLEAN] /\ serial' \in [Drives -> Disks \cup {none}]
          /\ drivechange' \in [Drives -> {MEDIANOCHANGE, MEDIAMAYCHANGE, MEDIACHANGE}]
      BY <2>1, Parts DEF FloppyType
    <2>5. ~Known(d)'
      BY <2>3 DEF Known
    <2> QED
      BY <1>0, <1>1, <2>1, <2>2, <2>3, <2>4, <2>5, flopokStep
  <1>3. CASE disk[fd_dev(d)] = serial[d]
    <2>1. /\ fd_latch' = [fd_latch EXCEPT ![d] = fd_wp[d]]
          /\ drivechange' = IF fd_wp[d] THEN drivechange ELSE [drivechange EXCEPT ![d] = MEDIANOCHANGE]
          /\ unsure' = [unsure EXCEPT ![d] = FALSE] /\ UNCHANGED <<serial, logged>>
          /\ call' = Enter(call, "move")
      BY <1>0, <1>3 DEF Compare
    <2>2. /\ call' \in [step : {"asked", "locked"}, drv : Drives,
                        at : {"bpb", "boot", "move"}, left : Int, again : BOOLEAN]
          /\ call'.drv = d /\ call'.at = "move" /\ call'.step = "locked"
      <3>1. call \in [step : {"idle", "asked", "locked", "alert"}, drv : Drives,
                      at : {"bpb", "boot", "move"}, left : Int, again : BOOLEAN]
        BY Parts DEF FloppyType
      <3> QED
        BY <1>0, <1>1, <2>1, <3>1, Parts, EnterDoes DEF Asking
    <2>3. /\ fd_latch' \in [Drives -> BOOLEAN] /\ unsure' \in [Drives -> BOOLEAN]
          /\ \A e \in Drives \ {d} : fd_latch'[e] = fd_latch[e] /\ unsure'[e] = unsure[e]
      BY <2>1, Parts DEF FloppyType
    <2>4. /\ drivechange' \in [Drives -> {MEDIANOCHANGE, MEDIAMAYCHANGE, MEDIACHANGE}]
          /\ \A e \in Drives \ {d} : drivechange'[e] = drivechange[e]
      BY <2>1, Parts DEF FloppyType
    <2>5. /\ serial' \in [Drives -> Disks \cup {none}] /\ logged' \in [Drives -> Disks \cup {none}]
          /\ logged'[d] \in {none, serial'[d]}
      BY <2>1, Parts DEF FloppyType, Serials
    <2>6. Known(d)' => Right(d)'
      BY <1>1, <1>3, <2>1, Parts DEF Known, Right, Serials, fd_dev
    <2> QED
      BY <1>0, <1>1, <2>1, <2>2, <2>3, <2>4, <2>5, <2>6, flopokStep
  <1> QED
    BY <1>2, <1>3

\* the next disk is read
LEMMA bhdv_getbpbStep ==
  ASSUME FloppyAssumption, FloppyInv, bhdv_getbpb
  PROVE  FloppyInv'
  <1>0. PICK d \in Drives : d = call.drv
    BY Parts DEF FloppyType
  <1>1. /\ call.step = "locked" /\ call.at = "bpb" /\ disk[fd_dev(d)] # none /\ since' = Accessed
        /\ UNCHANGED <<nflops, disk, seen, poll, fd_wp, curflop>>
        /\ call' = idle
        /\ serial' = [serial EXCEPT ![d] = disk[fd_dev(d)]]
        /\ logged' = [logged EXCEPT ![d] = disk[fd_dev(d)]]
        /\ unsure' = [unsure EXCEPT ![d] = FALSE]
        /\ fd_latch' = [fd_latch EXCEPT ![d] = fd_wp[d]]
        /\ drivechange' = [drivechange EXCEPT ![d] = IF fd_wp[d] THEN MEDIAMAYCHANGE ELSE MEDIANOCHANGE]
    BY <1>0 DEF bhdv_getbpb, flopok, user
  <1>2. disk[fd_dev(d)] \in Disks \cup {none}
    BY Parts DEF FloppyType, fd_dev, Drives
  <1>3. /\ serial' \in [Drives -> Disks \cup {none}] /\ logged' \in [Drives -> Disks \cup {none}]
        /\ logged'[d] = disk[fd_dev(d)] /\ serial'[d] = disk[fd_dev(d)]
        /\ \A e \in Drives \ {d} : serial'[e] = serial[e] /\ logged'[e] = logged[e]
    BY <1>1, <1>2, Parts DEF FloppyType
  <1>4. /\ fd_latch' \in [Drives -> BOOLEAN] /\ unsure' \in [Drives -> BOOLEAN]
        /\ \A e \in Drives \ {d} : fd_latch'[e] = fd_latch[e] /\ unsure'[e] = unsure[e]
    BY <1>1, Parts DEF FloppyType
  <1>5. /\ drivechange' \in [Drives -> {MEDIANOCHANGE, MEDIAMAYCHANGE, MEDIACHANGE}]
        /\ \A e \in Drives \ {d} : drivechange'[e] = drivechange[e]
    BY <1>1, Parts DEF FloppyType
  <1>6. /\ call' \in [step : {"idle", "asked", "locked", "alert"}, drv : Drives,
                      at : {"bpb", "boot", "move"}, left : Int, again : BOOLEAN]
        /\ call'.step = "idle"
    BY <1>1 DEF idle, Drives
  <1>7. Right(d)'
    BY <1>1, <1>3 DEF Right, fd_dev
  <1> QED
    BY <1>0, <1>1, <1>3, <1>4, <1>5, <1>6, <1>7, flopokStep

\* sectors are moved
LEMMA dorwabsStep ==
  ASSUME FloppyAssumption, FloppyInv, dorwabs
  PROVE  FloppyInv'
  <1>0. PICK d \in Drives : d = call.drv
    BY Parts DEF FloppyType
  <1>1. /\ call.step = "locked" /\ call.at = "move" /\ disk[fd_dev(d)] # none /\ since' = Accessed
        /\ UNCHANGED <<nflops, disk, seen, poll, fd_wp, curflop, fd_latch, drivechange, serial, logged, unsure>>
        /\ call' = IF call.left = 1 THEN idle ELSE [call EXCEPT !.left = @ - 1]
    BY <1>0 DEF dorwabs, flopok, user, media
  <1>2. call \in [step : {"idle", "asked", "locked", "alert"}, drv : Drives,
                  at : {"bpb", "boot", "move"}, left : Int, again : BOOLEAN]
    BY Parts DEF FloppyType
  <1>3. /\ call' \in [step : {"idle", "asked", "locked", "alert"}, drv : Drives,
                      at : {"bpb", "boot", "move"}, left : Int, again : BOOLEAN]
        /\ call' = idle \/ (call'.step = "locked" /\ call'.drv = d /\ call'.at = "move")
    <2>1. CASE call.left = 1
      BY <1>1, <2>1 DEF idle, Drives
    <2>2. CASE call.left # 1
      <3>1. call.left - 1 \in Int
        BY <1>2
      <3> QED
        BY <1>0, <1>1, <1>2, <2>2, <3>1
    <2> QED
      BY <2>1, <2>2
  <1>4. Known(d)' => Right(d)'
    BY <1>0, <1>1, Parts DEF Moving, Known, Right, fd_dev
  <1>5. /\ drivechange' \in [Drives -> {MEDIANOCHANGE, MEDIAMAYCHANGE, MEDIACHANGE}]
        /\ fd_latch' \in [Drives -> BOOLEAN] /\ unsure' \in [Drives -> BOOLEAN]
        /\ serial' \in [Drives -> Disks \cup {none}] /\ logged' \in [Drives -> Disks \cup {none}]
    BY <1>1, Parts DEF FloppyType
  <1>6. logged'[d] \in {none, serial'[d]}
    BY <1>1, Parts DEF Serials
  <1>7. /\ call'.step \in {"idle", "locked"}
        /\ call'.step = "locked" => call'.drv = d
        /\ ~(call'.step # "idle" /\ call'.at = "bpb")
    BY <1>3 DEF idle
  <1> QED
    BY <1>0, <1>1, <1>3, <1>4, <1>5, <1>6, <1>7, flopokStep

\* What failed is tried again; the check is made anew before sectors are moved.
LEMMA RetryStep ==
  ASSUME FloppyAssumption, FloppyInv, Retry
  PROVE  FloppyInv'
  <1>1. /\ call.step = "alert"
        /\ UNCHANGED <<nflops, user, since, poll, fd_wp, fd_latch, curflop>>
    BY DEF Retry
  <1>2. call \in [step : {"idle", "asked", "locked", "alert"}, drv : Drives,
                  at : {"bpb", "boot", "move"}, left : Int, again : BOOLEAN]
    BY Parts DEF FloppyType
  <1>3. CASE call.at = "move"
    <2> DEFINE c == [call EXCEPT !.again = TRUE]
    <2>1. /\ c \in [step : {"idle", "asked", "locked", "alert"}, drv : Drives,
                    at : {"bpb", "boot", "move"}, left : Int, again : BOOLEAN]
          /\ c.drv = call.drv
      BY <1>2
    <2>2. ckmediach(c)
      BY <1>3 DEF Retry
    <2>3. ~Checked(call.drv)
      BY <1>3 DEF Checked
    <2> HIDE DEF c
    <2> QED
      BY <1>1, <2>1, <2>2, <2>3, ckmediachStep
  <1>4. CASE call.at # "move"
    <2>1. call' = Enter(call, call.at) /\ UNCHANGED <<drivechange, media>>
      BY <1>4 DEF Retry
    <2>2. /\ call' \in [step : {"asked", "locked"}, drv : Drives,
                        at : {"bpb", "boot", "move"}, left : Int, again : BOOLEAN]
          /\ call'.drv = call.drv /\ call'.at = call.at /\ call'.step = "locked"
      BY <1>1, <1>2, <2>1, Parts, EnterDoes DEF Asking
    <2>3. Serials' /\ Asking' /\ Moving'
      BY <1>1, <1>4, <2>1, <2>2, Parts DEF Serials, Asking, Moving, media
    <2>4. \A d \in Drives : Checked(d) => Checked(d)'
      BY <2>2 DEF Checked
    <2> QED
      BY <1>1, <2>1, <2>2, <2>3, <2>4, OnlyCall
  <1> QED
    BY <1>3, <1>4

\* After a check that was given up, the disk may be another.
LEMMA CancelStep ==
  ASSUME FloppyAssumption, FloppyInv, Cancel
  PROVE  FloppyInv'
  <1>0. PICK d \in Drives : d = call.drv
    BY Parts DEF FloppyType
  <1>1. /\ call.step = "alert"
        /\ call' = IF call.at = "boot" /\ call.again THEN Enter(call, "move") ELSE idle
        /\ unsure' = [unsure EXCEPT ![d] = (@ \/ call.at = "boot") /\ call.at # "bpb"]
        /\ logged' = IF call.at = "bpb" THEN [logged EXCEPT ![d] = none] ELSE logged
        /\ UNCHANGED <<nflops, disk, seen, since, poll, fd_wp, fd_latch, drivechange, curflop, serial>>
    BY <1>0 DEF Cancel, user
  <1>2. call \in [step : {"idle", "asked", "locked", "alert"}, drv : Drives,
                  at : {"bpb", "boot", "move"}, left : Int, again : BOOLEAN]
    BY Parts DEF FloppyType
  <1>3. /\ call' \in [step : {"idle", "asked", "locked", "alert"}, drv : Drives,
                      at : {"bpb", "boot", "move"}, left : Int, again : BOOLEAN]
        /\ \/ call'.step = "idle"
           \/ call'.step = "locked" /\ call'.drv = d /\ call'.at = "move" /\ call.at = "boot"
    <2>1. CASE call.at = "boot" /\ call.again
      BY <1>0, <1>1, <1>2, <2>1, Parts, EnterDoes DEF Asking
    <2>2. CASE ~(call.at = "boot" /\ call.again)
      BY <1>1, <2>2 DEF idle, Drives
    <2> QED
      BY <2>1, <2>2
  <1>4. /\ unsure' \in [Drives -> BOOLEAN]
        /\ \A e \in Drives \ {d} : unsure'[e] = unsure[e]
        /\ call.at = "boot" => unsure'[d]
        /\ call.at = "move" => unsure'[d] = unsure[d]
    <2> DEFINE u == (unsure[d] \/ call.at = "boot") /\ call.at # "bpb"
    <2>1. unsure' = [unsure EXCEPT ![d] = u]
      BY <1>1
    <2>2. u \in BOOLEAN
         /\ (call.at = "boot" => u) /\ (call.at = "move" => u = unsure[d])
      BY Parts DEF FloppyType
    <2> HIDE DEF u
    <2>3. /\ unsure' \in [Drives -> BOOLEAN] /\ unsure'[d] = u
          /\ \A e \in Drives \ {d} : unsure'[e] = unsure[e]
      BY <2>1, <2>2, Parts DEF FloppyType
    <2> QED
      BY <2>2, <2>3
  <1>5. /\ logged' \in [Drives -> Disks \cup {none}]
        /\ \A e \in Drives : logged'[e] \in {none, logged[e]}
        /\ call.at = "bpb" => logged'[d] = none
    BY <1>1, Parts DEF FloppyType
  <1>6. FloppyType'
    BY <1>1, <1>3, <1>4, <1>5, Parts DEF FloppyType
  <1>7. Noticed' /\ Asking' /\ Serials'
    BY <1>0, <1>1, <1>3, <1>5, Parts DEF Noticed, Asking, Serials, fd_dev
  <1>8. Moving'
    BY <1>3, <1>4 DEF Moving, Known
  <1>9. Watched'
    <2> SUFFICES ASSUME NEW e \in Drives, Known(e)', Active(e)', ~Right(e)'
                 PROVE  Suspect(e)'
      BY DEF Watched
    <2>1. e # d \/ call.at = "move"
      BY <1>2, <1>4, <1>5 DEF Known
    <2>2. unsure'[e] = unsure[e]
      BY <1>4, <2>1
    <2>3. Known(e) /\ Active(e) /\ ~Right(e)
      BY <1>1, <1>5, <2>2 DEF Known, Active, Right, fd_dev
    <2>4. ~Checked(e)
      BY <1>0, <2>1 DEF Checked
    <2> QED
      BY <1>1, <2>3, <2>4, Parts DEF Watched, Suspect
  <1> QED
    BY <1>6, <1>7, <1>8, <1>9 DEF FloppyInv

\* a program makes the disk another: its drive is put into the changed mode
LEMMA flopfmtStep ==
  ASSUME FloppyAssumption, FloppyInv, NEW d \in Drives, NEW x \in Disks, flopfmt(d, x)
  PROVE  FloppyInv'
  <1>0. PICK p \in Drives : p = fd_dev(d)
    BY DEF fd_dev, Drives
  <1>1. /\ call.step = "idle" /\ disk[p] # none /\ Active(d)
        /\ disk' = [disk EXCEPT ![p] = x]
        /\ drivechange' = [drivechange EXCEPT ![p] = MEDIACHANGE]
        /\ since' = [e \in Drives |-> IF fd_dev(e) = p THEN 0 ELSE since[e]]
        /\ unsure' = [unsure EXCEPT ![d] = @ \/ d # p]
        /\ UNCHANGED <<nflops, seen, poll, fd_wp, fd_latch, curflop, serial, logged, call>>
    BY <1>0 DEF flopfmt, Active
  <1>2. /\ disk' \in [Drives -> Disks \cup {none}] /\ disk'[p] = x /\ x # none
        /\ \A q \in Drives \ {p} : disk'[q] = disk[q]
    BY <1>1, FloppyAssumption, Parts DEF FloppyType, FloppyAssumption
  <1>3. /\ drivechange' \in [Drives -> {MEDIANOCHANGE, MEDIAMAYCHANGE, MEDIACHANGE}]
        /\ drivechange'[p] = MEDIACHANGE
        /\ \A e \in Drives \ {p} : drivechange'[e] = drivechange[e]
    BY <1>1, Parts DEF FloppyType
  <1>4. /\ unsure' \in [Drives -> BOOLEAN] /\ unsure'[d] = (unsure[d] \/ d # p)
        /\ \A e \in Drives \ {d} : unsure'[e] = unsure[e]
    <2> DEFINE u == unsure[d] \/ d # p
    <2>1. unsure' = [unsure EXCEPT ![d] = u]
      BY <1>1
    <2>2. u \in BOOLEAN
         /\ u = (unsure[d] \/ d # p)
      OBVIOUS
    <2> HIDE DEF u
    <2>3. /\ unsure' \in [Drives -> BOOLEAN] /\ unsure'[d] = u
          /\ \A e \in Drives \ {d} : unsure'[e] = unsure[e]
      BY <2>1, <2>2, Parts DEF FloppyType
    <2> QED
      BY <2>2, <2>3
  <1>5. since' \in [Drives -> 0..fd_mediach]
    <2>1. 0 \in 0..fd_mediach /\ \A e \in Drives : since[e] \in 0..fd_mediach
      BY FloppyAssumption, Parts DEF FloppyType, FloppyAssumption
    <2> QED
      BY <1>1, <2>1
  <1>6. FloppyType'
    BY <1>1, <1>2, <1>3, <1>4, <1>5, Parts DEF FloppyType
  <1>7. \A e \in Drives : fd_dev(e) \in Drives
    BY DEF fd_dev, Drives
  <1>8. Noticed'
    BY <1>1, <1>2, <1>7, Parts DEF Noticed, fd_dev
  <1>9. Serials' /\ Asking' /\ Moving'
    BY <1>1, Parts DEF Serials, Asking, Moving
  <1>10. Watched'
    <2> SUFFICES ASSUME NEW e \in Drives, Known(e)', Active(e)', ~Right(e)'
                 PROVE  Suspect(e)'
      BY DEF Watched
    <2>1. Active(e) /\ (Known(e) \/ e = d) /\ disk'[fd_dev(e)] \notin {none, logged[e]}
      BY <1>1, <1>4 DEF Active, Known, Right, fd_dev
    <2>2. CASE fd_dev(e) = p
      <3>1. e = d
        BY <1>0, <1>1, <2>1, <2>2, Parts DEF Active, fd_dev, FloppyType
      <3>2. d = p
        BY <1>4, <3>1 DEF Known
      <3> QED
        BY <1>3, <3>1, <3>2 DEF Suspect
    <2>3. CASE fd_dev(e) # p
      <3>1. fd_dev(p) = p
        BY <1>0 DEF fd_dev
      <3>2. e # p /\ e # d
        BY <1>0, <2>3, <3>1
      <3>3. ~Right(e) /\ Known(e) /\ ~Checked(e)
        BY <1>1, <1>2, <1>7, <2>1, <2>3, <3>2 DEF Right, Checked
      <3>4. Suspect(e)
        BY <2>1, <3>3, Parts DEF Watched
      <3> QED
        BY <1>1, <1>3, <2>3, <3>2, <3>4 DEF Suspect
    <2> QED
      BY <2>2, <2>3
  <1> QED
    BY <1>6, <1>8, <1>9, <1>10 DEF FloppyInv

-----------------------------------------------------------------------------
(* The theorems.                                                           *)

LEMMA FloppyStart ==
  ASSUME FloppyAssumption, FloppyInit
  PROVE  FloppyInv
  <1>1. FloppyType
    <2>1. call \in [step : {"idle", "asked", "locked", "alert"}, drv : Drives,
                    at : {"bpb", "boot", "move"}, left : Int, again : BOOLEAN]
      BY DEF FloppyInit, idle, Drives
    <2>2. since \in [Drives -> 0..fd_mediach]
      BY DEF FloppyInit, FloppyAssumption
    <2> QED
      BY <2>1, <2>2 DEF FloppyInit, FloppyType, Drives, MEDIANOCHANGE
  <1>2. call.step = "idle"
    BY DEF FloppyInit, idle
  <1>3. \A d \in Drives : logged[d] = none /\ seen[fd_dev(d)] = {}
    BY DEF FloppyInit, fd_dev, Drives
  <1> QED
    BY <1>1, <1>2, <1>3
    DEF FloppyInv, Noticed, Serials, Asking, Watched, Moving, Known

LEMMA FloppyStep ==
  ASSUME FloppyAssumption, FloppyInv, [FloppyNext]_floppyvars
  PROVE  FloppyInv'
  <1>1. CASE Tick
    BY <1>1, TickStep
  <1>2. CASE Eject(0)
    BY <1>2, EjectStep DEF Drives
  <1>3. ASSUME NEW x \in Disks, Insert(0, x)
        PROVE  FloppyInv'
    BY <1>3, InsertStep DEF Drives
  <1>4. ASSUME NEW d \in Used,
               Mediach(d) \/ Getbpb(d) \/ (\E n \in 1..MaxMoves : Rwabs(d, n))
               \/ \E x \in Disks \ Protected : flopfmt(d, x)
        PROVE  FloppyInv'
    <2>1. d \in Drives
      BY DEF Used, Drives
    <2>2. CASE Mediach(d)
      BY <2>1, <2>2, MediachStep
    <2>3. CASE Getbpb(d)
      BY <2>1, <2>3, GetbpbStep
    <2>4. CASE \E n \in 1..MaxMoves : Rwabs(d, n)
      <3>1. PICK n \in Nat : Rwabs(d, n)
        BY <2>4, FloppyAssumption DEF FloppyAssumption
      <3> QED
        BY <2>1, <3>1, RwabsStep
    <2>5. CASE \E x \in Disks \ Protected : flopfmt(d, x)
      BY <2>1, <2>5, flopfmtStep
    <2> QED
      BY <1>4, <2>2, <2>3, <2>4, <2>5
  <1>5. CASE fdchange \/ flopfail \/ Compare \/ bhdv_getbpb \/ dorwabs \/ Retry \/ Cancel
    BY <1>5, fdchangeStep, flopfailStep, CompareStep, bhdv_getbpbStep, dorwabsStep, RetryStep,
       CancelStep
  <1>6. CASE UNCHANGED floppyvars
    <2>1. UNCHANGED <<nflops, disk, seen, since, poll, fd_wp, fd_latch, drivechange, curflop,
                      serial, logged, unsure, call>>
      BY <1>6 DEF floppyvars, user, media
    <2> QED
      BY <2>1 DEF FloppyInv, FloppyType, Noticed, Serials, Asking, Watched, Moving, Known, Right,
                  Active, Suspect, Checked, fd_dev
  <1> QED
    BY <1>1, <1>2, <1>3, <1>4, <1>5, <1>6 DEF FloppyNext

\* What is known of the disks: GEMDOS works with the disk whose serial number the
\* BIOS has read; one that was exchanged without notice is suspect, so that the
\* next call looks at it; and none is moved to or from until that is done
\* (blkdev.c).
THEOREM FloppyInvariant ==
  ASSUME FloppyAssumption
  PROVE  FloppySpec => []FloppyInv
  <1>1. FloppyInit => FloppyInv
    BY FloppyStart
  <1>2. FloppyInv /\ [FloppyNext]_floppyvars => FloppyInv'
    BY FloppyStep
  <1> QED
    BY <1>1, <1>2, PTL DEF FloppySpec

\* The BIOS finds out every change: sectors are moved to and from the disk GEMDOS
\* works with, and Mediach never says of another that it has not been changed -
\* with any disks, protected or not, one drive or two, and however long fd_mediach
\* is (bhdv_mediach and ckmediach, blkdev.c; _flopvbl, floppy.S).
THEOREM RightDiskAlways ==
  ASSUME FloppyAssumption
  PROVE  FloppySpec => []RightDisk
  <1>1. FloppyInv => RightDisk
    <2> SUFFICES ASSUME FloppyInv PROVE RightDisk
      OBVIOUS
    <2>1. call.step = "locked" /\ call.at = "move" /\ Known(call.drv) => Right(call.drv)
      BY Parts DEF Moving
    <2>2. ASSUME NEW d \in Used, call.step = "idle", Known(d), nflops = 1 => curflop = d,
                 bhdv_mediach(d) = MEDIANOCHANGE
          PROVE  Right(d)
      <3>1. d \in Drives
        BY DEF Used, Drives
      <3>2. since[d] \in 0..fd_mediach /\ fd_mediach \in Nat
        BY <3>1, FloppyAssumption, Parts DEF FloppyType, FloppyAssumption
      <3>3. ~Suspect(d)
        BY <2>2, <3>2
        DEF Suspect, bhdv_mediach, MEDIANOCHANGE, MEDIAMAYCHANGE, MEDIACHANGE
      <3> QED
        BY <2>2, <3>1, <3>3, Parts DEF Watched, Active, Checked
    <2> QED
      BY <2>1, <2>2 DEF RightDisk
  <1> QED
    BY <1>1, FloppyInvariant, PTL

-----------------------------------------------------------------------------
(* One call of the floppy driver, whose state is apart from all of this.   *)

Places == Tracks \cup {dirty}
DriveState == [head : Tracks, reg : Tracks, cur : Places,
               ok : BOOLEAN, faults : Nat]

DriverType ==
  /\ op \in {"read", "write", "verify"} /\ fd_track \in Tracks /\ count \in Nat \ {0}
  /\ head \in Tracks /\ reg \in Tracks /\ fd_curtrack \in Places
  /\ fd_sect \in Nat /\ fd_buffer \in Nat /\ fd_retry \in -1..2
  /\ step \in {"lock", "seek", "sector", "reseek", "retry", "ok", "fail", "protected"}
  /\ bad \in Seq(Nat) /\ faults \in Nat /\ astray \in BOOLEAN

\* the sectors the call has passed are moved or named
Room(i) == IF op = "verify" THEN 0 ELSE i
Named(s) == {s[i] : i \in 1..Len(s)}
Passed ==
  /\ moved = {<<i, Room(i)>> : i \in (0..fd_sect - 1) \ Named(bad)}
  /\ \A i \in 1..Len(bad) : bad[i] < fd_sect
  /\ op # "verify" => bad = <<>>
  /\ fd_buffer = Room(fd_sect)
  /\ step = "ok" => fd_sect = count

\* what must have gone wrong before a sector counts as failed once, and twice
Once == astray \/ faults > 0
Twice == faults > IF astray THEN 0 ELSE 1
\* the drive is told where the head is
Synced == fd_curtrack # dirty /\ head = fd_curtrack
On == head = fd_track
OnTrack == On /\ fd_curtrack = fd_track

\* Every retry has its reason: the first is for a head astray or a fault, and
\* after the head has been sent home the next is for a fault.
Reasons ==
  /\ step \in {"lock", "seek", "sector", "reseek", "retry"} => fd_retry \in 0..2
  /\ step = "lock" => fd_retry = 2 /\ faults = 0 /\ (fd_curtrack = dirty \/ astray \/ Synced)
  /\ step = "seek" =>
       /\ fd_retry = 2 => Once \/ Synced
       /\ fd_retry < 2 => Once
       /\ fd_retry = 0 => Twice \/ Synced
  /\ step = "sector" =>
       /\ fd_retry = 2 => Once \/ On
       /\ fd_retry < 2 => Once
       /\ fd_retry = 0 => Twice \/ On
  /\ step = "reseek" => Once /\ (fd_retry = 0 => Twice)
  /\ step = "retry" =>
       /\ Once
       /\ fd_retry = 1 => Twice \/ OnTrack
       /\ fd_retry = 0 => Twice

DriverInv == DriverType /\ Passed /\ Reasons

-----------------------------------------------------------------------------
(* The commands of the controller.                                         *)

\* s is left for t with no fault unless it is counted
Follows(s, t) == t \in DriveState /\ t.faults >= s.faults
\* nothing has gone wrong between them
Smooth(s, t) == t.faults = s.faults

\* a sector more is named
LEMMA NamedMore ==
  ASSUME NEW s, NEW t, NEW x, Len(s) \in Nat, Len(t) = Len(s) + 1,
         t[Len(s) + 1] = x, \A i \in 1..Len(s) : t[i] = s[i]
  PROVE  Named(t) = Named(s) \cup {x}
  <1>1. 1..Len(t) = (1..Len(s)) \cup {Len(s) + 1}
    OBVIOUS
  <1> QED
    BY <1>1 DEF Named

LEMMA TracksAre ==
  ASSUME DriverAssumption
  PROVE  /\ Tracks \subseteq Nat /\ 0 \in Tracks
         /\ Near \in Tracks /\ Far \in Tracks
         /\ Tracks \subseteq Places /\ dirty \in Places
  BY DEF DriverAssumption, Tracks, Places

LEMMA FailIs ==
  ASSUME NEW s \in DriveState
  PROVE  /\ Fail(s) \in DriveState /\ Fail(s).cur = s.cur
         /\ Fail(s).faults > s.faults /\ ~Fail(s).ok
  <1> DEFINE k == FALSE
  <1>1. k \in BOOLEAN /\ ~k
    OBVIOUS
  <1>2. Fail(s) = [s EXCEPT !.ok = k, !.faults = @ + 1]
    BY DEF Fail
  <1> HIDE DEF k
  <1>3. s.faults + 1 \in Nat /\ s.faults + 1 > s.faults
    BY DEF DriveState
  <1> QED
    BY <1>1, <1>2, <1>3 DEF DriveState

LEMMA ClipIs ==
  ASSUME DriverAssumption, NEW track \in Int
  PROVE  Clip(track) \in Tracks /\ (track \in Tracks => Clip(track) = track)
  BY DEF DriverAssumption, Clip, Tracks

LEMMA SeekIs ==
  ASSUME DriverAssumption, NEW s \in DriveState, NEW dest \in Tracks,
         NEW t \in Seek(s, dest)
  PROVE  /\ Follows(s, t) /\ t.cur = s.cur
         /\ Smooth(s, t) => t.ok = s.ok /\ t.reg = dest /\ (s.head = s.reg => t.head = dest)
  <1> DEFINE there == [s EXCEPT !.head = Clip(@ + dest - s.reg), !.reg = dest]
  <1>1. Clip(s.head + dest - s.reg) \in Tracks
        /\ (s.head = s.reg => Clip(s.head + dest - s.reg) = dest)
    <2>1. s.head \in Int /\ s.reg \in Int /\ dest \in Int
      BY DEF DriveState, Tracks
    <2>2. s.head = s.reg => s.head + dest - s.reg = dest
      BY <2>1
    <2> QED
      BY <2>1, <2>2, ClipIs
  <1>2. there \in DriveState /\ there.cur = s.cur /\ there.ok = s.ok /\ there.faults = s.faults
        /\ there.reg = dest /\ (s.head = s.reg => there.head = dest)
    BY <1>1 DEF DriveState
  <1>3. CASE t = there
    <2>1. there.faults >= s.faults
      BY <1>2 DEF DriveState
    <2> QED
      BY <1>2, <1>3, <2>1 DEF Follows, Smooth
  <1> DEFINE missed == [there EXCEPT !.head = Clip(@ + 1), !.faults = @ + 1]
  <1>4. CASE t = missed
    <2> HIDE DEF there
    <2>1. there.head + 1 \in Int
      BY <1>2, TracksAre DEF DriveState
    <2>2. Clip(there.head + 1) \in Tracks
      BY <2>1, ClipIs
    <2>5. there.faults + 1 \in Nat
      BY <1>2 DEF DriveState
    <2>3. missed \in DriveState /\ missed.cur = there.cur /\ missed.faults = there.faults + 1
      BY <1>2, <2>2, <2>5 DEF DriveState
    <2> HIDE DEF missed
    <2>4. missed.faults > s.faults
      BY <1>2, <2>3 DEF DriveState
    <2> QED
      BY <1>2, <1>4, <2>3, <2>4 DEF Follows, Smooth, DriveState
  <1>5. CASE t = Fail(s)
    BY <1>5, FailIs DEF Follows, Smooth, DriveState
  <1> QED
    BY <1>3, <1>4, <1>5 DEF Seek

LEMMA RestoreIs ==
  ASSUME DriverAssumption, NEW s \in DriveState, NEW t \in restore(s)
  PROVE  /\ Follows(s, t)
         /\ Smooth(s, t) => t.ok = s.ok /\ t.head = 0 /\ t.reg = 0 /\ t.cur = 0
         /\ ~t.ok /\ s.ok => t.faults > s.faults
  <1>2. CASE t = [s EXCEPT !.head = 0, !.reg = 0, !.cur = 0]
    <2>1. 0 \in Tracks /\ 0 \in Places
      BY TracksAre
    <2>2. t \in DriveState /\ t.faults = s.faults /\ t.ok = s.ok /\ t.head = 0 /\ t.reg = 0 /\ t.cur = 0
      BY <1>2, <2>1 DEF DriveState
    <2> QED
      BY <2>2 DEF DriveState, Follows, Smooth
  <1>3. CASE t = Fail(s)
    BY <1>3, FailIs DEF Follows, Smooth, DriveState
  <1> QED
    BY <1>2, <1>3 DEF restore

LEMMA Go2trackIs ==
  ASSUME DriverAssumption, NEW s \in DriveState, fd_track \in Tracks,
         NEW t \in go2track(s)
  PROVE  /\ Follows(s, t)
         /\ t.ok => t.head = fd_track
         /\ Smooth(s, t) /\ s.ok /\ s.head = s.reg => t.ok /\ t.cur = fd_track
  <1>1. PICK u \in Seek(s, fd_track) :
          t = [u EXCEPT !.cur = IF u.ok THEN fd_track ELSE @, !.ok = @ /\ u.head = fd_track]
    BY DEF go2track
  <1>2. /\ Follows(s, u) /\ u.cur = s.cur
        /\ Smooth(s, u) => u.ok = s.ok /\ u.reg = fd_track /\ (s.head = s.reg => u.head = fd_track)
    BY SeekIs
  <1> DEFINE c == IF u.ok THEN fd_track ELSE u.cur
  <1> DEFINE k == u.ok /\ u.head = fd_track
  <1>3. c \in Places /\ k \in BOOLEAN
    BY <1>2 DEF Follows, DriveState, Places
  <1>4. t = [u EXCEPT !.cur = c, !.ok = k]
    BY <1>1
  <1>5. (u.ok => c = fd_track) /\ (k <=> (u.ok /\ u.head = fd_track))
    OBVIOUS
  <1> HIDE DEF c, k
  <1>6. t \in DriveState /\ t.cur = c /\ t.ok = k /\ t.head = u.head /\ t.faults = u.faults
    BY <1>2, <1>3, <1>4 DEF Follows, DriveState
  <1> QED
    BY <1>2, <1>5, <1>6 DEF Follows, Smooth

\* reseek ends on the track, or in a fault
LEMMA ReseekIs ==
  ASSUME DriverAssumption, NEW s \in DriveState, fd_track \in Tracks, s.ok,
         NEW t \in reseek(s)
  PROVE  Follows(s, t) /\ (Smooth(s, t) => t.head = fd_track /\ t.cur = fd_track)
  <1>1. PICK h \in restore(s) :
          t \in IF h.ok THEN UNION {IF n.ok THEN go2track([n EXCEPT !.cur = Near]) ELSE {n} :
                                      n \in Seek([h EXCEPT !.cur = 0], Near)}
                ELSE {h}
    BY DEF reseek
  <1>2. /\ Follows(s, h) /\ (~h.ok => h.faults > s.faults)
        /\ Smooth(s, h) => h.ok /\ h.head = 0 /\ h.reg = 0
    BY RestoreIs
  <1>3. CASE ~h.ok
    BY <1>1, <1>2, <1>3 DEF Follows, Smooth, DriveState
  <1>4. CASE h.ok
    <2> DEFINE h0 == [h EXCEPT !.cur = 0]
    <2>1. h0 \in DriveState /\ h0.faults = h.faults /\ h0.ok = h.ok /\ h0.head = h.head /\ h0.reg = h.reg
      BY <1>2, TracksAre DEF Follows, DriveState
    <2>2. PICK n \in Seek(h0, Near) :
            t \in IF n.ok THEN go2track([n EXCEPT !.cur = Near]) ELSE {n}
      BY <1>1, <1>4
    <2> HIDE DEF h0
    <2>3. /\ Follows(h0, n)
          /\ Smooth(h0, n) => n.ok = h0.ok /\ n.reg = Near /\ (h0.head = h0.reg => n.head = Near)
      BY <2>1, TracksAre, SeekIs
    <2> DEFINE n0 == [n EXCEPT !.cur = Near]
    <2>4. n0 \in DriveState /\ n0.faults = n.faults /\ n0.ok = n.ok /\ n0.head = n.head /\ n0.reg = n.reg
      BY <2>3, TracksAre DEF Follows, DriveState
    <2> HIDE DEF n0
    <2>5. n.faults >= h.faults /\ h.faults >= s.faults /\ {n.faults, h.faults, s.faults} \subseteq Nat
      BY <2>1, <2>3, <1>2 DEF Follows, DriveState
    <2>6. n.faults = s.faults =>
            n.ok /\ n.reg = Near /\ n.head = Near
      <3> SUFFICES ASSUME n.faults = s.faults PROVE n.ok /\ n.reg = Near /\ n.head = Near
        OBVIOUS
      <3>1. h.faults = s.faults /\ n.faults = h.faults
        BY <2>5
      <3>2. h.head = 0 /\ h.reg = 0
        BY <3>1, <1>2 DEF Smooth
      <3>3. n.ok = h0.ok /\ n.reg = Near /\ (h0.head = h0.reg => n.head = Near)
        BY <3>1, <2>1, <2>3 DEF Smooth
      <3> QED
        BY <3>2, <3>3, <2>1, <1>4
    <2>7. CASE n.ok
      <3>1. t \in go2track(n0)
        BY <2>2, <2>7 DEF n0
      <3>2. /\ Follows(n0, t) /\ (t.ok => t.head = fd_track)
            /\ Smooth(n0, t) /\ n0.ok /\ n0.head = n0.reg => t.ok /\ t.cur = fd_track
        BY <2>4, <3>1, Go2trackIs
      <3>3. t \in DriveState /\ t.faults \in Nat /\ t.faults >= n.faults
        BY <3>2, <2>4 DEF Follows, DriveState
      <3>4. t.faults = s.faults => t.ok /\ t.cur = fd_track
        BY <2>4, <2>5, <2>6, <3>2, <3>3 DEF Smooth
      <3> QED
        BY <2>5, <3>2, <3>3, <3>4 DEF Follows, Smooth
    <2>8. CASE ~n.ok
      BY <2>2, <2>3, <2>5, <2>6, <2>8 DEF Follows, Smooth
    <2> QED
      BY <2>7, <2>8
  <1> QED
    BY <1>3, <1>4

\* a drive that is dirty is sent home, or there is a fault
LEMMA RecalibrateIs ==
  ASSUME DriverAssumption, NEW s \in DriveState, s.ok,
         NEW t \in recalibrate(s)
  PROVE  Follows(s, t) /\ (Smooth(s, t) => t.head = 0 /\ t.cur = 0)
  <1> DEFINE s0 == [s EXCEPT !.cur = 0]
  <1>1. s0 \in DriveState /\ s0.faults = s.faults /\ s0.ok = s.ok
    BY TracksAre DEF DriveState
  <1> DEFINE farther(h) == UNION {IF f.ok THEN restore(f) ELSE {f} :
                                    f \in Seek([h EXCEPT !.ok = TRUE], Far)}
             marked(w) == IF w.ok THEN w ELSE [w EXCEPT !.cur = dirty]
  <1>2. PICK h \in restore(s0) :
          t \in IF h.ok THEN {h} ELSE {marked(w) : w \in farther(h)}
    BY DEF recalibrate
  <1> HIDE DEF s0
  <1>3. /\ Follows(s0, h) /\ (~h.ok => h.faults > s0.faults)
        /\ Smooth(s0, h) => h.head = 0 /\ h.cur = 0
    BY <1>1, RestoreIs
  <1>4. CASE h.ok
    BY <1>1, <1>2, <1>3, <1>4 DEF Follows, Smooth, DriveState
  <1>5. CASE ~h.ok
    <2>1. PICK w \in farther(h) : t = marked(w)
      BY <1>2, <1>5
    <2>2. PICK f \in Seek([h EXCEPT !.ok = TRUE], Far) :
            w \in IF f.ok THEN restore(f) ELSE {f}
      BY <2>1
    <2> DEFINE k == TRUE
    <2> DEFINE g == [h EXCEPT !.ok = k]
    <2>3. k \in BOOLEAN
      OBVIOUS
    <2>4. f \in Seek(g, Far)
      BY <2>2
    <2> HIDE DEF k
    <2>5. g \in DriveState /\ g.faults = h.faults
      BY <1>3, <2>3 DEF Follows, DriveState
    <2> HIDE DEF g
    <2>6. Follows(g, f)
      BY <2>4, <2>5, TracksAre, SeekIs
    <2>7. Follows(f, w)
      <3>1. f \in DriveState
        BY <2>6 DEF Follows
      <3>2. CASE f.ok
        BY <2>2, <3>1, <3>2, RestoreIs
      <3>3. CASE ~f.ok
        BY <2>2, <3>1, <3>3 DEF Follows, DriveState
      <3> QED
        BY <3>2, <3>3
    <2>8. w.faults > s.faults /\ w \in DriveState
      BY <1>1, <1>3, <1>5, <2>5, <2>6, <2>7 DEF Follows, DriveState
    <2>9. t \in DriveState /\ t.faults = w.faults
      BY <2>1, <2>8, TracksAre DEF DriveState
    <2> QED
      BY <2>8, <2>9 DEF Follows, Smooth, DriveState
  <1> QED
    BY <1>4, <1>5

-----------------------------------------------------------------------------
(* The steps.                                                              *)

\* what may have come of commands
Came(good, wrong, s) ==
  /\ faults' = faults + s.faults /\ astray' = astray
  /\ head' = s.head /\ reg' = s.reg /\ fd_curtrack' = s.cur
  /\ step' = IF s.ok THEN good ELSE wrong

LEMMA ComesIs ==
  ASSUME NEW states, NEW good, NEW wrong, Comes(states, good, wrong)
  PROVE  \E s \in states : Came(good, wrong, s)
  BY DEF Comes, Came

LEMMA SelectIs ==
  ASSUME DriverAssumption, DriverType
  PROVE  /\ State \in DriveState /\ State.faults = 0 /\ State.ok
         /\ State.head = head /\ State.cur = fd_curtrack
         /\ select \in DriveState /\ select.faults = 0 /\ select.ok
         /\ select.head = head /\ (Synced => select.reg = head)
  <1> DEFINE r == IF fd_curtrack = dirty THEN 0 ELSE fd_curtrack
             k == TRUE
  <1>1. r \in Tracks
    BY TracksAre DEF DriverType, Places
  <1>2. Synced => r = head
    BY DEF Synced
  <1>3. k \in BOOLEAN /\ k
    OBVIOUS
  <1>4. State = [head |-> head, reg |-> reg, cur |-> fd_curtrack, ok |-> k, faults |-> 0]
    BY DEF State
  <1>5. select = [State EXCEPT !.reg = r]
    BY DEF select
  <1> HIDE DEF r, k
  <1>6. State \in DriveState /\ State.faults = 0 /\ State.ok
         /\ State.head = head /\ State.cur = fd_curtrack
    BY <1>3, <1>4 DEF DriveState, DriverType
  <1> QED
    BY <1>1, <1>2, <1>5, <1>6 DEF DriveState

\* what commands leave alone
LEMMA CameKeeps ==
  ASSUME DriverAssumption, DriverInv, NEW s \in DriveState, NEW good, NEW wrong,
         Came(good, wrong, s), {good, wrong} \subseteq {"seek", "sector", "reseek", "retry", "fail"},
         UNCHANGED <<request, fd_sect, fd_buffer, fd_retry, moved, bad>>
  PROVE  /\ DriverType' /\ Passed'
         /\ (Once => Once') /\ (s.faults > 0 => Once') /\ (Twice => Twice')
         /\ (Once /\ s.faults > 0 => Twice')
  <1>1. UNCHANGED <<op, fd_track, count, fd_sect, fd_buffer, fd_retry, moved, bad, astray>>
    BY DEF request, Came
  <1>2. step' \in {good, wrong} /\ step' # "ok"
    BY DEF Came
  <1>3. s.head \in Tracks /\ s.reg \in Tracks /\ s.cur \in Places /\ s.faults \in Nat
    BY DEF DriveState
  <1>4. faults' = faults + s.faults /\ faults \in Nat /\ faults' \in Nat
    BY <1>3 DEF Came, DriverInv, DriverType
  <1>5. DriverType'
    BY <1>1, <1>2, <1>3, <1>4 DEF DriverInv, DriverType, Came
  <1>6. Passed'
    BY <1>1, <1>2 DEF DriverInv, Passed, Room, Named
  <1>7. astray \in BOOLEAN
    BY DEF DriverInv, DriverType
  <1> QED
    BY <1>1, <1>3, <1>4, <1>5, <1>6, <1>7 DEF Once, Twice

LEMMA FloplockStep ==
  ASSUME DriverAssumption, DriverInv, floplock
  PROVE  DriverInv'
  <1> DEFINE states == IF fd_curtrack = dirty THEN recalibrate(select)
                       ELSE {State}
  <1>1. DriverType /\ step = "lock" /\ Comes(states, "seek", "seek")
        /\ UNCHANGED <<request, fd_sect, fd_buffer, fd_retry, moved, bad>>
    BY DEF floplock, DriverInv
  <1>2. PICK s \in states : Came("seek", "seek", s)
    <2> HIDE DEF states
    <2> QED
      BY <1>1, ComesIs
  <1>3. /\ s \in DriveState
        /\ s.faults > 0 \/ (s.head = s.cur /\ s.cur # dirty) \/ astray
    <2>1. CASE fd_curtrack = dirty
      <3>1. s \in recalibrate(select)
        BY <1>2, <2>1
      <3>2. Follows(select, s) /\ (Smooth(select, s) => s.head = 0 /\ s.cur = 0)
        BY <1>1, <3>1, SelectIs, RecalibrateIs
      <3>3. 0 # dirty
        BY DEF dirty
      <3>4. s \in DriveState /\ s.faults \in Nat
        BY <3>2 DEF Follows, DriveState
      <3>5. s.faults = 0 => s.head = 0 /\ s.cur = 0
        BY <1>1, <3>2, SelectIs DEF Smooth
      <3> QED
        BY <3>3, <3>4, <3>5
    <2>2. CASE fd_curtrack # dirty
      <3>1. s = State
        BY <1>2, <2>2
      <3>2. astray \/ Synced
        BY <1>1, <2>2 DEF DriverInv, Reasons
      <3> QED
        BY <1>1, <3>1, <3>2, <2>2, SelectIs DEF Synced
    <2> QED
      BY <2>1, <2>2
  <1> HIDE DEF states
  <1>4. /\ DriverType' /\ Passed'
        /\ (Once => Once') /\ (s.faults > 0 => Once') /\ (Twice => Twice')
        /\ (Once /\ s.faults > 0 => Twice')
    BY <1>1, <1>2, <1>3, CameKeeps
  <1>5. fd_retry' = 2 /\ step' = "seek" /\ astray' = astray /\ head' = s.head /\ fd_curtrack' = s.cur
    BY <1>1, <1>2 DEF Came, DriverInv, Reasons
  <1>6. Once' \/ Synced'
    BY <1>3, <1>4, <1>5 DEF Synced, Once
  <1> QED
    BY <1>4, <1>5, <1>6 DEF DriverInv, Reasons

LEMMA SeekStep ==
  ASSUME DriverAssumption, DriverInv, seek
  PROVE  DriverInv'
  <1> DEFINE wrong == CASE op = "read" -> Middle [] op = "write" -> "reseek" [] op = "verify" -> "fail"
  <1>1. DriverType /\ step = "seek" /\ Comes(go2track(select), "sector", wrong)
        /\ UNCHANGED <<request, fd_sect, fd_buffer, fd_retry, moved, bad>>
    BY DEF seek, DriverInv
  <1>2. wrong \in {"reseek", "retry", "fail"} /\ (wrong = "retry" => fd_retry # 1)
    BY <1>1 DEF Middle, DriverType
  <1> HIDE DEF wrong
  <1>3. PICK s \in go2track(select) : Came("sector", wrong, s)
    BY <1>1, ComesIs
  <1>4. /\ Follows(select, s)
        /\ s.ok => s.head = fd_track
        /\ Smooth(select, s) /\ select.ok /\ select.head = select.reg
             => s.ok /\ s.cur = fd_track
    BY <1>1, <1>3, SelectIs, Go2trackIs DEF DriverType
  <1>5. s \in DriveState /\ s.faults \in Nat
    BY <1>4 DEF Follows, DriveState
  <1>6. s.ok \/ s.faults > 0 \/ ~Synced
    BY <1>1, <1>4, <1>5, SelectIs DEF Smooth
  <1>7. /\ DriverType' /\ Passed'
        /\ (Once => Once') /\ (s.faults > 0 => Once') /\ (Twice => Twice')
        /\ (Once /\ s.faults > 0 => Twice')
    BY <1>1, <1>2, <1>3, <1>5, CameKeeps
  <1>8. /\ fd_retry' = fd_retry /\ fd_retry \in 0..2
        /\ (fd_retry = 2 => Once \/ Synced) /\ (fd_retry < 2 => Once) /\ (fd_retry = 0 => Twice \/ Synced)
    BY <1>1 DEF DriverInv, Reasons
  <1>9. fd_track' = fd_track /\ head' = s.head /\ step' = IF s.ok THEN "sector" ELSE wrong
    BY <1>1, <1>3 DEF Came, request
  <1>10. CASE s.ok
    <2>1. On' /\ step' = "sector"
      BY <1>4, <1>9, <1>10 DEF On
    <2>2. fd_retry' < 2 => Once'
      BY <1>7, <1>8
    <2> QED
      BY <1>7, <1>8, <2>1, <2>2 DEF DriverInv, Reasons
  <1>11. CASE ~s.ok
    <2>1. Once' /\ (fd_retry = 0 => Twice')
      <3>1. fd_retry = 2 \/ fd_retry < 2
        BY <1>8
      <3>2. s.faults > 0 => Once'
        BY <1>7
      <3>3. Once => Once'
        BY <1>7
      <3>4. ~Synced => Once
        BY <1>8, <3>1
      <3>5. ~Synced \/ s.faults > 0
        BY <1>6, <1>11
      <3>6. Once'
        BY <3>2, <3>3, <3>4, <3>5
      <3>7. ASSUME fd_retry = 0 PROVE Twice'
        <4>1. Once /\ (Twice \/ Synced)
          BY <1>8, <3>7
        <4> QED
          BY <1>7, <3>5, <4>1
      <3> QED
        BY <3>6, <3>7
    <2>2. step' = wrong
      BY <1>9, <1>11
    <2>3. (step' = "retry" => fd_retry' # 1) /\ step' \in {"reseek", "retry", "fail"}
      BY <1>2, <1>8, <2>2
    <2> QED
      BY <1>7, <1>8, <2>1, <2>3 DEF DriverInv, Reasons
  <1> QED
    BY <1>10, <1>11

LEMMA AgainStep ==
  ASSUME DriverAssumption, DriverInv, again
  PROVE  DriverInv'
  <1>1. DriverType /\ step = "reseek" /\ Comes(reseek(State), "retry", "retry")
        /\ UNCHANGED <<request, fd_sect, fd_buffer, fd_retry, moved, bad>>
    BY DEF again, DriverInv
  <1>2. PICK s \in reseek(State) : Came("retry", "retry", s)
    BY <1>1, ComesIs
  <1>3. Follows(State, s) /\ (Smooth(State, s) => s.head = fd_track /\ s.cur = fd_track)
    BY <1>1, <1>2, SelectIs, ReseekIs DEF DriverType
  <1>4. s \in DriveState /\ s.faults \in Nat
    BY <1>3 DEF Follows, DriveState
  <1>5. s.faults > 0 \/ (s.head = fd_track /\ s.cur = fd_track)
    BY <1>1, <1>3, <1>4, SelectIs DEF Smooth
  <1>6. /\ DriverType' /\ Passed'
        /\ (Once => Once') /\ (s.faults > 0 => Once') /\ (Twice => Twice')
        /\ (Once /\ s.faults > 0 => Twice')
    BY <1>1, <1>2, <1>4, CameKeeps
  <1>7. Once /\ (fd_retry = 0 => Twice) /\ fd_retry \in 0..2 /\ fd_retry' = fd_retry
    BY <1>1 DEF DriverInv, Reasons
  <1>8. step' = "retry" /\ head' = s.head /\ fd_curtrack' = s.cur /\ fd_track' = fd_track
    BY <1>1, <1>2 DEF Came, request
  <1>9. Twice' \/ OnTrack'
    BY <1>5, <1>6, <1>7, <1>8 DEF OnTrack, On
  <1> QED
    BY <1>6, <1>7, <1>8, <1>9 DEF DriverInv, Reasons

LEMMA NextSectorIs ==
  ASSUME DriverInv, NextSector, step \in {"sector", "retry"},
         UNCHANGED <<request, place>>
  PROVE  /\ fd_sect' = fd_sect + 1 /\ fd_sect' \in Nat /\ fd_retry' = 2
         /\ faults' = 0 /\ astray' \in BOOLEAN
         /\ step' \in {"sector", "ok"} /\ (step' = "ok" => fd_sect' = count')
         /\ UNCHANGED <<op, fd_track, count, head, reg, fd_curtrack>>
         /\ Reasons'
  <1>1. /\ fd_sect' = fd_sect + 1 /\ fd_sect' \in Nat /\ fd_retry' = 2
        /\ faults' = 0 /\ astray' \in BOOLEAN
        /\ step' \in {"sector", "ok"} /\ (step' = "ok" => fd_sect' = count')
        /\ UNCHANGED <<op, fd_track, count, head, reg, fd_curtrack>>
    BY DEF NextSector, request, place, DriverInv, DriverType
  <1>2. On' \/ Once'
    BY <1>1 DEF NextSector, On, Once
  <1> QED
    BY <1>1, <1>2 DEF Reasons

LEMMA SectorStep ==
  ASSUME DriverInv, sector
  PROVE  DriverInv'
  <1>1. /\ step = "sector" /\ UNCHANGED <<request, place, bad>> /\ NextSector
        /\ moved' = moved \cup {<<fd_sect, fd_buffer>>}
        /\ fd_buffer' = IF op = "verify" THEN fd_buffer ELSE fd_buffer + 1
    BY DEF sector
  <1>2. /\ fd_sect' = fd_sect + 1 /\ fd_sect' \in Nat /\ fd_retry' = 2
        /\ faults' = 0 /\ astray' \in BOOLEAN
        /\ step' \in {"sector", "ok"} /\ (step' = "ok" => fd_sect' = count')
        /\ UNCHANGED <<op, fd_track, count, head, reg, fd_curtrack>>
        /\ Reasons'
    BY <1>1, NextSectorIs
  <1>3. DriverType /\ Passed /\ fd_sect \in Nat
    BY DEF DriverInv, DriverType
  <1>4. fd_buffer' = Room(fd_sect + 1)
    BY <1>1, <1>3 DEF Passed, Room, DriverType
  <1>5. moved' = {<<i, Room(i)>> : i \in (0..fd_sect) \ Named(bad)}
    <2>1. fd_sect \notin Named(bad)
      BY <1>3 DEF Named, Passed
    <2>2. (0..fd_sect) \ Named(bad) = ((0..fd_sect - 1) \ Named(bad)) \cup {fd_sect}
      BY <1>3, <2>1
    <2>3. fd_buffer = Room(fd_sect) /\ moved = {<<i, Room(i)>> : i \in (0..fd_sect - 1) \ Named(bad)}
      BY <1>3 DEF Passed
    <2> QED
      BY <1>1, <2>2, <2>3
  <1>6. fd_sect + 1 - 1 = fd_sect /\ \A i \in 1..Len(bad) : bad[i] < fd_sect + 1
    <2>1. ASSUME NEW i \in 1..Len(bad) PROVE bad[i] < fd_sect + 1
      BY <1>3 DEF DriverType, Passed
    <2> QED
      BY <1>3, <2>1
  <1>7. Passed'
    BY <1>1, <1>2, <1>3, <1>4, <1>5, <1>6 DEF Passed, Room, Named
  <1>8. DriverType'
    BY <1>1, <1>2, <1>3 DEF DriverType
  <1> QED
    BY <1>2, <1>7, <1>8 DEF DriverInv

LEMMA SectorErrorStep ==
  ASSUME DriverAssumption, DriverInv, sector_error
  PROVE  DriverInv'
  <1>1. /\ step = "sector" /\ step' = IF fd_retry = 1 THEN "reseek" ELSE "retry"
        /\ UNCHANGED <<astray, op, fd_track, count, head, reg, fd_curtrack,
                       fd_sect, fd_buffer, fd_retry, moved, bad>>
    BY DEF sector_error, Middle, request, place
  <1>2. DriverType /\ Passed /\ faults \in Nat /\ astray \in BOOLEAN
    BY DEF DriverInv, DriverType
  <1>3. IF On THEN faults' = faults + 1 ELSE faults' = faults
    BY DEF sector_error, On
  <1>4. DriverType'
    BY <1>1, <1>2, <1>3 DEF DriverType
  <1>5. Passed'
    BY <1>1, <1>2 DEF Passed, Room, Named
  <1>6. /\ fd_retry \in 0..2 /\ (fd_retry = 2 => Once \/ On) /\ (fd_retry < 2 => Once)
        /\ (fd_retry = 0 => Twice \/ On)
    BY <1>1 DEF DriverInv, Reasons
  <1>7. Once'
    BY <1>1, <1>2, <1>3, <1>6 DEF Once
  <1>8. fd_retry = 0 => Twice'
    BY <1>1, <1>2, <1>3, <1>6 DEF Once, Twice
  <1>9. step' \in {"reseek", "retry"} /\ (step' = "retry" => fd_retry' # 1)
    BY <1>1
  <1> QED
    BY <1>1, <1>4, <1>5, <1>6, <1>7, <1>8, <1>9 DEF DriverInv, Reasons

LEMMA ProtectedStep ==
  ASSUME DriverInv, protected
  PROVE  DriverInv'
  <1>1. /\ step' = "protected"
        /\ UNCHANGED <<op, fd_track, count, head, reg, fd_curtrack,
                       fd_sect, fd_buffer, fd_retry, moved, bad, faults, astray>>
    BY DEF protected, request, place, trouble
  <1> QED
    BY <1>1 DEF DriverInv, DriverType, Passed, Room, Named, Reasons

LEMMA AttemptStep ==
  ASSUME DriverInv, retry
  PROVE  DriverInv'
  <1>1. /\ step = "retry" /\ fd_retry > 0 /\ fd_retry' = fd_retry - 1 /\ step' \in {"sector", "seek"}
        /\ UNCHANGED <<op, fd_track, count, head, reg, fd_curtrack,
                       fd_sect, fd_buffer, moved, bad, faults, astray>>
    BY DEF retry, request, place, trouble
  <1>2. fd_retry \in 1..2 /\ Once /\ (fd_retry = 1 => Twice \/ OnTrack)
    BY <1>1 DEF DriverInv, Reasons
  <1>3. DriverType' /\ Passed'
    BY <1>1, <1>2 DEF DriverInv, DriverType, Passed, Room, Named
  <1>4. Once' /\ fd_retry' \in 0..1 /\ (fd_retry' = 0 => Twice' \/ (On' /\ Synced'))
    <2>1. Once' /\ fd_retry' \in 0..1 /\ (Twice => Twice')
      BY <1>1, <1>2 DEF Once, Twice
    <2>2. OnTrack => On' /\ Synced'
      BY <1>1 DEF DriverInv, DriverType, OnTrack, On, Synced, Tracks, dirty
    <2> QED
      BY <1>1, <1>2, <2>1, <2>2
  <1> QED
    BY <1>1, <1>3, <1>4 DEF DriverInv, Reasons

LEMMA GiveUpStep ==
  ASSUME DriverInv, give_up
  PROVE  DriverInv'
  <1>1. /\ step = "retry" /\ fd_retry = 0
        /\ IF op = "verify" THEN NextSector /\ bad' = Append(bad, fd_sect)
           ELSE fd_retry' = -1 /\ step' = "fail" /\ UNCHANGED <<fd_sect, bad, faults, astray>>
        /\ UNCHANGED <<request, place, fd_buffer, moved>>
    BY DEF give_up, trouble
  <1>2. UNCHANGED <<op, fd_track, count, head, reg, fd_curtrack, fd_buffer, moved>>
    BY <1>1 DEF request, place
  <1>3. DriverType /\ Passed /\ fd_sect \in Nat /\ bad \in Seq(Nat)
    BY DEF DriverInv, DriverType
  <1>4. CASE op = "verify"
    <2>1. /\ fd_sect' = fd_sect + 1 /\ fd_sect' \in Nat /\ fd_retry' = 2
          /\ faults' = 0 /\ astray' \in BOOLEAN
          /\ step' \in {"sector", "ok"} /\ (step' = "ok" => fd_sect' = count')
          /\ Reasons'
      BY <1>1, <1>4, NextSectorIs
    <2>2. bad' = Append(bad, fd_sect)
      BY <1>1, <1>4
    <2>3. bad' \in Seq(Nat) /\ Len(bad') = Len(bad) + 1 /\ Len(bad) \in Nat
          /\ bad'[Len(bad) + 1] = fd_sect /\ \A i \in 1..Len(bad) : bad'[i] = bad[i] /\ bad[i] \in Nat
      BY <1>3, <2>2
    <2>4. Named(bad') = Named(bad) \cup {fd_sect}
      BY ONLY <2>3, NamedMore
    <2>5. (0..fd_sect) \ Named(bad') = (0..fd_sect - 1) \ Named(bad)
      BY <1>3, <2>4
    <2>6. \A i \in 1..Len(bad') : bad'[i] < fd_sect + 1
      <3>1. ASSUME NEW i \in 1..Len(bad') PROVE bad'[i] < fd_sect + 1
        <4>1. CASE i = Len(bad) + 1
          BY <1>3, <2>3, <4>1
        <4>2. CASE i # Len(bad) + 1
          <5>1. i \in 1..Len(bad)
            BY <2>3, <4>2
          <5>2. bad[i] < fd_sect /\ bad'[i] = bad[i] /\ bad[i] \in Nat
            BY <1>3, <2>3, <5>1 DEF Passed
          <5> QED
            BY <1>3, <5>2
        <4> QED
          BY <4>1, <4>2
      <3> QED
        BY <3>1
    <2>7. Passed'
      <3>1. moved' = {<<i, Room(i)>> : i \in (0..fd_sect) \ Named(bad')}
        BY <1>2, <1>3, <2>5 DEF Passed
      <3>2. fd_sect' - 1 = fd_sect /\ op' = op
        BY <1>2, <1>3, <2>1
      <3>3. fd_buffer' = 0
        BY <1>2, <1>3, <1>4 DEF Passed, Room
      <3> QED
        BY <1>4, <2>1, <2>6, <3>1, <3>2, <3>3 DEF Passed, Room, Named
    <2>8. DriverType'
      BY <1>2, <1>3, <2>1, <2>3 DEF DriverType
    <2> QED
      BY <2>1, <2>7, <2>8 DEF DriverInv
  <1>5. CASE op # "verify"
    <2>1. step' = "fail" /\ fd_retry' = -1 /\ UNCHANGED <<fd_sect, bad, faults, astray>>
      BY <1>1, <1>5
    <2>2. DriverType'
      BY <1>2, <1>3, <2>1 DEF DriverType
    <2> QED
      BY <1>2, <1>3, <2>1, <2>2 DEF DriverInv, Passed, Room, Named, Reasons
  <1> QED
    BY <1>4, <1>5

LEMMA NewCall ==
  ASSUME DriverAssumption, DriverInv, flopok1
  PROVE  DriverInv'
  <1>1. /\ step' = "lock" /\ op' \in {"read", "write", "verify"} /\ fd_track' \in Tracks
        /\ count' \in 1..MaxCount /\ astray' = (fd_curtrack # dirty /\ head' # fd_curtrack)
        /\ fd_sect' = 0 /\ fd_buffer' = 0 /\ fd_retry' = 2 /\ moved' = {} /\ bad' = <<>> /\ faults' = 0
        /\ fd_curtrack' = fd_curtrack
    BY DEF flopok1
  <1>2. PICK s \in Seek(State, select.reg) : head' = s.head /\ reg' = s.reg
    BY DEF flopok1
  <1>3. select.reg \in Tracks /\ DriverType
    BY SelectIs DEF DriverInv, DriveState
  <1>4. s \in DriveState
    BY <1>2, <1>3, SelectIs, SeekIs DEF Follows
  <1>5. head' \in Tracks /\ reg' \in Tracks
    BY <1>2, <1>4 DEF DriveState
  <1>6. DriverType'
    BY <1>1, <1>3, <1>5 DEF DriverType, DriverAssumption
  <1>7. Passed'
    BY <1>1 DEF Passed, Room, Named
  <1>8. fd_curtrack' = dirty \/ astray' \/ Synced'
    BY <1>1 DEF Synced
  <1> QED
    BY <1>1, <1>6, <1>7, <1>8 DEF DriverInv, Reasons

LEMMA DriverStart ==
  ASSUME DriverAssumption, DriverInit
  PROVE  DriverInv
  <1>1. DriverType
    BY DEF DriverInit, DriverType, DriverAssumption, Places
  <1>2. Passed
    BY DEF DriverInit, Passed, Room, Named
  <1>3. Reasons
    <2>1. astray = (fd_curtrack # dirty /\ head # fd_curtrack)
      BY DEF DriverInit
    <2>2. fd_curtrack = dirty \/ astray \/ Synced
      BY <2>1 DEF Synced
    <2>3. step = "lock" /\ fd_retry = 2 /\ faults = 0
      BY DEF DriverInit
    <2> QED
      BY <2>2, <2>3 DEF Reasons
  <1> QED
    BY <1>1, <1>2, <1>3 DEF DriverInv

\* The invariant of a call of the floppy driver: what it has passed is moved or
\* named, and every retry has its reason.
THEOREM DriverInvariant ==
  ASSUME DriverAssumption
  PROVE  DriverSpec => []DriverInv
  <1>1. DriverInit => DriverInv
    BY DriverStart
  <1>2. DriverInv /\ [DriverNext]_drivervars => DriverInv'
    <2> SUFFICES ASSUME DriverInv, [DriverNext]_drivervars PROVE DriverInv'
      OBVIOUS
    <2>1. CASE UNCHANGED drivervars
      BY <2>1 DEF drivervars, request, place, trouble, DriverInv, DriverType,
                  Passed, Room, Named, Reasons, Once, Twice, Synced, On, OnTrack
    <2> QED
      BY <2>1, FloplockStep, SeekStep, SectorStep, SectorErrorStep, ProtectedStep, AgainStep,
         AttemptStep, GiveUpStep, NewCall DEF DriverNext
  <1> QED
    BY <1>1, <1>2, PTL DEF DriverSpec

\* A call of the floppy driver moves every sector into the room for it, or fails,
\* or names those it could not read; neither a head that is lost nor a single
\* fault makes it give up a sector (floprd, flopwrt and flopver in floppy.S).
THEOREM DeliveredAlways ==
  ASSUME DriverAssumption
  PROVE  DriverSpec => []Delivered
  <1>1. DriverInv => Delivered
    <2> SUFFICES ASSUME DriverInv PROVE Delivered
      OBVIOUS
    <2>1. Passed /\ Reasons
      BY DEF DriverInv
    <2>2. step = "ok" =>
            moved = {<<i, IF op = "verify" THEN 0 ELSE i>> : i \in (0..count - 1) \ {bad[i] : i \in 1..Len(bad)}}
      BY <2>1 DEF Passed, Named, Room
    <2>3. step = "retry" /\ fd_retry = 0 => Twice
      BY <2>1 DEF Reasons
    <2> QED
      BY <2>2, <2>3 DEF Delivered, Twice
  <1> QED
    BY <1>1, DriverInvariant, PTL

-----------------------------------------------------------------------------
(* What a line takes on the screen.                                         *)

\* numbers that are reached one after the other
LEMMA Upward ==
  ASSUME NEW S \in SUBSET Nat, 0 \in S, NEW N \in Nat,
         \A n \in 0..N : n \in S /\ n < N => n + 1 \in S
  PROVE  0..N \subseteq S
  <1> DEFINE R == {ss \in Nat \X Nat : ss[1] < ss[2]}
             Rest == {n \in 0..N : n \notin S}
  <1>1. IsWellFoundedOn(R, Nat)
    <2>1. IsWellFoundedOn(OpToRel(<, Nat), Nat)
      BY NatLessThanWellFounded
    <2> QED
      BY <2>1 DEF OpToRel
  <1>2. SUFFICES ASSUME Rest # {} PROVE FALSE
    OBVIOUS
  <1>3. \E i \in Rest : \A j \in Rest : ~ (<<j, i>> \in R)
    <2>1. Rest \in SUBSET Nat
      OBVIOUS
    <2> HIDE DEF R, Rest
    <2> QED
      BY <1>1, <1>2, <2>1, WFMin, Zenon
  <1>4. PICK i \in Rest : \A j \in Rest : ~ (<<j, i>> \in R)
    BY <1>3
  <1>5. i \in 1..N /\ i - 1 \in 0..N /\ <<i - 1, i>> \in R
    BY <1>4
  <1>6. i - 1 \in S
    BY <1>4, <1>5
  <1>7. (i - 1) + 1 = i /\ i - 1 < N
    BY <1>5
  <1> QED
    BY <1>4, <1>5, <1>6, <1>7

\* what the assumption says of the constants, one by one
LEMMA Constants ==
  ASSUME ConsoleAssumption
  PROVE
  /\ KBBUFSZ \in Nat \ {0} /\ Tab \in Nat \ {0} /\ MaxLine \in Nat \ {0}
  /\ MaxStart \in Nat /\ MaxBegin \in Nat /\ Width \in Nat
  /\ Widest \in Nat /\ Widest >= 2 /\ Widest >= Tab
  /\ MaxBegin + MaxLine * Widest <= Width
  BY DEF ConsoleAssumption, Widest

\* quotient and remainder are the only ones there are
LEMMA Quotient ==
  ASSUME NEW c \in Int, NEW t \in Int, t > 0, NEW q \in Int, NEW r \in Int,
         c = t * q + r, 0 <= r, r < t
  PROVE  q = c \div t
  OBVIOUS

LEMMA Remainder ==
  ASSUME NEW c \in Int, NEW t \in Int, t > 0, NEW q \in Int, NEW r \in Int,
         c = t * q + r, 0 <= r, r < t
  PROVE  r = c % t
  OBVIOUS

LEMMA Divides ==
  ASSUME ConsoleAssumption, NEW c \in Nat
  PROVE  c = Tab * (c \div Tab) + (c % Tab) /\ (c % Tab) \in 0..Tab - 1 /\ c \div Tab \in Nat
  <1> DEFINE S == {n \in Nat : \E q \in Nat, r \in 0..Tab - 1 : n = Tab * q + r}
  <1>1. 0 \in S
    BY Constants
  <1>2. ASSUME NEW n \in S PROVE n + 1 \in S
    <2>1. PICK q \in Nat, r \in 0..Tab - 1 : n = Tab * q + r
      OBVIOUS
    <2>2. CASE r < Tab - 1
      <3>1. r + 1 \in 0..Tab - 1 /\ n + 1 = Tab * q + (r + 1)
        BY <2>1, <2>2, Constants
      <3> QED
        BY <3>1
    <2>3. CASE r = Tab - 1
      <3>1. q + 1 \in Nat /\ 0 \in 0..Tab - 1 /\ n + 1 = Tab * (q + 1) + 0
        BY <2>1, <2>3, Constants
      <3> QED
        BY <3>1
    <2> QED
      BY <2>1, <2>2, <2>3, Constants
  <1>3. c \in S
    <2>1. S \in SUBSET Nat /\ \A n \in 0..c : n \in S /\ n < c => n + 1 \in S
      BY <1>2
    <2> HIDE DEF S
    <2>2. 0..c \subseteq S
      BY <1>1, <2>1, Upward
    <2> QED
      BY <2>2
  <1>4. PICK q \in Nat, r \in 0..Tab - 1 : c = Tab * q + r
    BY <1>3
  <1>0. /\ c \in Int /\ Tab \in Int /\ Tab > 0 /\ q \in Int /\ r \in Int
        /\ 0 <= r /\ r < Tab
    BY Constants
  <1> HIDE DEF S
  <1>5. q = c \div Tab
    BY <1>0, <1>4, Quotient
  <1>6. r = (c % Tab)
    BY <1>0, <1>4, Remainder
  <1>7. c = Tab * (c \div Tab) + (c % Tab)
    BY <1>4, <1>5, <1>6, Zenon
  <1>8. (c % Tab) \in 0..Tab - 1 /\ c \div Tab \in Nat
    BY <1>4, <1>5, <1>6, Zenon
  <1> QED
    BY <1>7, <1>8

\* what is typed into a line, and what it is shown as
Typed == {"a", "tab", "^A"}
Glyphs == {" ", "a", "^", "A"}

\* n blanks are n signs
LEMMA SpacesAre ==
  ASSUME NEW n \in Nat
  PROVE  Spaces(n) \in Seq(Glyphs) /\ Len(Spaces(n)) = n /\ \A i \in 1..n : Spaces(n)[i] = " "
  BY DEF Spaces, Glyphs

\* a key takes as many columns as backsp counts
LEMMA CookdoutIs ==
  ASSUME ConsoleAssumption, NEW ch \in Typed, NEW c \in Nat
  PROVE  /\ cookdout(ch, c) \in Seq(Glyphs) /\ Len(cookdout(ch, c)) \in 1..Widest
         /\ After(ch, c) = c + Len(cookdout(ch, c))
  <1>1. CASE ch = "a"
    BY <1>1, Constants DEF cookdout, tabout, After, Glyphs
  <1>2. CASE ch = "^A"
    BY <1>2, Constants DEF cookdout, After, Glyphs
  <1>3. CASE ch = "tab"
    <2>1. cookdout(ch, c) = Spaces(Tab - (c % Tab)) /\ After(ch, c) = Tab * (c \div Tab + 1)
      BY <1>3 DEF cookdout, tabout, After
    <2>a. c = Tab * (c \div Tab) + (c % Tab) /\ (c % Tab) \in 0..Tab - 1 /\ c \div Tab \in Nat
      BY Divides
    <2>2. Tab - (c % Tab) \in 1..Widest /\ Tab - (c % Tab) \in Nat
      BY <2>a, Constants
    <2>3. Tab * (c \div Tab + 1) = c + (Tab - (c % Tab))
      BY <2>a, Constants
    <2> QED
      BY <2>1, <2>2, <2>3, SpacesAre
  <1> QED
    BY <1>1, <1>2, <1>3 DEF Typed

\* the line, key after key
Shows(f, keys, c) ==
  f = [n \in 0..Len(keys) |->
         IF n = 0 THEN <<>> ELSE f[n - 1] \o cookdout(keys[n], c + Len(f[n - 1]))]

\* the recursion of Cooked has a solution: it is built up to the length of the line
LEMMA ShowsExist ==
  ASSUME NEW keys \in Seq(Typed), NEW c \in Nat
  PROVE  \E f : Shows(f, keys, c)
  <1> DEFINE T(n, x) == x \o cookdout(keys[n], c + Len(x))
             Upto(n, f) == f = [k \in 0..n |-> IF k = 0 THEN <<>> ELSE T(k, f[k - 1])]
             S == {n \in Nat : \E f : Upto(n, f)}
  <1>1. 0 \in S
    <2> DEFINE g == [k \in 0..0 |-> <<>>]
    <2>1. g = [k \in 0..0 |-> IF k = 0 THEN <<>> ELSE T(k, g[k - 1])]
      OBVIOUS
    <2> QED
      BY <2>1
  <1>2. ASSUME NEW n \in S PROVE n + 1 \in S
    <2>1. PICK f : Upto(n, f)
      OBVIOUS
    <2> HIDE DEF T
    <2>2. \A k \in 0..n : f[k] = IF k = 0 THEN <<>> ELSE T(k, f[k - 1])
      BY <2>1
    <2> DEFINE g == [k \in 0..n + 1 |-> IF k <= n THEN f[k] ELSE T(n + 1, f[n])]
    <2>3. \A k \in 0..n + 1 : g[k] = IF k = 0 THEN <<>> ELSE T(k, g[k - 1])
      <3> TAKE k \in 0..n + 1
      <3>1. CASE k = 0
        <4>1. g[0] = f[0] /\ 0 \in 0..n
          OBVIOUS
        <4> HIDE DEF g
        <4> QED
          BY <2>2, <3>1, <4>1
      <3>2. CASE k > 0 /\ k <= n
        <4>1. g[k] = f[k] /\ g[k - 1] = f[k - 1] /\ k \in 0..n
          BY <3>2
        <4> HIDE DEF g
        <4> QED
          BY <2>2, <3>2, <4>1
      <3>3. CASE k = n + 1
        <4>1. g[k] = T(n + 1, f[n]) /\ g[k - 1] = f[n]
          BY <3>3
        <4> HIDE DEF g
        <4> QED
          BY <3>3, <4>1
      <3> QED
        BY <3>1, <3>2, <3>3
    <2>4. g = [k \in 0..n + 1 |-> IF k = 0 THEN <<>> ELSE T(k, g[k - 1])]
      <3>1. g = [k \in 0..n + 1 |-> g[k]]
        OBVIOUS
      <3> HIDE DEF g
      <3> QED
        BY <2>3, <3>1
    <2>5. Upto(n + 1, g) /\ n + 1 \in Nat
      BY <2>4
    <2> HIDE DEF g, Upto
    <2> QED
      BY <2>5
  <1>3. Len(keys) \in S
    <2>1. S \in SUBSET Nat /\ \A n \in 0..Len(keys) : n \in S /\ n < Len(keys) => n + 1 \in S
      BY <1>2
    <2> HIDE DEF S
    <2>2. 0..Len(keys) \subseteq S
      BY <1>1, <2>1, Upward
    <2> QED
      BY <2>2
  <1>4. PICK f : Upto(Len(keys), f)
    BY <1>3
  <1> QED
    BY <1>4 DEF Shows

\* and Cooked is the end of it
LEMMA ShownIs ==
  ASSUME NEW keys \in Seq(Typed), NEW c \in Nat
  PROVE  \E f : Shows(f, keys, c) /\ Cooked(keys, c) = f[Len(keys)]
  <1> DEFINE g == CHOOSE f : Shows(f, keys, c)
  <1>1. Shows(g, keys, c)
    BY ShowsExist
  <1>2. Cooked(keys, c) = g[Len(keys)]
    BY DEF Cooked, Shows
  <1> QED
    BY <1>1, <1>2

\* what it does with one key
LEMMA ShownSteps ==
  ASSUME NEW keys \in Seq(Typed), NEW c \in Nat, NEW f, Shows(f, keys, c)
  PROVE  /\ f[0] = <<>>
         /\ \A n \in 0..Len(keys) - 1 : f[n + 1] = f[n] \o cookdout(keys[n + 1], c + Len(f[n]))
  <1>1. \A n \in 0..Len(keys) : f[n] = IF n = 0 THEN <<>> ELSE f[n - 1] \o cookdout(keys[n], c + Len(f[n - 1]))
    BY DEF Shows
  <1>2. f[0] = <<>>
    BY <1>1
  <1>3. ASSUME NEW n \in 0..Len(keys) - 1
        PROVE  f[n + 1] = f[n] \o cookdout(keys[n + 1], c + Len(f[n]))
    <2>1. n + 1 \in 0..Len(keys) /\ n + 1 # 0 /\ (n + 1) - 1 = n
      OBVIOUS
    <2> QED
      BY <1>1, <2>1
  <1> QED
    BY <1>2, <1>3

\* sums and products that are left to a step of their own
LEMMA OneMore ==
  ASSUME NEW n \in Nat, NEW w \in Nat
  PROVE  (n + 1) * w = n * w + w /\ n * w \in Nat
  OBVIOUS

LEMMA SumFits ==
  ASSUME NEW p \in Nat, NEW w \in Nat, NEW a \in Nat, NEW b \in Nat, a <= p, b <= w
  PROVE  a + b <= p + w
  OBVIOUS

\* no key takes more than Widest columns
LEMMA ShownFits ==
  ASSUME ConsoleAssumption, NEW keys \in Seq(Typed), NEW c \in Nat, NEW f, Shows(f, keys, c)
  PROVE  \A n \in 0..Len(keys) : f[n] \in Seq(Glyphs) /\ Len(f[n]) <= n * Widest
  <1> DEFINE S == {n \in Nat : f[n] \in Seq(Glyphs) /\ Len(f[n]) <= n * Widest}
  <1>1. 0 \in S
    <2>1. f[0] = <<>>
      BY ShownSteps
    <2>2. <<>> \in Seq(Glyphs) /\ Len(<<>>) <= 0 * Widest
      BY Constants
    <2> QED
      BY <2>1, <2>2
  <1>2. ASSUME NEW n \in S, n < Len(keys) PROVE n + 1 \in S
    <2>0. n \in 0..Len(keys) - 1 /\ n \in Nat /\ keys[n + 1] \in Typed
      BY <1>2
    <2>1. f[n + 1] = f[n] \o cookdout(keys[n + 1], c + Len(f[n]))
      BY <2>0, ShownSteps
    <2> DEFINE u == cookdout(keys[n + 1], c + Len(f[n]))
    <2>2. u \in Seq(Glyphs) /\ Len(u) \in 1..Widest
      BY <2>0, CookdoutIs
    <2>3. f[n] \in Seq(Glyphs) /\ Len(f[n]) <= n * Widest /\ f[n + 1] = f[n] \o u
      BY <2>1
    <2>4. (n + 1) * Widest = n * Widest + Widest /\ n * Widest \in Nat
      BY <2>0, Constants, OneMore
    <2> HIDE DEF u
    <2>5. f[n + 1] \in Seq(Glyphs) /\ Len(f[n + 1]) = Len(f[n]) + Len(u)
      BY <2>2, <2>3
    <2>6. Len(f[n + 1]) <= (n + 1) * Widest
      <3>0. Widest \in Nat
        BY Constants
      <3>1. Len(f[n]) \in Nat /\ Len(u) \in Nat /\ Len(u) <= Widest /\ Widest \in Nat
        <4>1. Len(f[n]) \in Nat
          BY <2>3
        <4>2. Len(u) \in Nat /\ Len(u) <= Widest
          BY <2>2, <3>0
        <4> QED
          BY <3>0, <4>1, <4>2
      <3>2. Len(f[n]) <= n * Widest /\ n * Widest \in Nat
        BY <2>3, <2>4
      <3>3. Len(f[n]) + Len(u) <= n * Widest + Widest
        BY <3>1, <3>2, SumFits
      <3>4. (n + 1) * Widest = n * Widest + Widest
        BY <2>4
      <3>5. Len(f[n + 1]) = Len(f[n]) + Len(u)
        BY <2>5
      <3> QED
        BY <3>3, <3>4, <3>5, Zenon
    <2> QED
      BY <2>0, <2>5, <2>6
  <1>3. S \in SUBSET Nat /\ \A n \in 0..Len(keys) : n \in S /\ n < Len(keys) => n + 1 \in S
    BY <1>2
  <1>4. 0..Len(keys) \subseteq S
    <2>1. Len(keys) \in Nat
      OBVIOUS
    <2> HIDE DEF S
    <2> QED
      BY <1>1, <1>3, <2>1, Upward
  <1> QED
    BY <1>4

LEMMA CookedFits ==
  ASSUME ConsoleAssumption, NEW keys \in Seq(Typed), NEW c \in Nat
  PROVE  Cooked(keys, c) \in Seq(Glyphs) /\ Len(Cooked(keys, c)) <= Len(keys) * Widest
  <1>1. PICK f : Shows(f, keys, c) /\ Cooked(keys, c) = f[Len(keys)]
    BY ShownIs
  <1>2. Len(keys) \in 0..Len(keys)
    OBVIOUS
  <1> QED
    BY <1>1, <1>2, ShownFits

\* an empty line takes nothing
LEMMA CookedNothing ==
  ASSUME NEW c \in Nat
  PROVE  Cooked(<<>>, c) = <<>>
  <1>0. <<>> \in Seq(Typed) /\ Len(<<>>) = 0
    OBVIOUS
  <1>1. PICK f : Shows(f, <<>>, c) /\ Cooked(<<>>, c) = f[Len(<<>>)]
    BY <1>0, ShownIs
  <1> QED
    BY <1>0, <1>1, ShownSteps

\* a key more
LEMMA CookedMore ==
  ASSUME ConsoleAssumption, NEW keys \in Seq(Typed), NEW ch \in Typed, NEW c \in Nat
  PROVE  Cooked(Append(keys, ch), c)
           = Cooked(keys, c) \o cookdout(ch, c + Len(Cooked(keys, c)))
  <1> DEFINE more == Append(keys, ch)
             N == Len(keys)
  <1>0. /\ more \in Seq(Typed) /\ Len(more) = N + 1 /\ more[N + 1] = ch /\ N \in Nat
        /\ \A n \in 1..N : more[n] = keys[n]
    OBVIOUS
  <1>1. PICK g : Shows(g, keys, c) /\ Cooked(keys, c) = g[N]
    BY ShownIs
  <1> HIDE DEF more
  <1>2. PICK f : Shows(f, more, c) /\ Cooked(more, c) = f[N + 1]
    BY <1>0, ShownIs
  <1>3. /\ g[0] = <<>>
        /\ \A n \in 0..N - 1 : g[n + 1] = g[n] \o cookdout(keys[n + 1], c + Len(g[n]))
    BY <1>1, ShownSteps
  <1>4. /\ f[0] = <<>>
        /\ \A n \in 0..Len(more) - 1 : f[n + 1] = f[n] \o cookdout(more[n + 1], c + Len(f[n]))
    BY <1>0, <1>2, ShownSteps
  <1> HIDE DEF N
  <1> DEFINE S == {n \in Nat : f[n] = g[n]}
  <1>5. 0 \in S
    BY <1>3, <1>4
  <1>6. ASSUME NEW n \in S, n < N PROVE n + 1 \in S
    <2>1. n \in 0..N - 1 /\ n \in 0..Len(more) - 1 /\ n + 1 \in 1..N /\ n + 1 \in Nat
      BY <1>0, <1>6
    <2>2. f[n + 1] = f[n] \o cookdout(more[n + 1], c + Len(f[n]))
      BY <1>4, <2>1
    <2>3. g[n + 1] = g[n] \o cookdout(keys[n + 1], c + Len(g[n]))
      BY <1>3, <2>1
    <2>4. more[n + 1] = keys[n + 1] /\ f[n] = g[n]
      BY <1>0, <2>1
    <2>5. f[n + 1] = g[n + 1]
      BY <2>2, <2>3, <2>4
    <2> QED
      BY <2>1, <2>5
  <1>7. S \in SUBSET Nat /\ \A n \in 0..N : n \in S /\ n < N => n + 1 \in S
    BY <1>6
  <1>8. N \in S
    <2> HIDE DEF S
    <2>1. 0..N \subseteq S
      BY <1>0, <1>5, <1>7, Upward
    <2> QED
      BY <1>0, <2>1
  <1>9. f[N + 1] = f[N] \o cookdout(more[N + 1], c + Len(f[N]))
    <2>1. N \in 0..Len(more) - 1
      BY <1>0
    <2> QED
      BY <1>4, <2>1
  <1>10. Cooked(more, c) = Cooked(keys, c) \o cookdout(ch, c + Len(Cooked(keys, c)))
    BY <1>0, <1>1, <1>2, <1>8, <1>9
  <1> QED
    BY <1>10 DEF more

\* what a line takes is what backsp works out
LEMMA ColumnIs ==
  ASSUME ConsoleAssumption, NEW keys \in Seq(Typed), NEW c \in Nat
  PROVE  column(keys, c) = c + Len(Cooked(keys, c))
  <1> DEFINE N == Len(keys)
             Counts(h) == h = [n \in 0..N |-> IF n = 0 THEN c ELSE After(keys[n], h[n - 1])]
             k == CHOOSE h : Counts(h)
  <1>1. PICK f : Shows(f, keys, c) /\ Cooked(keys, c) = f[N]
    BY ShownIs
  <1>2. /\ f[0] = <<>>
        /\ \A n \in 0..N - 1 : f[n + 1] = f[n] \o cookdout(keys[n + 1], c + Len(f[n]))
    BY <1>1, ShownSteps
  <1>3. \A n \in 0..N : f[n] \in Seq(Glyphs)
    BY <1>1, ShownFits
  <1>4. ASSUME NEW n \in 0..N - 1
        PROVE  c + Len(f[n + 1]) = After(keys[n + 1], c + Len(f[n]))
    <2>1. keys[n + 1] \in Typed /\ n \in 0..N /\ n \in Nat
      OBVIOUS
    <2>2. f[n] \in Seq(Glyphs) /\ c + Len(f[n]) \in Nat /\ Len(f[n]) \in Nat
      BY <1>3, <2>1
    <2> DEFINE u == cookdout(keys[n + 1], c + Len(f[n]))
    <2>3. u \in Seq(Glyphs) /\ After(keys[n + 1], c + Len(f[n])) = (c + Len(f[n])) + Len(u)
      BY <2>1, <2>2, CookdoutIs
    <2>4. f[n + 1] = f[n] \o u
      BY <1>2
    <2> HIDE DEF u
    <2>5. Len(f[n + 1]) = Len(f[n]) + Len(u) /\ Len(u) \in Nat
      BY <2>2, <2>3, <2>4
    <2> QED
      BY <2>2, <2>3, <2>5
  <1> DEFINE g == [n \in 0..N |-> c + Len(f[n])]
  <1>5. Counts(g)
    <2>1. \A n \in 0..N : g[n] = IF n = 0 THEN c ELSE After(keys[n], g[n - 1])
      <3> TAKE n \in 0..N
      <3>1. CASE n = 0
        BY <1>2, <3>1
      <3>2. CASE n > 0
        <4>1. n - 1 \in 0..N - 1 /\ (n - 1) + 1 = n /\ n - 1 \in 0..N
          BY <3>2
        <4>2. c + Len(f[n]) = After(keys[n], c + Len(f[n - 1]))
          <5>1. c + Len(f[(n - 1) + 1]) = After(keys[(n - 1) + 1], c + Len(f[n - 1]))
            BY <1>4, <4>1
          <5> QED
            BY <4>1, <5>1
        <4>3. g[n] = c + Len(f[n]) /\ g[n - 1] = c + Len(f[n - 1])
          BY <4>1
        <4> HIDE DEF g
        <4> QED
          BY <3>2, <4>2, <4>3
      <3> QED
        BY <3>1, <3>2
    <2>2. g = [n \in 0..N |-> g[n]]
      OBVIOUS
    <2> HIDE DEF g
    <2> QED
      BY <2>1, <2>2
  <1> HIDE DEF Counts, g
  <1>6. Counts(k)
    BY <1>5
  <1> HIDE DEF k
  <1>7. k[0] = c /\ \A n \in 0..N - 1 : k[n + 1] = After(keys[n + 1], k[n])
    <2>1. \A n \in 0..N : k[n] = IF n = 0 THEN c ELSE After(keys[n], k[n - 1])
      BY <1>6 DEF Counts
    <2>2. ASSUME NEW n \in 0..N - 1 PROVE k[n + 1] = After(keys[n + 1], k[n])
      <3>1. n + 1 \in 0..N /\ n + 1 # 0 /\ (n + 1) - 1 = n
        OBVIOUS
      <3> QED
        BY <2>1, <3>1
    <2> QED
      BY <2>1, <2>2
  <1> DEFINE S == {n \in Nat : k[n] = c + Len(f[n])}
  <1>8. 0 \in S
    <2>1. k[0] = c /\ Len(f[0]) = 0
      BY <1>2, <1>7
    <2> QED
      BY <2>1
  <1>9. ASSUME NEW n \in S, n < N PROVE n + 1 \in S
    <2>1. n \in 0..N - 1
      BY <1>9
    <2> QED
      BY <1>4, <1>7, <2>1
  <1>10. S \in SUBSET Nat /\ \A n \in 0..N : n \in S /\ n < N => n + 1 \in S
    BY <1>9
  <1>11. N \in S
    <2> HIDE DEF S
    <2>1. N \in Nat /\ N \in 0..N
      OBVIOUS
    <2> HIDE DEF N
    <2>2. 0..N \subseteq S
      BY <1>8, <1>10, <2>1, Upward
    <2> QED
      BY <2>1, <2>2
  <1>12. column(keys, c) = k[N]
    BY DEF column, k, Counts
  <1> QED
    BY <1>1, <1>11, <1>12
-----------------------------------------------------------------------------
(* The invariant: what is still to be printed, and what that makes of the   *)
(* screen.                                                                  *)

Letters == Keys \cup Glyphs \cup {"#", "lf"}
Requests ==
  [op : {"none", "Cconrs", "Cconin", "Cnecin", "Cconws"}, maxlen : 0..MaxLine,
   stcol : 0..MaxBegin, buf : Seq(Typed), origin : 0..MaxBegin, last : BOOLEAN]

ConsoleTypeOK ==
  /\ doing \in Requests /\ out \in Seq(Letters)
  /\ glbcolumn \in Int /\ cursor \in Nat /\ row \in [Columns -> Letters]
  /\ doing.op = "none" => doing = NoCall /\ out = <<>>

\* what the call d shows
Text(d) == Cooked(d.buf, d.stcol)
\* the first k columns of the line are on the screen, where the call d began
ShownTo(d, r, k) == \A i \in 1..k : r[d.origin + i - 1] = Text(d)[i]
\* the cursor and glbcolumn are k columns behind where the line began
At(d, g, c, k) == c = d.origin + k /\ g = d.stcol + k
\* nothing is shown from column p on
Clear(r, p) == \A x \in Columns : x >= p => r[x] = " "

\* o is to be printed: the line from its column k on
Printing(d, o, g, r, c) ==
  \E k \in 0..Len(Text(d)) :
    /\ Len(o) = Len(Text(d)) - k /\ \A i \in 1..Len(o) : o[i] = Text(d)[k + i]
    /\ At(d, g, c, k) /\ ShownTo(d, r, k) /\ Clear(r, d.origin + k)

\* n columns behind the line are rubbed out, of the last j steps are done
Rubs(o, j) == \A i \in 1..Len(o) : o[i] = IF (i + j) % 3 = 2 THEN " " ELSE "bs"
Rubbed(d, o, g, r, c, n, j) ==
  LET L == Len(Text(d)) IN
  /\ (j > 0 => n > 0) /\ Len(o) = 3 * n - j
  /\ Rubs(o, j)
  /\ ShownTo(d, r, L)
  /\ At(d, g, c, IF j = 1 THEN L + n - 1 ELSE L + n)
  /\ Clear(r, IF j = 2 THEN d.origin + L + n - 1 ELSE d.origin + L + n)
Rubbing(d, o, g, r, c) == \E n \in 0..Len(o), j \in 0..2 : Rubbed(d, o, g, r, c, n, j)

\* the line begins anew, after p more signs
Leads(o, p, s, T) ==
  \A i \in 1..Len(o) :
    /\ i > p => o[i] = T[i - p]
    /\ i <= p /\ p - i < s => o[i] = " "
    /\ p - i = s => o[i] = "lf"
    /\ p - i = s + 1 => o[i] = "cr"
    /\ p - i = s + 2 => o[i] = "#"
Beginning(d, o, g, r, c, p) ==
  /\ Len(o) = Len(Text(d)) + p /\ Leads(o, p, d.stcol, Text(d))
  /\ p = d.stcol + 1 => c = 0 /\ g = 0
  /\ p <= d.stcol =>
       /\ d.origin = d.stcol /\ c = d.stcol - p /\ g = d.stcol - p
       /\ Clear(r, 0)
Restarting(d, o, g, r, c) ==
  \E p \in 1..(d.stcol + 3) : Beginning(d, o, g, r, c, p)

\* a call of Cconrs that is not over
Kept(d) ==
  /\ d \in Requests /\ d.op = "Cconrs" /\ Len(d.buf) <= d.maxlen
  /\ ~d.last => Len(d.buf) < d.maxlen
\* its line is being printed, rubbed out or begun anew, or the call returns
Editing(d, o, g, r, c) ==
  /\ Kept(d) /\ o \in Seq(Letters) /\ (o = <<>> => ~d.last)
  /\ \/ Printing(d, o, g, r, c) \/ Rubbing(d, o, g, r, c)
     \/ Restarting(d, o, g, r, c) \/ (d.last /\ o = <<"cr">>)

\* what is to be printed and what is on the screen make up the line
LineOK == doing.op = "Cconrs" => Editing(doing, out, glbcolumn, row, cursor)
ConsoleInv == ConsoleTypeOK /\ LineOK

-----------------------------------------------------------------------------
(* What is printed keeps it.                                                *)

\* printing ch takes glbcolumn, the row and the cursor from g, r, c to g2, r2, c2
Effect(ch, g, r, c, g2, r2, c2) ==
  /\ r2 = CASE ch = "lf" -> blank
            [] ch \in Keys \ {"a"} -> r
            [] OTHER -> [r EXCEPT ![c] = ch]
  /\ c2 = CASE ch = "cr" -> 0
            [] ch = "bs" -> IF c = 0 THEN 0 ELSE c - 1
            [] ch = "tab" -> Tab * (c \div Tab + 1)
            [] ch \in Silent -> c
            [] OTHER -> c + 1
  /\ g2 = CASE ch = "cr" -> 0
            [] ch = "bs" -> g - 1
            [] ch \in Silent \cup {"tab"} -> g
            [] OTHER -> g + 1

\* what printing one sign does to the screen, by the sign
LEMMA EffectType ==
  ASSUME ConsoleAssumption, NEW ch \in Letters, NEW g \in Int, NEW r \in [Columns -> Letters],
         NEW c \in Nat, NEW g2, NEW r2, NEW c2, Effect(ch, g, r, c, g2, r2, c2)
  PROVE  g2 \in Int /\ r2 \in [Columns -> Letters] /\ c2 \in Nat
  <1>1. g2 \in Int
    BY DEF Effect
  <1>2. r2 \in [Columns -> Letters]
    <2>1. blank \in [Columns -> Letters]
      BY DEF blank, Letters, Glyphs
    <2>2. [r EXCEPT ![c] = ch] \in [Columns -> Letters]
      OBVIOUS
    <2> QED
      BY <2>1, <2>2 DEF Effect
  <1>3. c2 \in Nat
    <2>0. c \div Tab \in Nat /\ Tab \in Nat
      BY Divides, Constants
    <2>1. Tab * (c \div Tab + 1) \in Nat
      <3>1. \A q \in Nat : Tab * (q + 1) \in Nat
        BY <2>0
      <3> QED
        BY <2>0, <3>1
    <2> QED
      BY <2>1 DEF Effect
  <1> QED
    BY <1>1, <1>2, <1>3

LEMMA EffectGlyph ==
  ASSUME NEW ch \in Glyphs \cup {"#"}, NEW g, NEW r, NEW c, NEW g2, NEW r2, NEW c2,
         Effect(ch, g, r, c, g2, r2, c2)
  PROVE  g2 = g + 1 /\ r2 = [r EXCEPT ![c] = ch] /\ c2 = c + 1
  <1>1. ch # "cr" /\ ch # "bs" /\ ch # "lf" /\ ch # "tab" /\ ch \notin Keys \ {"a"}
    BY DEF Glyphs, Keys, Silent
  <1> QED
    BY <1>1 DEF Effect, Silent

LEMMA EffectOther ==
  ASSUME NEW ch, NEW g \in Int, NEW r, NEW c \in Nat, NEW g2, NEW r2, NEW c2,
         Effect(ch, g, r, c, g2, r2, c2)
  PROVE  /\ ch = "bs" => g2 = g - 1 /\ r2 = r /\ c2 = IF c = 0 THEN 0 ELSE c - 1
         /\ ch = "cr" => g2 = 0 /\ r2 = r /\ c2 = 0
         /\ ch = "lf" => g2 = g /\ r2 = blank /\ c2 = c
  <1>1. ASSUME ch = "bs" PROVE g2 = g - 1 /\ r2 = r /\ c2 = IF c = 0 THEN 0 ELSE c - 1
    <2>1. ch # "cr" /\ ch # "lf" /\ ch \in Keys \ {"a"}
      BY <1>1 DEF Keys
    <2>2. r2 = r
      BY <1>1, <2>1 DEF Effect, Silent
    <2>3. c2 = IF c = 0 THEN 0 ELSE c - 1
      BY <1>1, <2>1 DEF Effect, Silent
    <2>4. g2 = g - 1
      BY <1>1, <2>1 DEF Effect, Silent
    <2> QED
      BY <2>2, <2>3, <2>4
  <1>2. ASSUME ch = "cr" PROVE g2 = 0 /\ r2 = r /\ c2 = 0
    <2>1. ch # "lf" /\ ch \in Keys \ {"a"}
      BY <1>2 DEF Keys
    <2>2. r2 = r
      BY <1>2, <2>1 DEF Effect, Silent
    <2>3. c2 = 0
      BY <1>2, <2>1 DEF Effect, Silent
    <2>4. g2 = 0
      BY <1>2, <2>1 DEF Effect, Silent
    <2> QED
      BY <2>2, <2>3, <2>4
  <1>3. ASSUME ch = "lf" PROVE g2 = g /\ r2 = blank /\ c2 = c
    BY <1>3 DEF Effect, Keys, Silent
  <1> QED
    BY <1>1, <1>2, <1>3

\* what is left to print
LEMMA TailIs ==
  ASSUME NEW o \in Seq(Letters), o # <<>>
  PROVE  /\ Tail(o) \in Seq(Letters) /\ Len(Tail(o)) = Len(o) - 1 /\ Len(o) \in Nat \ {0}
         /\ Head(o) = o[1] /\ o[1] \in Letters
         /\ \A i \in 1..Len(Tail(o)) : Tail(o)[i] = o[i + 1]
  OBVIOUS

\* the line fits on the screen
LEMMA TextFits ==
  ASSUME ConsoleAssumption, NEW d, Kept(d)
  PROVE  /\ Text(d) \in Seq(Glyphs) /\ Len(Text(d)) \in Nat /\ d.origin + Len(Text(d)) <= Width
         /\ d.origin \in Nat /\ d.stcol \in Nat /\ Width \in Nat
         /\ \A i \in 1..Len(Text(d)) : Text(d)[i] \in Glyphs
  <1>1. /\ d.buf \in Seq(Typed) /\ d.stcol \in Nat /\ d.origin \in 0..MaxBegin /\ d.origin \in Nat
        /\ Len(d.buf) \in Nat /\ Len(d.buf) <= MaxLine
    BY Constants DEF Kept, Requests
  <1>2. Text(d) \in Seq(Glyphs) /\ Len(Text(d)) <= Len(d.buf) * Widest
    BY <1>1, CookedFits DEF Text
  <1>3. Len(d.buf) * Widest <= MaxLine * Widest
    <2>1. ASSUME NEW n \in Nat, NEW m \in Nat, NEW w \in Nat, n <= m
          PROVE  n * w <= m * w /\ n * w \in Nat /\ m * w \in Nat
      BY <2>1
    <2> QED
      BY <1>1, <2>1, Constants
  <1>4. /\ d.origin + Len(Text(d)) <= Width /\ Width \in Nat /\ Len(Text(d)) \in Nat
        /\ \A i \in 1..Len(Text(d)) : Text(d)[i] \in Glyphs
    <2>1. Len(Text(d)) \in Nat /\ \A i \in 1..Len(Text(d)) : Text(d)[i] \in Glyphs
      BY <1>2
    <2>2. /\ MaxBegin \in Nat /\ Width \in Nat /\ Widest \in Nat /\ MaxLine \in Nat
          /\ MaxBegin + MaxLine * Widest <= Width
      BY Constants
    <2>3. Len(Text(d)) <= MaxLine * Widest /\ MaxLine * Widest \in Nat
      <3>1. Len(d.buf) * Widest \in Nat /\ MaxLine * Widest \in Nat
        BY <1>1, <2>2
      <3> HIDE DEF Text
      <3> QED
        BY <1>2, <1>3, <2>1, <3>1
    <2> QED
      BY <1>1, <2>1, <2>2, <2>3
  <1> QED
    BY <1>1, <1>2, <1>4

Screen(o, g, r, c) ==
  o \in Seq(Letters) /\ g \in Int /\ r \in [Columns -> Letters] /\ c \in Nat

\* a sign of the line is printed: one column more of it is shown
LEMMA PrintOne ==
  ASSUME ConsoleAssumption, NEW d, Kept(d), NEW o, NEW g, NEW r, NEW c, Screen(o, g, r, c),
         o # <<>>, Printing(d, o, g, r, c),
         NEW g2, NEW r2, NEW c2, Effect(Head(o), g, r, c, g2, r2, c2)
  PROVE  Printing(d, Tail(o), g2, r2, c2) /\ Head(o) # "lf"
  <1> DEFINE T == Text(d)
             L == Len(T)
  <1>s. o \in Seq(Letters)
    BY DEF Screen
  <1>r. r \in [Columns -> Letters]
    BY DEF Screen
  <1>t. c \in Nat /\ g \in Int
    BY DEF Screen
  <1>0. /\ L \in Nat /\ d.origin + L <= Width /\ d.origin \in Nat /\ d.stcol \in Nat /\ Width \in Nat
        /\ \A i \in 1..L : T[i] \in Glyphs
    BY TextFits
  <1>n. /\ L \in Nat /\ d.origin + L <= Width /\ d.origin \in Nat /\ d.stcol \in Nat /\ Width \in Nat
    BY <1>0
  <1>f. Columns = 0..(Width - 1)
    BY DEF Columns
  <1>1. PICK k \in 0..L :
          /\ Len(o) = L - k /\ \A i \in 1..Len(o) : o[i] = T[k + i]
          /\ At(d, g, c, k) /\ ShownTo(d, r, k) /\ Clear(r, d.origin + k)
    BY DEF Printing
  <1>2. /\ Len(Tail(o)) = Len(o) - 1 /\ Len(o) \in Nat \ {0} /\ Head(o) = o[1]
        /\ \A i \in 1..Len(Tail(o)) : Tail(o)[i] = o[i + 1]
    BY <1>s, TailIs
  <1> DEFINE ch == T[k + 1]
  <1>3. k + 1 \in 1..L /\ Head(o) = ch /\ ch \in Glyphs
    <2>1. k + 1 \in 1..L /\ 1 \in 1..Len(o)
      BY <1>0, <1>1, <1>2
    <2> HIDE DEF T, L
    <2> QED
      BY <1>0, <1>1, <1>2, <2>1
  <1> HIDE DEF T, L, ch
  <1>m. /\ k \in Nat /\ k + 1 <= L /\ Len(o) = L - k /\ Len(o) \in Nat
        /\ c = d.origin + k /\ g = d.stcol + k
    <2>1. k \in Nat /\ k + 1 <= L
      BY <1>3, <1>n
    <2> QED
      BY <1>1, <1>2, <2>1 DEF At
  <1>4. g2 = g + 1 /\ r2 = [r EXCEPT ![c] = ch] /\ c2 = c + 1
    BY <1>3, EffectGlyph
  <1>p. g2 = g + 1 /\ c2 = c + 1
    BY <1>4
  <1>5. At(d, g2, c2, k + 1)
    <2>1. g \in Int /\ c \in Nat
      BY <1>t
    <2>2. k \in Nat /\ c = d.origin + k /\ g = d.stcol + k /\ d.origin \in Nat /\ d.stcol \in Nat
      BY ONLY <1>n, <1>m
    <2> QED
      BY ONLY <1>p, <2>1, <2>2 DEF At
  <1>6. c = d.origin + k /\ c \in Columns
    BY <1>n, <1>m, <1>f
  <1>7. \A i \in 1..k + 1 : r2[d.origin + i - 1] = T[i]
    <2> TAKE i \in 1..k + 1
    <2>1. d.origin + i - 1 \in Columns
      <3>1. d.origin + i - 1 >= 0 /\ d.origin + i - 1 <= Width - 1 /\ d.origin + i - 1 \in Int
        BY <1>n, <1>m
      <3> QED
        BY <1>f, <1>n, <3>1
    <2>2. CASE i = k + 1
      BY <1>r, <1>4, <1>6, <2>1, <2>2 DEF ch
    <2>3. CASE i <= k
      <3>1. i \in 1..k /\ d.origin + i - 1 # c
        BY <1>n, <1>m, <2>3
      <3>2. r[d.origin + i - 1] = T[i]
        BY <1>1, <3>1 DEF ShownTo, T
      <3> QED
        BY <1>r, <1>4, <2>1, <3>1, <3>2
    <2> QED
      BY <2>2, <2>3
  <1>8. ShownTo(d, r2, k + 1)
    BY <1>7 DEF ShownTo, T
  <1>9. Clear(r2, d.origin + (k + 1))
    <2> SUFFICES ASSUME NEW x \in Columns, x >= d.origin + (k + 1) PROVE r2[x] = " "
      BY DEF Clear
    <2>1. x # c /\ x >= d.origin + k
      <3>1. x \in Int /\ x >= d.origin + (k + 1)
        BY <1>f, <1>n
      <3> QED
        BY ONLY <1>n, <1>m, <3>1
    <2> QED
      BY <1>r, <1>1, <1>4, <2>1 DEF Clear
  <1>10. Len(Tail(o)) = L - (k + 1) /\ \A i \in 1..Len(Tail(o)) : Tail(o)[i] = T[(k + 1) + i]
    <2>1. Len(Tail(o)) = L - (k + 1)
      BY <1>n, <1>m, <1>2
    <2> SUFFICES ASSUME NEW i \in 1..Len(Tail(o)) PROVE Tail(o)[i] = T[(k + 1) + i]
      BY <2>1
    <2>2. i + 1 \in 1..Len(o) /\ k + (i + 1) = (k + 1) + i
      BY <1>n, <1>m, <1>2
    <2>3. Tail(o)[i] = o[i + 1] /\ o[i + 1] = T[k + (i + 1)]
      BY <1>1, <1>2, <2>2
    <2> QED
      BY <2>2, <2>3
  <1>11. k + 1 \in 0..L
    BY <1>n, <1>m
  <1>12. Head(o) # "lf"
    BY <1>3 DEF Glyphs
  <1>13. Printing(d, Tail(o), g2, r2, c2)
    BY <1>5, <1>8, <1>9, <1>10, <1>11 DEF Printing, T, L
  <1> QED
    BY <1>12, <1>13

\* how far rubbing out has come
LEMMA RubbedIs ==
  ASSUME NEW d, NEW o, NEW g, NEW r, NEW c, NEW n, NEW j, NEW L, L = Len(Text(d)), NEW k, NEW p,
         j > 0 => n > 0, Len(o) = 3 * n - j,
         Rubs(o, j),
         ShownTo(d, r, L), At(d, g, c, k), Clear(r, p),
         k = (IF j = 1 THEN L + n - 1 ELSE L + n),
         p = (IF j = 2 THEN d.origin + L + n - 1 ELSE d.origin + L + n)
  PROVE  Rubbed(d, o, g, r, c, n, j)
  BY DEF Rubbed

\* what is rubbed out is behind the line
LEMMA RubOne ==
  ASSUME ConsoleAssumption, NEW d, Kept(d), NEW o, NEW g, NEW r, NEW c, Screen(o, g, r, c),
         o # <<>>, Rubbing(d, o, g, r, c),
         NEW g2, NEW r2, NEW c2, Effect(Head(o), g, r, c, g2, r2, c2)
  PROVE  Rubbing(d, Tail(o), g2, r2, c2) /\ Head(o) # "lf"
  <1> DEFINE T == Text(d)
             L == Len(T)
  <1>s. o \in Seq(Letters)
    BY DEF Screen
  <1>r. r \in [Columns -> Letters]
    BY DEF Screen
  <1>t. c \in Nat /\ g \in Int
    BY DEF Screen
  <1>0. /\ L \in Nat /\ d.origin + L <= Width /\ d.origin \in Nat /\ d.stcol \in Nat /\ Width \in Nat
    BY TextFits
  <1>1. PICK n \in 0..Len(o), j \in 0..2 : Rubbed(d, o, g, r, c, n, j)
    BY DEF Rubbing
  <1>2. /\ Len(Tail(o)) = Len(o) - 1 /\ Len(o) \in Nat \ {0} /\ Head(o) = o[1]
        /\ \A i \in 1..Len(Tail(o)) : Tail(o)[i] = o[i + 1]
    BY <1>s, TailIs
  <1>3. /\ (j > 0 => n > 0) /\ Len(o) = 3 * n - j
        /\ Rubs(o, j)
        /\ ShownTo(d, r, L)
        /\ At(d, g, c, IF j = 1 THEN L + n - 1 ELSE L + n)
        /\ Clear(r, IF j = 2 THEN d.origin + L + n - 1 ELSE d.origin + L + n)
    BY <1>1 DEF Rubbed
  <1> HIDE DEF L
  <1>a. /\ n \in Nat /\ j \in 0..2 /\ (j > 0 => n > 0) /\ Len(o) = 3 * n - j /\ Len(Tail(o)) = Len(o) - 1
        /\ Len(o) \in Nat \ {0}
    <2>1. n \in Nat /\ Len(o) \in Nat \ {0}
      BY <1>2
    <2> QED
      BY <1>2, <1>3, <2>1
  <1>b. \A i \in 1..Len(o) : o[i] = IF (i + j) % 3 = 2 THEN " " ELSE "bs"
    BY <1>3 DEF Rubs
  <1>c. ShownTo(d, r, L)
    BY <1>3
  <1>d. /\ c = d.origin + (IF j = 1 THEN L + n - 1 ELSE L + n)
        /\ g = d.stcol + (IF j = 1 THEN L + n - 1 ELSE L + n)
    BY <1>3 DEF At
  <1>e. Clear(r, IF j = 2 THEN d.origin + L + n - 1 ELSE d.origin + L + n)
    BY <1>3
  <1>f. Columns = 0..(Width - 1)
    BY DEF Columns
  <1>g. /\ Head(o) = "bs" => g2 = g - 1 /\ r2 = r /\ c2 = IF c = 0 THEN 0 ELSE c - 1
        /\ Head(o) = "cr" => g2 = 0 /\ r2 = r /\ c2 = 0
        /\ Head(o) = "lf" => g2 = g /\ r2 = blank /\ c2 = c
    BY <1>t, EffectOther
  <1>z. d.origin \in Nat /\ d.stcol \in Nat /\ L \in Nat
    BY <1>0
  <1>l. L = Len(Text(d))
    BY DEF L
  <1>4. n \in Nat /\ n > 0 /\ 1 \in 1..Len(o)
    BY <1>a
  <1>5. \A i \in 1..Len(Tail(o)) : Tail(o)[i] = IF ((i + 1) + j) % 3 = 2 THEN " " ELSE "bs"
    <2> TAKE i \in 1..Len(Tail(o))
    <2>1. i + 1 \in 1..Len(o) /\ Tail(o)[i] = o[i + 1]
      BY <1>2
    <2> QED
      BY <1>b, <2>1
  <1>6. Head(o) = IF (1 + j) % 3 = 2 THEN " " ELSE "bs"
    BY <1>2, <1>b, <1>4
  <1>7. CASE j = 0
    <2>1. Head(o) = "bs"
      <3>1. ~((1 + 0) % 3 = 2)
        OBVIOUS
      <3> QED
        BY <1>6, <1>7, <3>1
    <2>2. c = d.origin + (L + n) /\ g = d.stcol + (L + n) /\ Clear(r, d.origin + L + n)
      BY <1>d, <1>e, <1>7
    <2>3. g2 = g - 1 /\ r2 = r /\ c2 = c - 1
      <3>1. c # 0
        BY ONLY <1>z, <1>4, <1>t, <2>2
      <3> QED
        BY ONLY <1>g, <2>1, <3>1
    <2>4. At(d, g2, c2, L + n - 1)
      BY ONLY <1>z, <1>4, <1>t, <2>2, <2>3 DEF At
    <2>5. \A i \in 1..Len(Tail(o)) : Tail(o)[i] = IF (i + 1) % 3 = 2 THEN " " ELSE "bs"
      <3> TAKE i \in 1..Len(Tail(o))
      <3>1. (i + 1) + 0 = i + 1
        OBVIOUS
      <3> QED
        BY <1>5, <1>7, <3>1
    <2>6. Rubbed(d, Tail(o), g2, r2, c2, n, 1)
      <3>1. Len(Tail(o)) = 3 * n - 1
        BY <1>a, <1>7
      <3> QED
        <4>1. 1 > 0 => n > 0
          BY <1>4
        <4>2. ShownTo(d, r2, L) /\ Clear(r2, d.origin + L + n) /\ At(d, g2, c2, L + n - 1)
          BY <1>c, <2>2, <2>3, <2>4
        <4>3. Rubs(Tail(o), 1)
          BY <2>5 DEF Rubs
        <4>4. /\ L + n - 1 = (IF 1 = 1 THEN L + n - 1 ELSE L + n)
              /\ d.origin + L + n = (IF 1 = 2 THEN d.origin + L + n - 1 ELSE d.origin + L + n)
          OBVIOUS
        <4> QED
          BY ONLY <1>l, <4>3, <3>1, <4>1, <4>2, <4>4, RubbedIs
    <2>7. n \in 0..Len(Tail(o)) /\ 1 \in 0..2
      BY <1>a, <1>4, <1>7
    <2> QED
      BY <2>1, <2>6, <2>7 DEF Rubbing
  <1>8. CASE j = 1
    <2>1. Head(o) = " "
      <3>1. (1 + 1) % 3 = 2
        OBVIOUS
      <3> QED
        BY <1>6, <1>8, <3>1
    <2>2. c = d.origin + (L + n - 1) /\ g = d.stcol + (L + n - 1) /\ Clear(r, d.origin + L + n)
      BY <1>d, <1>e, <1>8
    <2>3. g2 = g + 1 /\ r2 = [r EXCEPT ![c] = " "] /\ c2 = c + 1
      <3>1. Head(o) \in Glyphs \cup {"#"}
        BY <2>1 DEF Glyphs
      <3>2. g2 = g + 1 /\ r2 = [r EXCEPT ![c] = Head(o)] /\ c2 = c + 1
        BY <3>1, EffectGlyph
      <3> QED
        BY <2>1, <3>2
    <2>4. At(d, g2, c2, L + n)
      <3>1. g2 = g + 1 /\ c2 = c + 1
        BY <2>3
      <3>2. c = d.origin + (L + n - 1) /\ g = d.stcol + (L + n - 1)
        BY <2>2
      <3> QED
        BY ONLY <1>z, <1>4, <1>t, <3>1, <3>2 DEF At
    <2>5. Clear(r2, d.origin + L + n - 1)
      <3> SUFFICES ASSUME NEW x \in Columns, x >= d.origin + L + n - 1 PROVE r2[x] = " "
        BY DEF Clear
      <3>1. CASE x = c
        BY <1>r, <2>3, <3>1
      <3>2. CASE x # c
        <4>1. x >= d.origin + L + n
          BY <1>0, <1>4, <2>2, <3>2, <1>f
        <4> QED
          BY <1>r, <2>2, <2>3, <3>2, <4>1 DEF Clear
      <3> QED
        BY <3>1, <3>2
    <2>6. ShownTo(d, r2, L)
      <3> SUFFICES ASSUME NEW i \in 1..L PROVE r2[d.origin + i - 1] = Text(d)[i]
        BY DEF ShownTo
      <3>1. d.origin + i - 1 \in Columns /\ d.origin + i - 1 # c
        <4>1. /\ d.origin + i - 1 >= 0 /\ d.origin + i - 1 <= Width - 1 /\ d.origin + i - 1 \in Int
              /\ d.origin + i - 1 # c
          <5>1. i \in 1..L /\ d.origin + L <= Width /\ Width \in Nat
            BY <1>0
          <5> QED
            BY ONLY <5>1, <1>z, <1>4, <2>2
        <4> QED
          BY ONLY <4>1, <1>f, <1>0
      <3>2. r[d.origin + i - 1] = Text(d)[i]
        BY <1>c DEF ShownTo
      <3> QED
        BY <1>r, <2>3, <3>1, <3>2
    <2>7. \A i \in 1..Len(Tail(o)) : Tail(o)[i] = IF (i + 2) % 3 = 2 THEN " " ELSE "bs"
      <3> TAKE i \in 1..Len(Tail(o))
      <3>1. (i + 1) + 1 = i + 2
        OBVIOUS
      <3> QED
        BY <1>5, <1>8, <3>1
    <2>8. Rubbed(d, Tail(o), g2, r2, c2, n, 2)
      <3>1. Len(Tail(o)) = 3 * n - 2
        BY <1>a, <1>8
      <3> QED
        <4>1. 2 > 0 => n > 0
          BY <1>4
        <4>2. Rubs(Tail(o), 2)
          BY <2>7 DEF Rubs
        <4>3. /\ L + n = (IF 2 = 1 THEN L + n - 1 ELSE L + n)
              /\ d.origin + L + n - 1 = (IF 2 = 2 THEN d.origin + L + n - 1 ELSE d.origin + L + n)
          OBVIOUS
        <4> QED
          BY ONLY <1>l, <2>4, <2>5, <2>6, <3>1, <4>1, <4>2, <4>3, RubbedIs
    <2>9. n \in 0..Len(Tail(o)) /\ 2 \in 0..2
      BY <1>a, <1>4, <1>8
    <2> QED
      BY <2>1, <2>8, <2>9 DEF Rubbing
  <1>9. CASE j = 2
    <2>1. Head(o) = "bs"
      <3>1. ~((1 + 2) % 3 = 2)
        OBVIOUS
      <3> QED
        BY <1>6, <1>9, <3>1
    <2>2. c = d.origin + (L + n) /\ g = d.stcol + (L + n) /\ Clear(r, d.origin + L + n - 1)
      BY <1>d, <1>e, <1>9
    <2>3. g2 = g - 1 /\ r2 = r /\ c2 = c - 1
      <3>1. c # 0
        BY ONLY <1>z, <1>4, <1>t, <2>2
      <3> QED
        BY ONLY <1>g, <2>1, <3>1
    <2>4. At(d, g2, c2, L + (n - 1)) /\ Clear(r2, d.origin + L + (n - 1))
      <3>1. d.origin + L + n - 1 = d.origin + L + (n - 1)
        BY <1>0, <1>4
      <3> QED
        <4>1. At(d, g2, c2, L + (n - 1))
          <5>1. c2 = (d.origin + (L + n)) - 1 /\ g2 = (d.stcol + (L + n)) - 1
            BY ONLY <2>2, <2>3, Zenon
          <5>2. /\ (d.origin + (L + n)) - 1 = d.origin + (L + (n - 1))
                /\ (d.stcol + (L + n)) - 1 = d.stcol + (L + (n - 1))
            BY ONLY <1>z, <1>4
          <5> QED
            BY ONLY <5>1, <5>2 DEF At
        <4> QED
          BY ONLY <4>1, <3>1, <2>2, <2>3
    <2>5. \A i \in 1..Len(Tail(o)) : Tail(o)[i] = IF (i + 0) % 3 = 2 THEN " " ELSE "bs"
      <3> TAKE i \in 1..Len(Tail(o))
      <3>1. ((i + 1) + 2) % 3 = (i + 0) % 3
        BY <1>2
      <3> QED
        BY <1>5, <1>9, <3>1
    <2>6. Rubbed(d, Tail(o), g2, r2, c2, n - 1, 0)
      <3>1. Len(Tail(o)) = 3 * (n - 1) - 0
        BY <1>a, <1>9
      <3> QED
        <4>1. ShownTo(d, r2, L)
          BY <1>c, <2>3
        <4>2. Rubs(Tail(o), 0)
          BY <2>5 DEF Rubs
        <4>3. /\ L + (n - 1) = (IF 0 = 1 THEN L + (n - 1) - 1 ELSE L + (n - 1))
              /\ d.origin + L + (n - 1) = (IF 0 = 2 THEN d.origin + L + (n - 1) - 1 ELSE d.origin + L + (n - 1))
              /\ 0 > 0 => n - 1 > 0
          OBVIOUS
        <4> QED
          BY ONLY <1>l, <2>4, <3>1, <4>1, <4>2, <4>3, RubbedIs
    <2>7. n - 1 \in 0..Len(Tail(o)) /\ 0 \in 0..2
      BY <1>a, <1>4, <1>9
    <2> QED
      BY <2>1, <2>6, <2>7 DEF Rubbing
  <1>10. Head(o) # "lf"
    BY <1>6
  <1>11. Rubbing(d, Tail(o), g2, r2, c2)
    BY <1>a, <1>7, <1>8, <1>9
  <1> QED
    BY <1>10, <1>11

\* a sign before the line that begins anew is printed
LEMMA BeginOne ==
  ASSUME ConsoleAssumption, NEW d, Kept(d), NEW o, NEW g, NEW r, NEW c, Screen(o, g, r, c),
         Restarting(d, o, g, r, c),
         NEW g2, NEW r2, NEW c2, Effect(Head(o), g, r, c, g2, r2, c2),
         NEW d2, d2 = IF Head(o) = "lf" THEN [d EXCEPT !.origin = d.stcol] ELSE d
  PROVE  /\ Kept(d2) /\ d2.last = d.last
         /\ Restarting(d2, Tail(o), g2, r2, c2) \/ Printing(d2, Tail(o), g2, r2, c2)
  <1> DEFINE T == Text(d)
             L == Len(T)
             s == d.stcol
  <1>s. o \in Seq(Letters)
    BY DEF Screen
  <1>r. r \in [Columns -> Letters]
    BY DEF Screen
  <1>t. c \in Nat /\ g \in Int
    BY DEF Screen
  <1>0. /\ L \in Nat /\ d.origin + L <= Width /\ d.origin \in Nat /\ s \in Nat /\ Width \in Nat
        /\ T \in Seq(Glyphs)
    BY TextFits
  <1>1. PICK p \in 1..(s + 3) : Beginning(d, o, g, r, c, p)
    BY DEF Restarting
  <1>2. /\ Len(o) = L + p /\ Leads(o, p, s, T)
        /\ p = s + 1 => c = 0 /\ g = 0
        /\ p <= s => d.origin = s /\ c = s - p /\ g = s - p /\ Clear(r, 0)
    BY <1>1 DEF Beginning
  <1>3. /\ o # <<>> /\ p \in Nat /\ p > 0 /\ p <= s + 3 /\ 1 \in 1..Len(o)
    BY <1>0, <1>2
  <1>4. /\ Len(Tail(o)) = Len(o) - 1 /\ Len(o) \in Nat \ {0} /\ Head(o) = o[1]
        /\ \A i \in 1..Len(Tail(o)) : Tail(o)[i] = o[i + 1]
    BY <1>3, <1>s, TailIs
  <1>5. /\ d2.buf = d.buf /\ d2.stcol = s /\ d2.last = d.last /\ Kept(d2)
        /\ d2.origin = IF Head(o) = "lf" THEN s ELSE d.origin
    BY DEF Kept, Requests
  <1>6. Text(d2) = T
    BY <1>5 DEF Text
  <1> HIDE DEF T, L, s
  <1>n. /\ L \in Nat /\ s \in Nat /\ p \in Nat /\ p > 0 /\ p <= s + 3 /\ Len(o) = L + p
        /\ Len(Tail(o)) = Len(o) - 1
    BY <1>0, <1>2, <1>3, <1>4
  <1>7. /\ p <= s => Head(o) = " "
        /\ p = s + 1 => Head(o) = "lf"
        /\ p = s + 2 => Head(o) = "cr"
        /\ p = s + 3 => Head(o) = "#"
    <2>1. /\ 1 <= p /\ p - 1 < s => o[1] = " "
          /\ p - 1 = s => o[1] = "lf"
          /\ p - 1 = s + 1 => o[1] = "cr"
          /\ p - 1 = s + 2 => o[1] = "#"
      <3>1. /\ 1 > p => o[1] = T[1 - p]
            /\ 1 <= p /\ p - 1 < s => o[1] = " "
            /\ p - 1 = s => o[1] = "lf"
            /\ p - 1 = s + 1 => o[1] = "cr"
            /\ p - 1 = s + 2 => o[1] = "#"
        BY <1>2, <1>3 DEF Leads
      <3> QED
        BY <3>1
    <2> QED
      <3>1. /\ p <= s => 1 <= p /\ p - 1 < s
            /\ p = s + 1 => p - 1 = s
            /\ p = s + 2 => p - 1 = s + 1
            /\ p = s + 3 => p - 1 = s + 2
        BY <1>n
      <3> QED
        BY <1>4, <2>1, <3>1
  <1>8. Leads(Tail(o), p - 1, s, T) /\ Len(Tail(o)) = L + (p - 1)
    <2>1. Len(Tail(o)) = L + (p - 1)
      BY <1>n
    <2> SUFFICES ASSUME NEW i \in 1..Len(Tail(o))
                 PROVE  /\ i > p - 1 => Tail(o)[i] = T[i - (p - 1)]
                        /\ i <= p - 1 /\ (p - 1) - i < s => Tail(o)[i] = " "
                        /\ (p - 1) - i = s => Tail(o)[i] = "lf"
                        /\ (p - 1) - i = s + 1 => Tail(o)[i] = "cr"
                        /\ (p - 1) - i = s + 2 => Tail(o)[i] = "#"
      BY <2>1 DEF Leads
    <2>2. /\ i \in Nat /\ i + 1 \in 1..Len(o) /\ Tail(o)[i] = o[i + 1]
          /\ p - (i + 1) = (p - 1) - i /\ (i + 1) - p = i - (p - 1)
      <3>1. i \in Nat /\ i + 1 \in 1..Len(o) /\ p - (i + 1) = (p - 1) - i /\ (i + 1) - p = i - (p - 1)
        <4>1. i \in 1..Len(Tail(o))
          OBVIOUS
        <4> QED
          BY ONLY <4>1, <1>n
      <3> QED
        BY <1>4, <3>1
    <2>3. /\ i + 1 > p => o[i + 1] = T[(i + 1) - p]
          /\ i + 1 <= p /\ p - (i + 1) < s => o[i + 1] = " "
          /\ p - (i + 1) = s => o[i + 1] = "lf"
          /\ p - (i + 1) = s + 1 => o[i + 1] = "cr"
          /\ p - (i + 1) = s + 2 => o[i + 1] = "#"
      BY <1>2, <2>2 DEF Leads
    <2> QED
      <3>1. /\ i > p - 1 => i + 1 > p
            /\ i <= p - 1 => i + 1 <= p
        BY ONLY <1>n, <2>2
      <3> QED
        BY <2>2, <2>3, <3>1
  <1>g. /\ Head(o) = "bs" => g2 = g - 1 /\ r2 = r /\ c2 = IF c = 0 THEN 0 ELSE c - 1
        /\ Head(o) = "cr" => g2 = 0 /\ r2 = r /\ c2 = 0
        /\ Head(o) = "lf" => g2 = g /\ r2 = blank /\ c2 = c
    BY <1>t, EffectOther
  <1>9. CASE p = s + 3
    <2>1. p - 1 \in 1..(s + 3) /\ p - 1 = s + 2
      BY <1>n, <1>9
    <2>2. Beginning(d2, Tail(o), g2, r2, c2, p - 1)
      <3>1. p - 1 # s + 1 /\ ~(p - 1 <= s)
        BY <1>n, <2>1
      <3>2. Len(Tail(o)) = Len(T) + (p - 1) /\ Leads(Tail(o), p - 1, s, T)
        BY <1>8 DEF L
      <3> QED
        BY <1>5, <1>6, <3>1, <3>2 DEF Beginning
    <2> QED
      BY <1>5, <2>1, <2>2 DEF Restarting
  <1>10. CASE p = s + 2
    <2>1. p - 1 \in 1..(s + 3) /\ p - 1 = s + 1
      BY <1>n, <1>10
    <2>2. g2 = 0 /\ c2 = 0
      BY <1>7, <1>10, <1>g
    <2>3. Beginning(d2, Tail(o), g2, r2, c2, p - 1)
      <3>1. ~(p - 1 <= s)
        BY <1>n, <2>1
      <3>2. Len(Tail(o)) = Len(T) + (p - 1) /\ Leads(Tail(o), p - 1, s, T)
        BY <1>8 DEF L
      <3> QED
        BY <1>5, <1>6, <2>2, <3>1, <3>2 DEF Beginning
    <2> QED
      BY <1>5, <2>1, <2>3 DEF Restarting
  <1>11. CASE p <= s + 1
    <2>1. p - 1 \in Nat /\ p - 1 <= s
      BY <1>n, <1>11
    <2>2. d2.origin = s /\ c2 = s - (p - 1) /\ g2 = s - (p - 1) /\ Clear(r2, 0)
      <3>1. CASE p = s + 1
        <4>1. g2 = g /\ r2 = blank /\ c2 = c
          BY <1>7, <3>1, <1>g
        <4>2. Clear(r2, 0)
          BY <4>1 DEF Clear, blank
        <4>3. d2.origin = s
          BY <1>5, <1>7, <3>1
        <4> QED
          <5>1. c = 0 /\ g = 0
            BY <1>2, <3>1
          <5>2. s - (p - 1) = 0
            BY <1>n, <3>1
          <5> QED
            BY <4>1, <4>2, <4>3, <5>1, <5>2
      <3>2. CASE p <= s
        <4>1. Head(o) = " " /\ c = s - p /\ g = s - p /\ Clear(r, 0) /\ d.origin = s
          BY <1>2, <1>7, <3>2
        <4>2. g2 = g + 1 /\ r2 = [r EXCEPT ![c] = " "] /\ c2 = c + 1
          <5>1. Head(o) \in Glyphs \cup {"#"}
            BY <4>1 DEF Glyphs
          <5>2. g2 = g + 1 /\ r2 = [r EXCEPT ![c] = Head(o)] /\ c2 = c + 1
            BY <5>1, EffectGlyph
          <5> QED
            BY <4>1, <5>2
        <4>3. Clear(r2, 0)
          BY <1>r, <4>1, <4>2 DEF Clear
        <4>4. d2.origin = s
          BY <1>5, <4>1
        <4> QED
          <5>1. (s - p) + 1 = s - (p - 1)
            BY <1>n
          <5> QED
            BY <4>1, <4>2, <4>3, <4>4, <5>1
      <3> QED
        BY <1>n, <1>11, <3>1, <3>2
    <2>3. CASE p > 1
      <3>1. p - 1 \in 1..(s + 3) /\ p - 1 # s + 1
        BY <1>n, <2>1, <2>3
      <3>2. Beginning(d2, Tail(o), g2, r2, c2, p - 1)
        <4>1. Len(Tail(o)) = Len(T) + (p - 1) /\ Leads(Tail(o), p - 1, s, T)
          BY <1>8 DEF L
        <4> QED
          BY <1>5, <1>6, <2>2, <3>1, <4>1 DEF Beginning
      <3> QED
        BY <1>5, <3>1, <3>2 DEF Restarting
    <2>4. CASE p = 1
      <3>1. p - 1 = 0 /\ s - (p - 1) = s
        BY <1>0, <2>4
      <3>2. Len(Tail(o)) = L - 0 /\ \A i \in 1..Len(Tail(o)) : Tail(o)[i] = T[0 + i]
        <4>1. Len(Tail(o)) = L - 0
          BY <1>0, <1>8, <3>1
        <4>2. ASSUME NEW i \in 1..Len(Tail(o)) PROVE Tail(o)[i] = T[0 + i]
          <5>1. i > 0 /\ i - 0 = i /\ 0 + i = i
            OBVIOUS
          <5>2. Leads(Tail(o), 0, s, T)
            BY <1>8, <3>1
          <5>3. i > 0 => Tail(o)[i] = T[i - 0]
            BY <5>2 DEF Leads
          <5> QED
            BY <5>1, <5>3
        <4> QED
          BY <4>1, <4>2
      <3>3. At(d2, g2, c2, 0)
        BY <1>0, <1>5, <2>2, <3>1 DEF At
      <3>4. ShownTo(d2, r2, 0)
        BY DEF ShownTo
      <3>5. Clear(r2, d2.origin + 0)
        <4>1. \A x \in Columns : x >= 0
          BY <1>0 DEF Columns
        <4> QED
          BY <2>2, <4>1 DEF Clear
      <3>6. Printing(d2, Tail(o), g2, r2, c2)
        <4>1. 0 \in 0..Len(T) /\ Len(Tail(o)) = Len(T) - 0
          BY <1>0, <3>2 DEF L
        <4> QED
          BY <1>6, <3>2, <3>3, <3>4, <3>5, <4>1 DEF Printing
      <3> QED
        BY <1>5, <3>6
    <2> QED
      BY <1>n, <2>3, <2>4
  <1> QED
    BY <1>n, <1>5, <1>9, <1>10, <1>11

\* whatever is printed next, the line stays as it should be
LEMMA EditingOne ==
  ASSUME ConsoleAssumption, NEW d, NEW o, NEW g, NEW r, NEW c, Screen(o, g, r, c),
         Editing(d, o, g, r, c), o # <<>>,
         NEW g2, NEW r2, NEW c2, Effect(Head(o), g, r, c, g2, r2, c2),
         NEW d2, d2 = IF Head(o) = "lf" THEN [d EXCEPT !.origin = d.stcol] ELSE d,
         ~(Tail(o) = <<>> /\ d2.last)
  PROVE  Editing(d2, Tail(o), g2, r2, c2)
  <1>1. Kept(d) /\ o \in Seq(Letters)
    BY DEF Editing
  <1>2. Tail(o) \in Seq(Letters)
    BY <1>1, TailIs
  <1>3. CASE Printing(d, o, g, r, c)
    <2>1. Printing(d, Tail(o), g2, r2, c2) /\ Head(o) # "lf"
      BY <1>1, <1>3, PrintOne
    <2>2. d2 = d
      BY <2>1
    <2> QED
      BY <1>1, <1>2, <2>1, <2>2 DEF Editing
  <1>4. CASE Rubbing(d, o, g, r, c)
    <2>1. Rubbing(d, Tail(o), g2, r2, c2) /\ Head(o) # "lf"
      BY <1>1, <1>4, RubOne
    <2>2. d2 = d
      BY <2>1
    <2> QED
      BY <1>1, <1>2, <2>1, <2>2 DEF Editing
  <1>5. CASE Restarting(d, o, g, r, c)
    <2>1. /\ Kept(d2) /\ d2.last = d.last
          /\ Restarting(d2, Tail(o), g2, r2, c2) \/ Printing(d2, Tail(o), g2, r2, c2)
      BY <1>1, <1>5, BeginOne
    <2> QED
      BY <1>2, <2>1 DEF Editing
  <1>6. CASE d.last /\ o = <<"cr">>
    <2>1. Head(o) = "cr" /\ Tail(o) = <<>>
      BY <1>6
    <2>2. d2 = d
      BY <2>1
    <2> QED
      BY <1>6, <2>1, <2>2
  <1> QED
    BY <1>3, <1>4, <1>5, <1>6 DEF Editing

-----------------------------------------------------------------------------
(* A key keeps it.                                                          *)

\* while a key is waited for, the line is as it should be
Whole(d, g, r, c) ==
  LET L == Len(Text(d)) IN
  /\ Kept(d) /\ ~d.last
  /\ At(d, g, c, L) /\ ShownTo(d, r, L) /\ Clear(r, d.origin + L)

\* when nothing is left to print, the line is on the screen as a whole
LEMMA WaitingIs ==
  ASSUME ConsoleAssumption, NEW d, NEW g, NEW r, NEW c, Editing(d, <<>>, g, r, c)
  PROVE  Whole(d, g, r, c)
  <1> DEFINE L == Len(Text(d))
  <1>1. Kept(d) /\ ~d.last
    BY DEF Editing
  <1>2. L \in Nat /\ d.stcol \in Nat /\ d.origin \in Nat
    BY <1>1, TextFits
  <1>3. Len(<<>>) = 0
    OBVIOUS
  <1>4. CASE Printing(d, <<>>, g, r, c)
    <2>1. PICK k \in 0..L :
            /\ 0 = L - k /\ At(d, g, c, k) /\ ShownTo(d, r, k) /\ Clear(r, d.origin + k)
      BY <1>3, <1>4 DEF Printing
    <2> HIDE DEF L
    <2>2. k = L
      BY <1>2, <2>1
    <2> USE DEF L
    <2> QED
      BY <1>1, <2>1, <2>2 DEF Whole
  <1>5. CASE Rubbing(d, <<>>, g, r, c)
    <2>1. PICK n \in 0..0, j \in 0..2 : Rubbed(d, <<>>, g, r, c, n, j)
      BY <1>3, <1>5 DEF Rubbing
    <2>2. /\ j > 0 => n > 0
          /\ ShownTo(d, r, L)
          /\ At(d, g, c, IF j = 1 THEN L + n - 1 ELSE L + n)
          /\ Clear(r, IF j = 2 THEN d.origin + L + n - 1 ELSE d.origin + L + n)
      BY <2>1 DEF Rubbed
    <2> HIDE DEF L
    <2>3. n = 0 /\ j = 0
      BY <2>2
    <2>4. L + n = L /\ d.origin + L + n = d.origin + L
      BY <1>2, <2>3
    <2>5. At(d, g, c, L) /\ Clear(r, d.origin + L)
      BY <2>2, <2>3, <2>4
    <2> USE DEF L
    <2> QED
      BY <1>1, <2>2, <2>5 DEF Whole
  <1>6. CASE Restarting(d, <<>>, g, r, c)
    <2>1. PICK p \in 1..(d.stcol + 3) : 0 = L + p
      BY <1>3, <1>6 DEF Restarting, Beginning
    <2> QED
      BY <1>2, <2>1
  <1> QED
    BY <1>1, <1>4, <1>5, <1>6 DEF Editing

\* sequences of signs, and one behind the other
LEMMA Wider ==
  ASSUME NEW o \in Seq(Glyphs)
  PROVE  o \in Seq(Letters)
  <1>1. Glyphs \subseteq Letters
    BY DEF Letters
  <1> QED
    BY <1>1

Joined(a, b, u) ==
  /\ u \in Seq(Letters) /\ Len(u) = Len(a) + Len(b)
  /\ \A i \in 1..Len(a) + Len(b) : u[i] = IF i <= Len(a) THEN a[i] ELSE b[i - Len(a)]

LEMMA Join ==
  ASSUME NEW a \in Seq(Letters), NEW b \in Seq(Letters), NEW u, u = a \o b
  PROVE  Joined(a, b, u)
  BY DEF Joined

\* what backsp prints for n columns
LEMMA RuboutIs ==
  ASSUME NEW n \in Nat
  PROVE  /\ Rubout(n) \in Seq(Letters) /\ Len(Rubout(n)) = 3 * n /\ Rubs(Rubout(n), 0)
         /\ n \in 0..Len(Rubout(n))
  <1>1. 3 * n \in Nat /\ n <= 3 * n
    OBVIOUS
  <1>2. Len(Rubout(n)) = 3 * n
    BY <1>1 DEF Rubout
  <1>3. Rubout(n) \in Seq(Letters)
    <2> DEFINE f == [i \in 1..3 * n |-> IF i % 3 = 2 THEN " " ELSE "bs"]
    <2>1. " " \in Letters /\ "bs" \in Letters
      BY DEF Letters, Keys, Glyphs
    <2>2. f \in [1..3 * n -> Letters]
      BY <2>1
    <2>3. Rubout(n) = f
      BY DEF Rubout
    <2> HIDE DEF f
    <2> QED
      BY <1>1, <2>2, <2>3
  <1>4. Rubs(Rubout(n), 0)
    <2> SUFFICES ASSUME NEW i \in 1..Len(Rubout(n))
                 PROVE  Rubout(n)[i] = IF (i + 0) % 3 = 2 THEN " " ELSE "bs"
      BY DEF Rubs
    <2>1. i \in 1..3 * n /\ i + 0 = i
      BY <1>2
    <2> QED
      BY <2>1 DEF Rubout
  <1> QED
    BY <1>1, <1>2, <1>3, <1>4

\* some of the line is taken away
LEMMA RubBegins ==
  ASSUME ConsoleAssumption, NEW d, NEW g, NEW r, NEW c, Whole(d, g, r, c),
         NEW rest, rest \in Seq(Typed), Len(rest) <= Len(d.buf),
         NEW T2, T2 = Cooked(rest, d.stcol), Len(T2) <= Len(Text(d)),
         \A i \in 1..Len(T2) : T2[i] = Text(d)[i],
         NEW d2, d2 = [d EXCEPT !.buf = rest],
         NEW o, o = Rubout(g - column(rest, d.stcol))
  PROVE  Editing(d2, o, g, r, c)
  <1> DEFINE L == Len(Text(d))
             M == Len(T2)
             n == L - M
  <1>1. Kept(d) /\ ~d.last /\ At(d, g, c, L) /\ ShownTo(d, r, L) /\ Clear(r, d.origin + L)
    BY DEF Whole
  <1>2. L \in Nat /\ d.stcol \in Nat /\ d.origin \in Nat
    BY <1>1, TextFits
  <1>3. M \in Nat
    <2>1. T2 \in Seq(Glyphs)
      BY <1>2, CookedFits
    <2> QED
      BY <2>1
  <1>4. /\ d2.buf = rest /\ d2.stcol = d.stcol /\ d2.origin = d.origin /\ d2.last = d.last
        /\ d2.maxlen = d.maxlen /\ d2 \in Requests /\ d2.op = "Cconrs"
    BY <1>1 DEF Kept, Requests
  <1>5. Kept(d2)
    <2>1. Len(d.buf) \in Nat /\ d.maxlen \in Nat /\ Len(d.buf) < d.maxlen /\ Len(rest) \in Nat
      BY <1>1, Constants DEF Kept, Requests
    <2>2. Len(rest) <= d.maxlen /\ Len(rest) < d.maxlen
      BY <2>1
    <2> QED
      BY <1>4, <2>2 DEF Kept
  <1>6. Text(d2) = T2
    BY <1>4 DEF Text
  <1>7. column(rest, d.stcol) = d.stcol + M
    BY <1>2, ColumnIs
  <1>8. g = d.stcol + L /\ c = d.origin + L
    BY <1>1 DEF At
  <1>m. M <= L
    OBVIOUS
  <1> HIDE DEF L, M
  <1>9. n \in Nat /\ g - column(rest, d.stcol) = n
    <2>1. (d.stcol + L) - (d.stcol + M) = L - M /\ L - M \in Nat
      BY ONLY <1>2, <1>3, <1>m
    <2> QED
      BY <1>7, <1>8, <2>1
  <1>10. o = Rubout(n)
    BY <1>9
  <1>n. M + n = L
    BY ONLY <1>2, <1>3
  <1> HIDE DEF n
  <1>11. n \in Nat
    BY <1>9
  <1>12. o \in Seq(Letters) /\ Len(o) = 3 * n /\ Rubs(o, 0) /\ n \in 0..Len(o)
    BY <1>10, <1>11, RuboutIs
  <1>15. ShownTo(d2, r, M)
    <2> SUFFICES ASSUME NEW i \in 1..M PROVE r[d2.origin + i - 1] = Text(d2)[i]
      BY DEF ShownTo
    <2>1. i \in 1..L
      BY ONLY <1>2, <1>3, <1>m, i \in 1..M
    <2>2. r[d.origin + i - 1] = Text(d)[i]
      BY <1>1, <2>1 DEF ShownTo
    <2>3. T2[i] = Text(d)[i]
      BY DEF M
    <2> QED
      BY <1>4, <1>6, <2>2, <2>3
  <1>16. At(d2, g, c, M + n) /\ Clear(r, d2.origin + M + n)
    <2>1. d.origin + M + n = d.origin + L
      BY ONLY <1>2, <1>3, <1>9, <1>n
    <2> QED
      BY <1>1, <1>4, <1>n, <2>1 DEF At
  <1>17. Rubbed(d2, o, g, r, c, n, 0)
    <2>1. M = Len(Text(d2))
      BY <1>6 DEF M
    <2>2. /\ 0 > 0 => n > 0
          /\ M + n = (IF 0 = 1 THEN M + n - 1 ELSE M + n)
          /\ d2.origin + M + n = (IF 0 = 2 THEN d2.origin + M + n - 1 ELSE d2.origin + M + n)
      OBVIOUS
    <2>3. Len(o) = 3 * n - 0 /\ Rubs(o, 0)
      BY ONLY <1>11, <1>12
    <2> QED
      BY ONLY <1>15, <1>16, <2>1, <2>2, <2>3, RubbedIs
  <1>18. n \in 0..Len(o) /\ 0 \in 0..2
    BY <1>12
  <1>19. Rubbing(d2, o, g, r, c)
    BY <1>17, <1>18 DEF Rubbing
  <1> QED
    BY <1>1, <1>4, <1>5, <1>12, <1>19 DEF Editing

\* what newline prints before the line
LEMMA NewlineIs ==
  ASSUME NEW s \in Nat, NEW T, T \in Seq(Glyphs), NEW o, o = newline(s) \o T
  PROVE  o \in Seq(Letters) /\ Len(o) = Len(T) + (s + 3) /\ Leads(o, s + 3, s, T)
  <1> DEFINE S == Spaces(s)
             h == <<"#", "cr", "lf">>
  <1>1. S \in Seq(Glyphs) /\ Len(S) = s /\ \A i \in 1..s : S[i] = " "
    BY SpacesAre
  <1>2. o = (h \o S) \o T
    BY DEF newline
  <1>3. Glyphs \subseteq Letters /\ h \in Seq(Letters) /\ Len(h) = 3
        /\ h[1] = "#" /\ h[2] = "cr" /\ h[3] = "lf"
    BY DEF Letters, Keys
  <1>4. S \in Seq(Letters) /\ T \in Seq(Letters)
    BY <1>1, Wider
  <1>h. Len(T) \in Nat
    OBVIOUS
  <1> HIDE DEF S, h
  <1>i. PICK hs : hs = h \o S
    OBVIOUS
  <1>5. hs \in Seq(Letters) /\ Len(hs) = s + 3
        /\ \A i \in 1..s + 3 : hs[i] = IF i <= 3 THEN h[i] ELSE S[i - 3]
    <2>0. h \in Seq(Letters) /\ S \in Seq(Letters)
      BY <1>3, <1>4
    <2>1. /\ hs \in Seq(Letters) /\ Len(hs) = Len(h) + Len(S)
          /\ \A i \in 1..Len(h) + Len(S) : hs[i] = IF i <= Len(h) THEN h[i] ELSE S[i - Len(h)]
      <3>1. Joined(h, S, hs)
        BY ONLY <1>i, <2>0, Join
      <3> QED
        BY ONLY <3>1 DEF Joined
    <2>2. Len(h) = 3 /\ Len(S) = s /\ 3 + s = s + 3
      <3>1. 3 + s = s + 3
        BY ONLY s \in Nat
      <3>2. Len(h) = 3 /\ Len(S) = s
        BY ONLY <1>1, <1>3
      <3> QED
        BY ONLY <3>1, <3>2
    <2> QED
      BY ONLY <2>1, <2>2
  <1>6. o = hs \o T
    BY <1>2, <1>i
  <1>7. o \in Seq(Letters) /\ Len(o) = Len(T) + (s + 3)
        /\ \A i \in 1..Len(o) : o[i] = IF i <= s + 3 THEN hs[i] ELSE T[i - (s + 3)]
    <2>1. /\ o \in Seq(Letters) /\ Len(o) = Len(hs) + Len(T)
          /\ \A i \in 1..Len(hs) + Len(T) : o[i] = IF i <= Len(hs) THEN hs[i] ELSE T[i - Len(hs)]
      <3>1. Joined(hs, T, o)
        BY ONLY <1>4, <1>5, <1>6, Join
      <3> QED
        BY ONLY <3>1 DEF Joined
    <2>2. Len(hs) = s + 3 /\ (s + 3) + Len(T) = Len(T) + (s + 3)
      BY ONLY <1>5, <1>h, s \in Nat
    <2> QED
      BY ONLY <2>1, <2>2
  <1>8. Leads(o, s + 3, s, T)
    <2> SUFFICES ASSUME NEW i \in 1..Len(o)
                 PROVE  /\ i > s + 3 => o[i] = T[i - (s + 3)]
                        /\ i <= s + 3 /\ (s + 3) - i < s => o[i] = " "
                        /\ (s + 3) - i = s => o[i] = "lf"
                        /\ (s + 3) - i = s + 1 => o[i] = "cr"
                        /\ (s + 3) - i = s + 2 => o[i] = "#"
      BY DEF Leads
    <2>1. i \in Nat /\ i >= 1 /\ s \in Nat
      BY <1>7, <1>h
    <2>2. o[i] = IF i <= s + 3 THEN hs[i] ELSE T[i - (s + 3)]
      BY <1>7
    <2>3. CASE i > s + 3
      <3>1. ~(i <= s + 3) /\ (s + 3) - i # s /\ (s + 3) - i # s + 1 /\ (s + 3) - i # s + 2
        BY ONLY <2>1, <2>3
      <3> QED
        BY <2>2, <3>1
    <2>4. CASE i <= s + 3
      <3>1. i \in 1..s + 3 /\ ~(i > s + 3)
        BY ONLY <2>1, <2>4
      <3>2. o[i] = IF i <= 3 THEN h[i] ELSE S[i - 3]
        BY <1>5, <2>2, <2>4, <3>1
      <3>3. CASE i > 3
        <4>1. /\ i - 3 \in 1..s /\ (s + 3) - i # s /\ (s + 3) - i # s + 1 /\ (s + 3) - i # s + 2
              /\ ~(i <= 3)
          BY ONLY <2>1, <2>4, <3>3
        <4>2. o[i] = " "
          BY <1>1, <3>2, <4>1
        <4> QED
          BY <3>1, <4>1, <4>2
      <3>4. CASE i = 3
        <4>1. (s + 3) - i = s /\ ~((s + 3) - i < s) /\ (s + 3) - i # s + 1 /\ (s + 3) - i # s + 2
          BY ONLY <2>1, <3>4
        <4> QED
          <5>1. 3 <= 3 /\ h[3] = "lf"
            BY <1>3
          <5>2. o[i] = "lf"
            BY ONLY <3>2, <3>4, <5>1
          <5> QED
            BY ONLY <3>1, <4>1, <5>2
      <3>5. CASE i = 2
        <4>1. (s + 3) - i = s + 1 /\ ~((s + 3) - i < s) /\ (s + 3) - i # s /\ (s + 3) - i # s + 2
          BY ONLY <2>1, <3>5
        <4> QED
          <5>1. 2 <= 3 /\ h[2] = "cr"
            BY <1>3
          <5>2. o[i] = "cr"
            BY ONLY <3>2, <3>5, <5>1
          <5> QED
            BY ONLY <3>1, <4>1, <5>2
      <3>6. CASE i = 1
        <4>1. (s + 3) - i = s + 2 /\ ~((s + 3) - i < s) /\ (s + 3) - i # s /\ (s + 3) - i # s + 1
          BY ONLY <2>1, <3>6
        <4> QED
          <5>1. 1 <= 3 /\ h[1] = "#"
            BY <1>3
          <5>2. o[i] = "#"
            BY ONLY <3>2, <3>6, <5>1
          <5> QED
            BY ONLY <3>1, <4>1, <5>2
      <3> QED
        <4>1. i > 3 \/ i = 3 \/ i = 2 \/ i = 1
          BY ONLY <2>1
        <4> QED
          BY ONLY <4>1, <3>3, <3>4, <3>5, <3>6
    <2> QED
      <3>1. i > s + 3 \/ i <= s + 3
        BY ONLY <2>1
      <3> QED
        BY ONLY <3>1, <2>3, <2>4
  <1> QED
    BY <1>7, <1>8

\* the line begins anew
LEMMA Renews ==
  ASSUME ConsoleAssumption, NEW d, Kept(d), ~d.last, NEW o, o = newline(d.stcol) \o Text(d),
         NEW g, NEW r, NEW c
  PROVE  Editing(d, o, g, r, c)
  <1>1. Text(d) \in Seq(Glyphs) /\ d.stcol \in Nat
    BY TextFits
  <1>2. o \in Seq(Letters) /\ Len(o) = Len(Text(d)) + (d.stcol + 3)
        /\ Leads(o, d.stcol + 3, d.stcol, Text(d))
    BY <1>1, NewlineIs
  <1>3. d.stcol + 3 # d.stcol + 1 /\ ~(d.stcol + 3 <= d.stcol) /\ d.stcol + 3 \in 1..(d.stcol + 3)
    BY <1>1
  <1>4. Beginning(d, o, g, r, c, d.stcol + 3)
    BY <1>2, <1>3 DEF Beginning
  <1>5. Restarting(d, o, g, r, c)
    BY <1>3, <1>4 DEF Restarting
  <1> QED
    BY <1>2, <1>5 DEF Editing

\* a key is typed into the line
LEMMA Types ==
  ASSUME ConsoleAssumption, NEW d, NEW g, NEW r, NEW c, Whole(d, g, r, c), NEW ch \in Typed,
         NEW d2, d2 = [[d EXCEPT !.buf = Append(d.buf, ch)]
                         EXCEPT !.last = (Len(Append(d.buf, ch)) = d.maxlen)],
         NEW o, o = cookdout(ch, g)
  PROVE  Editing(d2, o, g, r, c)
  <1> DEFINE T == Text(d)
             L == Len(T)
  <1>1. Kept(d) /\ ~d.last /\ At(d, g, c, L) /\ ShownTo(d, r, L) /\ Clear(r, d.origin + L)
    BY DEF Whole
  <1>2. T \in Seq(Glyphs) /\ L \in Nat /\ d.stcol \in Nat /\ d.origin \in Nat
    BY <1>1, TextFits
  <1>3. d.buf \in Seq(Typed) /\ d.maxlen \in Nat /\ Len(d.buf) < d.maxlen /\ d \in Requests
    BY <1>1, Constants DEF Kept, Requests
  <1>4. Append(d.buf, ch) \in Seq(Typed) /\ Len(Append(d.buf, ch)) = Len(d.buf) + 1
    BY <1>3
  <1>5. /\ d2.buf = Append(d.buf, ch) /\ d2.stcol = d.stcol /\ d2.origin = d.origin
        /\ d2.maxlen = d.maxlen /\ d2 \in Requests /\ d2.op = "Cconrs"
        /\ d2.last <=> (Len(Append(d.buf, ch)) = d.maxlen)
    BY <1>1, <1>3, <1>4 DEF Kept, Requests
  <1>6. Kept(d2)
    <2>1. Len(d2.buf) <= d2.maxlen /\ (~d2.last => Len(d2.buf) < d2.maxlen)
      <3>1. Len(d.buf) \in Nat
        BY <1>3
      <3> QED
        BY <1>3, <1>4, <1>5, <3>1
    <2> QED
      BY <1>5, <2>1 DEF Kept
  <1>7. g = d.stcol + L /\ c = d.origin + L
    BY <1>1 DEF At
  <1>8. Text(d2) = T \o o
    <2>1. Cooked(Append(d.buf, ch), d.stcol) = T \o cookdout(ch, d.stcol + L)
      BY <1>2, <1>3, CookedMore DEF Text
    <2> QED
      BY <1>5, <1>7, <2>1 DEF Text
  <1>9. o \in Seq(Glyphs) /\ Len(o) \in Nat /\ Len(o) >= 1
    <2>1. g \in Nat
      BY <1>2, <1>7
    <2>2. o \in Seq(Glyphs) /\ Len(o) \in 1..Widest
      BY <2>1, CookdoutIs
    <2> QED
      BY <2>2, Constants
  <1> HIDE DEF T
  <1>10. /\ Len(Text(d2)) = L + Len(o)
         /\ \A i \in 1..L : Text(d2)[i] = T[i]
         /\ \A i \in 1..Len(o) : Text(d2)[L + i] = o[i]
    BY <1>2, <1>8, <1>9
  <1> HIDE DEF L
  <1>11. L \in 0..Len(Text(d2)) /\ Len(o) = Len(Text(d2)) - L
    BY <1>2, <1>9, <1>10
  <1>12. ShownTo(d2, r, L)
    <2> SUFFICES ASSUME NEW i \in 1..L PROVE r[d2.origin + i - 1] = Text(d2)[i]
      BY DEF ShownTo
    <2>1. r[d.origin + i - 1] = T[i]
      BY <1>1 DEF ShownTo, T
    <2> QED
      BY <1>5, <1>10, <2>1
  <1>13. At(d2, g, c, L) /\ Clear(r, d2.origin + L)
    BY <1>1, <1>5 DEF At
  <1>14. Printing(d2, o, g, r, c)
    BY <1>10, <1>11, <1>12, <1>13 DEF Printing
  <1>15. o \in Seq(Letters) /\ o # <<>>
    <2>1. Glyphs \subseteq Letters
      BY DEF Letters
    <2> QED
      BY <1>9, <2>1
  <1> QED
    BY <1>6, <1>14, <1>15 DEF Editing

\* the last key is taken away, or none when there is none
LEMMA BackspaceIs ==
  ASSUME ConsoleAssumption, NEW d, NEW g, NEW r, NEW c, Whole(d, g, r, c),
         NEW rest,
         rest = IF d.buf = <<>> THEN <<>> ELSE SubSeq(d.buf, 1, Len(d.buf) - 1),
         NEW d2, d2 = [d EXCEPT !.buf = rest],
         NEW o, o = Rubout(g - column(rest, d.stcol))
  PROVE  Editing(d2, o, g, r, c)
  <1>1. Kept(d) /\ d.buf \in Seq(Typed) /\ d.stcol \in Nat
    BY Constants DEF Whole, Kept, Requests
  <1>2. CASE d.buf = <<>>
    <2>1. rest = <<>> /\ rest \in Seq(Typed) /\ Len(rest) <= Len(d.buf)
      BY <1>2
    <2>2. Cooked(rest, d.stcol) = Text(d)
      BY <1>2, <2>1 DEF Text
    <2>3. Len(Text(d)) \in Nat
      BY <1>1, TextFits
    <2>4. Len(Cooked(rest, d.stcol)) <= Len(Text(d))
      BY <2>2, <2>3
    <2>5. \A i \in 1..Len(Cooked(rest, d.stcol)) : Cooked(rest, d.stcol)[i] = Text(d)[i]
      BY <2>2
    <2> QED
      BY <2>1, <2>4, <2>5, RubBegins
  <1>3. CASE d.buf # <<>>
    <2> DEFINE ch == d.buf[Len(d.buf)]
    <2>1. /\ rest = SubSeq(d.buf, 1, Len(d.buf) - 1)
          /\ rest \in Seq(Typed) /\ Len(rest) <= Len(d.buf) /\ ch \in Typed
      BY <1>1, <1>3
    <2>2. d.buf = Append(rest, ch)
      BY <1>1, <1>3, <2>1
    <2> HIDE DEF ch
    <2>a. Text(d) = Cooked(rest, d.stcol) \o cookdout(ch, d.stcol + Len(Cooked(rest, d.stcol)))
      <3>1. Cooked(Append(rest, ch), d.stcol)
              = Cooked(rest, d.stcol) \o cookdout(ch, d.stcol + Len(Cooked(rest, d.stcol)))
        BY <1>1, <2>1, CookedMore
      <3>2. Text(d) = Cooked(Append(rest, ch), d.stcol)
        BY ONLY <2>2 DEF Text
      <3> QED
        BY ONLY <3>1, <3>2, Zenon
    <2> DEFINE T2 == Cooked(rest, d.stcol)
               u == cookdout(ch, d.stcol + Len(T2))
    <2>3. Text(d) = T2 \o u
      BY <2>a
    <2>4. T2 \in Seq(Glyphs) /\ Len(T2) \in Nat
      <3>1. T2 \in Seq(Glyphs)
        BY ONLY ConsoleAssumption, <1>1, <2>1, CookedFits DEF T2
      <3> HIDE DEF T2
      <3> QED
        BY ONLY <3>1
    <2>5. u \in Seq(Glyphs)
      BY <1>1, <2>1, <2>4, CookdoutIs
    <2> HIDE DEF T2, u
    <2>6. Len(T2) <= Len(Text(d)) /\ \A i \in 1..Len(T2) : Text(d)[i] = T2[i]
      BY <2>3, <2>4, <2>5
    <2> USE DEF T2
    <2>7. Len(T2) <= Len(Text(d)) /\ \A i \in 1..Len(T2) : T2[i] = Text(d)[i]
      BY <2>6
    <2> QED
      BY <2>1, <2>7, RubBegins
  <1> QED
    BY <1>2, <1>3

\* the whole line is taken away
LEMMA EraseIs ==
  ASSUME ConsoleAssumption, NEW d, NEW g, NEW r, NEW c, Whole(d, g, r, c),
         NEW d2, d2 = [d EXCEPT !.buf = <<>>],
         NEW o, o = Rubout(g - column(<<>>, d.stcol))
  PROVE  Editing(d2, o, g, r, c)
  <1>1. Kept(d) /\ d.buf \in Seq(Typed) /\ d.stcol \in Nat
    BY Constants DEF Whole, Kept, Requests
  <1>2. Cooked(<<>>, d.stcol) = <<>>
    BY <1>1, CookedNothing
  <1>3. <<>> \in Seq(Typed) /\ Len(<<>>) <= Len(d.buf)
    BY <1>1
  <1>4. Len(Text(d)) \in Nat
    BY <1>1, TextFits
  <1>5. /\ Len(Cooked(<<>>, d.stcol)) <= Len(Text(d))
        /\ \A i \in 1..Len(Cooked(<<>>, d.stcol)) : Cooked(<<>>, d.stcol)[i] = Text(d)[i]
    BY <1>2, <1>4
  <1> QED
    BY <1>3, <1>5, RubBegins

\* a call that begins asks for nothing yet
LEMMA LineBegins ==
  ASSUME ConsoleAssumption, NEW n \in 1..MaxLine, NEW g \in 0..MaxBegin, NEW c \in Nat, c <= MaxBegin,
         NEW r, Clear(r, c),
         NEW d, d = [NoCall EXCEPT !.op = "Cconrs", !.maxlen = n, !.stcol = g, !.origin = c]
  PROVE  d \in Requests /\ d.op = "Cconrs" /\ Editing(d, <<>>, g, r, c)
  <1>0. n \in Nat /\ n >= 1 /\ n \in 0..MaxLine /\ g \in Nat /\ c \in 0..MaxBegin
    BY Constants
  <1>1. /\ d.op = "Cconrs" /\ d.maxlen = n /\ d.stcol = g /\ d.origin = c /\ d.buf = <<>>
        /\ d.last = FALSE
    BY DEF NoCall
  <1>2. d = [op |-> "Cconrs", maxlen |-> n, stcol |-> g, buf |-> <<>>, origin |-> c, last |-> FALSE]
    BY DEF NoCall
  <1>3. <<>> \in Seq(Typed) /\ Len(<<>>) = 0
    OBVIOUS
  <1>4. d \in Requests
    <2>1. d.maxlen \in 0..MaxLine /\ d.stcol \in 0..MaxBegin /\ d.origin \in 0..MaxBegin
      BY <1>0, <1>1
    <2>2. d.buf \in Seq(Typed) /\ d.last \in BOOLEAN
      BY <1>1, <1>3
    <2>3. d = [op |-> d.op, maxlen |-> d.maxlen, stcol |-> d.stcol, buf |-> d.buf,
               origin |-> d.origin, last |-> d.last]
      BY <1>1, <1>2, Zenon
    <2> QED
      BY <1>1, <2>1, <2>2, <2>3, Zenon DEF Requests
  <1>5. Kept(d)
    BY <1>0, <1>1, <1>3, <1>4 DEF Kept
  <1>6. Text(d) = <<>>
    BY <1>0, <1>1, CookedNothing DEF Text
  <1>7. At(d, g, c, 0) /\ ShownTo(d, r, 0) /\ Clear(r, d.origin + 0)
    <2>1. g + 0 = g /\ c + 0 = c
      BY <1>0
    <2> QED
      BY <1>1, <2>1 DEF At, ShownTo
  <1>8. Printing(d, <<>>, g, r, c)
    <2>1. 0 \in 0..Len(Text(d)) /\ Len(<<>>) = Len(Text(d)) - 0
      BY <1>3, <1>6
    <2>2. \A i \in 1..Len(<<>>) : <<>>[i] = Text(d)[0 + i]
      BY <1>3
    <2> QED
      BY <1>7, <2>1, <2>2 DEF Printing
  <1> QED
    BY <1>1, <1>4, <1>5, <1>8 DEF Editing

-----------------------------------------------------------------------------
(* Every step keeps it.                                                     *)

\* nothing is called
LEMMA NoRequest ==
  ASSUME ConsoleAssumption
  PROVE  NoCall \in Requests /\ NoCall.op = "none"
  <1>1. <<>> \in Seq(Typed) /\ 0 \in 0..MaxLine /\ 0 \in 0..MaxBegin
    BY Constants
  <1> QED
    BY <1>1 DEF NoCall, Requests

\* the rest of a call that is not Cconrs
OtherCall(d) == d \in Requests /\ d.op \notin {"none", "Cconrs"}

LEMMA PutsType ==
  ASSUME ConsoleAssumption, NEW d, d \in Requests, d.op # "none", NEW text, text \in Seq(Letters),
         Puts(d, text)
  PROVE  /\ doing' \in Requests /\ out' \in Seq(Letters) /\ out' = text
         /\ doing' = d \/ (doing' = NoCall /\ out' = <<>>)
         /\ ~(text = <<>> /\ d.last) => doing' = d
  BY NoRequest DEF Puts

\* a step that leaves the screen alone and no line is being edited after it
LEMMA OtherKeeps ==
  ASSUME ConsoleAssumption, ConsoleTypeOK, UNCHANGED screen, NEW d, OtherCall(d), NEW text, text \in Seq(Letters),
         Puts(d, text)
  PROVE  ConsoleInv'
  <1>1. /\ doing' \in Requests /\ out' \in Seq(Letters)
        /\ doing' = d \/ (doing' = NoCall /\ out' = <<>>)
    BY PutsType DEF OtherCall
  <1>2. doing'.op # "Cconrs" /\ (doing'.op = "none" => doing' = NoCall /\ out' = <<>>)
    BY <1>1, NoRequest DEF OtherCall
  <1>3. glbcolumn' \in Int /\ cursor' \in Nat /\ row' \in [Columns -> Letters]
    BY DEF ConsoleTypeOK, screen
  <1>4. ConsoleTypeOK'
    BY <1>1, <1>2, <1>3 DEF ConsoleTypeOK
  <1>5. LineOK'
    BY <1>2 DEF LineOK
  <1> QED
    BY <1>4, <1>5 DEF ConsoleInv

\* a step of Cconrs that leaves the screen alone
LEMMA LineKeeps ==
  ASSUME ConsoleAssumption, ConsoleTypeOK, UNCHANGED screen, NEW d, NEW text, Puts(d, text),
         Editing(d, text, glbcolumn, row, cursor)
  PROVE  ConsoleInv'
  <1>1. d \in Requests /\ d.op = "Cconrs" /\ text \in Seq(Letters) /\ ~(text = <<>> /\ d.last)
    BY DEF Editing, Kept
  <1>2. doing' = d /\ out' = text
    BY <1>1, PutsType
  <1>3. glbcolumn' \in Int /\ cursor' \in Nat /\ row' \in [Columns -> Letters]
    BY DEF ConsoleTypeOK, screen
  <1>4. ConsoleTypeOK'
    BY <1>1, <1>2, <1>3 DEF ConsoleTypeOK
  <1>5. LineOK'
    <2>1. glbcolumn' = glbcolumn /\ cursor' = cursor /\ row' = row
      BY DEF screen
    <2> QED
      BY <1>2, <2>1 DEF LineOK
  <1> QED
    BY <1>4, <1>5 DEF ConsoleInv

\* and now the actions of the module, one by one
LEMMA conoutStep ==
  ASSUME ConsoleAssumption, ConsoleInv, conout
  PROVE  ConsoleInv'
  <1> DEFINE d2 == IF Head(out) = "lf" THEN [doing EXCEPT !.origin = doing.stcol] ELSE doing
  <1>1. /\ doing \in Requests /\ out \in Seq(Letters) /\ out # <<>> /\ doing.op # "none"
        /\ Screen(out, glbcolumn, row, cursor)
    BY DEF ConsoleInv, ConsoleTypeOK, conout, Screen
  <1>2. Effect(Head(out), glbcolumn, row, cursor, glbcolumn', row', cursor')
    BY DEF conout, Shown, Effect
  <1>3. Tail(out) \in Seq(Letters) /\ Head(out) \in Letters
    BY <1>1, TailIs
  <1>4. glbcolumn' \in Int /\ row' \in [Columns -> Letters] /\ cursor' \in Nat
    BY <1>1, <1>2, <1>3, EffectType DEF Screen
  <1>5. d2 \in Requests /\ d2.op = doing.op
    BY <1>1 DEF Requests
  <1>6. Puts(d2, Tail(out))
    BY DEF conout
  <1> HIDE DEF d2
  <1>7. /\ doing' \in Requests /\ out' \in Seq(Letters) /\ out' = Tail(out)
        /\ doing' = d2 \/ (doing' = NoCall /\ out' = <<>>)
        /\ ~(Tail(out) = <<>> /\ d2.last) => doing' = d2
    BY <1>1, <1>3, <1>5, <1>6, PutsType
  <1>8. ConsoleTypeOK'
    BY <1>1, <1>4, <1>5, <1>7, NoRequest DEF ConsoleTypeOK
  <1>9. LineOK'
    <2>1. CASE doing' = NoCall
      BY <2>1, NoRequest DEF LineOK
    <2>2. CASE doing' # NoCall
      <3>1. doing' = d2
        BY <1>7, <2>2
      <3> SUFFICES ASSUME doing.op = "Cconrs"
                   PROVE  Editing(d2, Tail(out), glbcolumn', row', cursor')
        BY <1>5, <1>7, <3>1 DEF LineOK
      <3>2. Editing(doing, out, glbcolumn, row, cursor)
        BY DEF ConsoleInv, LineOK
      <3>3. ~(Tail(out) = <<>> /\ d2.last)
        BY <1>6, <2>2 DEF Puts
      <3>4. d2 = IF Head(out) = "lf" THEN [doing EXCEPT !.origin = doing.stcol] ELSE doing
        BY DEF d2
      <3> QED
        BY <1>1, <1>2, <3>2, <3>3, <3>4, EditingOne
    <2> QED
      BY <2>1, <2>2
  <1> QED
    BY <1>8, <1>9 DEF ConsoleInv

\* what getch finds when Cconrs asks
LEMMA Waits ==
  ASSUME ConsoleAssumption, ConsoleInv, NEW ch, getch("Cconrs", ch)
  PROVE  /\ Whole(doing, glbcolumn, row, cursor) /\ UNCHANGED screen /\ ConsoleTypeOK
         /\ doing.op = "Cconrs" /\ doing \in Requests
  <1>1. doing.op = "Cconrs" /\ out = <<>> /\ UNCHANGED screen
    BY DEF getch
  <1>2. Editing(doing, <<>>, glbcolumn, row, cursor)
    BY <1>1 DEF ConsoleInv, LineOK
  <1>3. Whole(doing, glbcolumn, row, cursor)
    BY <1>2, WaitingIs
  <1> QED
    BY <1>1, <1>3 DEF ConsoleInv, ConsoleTypeOK

LEMMA ReturnStep ==
  ASSUME ConsoleAssumption, ConsoleInv, Return
  PROVE  ConsoleInv'
  <1> DEFINE d == [doing EXCEPT !.last = TRUE]
  <1>1. /\ Whole(doing, glbcolumn, row, cursor) /\ UNCHANGED screen /\ ConsoleTypeOK
        /\ doing.op = "Cconrs" /\ doing \in Requests
    BY Waits DEF Return
  <1>2. Kept(d) /\ d.last
    BY <1>1 DEF Whole, Kept, Requests
  <1>3. <<"cr">> \in Seq(Letters)
    BY DEF Letters, Keys
  <1>4. Editing(d, <<"cr">>, glbcolumn, row, cursor)
    BY <1>2, <1>3 DEF Editing
  <1>5. Puts(d, <<"cr">>)
    BY DEF Return
  <1> HIDE DEF d
  <1> QED
    BY <1>1, <1>4, <1>5, LineKeeps

LEMMA BackspaceStep ==
  ASSUME ConsoleAssumption, ConsoleInv, Backspace
  PROVE  ConsoleInv'
  <1> DEFINE rest == IF doing.buf = <<>> THEN <<>> ELSE SubSeq(doing.buf, 1, Len(doing.buf) - 1)
             d == [doing EXCEPT !.buf = rest]
             o == Rubout(glbcolumn - column(rest, doing.stcol))
  <1>1. /\ Whole(doing, glbcolumn, row, cursor) /\ UNCHANGED screen /\ ConsoleTypeOK
        /\ doing.op = "Cconrs" /\ doing \in Requests
    BY Waits DEF Backspace
  <1>2. Editing(d, o, glbcolumn, row, cursor)
    BY <1>1, BackspaceIs
  <1>3. Puts(d, o)
    BY DEF Backspace, backsp, Line
  <1> HIDE DEF d, o
  <1> QED
    BY <1>1, <1>2, <1>3, LineKeeps

LEMMA EraseStep ==
  ASSUME ConsoleAssumption, ConsoleInv, Erase
  PROVE  ConsoleInv'
  <1> DEFINE d == [doing EXCEPT !.buf = <<>>]
             o == Rubout(glbcolumn - column(<<>>, doing.stcol))
  <1>1. /\ Whole(doing, glbcolumn, row, cursor) /\ UNCHANGED screen /\ ConsoleTypeOK
        /\ doing.op = "Cconrs" /\ doing \in Requests
    BY Waits DEF Erase
  <1>2. Editing(d, o, glbcolumn, row, cursor)
    BY <1>1, EraseIs
  <1>3. Puts(d, o)
    BY DEF Erase, backsp, Line
  <1> HIDE DEF d, o
  <1> QED
    BY <1>1, <1>2, <1>3, LineKeeps

LEMMA DiscardStep ==
  ASSUME ConsoleAssumption, ConsoleInv, Discard
  PROVE  ConsoleInv'
  <1> DEFINE d == [doing EXCEPT !.buf = <<>>]
             o == newline(doing.stcol)
  <1>1. /\ Whole(doing, glbcolumn, row, cursor) /\ UNCHANGED screen /\ ConsoleTypeOK
        /\ doing.op = "Cconrs" /\ doing \in Requests
    BY Waits DEF Discard
  <1>2. /\ Kept(d) /\ ~d.last /\ d.buf = <<>> /\ d.stcol = doing.stcol /\ d.stcol \in Nat
    <2>1. <<>> \in Seq(Typed) /\ Len(<<>>) = 0
      OBVIOUS
    <2>2. /\ d \in Requests /\ d.op = "Cconrs" /\ ~d.last /\ d.buf = <<>> /\ d.stcol = doing.stcol
          /\ d.maxlen = doing.maxlen
      BY <1>1, <2>1 DEF Whole, Requests
    <2>3. doing.buf \in Seq(Typed) /\ Len(doing.buf) < doing.maxlen /\ doing.maxlen \in Nat
          /\ doing.stcol \in Nat
      BY <1>1, Constants DEF Whole, Kept, Requests
    <2>4. 0 <= doing.maxlen /\ 0 < doing.maxlen
      <3>1. Len(doing.buf) \in Nat
        BY <2>3
      <3> QED
        BY <2>3, <3>1
    <2> QED
      BY <2>1, <2>2, <2>3, <2>4 DEF Kept
  <1>3. Text(d) = <<>>
    BY <1>2, CookedNothing DEF Text
  <1>4. o = newline(d.stcol) \o Text(d)
    <2>1. newline(d.stcol) \in Seq(Letters)
      <3>1. <<>> \in Seq(Glyphs)
        OBVIOUS
      <3>2. Spaces(d.stcol) \in Seq(Letters)
        BY <1>2, SpacesAre, Wider
      <3>3. <<"#", "cr", "lf">> \in Seq(Letters)
        BY DEF Letters, Keys
      <3> QED
        BY <3>2, <3>3 DEF newline
    <2> QED
      BY <1>2, <1>3, <2>1
  <1>5. Puts(d, o)
    BY DEF Discard, Line
  <1> HIDE DEF d, o
  <1>6. Editing(d, o, glbcolumn, row, cursor)
    BY <1>2, <1>4, Renews
  <1> QED
    BY <1>1, <1>5, <1>6, LineKeeps

LEMMA RetypeStep ==
  ASSUME ConsoleAssumption, ConsoleInv, Retype
  PROVE  ConsoleInv'
  <1> DEFINE o == newline(doing.stcol) \o Text(doing)
  <1>1. /\ Whole(doing, glbcolumn, row, cursor) /\ UNCHANGED screen /\ ConsoleTypeOK
        /\ doing.op = "Cconrs" /\ doing \in Requests
    BY Waits DEF Retype
  <1>2. Kept(doing) /\ ~doing.last
    BY <1>1 DEF Whole
  <1>3. Puts(doing, o)
    BY DEF Retype, Text
  <1>4. Editing(doing, o, glbcolumn, row, cursor)
    BY <1>2, Renews
  <1> HIDE DEF o
  <1> QED
    BY <1>1, <1>3, <1>4, LineKeeps

LEMMA TypeInStep ==
  ASSUME ConsoleAssumption, ConsoleInv, NEW ch \in Typed, TypeIn(ch)
  PROVE  ConsoleInv'
  <1> DEFINE d == [[doing EXCEPT !.buf = Append(doing.buf, ch)]
                     EXCEPT !.last = (Len(Append(doing.buf, ch)) = doing.maxlen)]
             o == cookdout(ch, glbcolumn)
  <1>1. /\ Whole(doing, glbcolumn, row, cursor) /\ UNCHANGED screen /\ ConsoleTypeOK
        /\ doing.op = "Cconrs" /\ doing \in Requests
    BY Waits DEF TypeIn
  <1>2. Editing(d, o, glbcolumn, row, cursor)
    BY <1>1, Types
  <1>3. Puts(d, o)
    <2>1. Line(Append(doing.buf, ch)).buf = Append(doing.buf, ch)
      BY <1>1 DEF Line, Requests
    <2> QED
      BY <2>1 DEF TypeIn, Line
  <1> HIDE DEF d, o
  <1> QED
    BY <1>1, <1>2, <1>3, LineKeeps

\* the other calls
LEMMA EchoStep ==
  ASSUME ConsoleAssumption, ConsoleInv, NEW ch \in Keys, conin(ch) \/ x8in(ch)
  PROVE  ConsoleInv'
  <1>1. ConsoleTypeOK /\ doing \in Requests
    BY DEF ConsoleInv, ConsoleTypeOK
  <1>2. OtherCall(doing) /\ UNCHANGED screen
    BY <1>1 DEF conin, x8in, getch, OtherCall
  <1>3. <<ch>> \in Seq(Letters) /\ <<>> \in Seq(Letters)
    BY DEF Letters
  <1>4. Puts(doing, <<ch>>) \/ Puts(doing, <<>>)
    BY DEF conin, x8in
  <1> QED
    BY <1>1, <1>2, <1>3, <1>4, OtherKeeps

LEMMA CconrsStep ==
  ASSUME ConsoleAssumption, ConsoleInv, NEW n \in 1..MaxLine, Cconrs(n)
  PROVE  ConsoleInv'
  <1>1. ConsoleTypeOK /\ doing = NoCall /\ out = <<>>
    BY NoRequest DEF ConsoleInv, ConsoleTypeOK, Cconrs
  <1>2. glbcolumn \in 0..MaxBegin /\ cursor \in Nat /\ cursor <= MaxBegin /\ Clear(row, cursor)
    BY <1>1 DEF Cconrs, Clear, ConsoleTypeOK
  <1>3. /\ doing' = [NoCall EXCEPT !.op = "Cconrs", !.maxlen = n, !.stcol = glbcolumn, !.origin = cursor]
        /\ out' = <<>> /\ glbcolumn' = glbcolumn /\ row' = row /\ cursor' = cursor
    BY <1>1 DEF Cconrs, screen
  <1>4. doing' \in Requests /\ doing'.op = "Cconrs" /\ Editing(doing', <<>>, glbcolumn, row, cursor)
    BY <1>2, <1>3, LineBegins
  <1>5. ConsoleTypeOK'
    BY <1>1, <1>3, <1>4 DEF ConsoleTypeOK
  <1>6. LineOK'
    BY <1>3, <1>4 DEF LineOK
  <1> QED
    BY <1>5, <1>6 DEF ConsoleInv

LEMMA AskStep ==
  ASSUME ConsoleAssumption, ConsoleInv, NEW o \in {"Cconin", "Cnecin"}, Ask(o)
  PROVE  ConsoleInv'
  <1>1. ConsoleTypeOK /\ doing = NoCall /\ out = <<>>
    BY NoRequest DEF ConsoleInv, ConsoleTypeOK, Ask
  <1>2. doing' = [NoCall EXCEPT !.op = o, !.last = TRUE] /\ out' = out /\ UNCHANGED screen
    BY DEF Ask
  <1>3. doing' \in Requests /\ doing'.op = o
    BY <1>2, NoRequest DEF Requests
  <1>4. ConsoleTypeOK'
    BY <1>1, <1>2, <1>3 DEF ConsoleTypeOK, screen
  <1>5. LineOK'
    BY <1>3 DEF LineOK
  <1> QED
    BY <1>4, <1>5 DEF ConsoleInv

LEMMA CconwsStep ==
  ASSUME ConsoleAssumption, ConsoleInv, NEW ch \in {"a", "nl"}, Cconws(ch)
  PROVE  ConsoleInv'
  <1> DEFINE d == [NoCall EXCEPT !.op = "Cconws", !.last = TRUE]
             o == IF ch = "nl" THEN <<"cr", "lf">> ELSE tabout(ch, glbcolumn)
  <1>1. ConsoleTypeOK /\ UNCHANGED screen
    BY DEF ConsoleInv, Cconws
  <1>2. OtherCall(d)
    BY NoRequest DEF Requests, OtherCall
  <1>3. o \in Seq(Letters)
    <2>1. "a" \in Letters /\ "cr" \in Letters /\ "lf" \in Letters
      BY DEF Letters, Keys
    <2>2. CASE ch = "nl"
      <3>1. o = <<"cr", "lf">>
        BY <2>2
      <3>2. <<"cr", "lf">> \in Seq(Letters)
        BY <2>1
      <3> QED
        BY <3>1, <3>2, Zenon
    <2>3. CASE ch = "a"
      <3>1. o = <<"a">>
        BY <2>3 DEF tabout
      <3> QED
        BY <2>1, <3>1
    <2> QED
      BY <2>2, <2>3
  <1>4. Puts(d, o)
    BY DEF Cconws
  <1> HIDE DEF d, o
  <1> QED
    BY <1>1, <1>2, <1>3, <1>4, OtherKeeps

LEMMA SameKeeps ==
  ASSUME ConsoleInv, UNCHANGED <<doing, out, screen>>
  PROVE  ConsoleInv'
  BY DEF ConsoleInv, ConsoleTypeOK, LineOK, screen

LEMMA warmbootStep ==
  ASSUME ConsoleAssumption, ConsoleInv, warmboot
  PROVE  ConsoleInv'
  <1>1. doing' = NoCall /\ out' = <<>> /\ UNCHANGED screen
    BY DEF warmboot
  <1>2. <<>> \in Seq(Letters)
    OBVIOUS
  <1>3. ConsoleTypeOK'
    BY <1>1, <1>2, NoRequest DEF ConsoleInv, ConsoleTypeOK, screen
  <1>4. LineOK'
    BY <1>1, NoRequest DEF LineOK
  <1> QED
    BY <1>3, <1>4 DEF ConsoleInv

\* it holds at the start, it is kept by every step, and it says that the line is shown
LEMMA ConsoleStart ==
  ASSUME ConsoleAssumption, ConsoleInit
  PROVE  ConsoleInv
  <1>1. <<>> \in Seq(Letters) /\ blank \in [Columns -> Letters]
    BY DEF blank, Letters, Glyphs
  <1>2. ConsoleTypeOK
    BY <1>1, NoRequest DEF ConsoleInit, ConsoleTypeOK
  <1>3. LineOK
    BY NoRequest DEF ConsoleInit, LineOK
  <1> QED
    BY <1>2, <1>3 DEF ConsoleInv

LEMMA ConsoleStep ==
  ASSUME ConsoleAssumption, ConsoleInv, [ConsoleNext]_consolevars
  PROVE  ConsoleInv'
  <1>1. ASSUME NEW ch \in Keys, conbrk(ch) PROVE ConsoleInv'
    BY <1>1, SameKeeps DEF conbrk
  <1>2. ASSUME x7in PROVE ConsoleInv'
    BY <1>2, SameKeeps DEF x7in
  <1>3. ASSUME UNCHANGED consolevars PROVE ConsoleInv'
    BY <1>3, SameKeeps DEF consolevars
  <1>4. ASSUME NEW ch \in {"a", "tab", "^A"}, TypeIn(ch) PROVE ConsoleInv'
    BY <1>4, TypeInStep DEF Typed
  <1>5. CASE Ask("Cconin") \/ Ask("Cnecin")
    BY <1>5, AskStep
  <1>6. CASE \E ch \in Keys : conin(ch) \/ x8in(ch)
    BY <1>6, EchoStep
  <1>7. CASE \E n \in 1..MaxLine : Cconrs(n)
    BY <1>7, CconrsStep
  <1>8. CASE \E ch \in {"a", "nl"} : Cconws(ch)
    BY <1>8, CconwsStep
  <1>9. CASE warmboot \/ conout
    BY <1>9, warmbootStep, conoutStep
  <1>10. CASE Return \/ Backspace \/ Erase \/ Discard \/ Retype
    BY <1>10, ReturnStep, BackspaceStep, EraseStep, DiscardStep, RetypeStep
  <1> QED
    BY <1>1, <1>2, <1>3, <1>4, <1>5, <1>6, <1>7, <1>8, <1>9, <1>10 DEF ConsoleNext

LEMMA ShownThen ==
  ASSUME ConsoleAssumption, ConsoleInv
  PROVE  LineShown
  <1> SUFFICES ASSUME doing.op = "Cconrs", out = <<>>
               PROVE  LET text == Cooked(doing.buf, doing.stcol) IN
                      /\ cursor = doing.origin + Len(text)
                      /\ \A i \in DOMAIN text : row[doing.origin + i - 1] = text[i]
                      /\ \A c \in Columns : c >= cursor => row[c] = " "
    BY DEF LineShown
  <1> DEFINE T == Text(doing)
  <1>1. Whole(doing, glbcolumn, row, cursor)
    BY WaitingIs DEF ConsoleInv, LineOK
  <1>2. /\ cursor = doing.origin + Len(T)
        /\ \A i \in 1..Len(T) : row[doing.origin + i - 1] = T[i]
        /\ \A c \in Columns : c >= doing.origin + Len(T) => row[c] = " "
    BY <1>1 DEF Whole, At, ShownTo, Clear
  <1>3. DOMAIN T = 1..Len(T)
    <2>1. T \in Seq(Glyphs)
      BY <1>1, TextFits DEF Whole
    <2> HIDE DEF T
    <2> QED
      BY <2>1
  <1>4. Cooked(doing.buf, doing.stcol) = T
    BY DEF Text
  <1> HIDE DEF T
  <1> QED
    BY <1>2, <1>3, <1>4

\* What is on the screen and what is still to be printed make up, at every
\* moment, what the line being edited calls for, and the column the code keeps
\* for the line is the one the text ends in (console.c, cgets and backsp).
THEOREM ConsoleInvariant ==
  ASSUME ConsoleAssumption
  PROVE  ConsoleSpec => []ConsoleInv
  <1>1. ConsoleInit => ConsoleInv
    BY ConsoleStart
  <1>2. ConsoleInv /\ [ConsoleNext]_consolevars => ConsoleInv'
    BY ConsoleStep
  <1> QED
    BY <1>1, <1>2, PTL DEF ConsoleSpec

\* LineShown, for any tabs, lengths and columns on a screen with room for the
\* line: whenever Cconrs waits for a key, the screen shows the line that has
\* been typed and nothing after it, so backsp has erased what was to be erased
\* (console.c, cgets, backsp and cookdout).
THEOREM LineAlwaysShown ==
  ASSUME ConsoleAssumption
  PROVE  ConsoleSpec => []LineShown
  <1>1. ConsoleInv => LineShown
    BY ShownThen
  <1> QED
    BY <1>1, ConsoleInvariant, PTL
=============================================================================
