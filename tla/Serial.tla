------------------------------- MODULE Serial -------------------------------
(* The serial port of the BIOS (bios/chardev.S) under XON/XOFF, two of     *)
(* them at the ends of a line: the ring buffers between a program and the  *)
(* interrupts of the MFP, and the handshake bytes by which a port whose    *)
(* input fills up halts the other.  A program is interrupted between any   *)
(* two steps; an interrupt is served within the time of a byte, and its    *)
(* handler is not interrupted by another one of the MFP.                   *)
EXTENDS Naturals

CONSTANTS
  Ports, Other,               \* the ends of the line; the end opposite to each
  datum, XON, XOFF, nothing,  \* what is sent
  size, low, high,            \* of the input buffer: bytes, and the marks of flow control
  outsize                     \* of the output buffer

SerialAssumption ==
  /\ {size, low, high, outsize} \subseteq Nat /\ outsize > 1
  /\ low < high /\ high < size
  /\ Other \in [Ports -> Ports] /\ \A p \in Ports : Other[p] # p /\ Other[Other[p]] = p
  /\ datum \notin {XON, XOFF, nothing} /\ XON \notin {XOFF, nothing} /\ XOFF # nothing

VARIABLES
  port,  \* the state of each end, see Idle
  line,  \* the byte each end is sending
  crossed  \* the ends halted while their own XOFF was under way (history)

serialvars == <<port, line, crossed>>

Idle ==
  [rx |-> 0, tx |-> 0,    \* bytes in the input and in the output buffer
   highwater |-> FALSE,   \* the other end has been asked to wait
   xoff |-> FALSE,        \* the other end has asked this one to wait
   xonoffc |-> nothing,   \* the handshake byte to be sent before anything else
   UDR |-> nothing,       \* the register of the transmitter
   d0 |-> nothing,        \* the byte iorecout waits with until UDR is empty
   at |-> "idle",         \* where the program is in Bconin or Bconout
   withheld |-> FALSE]    \* XOFF has had to wait for the other's XON (history)

SerialInit ==
  port = [p \in Ports |-> Idle] /\ line = [p \in Ports |-> nothing] /\ crossed = {}

\* p has taken byte for sending, and it has not arrived
OnWay(p, byte) == byte \in {port[p].d0, port[p].UDR, line[p]}

\* bit 7 of TSR
Ready(s) == s.UDR = nothing
Full(s) == s.rx = size - 1

-----------------------------------------------------------------------------
(* The handlers, and what they share with Bconin and Bconout.               *)

\* Take the next byte, a handshake byte first, and wait for the transmitter
\* with interrupts off when it is busy.
Send(s, byte) == IF Ready(s) THEN [s EXCEPT !.UDR = byte] ELSE [s EXCEPT !.d0 = byte]

\* mutant of iorecout: a handshake byte waits its turn
iorecout_last(s) ==
  CASE s.xoff -> s
    [] ~s.xoff /\ s.tx > 0 -> Send([s EXCEPT !.tx = @ - 1], datum)
    [] ~s.xoff /\ s.tx = 0 /\ s.xonoffc # nothing -> Send([s EXCEPT !.xonoffc = nothing], s.xonoffc)
    [] OTHER -> s
iorecout(s) ==
  CASE s.xoff -> s
    [] ~s.xoff /\ s.xonoffc # nothing -> Send([s EXCEPT !.xonoffc = nothing], s.xonoffc)
    [] ~s.xoff /\ s.xonoffc = nothing /\ s.tx > 0 -> Send([s EXCEPT !.tx = @ - 1], datum)
    [] OTHER -> s

SendIfReady(s) == IF Ready(s) THEN iorecout(s) ELSE s

Withhold(s) == [s EXCEPT !.withheld = @ \/ (s.xoff /\ s.xonoffc = XOFF)]

Store(s) ==
  LET t == [s EXCEPT !.rx = @ + 1]
  IN  IF t.rx >= high /\ ~t.highwater
      THEN SendIfReady([t EXCEPT !.highwater = TRUE, !.xonoffc = XOFF])
      ELSE t

\* mutant of rcvrint: XON ends the wait and leaves the transmitter idle
rcvrint_idle(s, byte) ==
  CASE byte = XOFF -> [s EXCEPT !.xoff = TRUE]
    [] byte = XON -> [s EXCEPT !.xoff = FALSE]
    [] byte = datum /\ ~Full(s) -> Store(s)
    [] OTHER -> s
rcvrint(s, byte) ==
  CASE byte = XOFF -> [s EXCEPT !.xoff = TRUE]
    [] byte = XON -> SendIfReady([s EXCEPT !.xoff = FALSE])
    [] byte = datum /\ ~Full(s) -> Store(s)
    [] OTHER -> s

\* The register has passed its byte on: who waits for that goes ahead.
Emptied(s) == [s EXCEPT !.UDR = s.d0, !.d0 = nothing]

\* What is served when a byte has come in and one has gone out: the receiver's
\* interrupt, and the transmitter's, if its register was full.
Interrupts(s, byte) ==
  LET t == Withhold(rcvrint(Emptied(s), byte))
  IN  IF Ready(s) THEN t ELSE iorecout(t)

\* bcon6in has cleared highwater and is going to ask for XON: two instructions,
\* in which the buffer does not fill up from one mark to the other.
InTime(s) == ~(s.at = "cleared" /\ s.rx = high - 1)

\* The time of one byte: what the ends have sent arrives.
ByteTime ==
  /\ \E p \in Ports : line[p] # nothing \/ ~Ready(port[p])
  /\ \A p \in Ports : InTime(port[p])
  /\ port' = [p \in Ports |-> Interrupts(port[p], line[Other[p]])]
  /\ line' = [p \in Ports |-> port[p].UDR]
  /\ crossed' = {p \in Ports : /\ port'[p].xoff
                               /\ p \in crossed \/ (line[Other[p]] = XOFF /\ OnWay(p, XOFF))}

-----------------------------------------------------------------------------
(* Bconin and Bconout.                                                      *)

\* Who waits in iorecout keeps the program from running.
Program(p, new) ==
  /\ port[p].d0 = nothing
  /\ port' = [port EXCEPT ![p] = new] /\ UNCHANGED <<line, crossed>>

bcon6in(p) ==
  /\ port[p].at = "idle" /\ port[p].rx > 0
  /\ Program(p, [port[p] EXCEPT !.rx = @ - 1, !.at = "got"])

\* The buffer is down to the low mark and the other end waits, or not.
Enough(p) ==
  /\ port[p].at = "got"
  /\ IF port[p].rx <= low /\ port[p].highwater
     THEN Program(p, [port[p] EXCEPT !.highwater = FALSE, !.at = "cleared"])
     ELSE Program(p, [port[p] EXCEPT !.at = "idle"])

AskXon(p) ==
  /\ port[p].at = "cleared"
  /\ Program(p, [port[p] EXCEPT !.xonoffc = XON, !.withheld = FALSE, !.at = "kick"])

bcon6out(p) ==
  /\ port[p].at = "idle" /\ port[p].tx < outsize - 1
  /\ Program(p, [port[p] EXCEPT !.tx = @ + 1, !.at = "kick"])

\* iorecput waits for room
Wait(p) == port[p].at = "idle" /\ port[p].tx = outsize - 1 /\ UNCHANGED serialvars

\* bcon6o0: a busy transmitter will ask for the next byte itself.
Kick(p) ==
  /\ port[p].at = "kick"
  /\ Program(p, [port[p] EXCEPT !.at = IF Ready(port[p]) THEN "out" ELSE "idle"])

\* An interrupt may have used the transmitter meanwhile.
Out(p) ==
  /\ port[p].at = "out"
  /\ Program(p, [iorecout(port[p]) EXCEPT !.at = "idle"])

Finish(p) == Enough(p) \/ AskXon(p) \/ Kick(p) \/ Out(p)
SerialNext == ByteTime \/ \E p \in Ports : bcon6in(p) \/ bcon6out(p) \/ Wait(p) \/ Finish(p)
SerialSpec == SerialInit /\ [][SerialNext]_serialvars

-----------------------------------------------------------------------------
\* what there is to be sent and may be sent
Sending ==
  \A p \in Ports :
    (port[p].tx > 0 \/ port[p].xonoffc # nothing) /\ ~port[p].xoff
      => ~Ready(port[p]) \/ port[p].at \in {"kick", "out"}

\* What a port that was asked to wait waits for: an XON under way, or one that
\* the other end will send and is free to send, because it is not itself
\* waiting.  Where both wait, their XOFFs have crossed on the line.
Owed ==
  \A p \in Ports : port[p].xoff =>
    LET q == Other[p]
    IN  \/ OnWay(q, XON)
        \/ /\ port[q].highwater \/ port[q].at = "cleared" \/ port[q].xonoffc = XON
           /\ port[q].xoff => {p, q} \cap crossed # {}

\* What may be sent is on its way: the transmitter is busy and will interrupt,
\* or the program is about to start it (bcon6o0), so that neither a byte put
\* while the transmitter runs dry nor a handshake byte is left lying until the
\* program writes again.  And who has been asked to wait is owed an XON: it is
\* under way, or the other end will ask for it when its input is down to the
\* low mark, and may send it.  It may not where it waits itself (iorecout
\* returns at once while xoff is set, the XON in xonoffc or not), and the code
\* does come to that: both ends ask at the same time, each XOFF arrives behind
\* the other, both read their buffers empty, and neither sends its XON.  The
\* line is dead then, for good (Dead).  That takes XOFFs that cross: one end
\* alone does not halt the line.
NoStall == Sending /\ Owed

\* both p and the end opposite wait, and no XON is under way
Dead(p) == \A e \in {p, Other[p]} : port[e].xoff /\ ~OnWay(e, XON)

\* No byte is lost for want of room in the input buffer (rcvrint, the branch
\* to rcvrint7), unless the XOFF that would have stopped it was itself held
\* back, because the other end had sent XOFF before (iorecout).
NoLoss ==
  [][\A p \in Ports :
       Full(port[p]) /\ line[Other[p]] = datum /\ line' # line
         => Withhold(port[p]).withheld]_serialvars
=============================================================================
