---------------------------- MODULE FloppyDriver ----------------------------
(* One call of floprd, flopwrt or flopver (bios/floppy.S): the sectors of  *)
(* a track are moved one by one, each tried three times; before the third  *)
(* the head is sent home and back.  The controller knows the head only by  *)
(* its track register, and steps it by the difference of two tracks; what  *)
(* it finds in the sectors' headers tells it when it is on another.        *)
EXTENDS Integers, Sequences

CONSTANTS
  MaxTrack,      \* where the head can be: 0..MaxTrack
  Near, Far,     \* tracks 5 and 10, to get away from the stop and back
  MaxCount,      \* bounds the sectors of a call
  MaxFaults      \* bounds what the drive does wrong with a sector

DriverAssumption ==
  /\ {MaxTrack, MaxCount, MaxFaults} \subseteq Nat /\ Near \in 1..MaxTrack /\ Far \in Near..MaxTrack

Tracks == 0..MaxTrack
dirty == -256

VARIABLES
  op,                  \* "read", "write" or "verify"
  fd_track, count,     \* the track and the number of sectors asked for
  head, reg,           \* where the head is, and the track register
  fd_curtrack,         \* where it was left, or dirty
  fd_sect, fd_buffer,  \* how many sectors, and rooms for them, have been passed
  fd_retry,
  step,                \* what is done next
  moved,               \* the sectors moved: where from, and where to (history)
  bad,                 \* the list of flopver
  faults, astray         \* what went wrong with a sector; was the head on another
                       \* track before that (history)

request == <<op, fd_track, count>>
trouble == <<faults, astray>>
place == <<head, reg, fd_curtrack>>
drivervars == <<request, place, fd_sect, fd_buffer, fd_retry, step, moved, bad, trouble>>

DriverInit ==
  /\ op \in {"read", "write", "verify"} /\ fd_track \in Tracks /\ count \in 1..MaxCount
  /\ head \in Tracks /\ reg \in Tracks /\ fd_curtrack \in Tracks \cup {dirty}
  /\ astray = (fd_curtrack # dirty /\ head # fd_curtrack)
  /\ fd_sect = 0 /\ fd_buffer = 0 /\ fd_retry = 2
  /\ step = "lock" /\ moved = {} /\ bad = <<>> /\ faults = 0

-----------------------------------------------------------------------------
(* Commands of the controller.  Each gives the set of what may come of it:  *)
(* where the drive is then, whether it went well, and what went wrong.      *)

State == [head |-> head, reg |-> reg, cur |-> fd_curtrack, ok |-> TRUE, faults |-> 0]
Fail(s) == [s EXCEPT !.ok = FALSE, !.faults = @ + 1]
Clip(track) == IF track < 0 THEN 0 ELSE IF track > MaxTrack THEN MaxTrack ELSE track

\* flopcmds: a step may be missed, and the command may time out
Seek(s, dest) ==
  LET there == [s EXCEPT !.head = Clip(@ + dest - s.reg), !.reg = dest] IN
  {there, [there EXCEPT !.head = Clip(@ + 1), !.faults = @ + 1], Fail(s)}

restore(s) == {[s EXCEPT !.head = 0, !.reg = 0, !.cur = 0], Fail(s)}

\* what is found there tells whether the track is right
go2track(s) ==
  {[t EXCEPT !.cur = IF t.ok THEN fd_track ELSE @, !.ok = @ /\ t.head = fd_track] :
     t \in Seek(s, fd_track)}

\* home, and from there back to the track
reseek(s) ==
  UNION {IF h.ok THEN UNION {IF n.ok THEN go2track([n EXCEPT !.cur = Near]) ELSE {n} :
                               n \in Seek([h EXCEPT !.cur = 0], Near)}
         ELSE {h} : h \in restore(s)}

\* A dirty drive is sent home, if it must be, from a little farther away.
recalibrate(s) ==
  LET away(h) == {IF w.ok THEN w ELSE [w EXCEPT !.cur = dirty] :
                    w \in UNION {IF f.ok THEN restore(f) ELSE {f} :
                                   f \in Seek([h EXCEPT !.ok = TRUE], Far)}}
  IN  UNION {IF h.ok THEN {h} ELSE away(h) : h \in restore([s EXCEPT !.cur = 0])}

\* The drive is told what track it is on: the low byte of fd_curtrack.
select == [State EXCEPT !.reg = IF fd_curtrack = dirty THEN 0 ELSE fd_curtrack]

Comes(states, good, wrong) ==
  \E s \in states :
    /\ faults + s.faults <= MaxFaults /\ faults' = faults + s.faults /\ UNCHANGED astray
    /\ head' = s.head /\ reg' = s.reg /\ fd_curtrack' = s.cur
    /\ step' = IF s.ok THEN good ELSE wrong

-----------------------------------------------------------------------------

floplock ==
  /\ step = "lock"
  /\ Comes(IF fd_curtrack = dirty THEN recalibrate(select) ELSE {State}, "seek", "seek")
  /\ UNCHANGED <<request, fd_sect, fd_buffer, fd_retry, moved, bad>>

Middle == IF fd_retry = 1 THEN "reseek" ELSE "retry"
seek ==
  /\ step = "seek"
  /\ Comes(go2track(select), "sector",
           CASE op = "read" -> Middle [] op = "write" -> "reseek" [] op = "verify" -> "fail")
  /\ UNCHANGED <<request, fd_sect, fd_buffer, fd_retry, moved, bad>>

NextSector ==
  /\ fd_sect' = fd_sect + 1 /\ fd_retry' = 2
  /\ faults' = 0 /\ astray' = (head # fd_track)
  /\ step' = IF fd_sect + 1 = count THEN "ok" ELSE "sector"

\* mutant of sector: the count of retries is that of the call
sector_onecount ==
  /\ step = "sector" /\ head = fd_track
  /\ moved' = moved \cup {<<fd_sect, fd_buffer>>}
  /\ fd_buffer' = IF op = "verify" THEN fd_buffer ELSE fd_buffer + 1
  /\ fd_sect' = fd_sect + 1 /\ UNCHANGED fd_retry
  /\ faults' = 0 /\ astray' = (head # fd_track)
  /\ step' = IF fd_sect + 1 = count THEN "ok" ELSE "sector"
  /\ UNCHANGED <<request, place, bad>>
sector ==
  /\ step = "sector" /\ head = fd_track
  /\ moved' = moved \cup {<<fd_sect, fd_buffer>>}
  /\ fd_buffer' = IF op = "verify" THEN fd_buffer ELSE fd_buffer + 1
  /\ NextSector
  /\ UNCHANGED <<request, place, bad>>

\* a sector is not found, as on a wrong track, or has an error
sector_error ==
  /\ step = "sector" /\ step' = Middle
  /\ IF head # fd_track THEN UNCHANGED faults ELSE faults < MaxFaults /\ faults' = faults + 1
  /\ UNCHANGED <<astray, request, place, fd_sect, fd_buffer, fd_retry, moved, bad>>
protected ==
  /\ step = "sector" /\ op = "write" /\ step' = "protected"
  /\ UNCHANGED <<request, place, fd_sect, fd_buffer, fd_retry, moved, bad, trouble>>

again ==
  /\ step = "reseek" /\ Comes(reseek(State), "retry", "retry")
  /\ UNCHANGED <<request, fd_sect, fd_buffer, fd_retry, moved, bad>>

retry ==
  /\ step = "retry" /\ fd_retry > 0 /\ fd_retry' = fd_retry - 1
  /\ step' = IF op = "verify" THEN "sector" ELSE "seek"
  /\ UNCHANGED <<request, place, fd_sect, fd_buffer, moved, bad, trouble>>
give_up ==
  /\ step = "retry" /\ fd_retry = 0
  /\ IF op = "verify" THEN NextSector /\ bad' = Append(bad, fd_sect)
     ELSE fd_retry' = -1 /\ step' = "fail" /\ UNCHANGED <<fd_sect, bad, trouble>>
  /\ UNCHANGED <<request, place, fd_buffer, moved>>

\* the call ends, and another begins
flopok1 ==
  /\ step \in {"ok", "fail", "protected"} /\ step' = "lock"
  /\ \E s \in Seek(State, select.reg) : head' = s.head /\ reg' = s.reg
  /\ op' \in {"read", "write", "verify"} /\ fd_track' \in Tracks /\ count' \in 1..MaxCount
  /\ astray' = (fd_curtrack # dirty /\ head' # fd_curtrack)
  /\ fd_sect' = 0 /\ fd_buffer' = 0 /\ fd_retry' = 2 /\ moved' = {} /\ bad' = <<>> /\ faults' = 0
  /\ UNCHANGED fd_curtrack

DriverNext ==
  floplock \/ seek \/ sector \/ sector_error \/ protected \/ again \/ retry \/ give_up \/ flopok1
DriverSpec == DriverInit /\ [][DriverNext]_drivervars
-----------------------------------------------------------------------------
\* A call moves every sector into the room for it, or fails, or names those it
\* could not read.  A head that is lost is found again: neither that alone nor a
\* single fault makes it give up a sector.
Delivered ==
  /\ step = "ok" =>
       LET named == {bad[i] : i \in 1..Len(bad)} IN
       moved = {<<i, IF op = "verify" THEN 0 ELSE i>> : i \in (0..count - 1) \ named}
  /\ step = "retry" /\ fd_retry = 0 => faults > IF astray THEN 0 ELSE 1
=============================================================================
