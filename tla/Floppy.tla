------------------------------- MODULE Floppy -------------------------------
(* Changing disks (bios/blkdev.c, floppy.S): how the BIOS finds out that a *)
(* disk has been changed, from the time since the last access, from the    *)
(* write-protect sensor, which the vertical blank looks at, and from the   *)
(* serial number in the boot sector.  Rwabs and Getbpb run for GEMDOS; the *)
(* user exchanges disks, and with one drive is asked to when the other     *)
(* logical drive is used.                                                  *)
EXTENDS Naturals

CONSTANTS
  Disks, none,   \* disks differ by their serial numbers
  Protected,     \* disks that are write protected
  fd_mediach,    \* nobody changes a disk faster than that
  MaxMoves       \* bounds the floprd and flopwrt of one Rwabs

FloppyAssumption ==
  /\ none \notin Disks /\ Protected \subseteq Disks
  /\ {fd_mediach, MaxMoves} \subseteq Nat \ {0}

Drives == {0, 1}
MEDIANOCHANGE == 0
MEDIAMAYCHANGE == 1
MEDIACHANGE == 2

VARIABLES
  nflops,        \* how many of the drives there are
  disk,          \* what is in a drive
  seen,          \* who has noticed that a drive is empty (history)
  since,         \* frclock - fd_lastacc, counted up to fd_mediach
  poll,          \* the drive _flopvbl looks at next
  fd_wp, fd_latch, drivechange,
  curflop,       \* whose disk is in the only drive
  serial,        \* of the disk Getbpb has read
  logged,        \* the disk GEMDOS works with
  unsure,        \* whether it may be another without notice (history)
  call           \* Rwabs or Getbpb: the step it is at, the drive, what is read
                 \* or written (at), how often still (left), and whether
                 \* dorwabs checks the disk again

user == <<disk, seen>>
media == <<serial, logged, unsure>>
floppyvars == <<nflops, user, since, poll, fd_wp, fd_latch, drivechange, curflop, media, call>>

\* with one drive, every fd_dev is zero
fd_dev(d) == IF nflops = 1 THEN 0 ELSE d
Served(p) == {d \in Drives : fd_dev(d) = p}

\* Two drives share next to nothing, so that one is enough of them.
Used == IF nflops = 1 THEN Drives ELSE {0}

idle == [step |-> "idle", drv |-> 0, at |-> "bpb", left |-> 0, again |-> FALSE]

FloppyInit ==
  /\ nflops \in {1, 2}
  /\ disk \in [Drives -> Disks \cup {none}] /\ disk[1] = none
  /\ seen = [p \in Drives |-> {}]
  /\ since = [d \in Drives |-> fd_mediach] /\ poll = 0
  /\ fd_wp = [d \in Drives |-> FALSE] /\ fd_latch = fd_wp
  /\ drivechange = [d \in Drives |-> MEDIANOCHANGE] /\ curflop = 0
  /\ serial = [d \in Drives |-> none] /\ logged = serial /\ unsure = fd_wp
  /\ call = idle

-----------------------------------------------------------------------------
(* The user, and the vertical blank *)

\* he takes no disk out of a drive that is at work
Eject(p) ==
  /\ disk[p] # none /\ ~(call.step = "locked" /\ fd_dev(call.drv) = p)
  /\ disk' = [disk EXCEPT ![p] = none] /\ seen' = [seen EXCEPT ![p] = {}]
  /\ UNCHANGED <<nflops, since, poll, fd_wp, fd_latch, drivechange, curflop, media, call>>

\* and takes his time before he puts one in
Insert(p, x) ==
  /\ p < nflops /\ disk[p] = none /\ \A q \in Drives : disk[q] # x
  /\ seen[p] = Served(p) /\ \A d \in Served(p) : since[d] = fd_mediach
  /\ ~(call.step = "locked" /\ fd_dev(call.drv) = p)
  /\ disk' = [disk EXCEPT ![p] = x] /\ UNCHANGED seen
  /\ UNCHANGED <<nflops, since, poll, fd_wp, fd_latch, drivechange, curflop, media, call>>

\* _flopvbl, every eight times; the sensor of an empty drive shows what that
\* of a protected disk does
Tick ==
  LET p == fd_dev(poll)
      wp == [fd_wp EXCEPT ![poll] = disk[p] \in Protected \cup {none}]
  IN  /\ since' = [d \in Drives |-> IF since[d] < fd_mediach THEN since[d] + 1 ELSE since[d]]
      /\ poll' = 1 - poll
      /\ IF call.step = "locked" THEN UNCHANGED <<fd_wp, fd_latch, seen>>
         ELSE /\ fd_wp' = wp /\ fd_latch' = [d \in Drives |-> fd_latch[d] \/ wp[d]]
              /\ seen' = IF disk[p] = none THEN [seen EXCEPT ![p] = @ \cup {poll}] ELSE seen
      /\ UNCHANGED <<nflops, disk, drivechange, curflop, media, call>>

-----------------------------------------------------------------------------
(* Rwabs and Getbpb *)

\* floprd or flopwrt begins: fdchange may ask for the disk first
Enter(c, at) ==
  [c EXCEPT !.at = at,
            !.step = IF nflops = 1 /\ c.drv # curflop THEN "asked" ELSE "locked"]

\* GEMDOS is told of a change: it forgets the disk, and has the next one read
E_CHNG(c) ==
  /\ logged' = [logged EXCEPT ![c.drv] = none] /\ unsure' = [unsure EXCEPT ![c.drv] = FALSE]
  /\ call' = Enter(c, "bpb") /\ UNCHANGED serial

\* mutant of bhdv_mediach: what the vertical blank has noticed is not asked for
bhdv_mediach_late(d) ==
  IF drivechange[d] = MEDIACHANGE THEN MEDIACHANGE
  ELSE IF since[d] < fd_mediach THEN MEDIANOCHANGE ELSE drivechange[d]
bhdv_mediach(d) ==
  IF drivechange[d] = MEDIACHANGE THEN MEDIACHANGE
  ELSE IF since[d] < fd_mediach THEN MEDIANOCHANGE
  ELSE IF fd_latch[d] THEN MEDIAMAYCHANGE ELSE drivechange[d]
Noted(d) ==
  IF fd_latch[d] /\ drivechange[d] # MEDIACHANGE
  THEN [drivechange EXCEPT ![d] = MEDIAMAYCHANGE] ELSE drivechange

\* by itself it only notes what the vertical blank has noticed
Mediach(d) ==
  /\ call.step = "idle" /\ drivechange' = Noted(d)
  /\ UNCHANGED <<nflops, user, since, poll, fd_wp, fd_latch, curflop, media, call>>

\* ckmediach, up to where it reads the boot sector
ckmediach(c) ==
  /\ drivechange' = Noted(c.drv)
  /\ CASE bhdv_mediach(c.drv) = MEDIACHANGE -> E_CHNG(c)
       [] bhdv_mediach(c.drv) = MEDIAMAYCHANGE -> call' = Enter(c, "boot") /\ UNCHANGED media
       [] OTHER -> call' = Enter(c, "move") /\ UNCHANGED media

Rwabs(d, n) ==
  /\ call.step = "idle" /\ logged[d] # none
  /\ ckmediach([idle EXCEPT !.drv = d, !.left = n])
  /\ UNCHANGED <<nflops, user, since, poll, fd_wp, fd_latch, curflop>>
Getbpb(d) ==
  /\ call.step = "idle" /\ logged[d] = none /\ call' = Enter([idle EXCEPT !.drv = d], "bpb")
  /\ UNCHANGED <<nflops, user, since, poll, fd_wp, fd_latch, drivechange, curflop, media>>

\* the disk of the other logical drive is asked for, and put in
fdchange ==
  /\ call.step = "asked" /\ logged[call.drv] \in {none, disk[0]}
  /\ fd_latch' = [d \in Drives |-> TRUE] /\ since' = [d \in Drives |-> fd_mediach]
  /\ curflop' = call.drv /\ call' = [call EXCEPT !.step = "locked"]
  /\ UNCHANGED <<nflops, user, poll, fd_wp, drivechange, media>>

Accessed == [d \in Drives |-> IF fd_dev(d) = fd_dev(call.drv) THEN 0 ELSE since[d]]

flopfail ==
  /\ call.step = "locked" /\ call' = [call EXCEPT !.step = "alert"]
  /\ since' = Accessed
  /\ drivechange' = [drivechange EXCEPT ![fd_dev(call.drv)] = MEDIAMAYCHANGE]
  /\ UNCHANGED <<nflops, user, poll, fd_wp, fd_latch, curflop, media>>

flopok(at) ==
  /\ call.step = "locked" /\ call.at = at /\ disk[fd_dev(call.drv)] # none
  /\ since' = Accessed
  /\ UNCHANGED <<nflops, user, poll, fd_wp, curflop>>

\* the serial number is compared
Compare ==
  LET d == call.drv IN
  /\ flopok("boot")
  /\ IF disk[fd_dev(d)] # serial[d] THEN E_CHNG(call) /\ UNCHANGED <<fd_latch, drivechange>>
     ELSE /\ fd_latch' = [fd_latch EXCEPT ![d] = fd_wp[d]]
          /\ drivechange' = IF fd_wp[d] THEN drivechange ELSE [drivechange EXCEPT ![d] = MEDIANOCHANGE]
          /\ unsure' = [unsure EXCEPT ![d] = FALSE] /\ UNCHANGED <<serial, logged>>
          /\ call' = Enter(call, "move")

bhdv_getbpb ==
  LET d == call.drv  x == disk[fd_dev(call.drv)] IN
  /\ flopok("bpb") /\ call' = idle
  /\ serial' = [serial EXCEPT ![d] = x] /\ logged' = [logged EXCEPT ![d] = x]
  /\ unsure' = [unsure EXCEPT ![d] = FALSE]
  /\ fd_latch' = [fd_latch EXCEPT ![d] = fd_wp[d]]
  /\ drivechange' = [drivechange EXCEPT ![d] = IF fd_wp[d] THEN MEDIAMAYCHANGE ELSE MEDIANOCHANGE]

dorwabs ==
  /\ flopok("move") /\ UNCHANGED <<fd_latch, drivechange, media>>
  /\ call' = IF call.left = 1 THEN idle ELSE [call EXCEPT !.left = @ - 1]

\* What failed is tried again, after another look at the disk if it was moving
\* sectors.
Retry ==
  /\ call.step = "alert"
  /\ IF call.at = "move" THEN ckmediach([call EXCEPT !.again = TRUE])
     ELSE call' = Enter(call, call.at) /\ UNCHANGED <<drivechange, media>>
  /\ UNCHANGED <<nflops, user, since, poll, fd_wp, fd_latch, curflop>>

\* Or it is given up.  A second look that is given up does not keep dorwabs
\* from trying again.
Cancel ==
  /\ call.step = "alert"
  /\ call' = IF call.at = "boot" /\ call.again THEN Enter(call, "move") ELSE idle
  /\ unsure' = [unsure EXCEPT ![call.drv] = (@ \/ call.at = "boot") /\ call.at # "bpb"]
  /\ logged' = IF call.at = "bpb" THEN [logged EXCEPT ![call.drv] = none] ELSE logged
  /\ UNCHANGED <<nflops, user, since, poll, fd_wp, fd_latch, drivechange, curflop, serial>>

\* A program formats a disk or writes its boot sector, which makes it another.
\* With one drive it is always drive 0 that is put into the changed mode.
flopfmt(d, x) ==
  /\ call.step = "idle" /\ disk[fd_dev(d)] # none /\ (nflops = 1 => curflop = d)
  /\ \A q \in Drives : disk[q] # x
  /\ disk' = [disk EXCEPT ![fd_dev(d)] = x] /\ UNCHANGED seen
  /\ drivechange' = [drivechange EXCEPT ![fd_dev(d)] = MEDIACHANGE]
  /\ since' = [e \in Drives |-> IF fd_dev(e) = fd_dev(d) THEN 0 ELSE since[e]]
  /\ unsure' = [unsure EXCEPT ![d] = @ \/ d # fd_dev(d)]
  /\ UNCHANGED <<nflops, poll, fd_wp, fd_latch, curflop, serial, logged, call>>

FloppyNext ==
  \/ Tick
  \/ Eject(0) \/ \E x \in Disks : Insert(0, x)
  \/ \E d \in Used :
       Mediach(d) \/ Getbpb(d) \/ (\E n \in 1..MaxMoves : Rwabs(d, n))
       \/ \E x \in Disks \ Protected : flopfmt(d, x)
  \/ fdchange \/ flopfail \/ Compare \/ bhdv_getbpb \/ dorwabs \/ Retry \/ Cancel

FloppySpec == FloppyInit /\ [][FloppyNext]_floppyvars
-----------------------------------------------------------------------------
(* Properties *)

Known(d) == logged[d] # none /\ ~unsure[d]
Right(d) == disk[fd_dev(d)] \in {none, logged[d]}

\* Whatever GEMDOS reads or writes is of the disk it works with, and what it has
\* in its buffers is of the disk in the drive, when Mediach says that has not
\* been changed - but after a check that was given up, or when a disk has been
\* formatted as B in the only drive.
RightDisk ==
  /\ call.step = "locked" /\ call.at = "move" /\ Known(call.drv) => Right(call.drv)
  /\ \A d \in Used :
       /\ call.step = "idle" /\ Known(d) /\ (nflops = 1 => curflop = d)
       /\ bhdv_mediach(d) = MEDIANOCHANGE
       => Right(d)
=============================================================================
