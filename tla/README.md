# A formal model of TOS 1.04

This directory holds TLA+ specifications of parts of Atari's TOS 1.04 (with what 1.06 and 1.62 share with it), the
configurations that model-check them with TLC, and proofs checked by TLAPS. Every definition is written from the
source in `../src`; `PROJECT.json` names for each one the lines it stands for. The version modelled is the default
build, `TOSVERSION=104`, that is `AESVERSION 0x140`, GEMDOS 0.15 and none of the `TP_` patches. Where C leaves open
what a memory access looks like, the listing of the ROM (`src/listings/tos104de.s`) decides.

## The system

| Part | Source | State | Operations |
|---|---|---|---|
| AES dispatcher | `aes/gemdisp.c`, `gemaints.c`, `jdispa.S`, `gempd.c` | `rlr`, `drl`, `nrl`; a PD's `p_stat`, `p_evbits`, `p_evwait`, `p_evflg` | `disp`, `disp_act`, `signal`, `forker`, `chkkbd`, `pstart` |
| AES events | `aes/gemasync.c`, `gemevlib.c` | the event blocks (EVB) on `eul`, `zlr`, `dlr` and a list per device | `iasync`, `mwait`, `aret`, `acancel`, `ev_block`, `ev_multi` |
| AES message pipes | `aes/gemqueue.c`, `gemaplib.c` | `p_qindex`, `p_queue`, `p_qdq`, `p_qnq` of a PD | `aqueue`, `doq`, `ap_rdwr` |
| AES window semaphore | `aes/gemflag.c` | `wind_spb`: `sy_tas`, `sy_owner`, `sy_wait` | `tak_flag`, `amutex`, `unsync`, `wm_update` |
| AES input | `aes/geminput.c`, `ratrbp.S` | key queues, owners of mouse and keyboard, click detection | `kchange`, `bchange`, `mchange`, `b_click`, `b_delay` |
| Fork queue | `aes/gemdisp.c`, `ratrbp.S` | `g_fpdx`, `fpcnt`, `fpt`, `fph` | `forkq`, `forker` |
| AES timers | `aes/gemasync.c`, `gemflag.c`, `ratrbp.S` | `dlr` with its deltas, `CMP_TICK`, `NUM_TICK` | `ADELAY`, `tchange`, `tikcod`, cancelling |
| AES windows | `aes/gemwmlib.c`, `gemwrect.c` | the tree of windows, rectangle lists, the pool of ORECTs | `wm_create`, `wm_open`, `wm_set`, `wm_close`, `wm_delete`, `draw_change` |
| Screen manager | `aes/gemctrl.c` | `gl_cowner`, `gl_mowner`, `gl_kowner`, what `ctlmouse` saved | `ctlmgr`, `hctl_window`, `ct_chgown`, `ctlmouse` |
| Mouse cursor | `vdi/mouse.S`, `monobj.c`, `aes/gemgsxif.S` | `HIDE_CNT`, `mouse_flag`, `draw_flag`, `save_block` | `vb_draw`, `_HIDE_CUR`, `_DIS_CUR`, `vsc_form`, `graf_mouse` |
| GEMDOS memory | `bdos/umem.c`, `osmem.c` | the partition's free and allocated lists, the pool of system blocks | `ffit`, `freeit`, `Malloc`, `Mfree`, `Mshrink`, `xmgetblk`, `xmfreblk` |
| GEMDOS handles and files | `bdos/fshand.c`, `fsopnclo.c` | `sft`, `p_uft`, the OFDs and their use counts | `Fopen`, `Fcreate`, `Fclose`, `Fdup`, `Fforce` |
| GEMDOS directories | `bdos/fsdir.c`, `fsfat.c` | the tree of DNDs, `dirtbl`, `diruse`, `p_curdir` | `findit`, `Dsetpath`, `Dcreate`, `Ddelete`, `mgetofd` |
| GEMDOS buffers, FAT, data | `bdos/fsfat.c`, `fsmain.c`, `fssupp.c` | the buffer control blocks, the FAT | `getrec`, `flush`, `clfix`, `nextcl`, `xrw`, `ixlseek` |
| GEMDOS processes | `bdos/proc.c` | `run`, the process descriptors | `Pexec`, `Pterm`, `Ptermres` |
| GEMDOS console | `bdos/console.c` | the type-ahead ring, the line being edited | `Cconrs`, `constat`, `conbrk` |
| BIOS serial port | `bios/chardev.S` | `rs232iorec`, XON/XOFF state | `Bconin`, `Bconout`, the receiver and transmitter interrupts |
| BIOS floppy disks | `bios/blkdev.c`, `floppy.S` | media change latches, retries | `Rwabs`, `Getbpb`, `Mediach`, `floprd`, `flopwrt`, `flopver` |
| AES objects, forms, menus, resources, shell; VDI drawing; desktop; build tools | the rest | trees, pixels, windows of the desktop | |

They interact by calls, with two exceptions. Interrupt handlers touch what programs work with: the AES through the fork
queue, the tick counters and the click counters, which `forker` drains in process context from `disp` and `ev_multi`;
the VDI through the cursor that the vertical blank draws; the BIOS through the buffers of the serial port and the
latches of the floppy drives. And AES programs interact through what they share: message pipes, the window semaphore,
the screen, and the ownership of mouse and keyboard. The dispatcher is cooperative: a program gives up the processor
only in an AES call.

What is hard here: the order in which programs, wakeups and interrupts meet the process lists; event bits and event
blocks that must be given back whatever subset of events has happened; blocked readers and writers that only the other
side can wake; interrupts in the middle of a ring-buffer update or of a cursor being drawn; use counts that four calls
change; buffers that are written back, taken and read again while something points into them; disks exchanged between
two looks at them; pools of fixed size. `PROJECT.json` lists each such hazard at its line together with the property
that watches it, or with the reason why none does yet.

## The modules

Four MC modules compose modules that do not meet at the grain they are modelled at: a behaviour of `MCInterrupts` is one of
`ForkQueue`, `AESTimer`, `Serial`, `Clicks` or `Cursor`; of `MCFileTable` one of `FileTable`, `Floppy`, `FloppyDriver` or
`Console`; of `MCDisk` one of `FatCache` or `FileIO`; of `MCUserMemory` one of `UserMemory` or `CurDirs`. `MCAESKernel` and
`MCWindows` only give instances.

### AESKernel: dispatcher, events, pipes, semaphore

`AESKernel.tla` models the processes of the AES between their calls. One action is one run of kernel code between two
points where something else can be observed to happen. Since the dispatcher is cooperative and interrupts only append
to the fork queue, these points are: the start of a call, each `iasync`, `mwait`, the return from `mwait`, each turn of
`forker`, and the steps of `disp`.

| TLA+ | C |
|---|---|
| `ctx` | who runs: a process (`"user"`), `forker` called from `ev_multi` or from `disp`, the keyboard poll, the scheduling loop of `disp` |
| `rlr`, `drl`, `nrl` | the lists; `drl` and `nrl` are sets, their order never shows. `rlr = -1` inside `forker` is `ctx # "user"` |
| `p_evbits`, `p_evwait`, `p_evflg` | sets of bit numbers instead of 16-bit masks |
| `e_list`, `e_pd`, `e_mask` | for each EVB the list it is linked into, `"eul"` when unused, and its fields. `p_evlist(p)` is derived |
| `sy_wait`, `p_qnq` | sequences, newest first, because `evinsert` links at the head and the head is served. The readers of a pipe are a set |
| `c_cnt`, `p_qindex` | how many characters and 16-byte messages are queued; their contents are not modelled |
| `pc`, `call`, `todo`, `wmask`, `qpb_pid` | where a process is in `ev_block` or `ev_multi`, and the local variables that survive a dispatch |
| `nest` | how many `BEG_UPDATE`s a program owes; programs end only what they began |
| `irqs` | not code: bounds the interrupts and keys between two task switches |

What the hardware or an application's data decides is a choice: which waiters a mouse or button change satisfies,
whose time is up at a tick, whether `evnt_multi` finds its mouse event true already. `doq` may unite a redraw message
with one that is in the pipe. `Exit` is the dispatch every AES call ends with.

### ForkQueue and ForkFifo: the fork queue instruction by instruction

`AESKernel` takes the fork queue for a FIFO queue that drops what does not fit. `ForkQueue.tla` opens it up. Each
access of `forkq` and `forker` to memory is a step of one of two frames: `"isr"`, a handler, which nothing interrupts,
and `"proc"`, the process, which is interrupted anywhere. `Callers` says who queues forks: `chkkbd`, `ap_tplay` and, while `forker` runs `mchange`, `b_delay` do
so in the process with interrupts on. The history variable `torn` records that a handler has queued a fork while the process was between the test of
`fpcnt` and its increment; what is said of the ring is said up to then. (Not each of these interrupts does harm: the exception is wider than the damage, which
`fork_queue_proc` shows.) `ForkFifo.tla` is the
abstract queue, and `RunsInOrder` says that `ForkQueue` implements it under the mapping `queue`, `hand`. The promise has
a hole, stated in `Spoiled`: `forker` counts a fork out before it reads it, so a handler that fires in between finds
room in a full ring and overwrites the very slot that `forker` is about to read; the fork counted out is lost and the new
one is run twice, or its handler is called with the other's argument.

### AESTimer and Countdown: times

`AESTimer.tla` models what `AESKernel` leaves to a choice: when a timer ends. `dlr` is the delay list as a sequence of
timers, each with the ticks it has left after the one before (`e_parm`); `CMP_TICK` and `NUM_TICK` are the counters of
the tick interrupt; `forks` holds the tick counts of `tchange` forks that have not run. `ADELAY`, `takeoff`, the
interrupt (`tikcod`) and the two halves of `tchange` are actions. `Countdown.tla` is the promise: each timer counts its
own ticks down. `TimersCountDown` says that the list of differences keeps that promise; the ticks come in portions,
when `tchange` is run. The history variable `owed` counts what a timer may still ask for. A timer may end early, by the
ticks that were counted and not charged when it was set; `NotEarly` says that it is by these at most.
(`aes/gemevlib.c:190` says "Wait the specified time to be completed".)

### Clicks: the mouse button

`Clicks.tla` has the button and tick interrupts that gather clicks (`b_click`, `b_delay`), the two calls they fork
(`bchange`, `mchange`), the waits of programs for a button, and `gl_bpend`, which says how many wait for more than one
click. Times are in ticks and counts are words of `2 * Half` values. One button is modelled; which program owns the mouse
is a choice. `mchange` ends the gathering of clicks with `b_delay(gl_bdelay)`, interrupts on: its two halves are steps, and
a tick between them leaves `gl_bdelay` at -1 (`overtaken`). `acancel` finds the wait it is to take off through `e_nextp`.
`sh_main` clears `gl_bpend` while somebody may be counted in it (`miscounted`). What happens after either of these two is
not modelled, and a report dropped by a full fork queue is remembered (`dropped`): `Settled` and `PendingCounted` name these
as the only exceptions.

### Cursor: the mouse cursor

`Cursor.tla` models the mouse cursor from the interrupts that move it (`mouse_rel`) and draw it (`vb_draw`, `vb_redraw`) up
to `graf_mouse`. The steps of `_HIDE_CUR`, `_DIS_CUR`, `v_show_c` and `vsc_form` are actions that the vertical blank interrupts
anywhere; a call of the AES puts the VDI calls it makes into `gl.ops`. A screen is a few places as large as the cursor,
each with what was drawn there and the cursor on it. Programs hide the mouse through `graf_mouse` only, balanced, and
draw with the mouse off and no menu down; `ctlmouse` lends it to menus and alerts, and leaves its last parameter, whether
`v_show_c` forces the cursor, to what happens to be in `intin` (a choice). A program ends with no menu down. `mouse_init`
starts `HIDE_CNT` at 256, scaled to `Boot`. `v_hide_c` by a program while a menu is down and the request mode of `v_locator`
(which forces the count while the cursor is visible, and leaves a ghost) are left out.

### Serial: RS-232 under XON/XOFF

`Serial.tla` has both ends of a line, each with its input and output buffer counted in bytes (`rx`, `tx`), the receiver and
transmitter interrupts, `Bconin` and `Bconout`. `rcvrint` asks the other end to wait at the high mark and `Bconin` releases it at
the low one; the handshake byte goes before anything else but waits for the transmitter. An interrupt is served within
the time of a byte, and a byte goes from the transmitter's register to the line in that time. Data bytes are never XON
or XOFF. Flow control is XON/XOFF: in the unpatched ROM `Rsconf` turns RTS/CTS off when it is asked for
(`bios/chardev.S:1411-1421`, `system/tos14fx2.txt:10-15`). An end that waits sends no handshake
bytes either. An XOFF may be held back for that reason, and the history variable `withheld` excludes the loss this leads to. And when both ends ask the other to
wait and the two XOFFs cross, neither will ever send its XON: the line is dead (`Dead`), both programs having read all there was. The history variable `crossed`
excludes that from `NoStall`, and only that: `Owed` counts an XON an end will send only if it is free to send it.

### UserMemory: the memory of GEMDOS

`UserMemory.tla` is at the level of pointers. `heap` holds for every memory descriptor its link, start, length and
owner, the two list heads (as descriptors that are only a link, the way the code casts `&pmd`), the rover, and the state
of each block of `ofdbuf` (`x_flag`: -1 in use by the file system, 0 not in use, 1 descriptors). `run` is the chain of
processes from the first to the one that runs; `p_env` says for a base page where its environment is. `resident`
remembers the descriptors `Ptermres` takes off all lists.

| TLA+ | C |
|---|---|
| `mgetmd`, `xmdfree` | the pool; `NewBlock` makes a block one of descriptors |
| `freeit` = `PutInOrder`, `PutAfter`, `Insert`, `Join` | the search for the place, the insertion, joining with either neighbour |
| `ffit` = `Order`, `FirstFit`, `TakeFrom`, `Split`, `Allocate` | the search that starts after the rover and ends at it; `largest` is `ffit(-1)` |
| `xsetblk`, `xmfree`, `xmakeres`, `xmsetown`, `ixterm` | the same; the two loops over the allocated list are `Sweep` |
| `Malloc`, `Mfree`, `Mshrink`, `Pexec`, `PexecGo`, `Pterm`, `Ptermres` | the calls; what Pexec could load is a choice |
| `mgetofd`, `oftdel`, `Reclaimable` | the file system takes and returns blocks of the pool; `fsgetofd` gives one back on demand |

A search that would not end and `foldermsg`, which stops the system, set `halted`. Programs are assumed to free and
shrink what is theirs and not the base page of a running program, and not to shrink anything to nothing: that call, in
`ZeroSpec`, breaks the lists. Amounts are counted in units and positive: `ffit` takes a negative amount for one that any
block satisfies, and `Malloc(0)` splits off an empty block; neither is modelled. `osuser`'s wrap is ignored.

### CurDirs: directories in memory

`CurDirs.tla` models the tree of directory nodes (DND) of one drive, the pool they and open files take their blocks from,
and the table of current directories. `findit` follows a path and makes nodes; `mgetofd` takes one back from the tree when the
pool is empty (`fsgetofd`, `GiveUp`); `Dsetpath`, `Pexec` and `Pterm` count in `diruse`. Calls are atomic, but a node that the call has
not marked may be taken back at each `mgetofd` of it. The root's own blocks are not of the pool; names of directories are
unique on the drive. Programs do not delete the root or a current directory (the check at `fsdir.c:652-660` is compiled
out); `xrmdir` loses the block of the OFD it has opened, which `leaked` remembers. The medium is changed only while no
process waits for another. Errors of the disk, and a disk that is full, are left out.

### FileTable: open files

`FileTable.tla` models handles from the program's number down to the directory entry: `f_own`, `f_use`, `f_ofd` are
`sft`; `p_uft` holds -1 for a device and otherwise a handle, as in the code; `inuse` is the set of descriptors (OFD) in
use; `o_dirbyt` tells the entry a descriptor is for, `o_fileln`, `o_dirty` and `o_mod` are its fields; `d_files` is the list
of one directory as a sequence, newest first, and `f_fileln` the lengths in the directory, as the buffers have them. The
contents of files are not modelled; dates and first clusters go with the length.

| TLA+ | C |
|---|---|
| `ixclose`, `Drop`, `oftdel`, `Close` | `xclose` from where the handle is known: the entry is written if dirty, the OFD leaves the list, `--f_use` |
| `Stolen`, `opnfil` | `opnfil` and `makopn`, which takes the length from the newest OFD for the same entry |
| `Match`, `Refused`, `Closed`, `ixdel`, `Denied` | `ixdel`: two nested loops that close what is the caller's until something is not |
| `Fopen`, `Fcreate`, `Fdelete`, `Fclose`, `FcloseStd`, `Fdup`, `Fforce`, `FforceDevice`, `Fwrite` | the calls |
| `Inherit`, `Pexec`, `PexecFails`, `Pterm` | `xexec` (load and go) and `xterm` |
| `ixtermStd`, `ixtermSft`, `Ended` | the loops of `ixterm`, one `xclose` a step; `ending` is where they are |

`held`, `lost`, `written` and `eraser` are history: which handles their owners have not closed, how many references
`Fforce` has overwritten, what length a file should have, who deleted it. Programs close a handle once, use only
handles of their own, do not write through a handle after deleting its file, and do not open a file twice while one of
them may write it (`Alone`): GEMDOS 0.15 has no sharing modes (`bdos/fs.h:77` calls them not yet implemented). `Spec` also
leaves out two things that go wrong: deleting a file that has left the list while in use (`Hidden`), and duplicating a
handle of a file. `AnySpec` has both.

### FatMap and FatCache: the FAT behind its buffers

`FatCache.tla` models the FAT of one drive as `fsfat.c` keeps it: two copies on disk, the buffers of `bufl[BI_FAT]`, which the root
directory shares, the record `getdirrec` remembers in `dirrec`, and the walks over chains: `nextcl` of `Fread` and `Fwrite`, `xgscan16`,
seeking, deleting, `Dfree`. The FAT is an array of half bytes, three or four to an entry, so that a 12-bit entry may lie in
two records. A call is taken apart into its accesses to buffers; any may meet a disk error, and the order in which
`flushbcb` writes what is dirty to either copy is the code's. After an error files are only sought in, deleted and closed.
`FatMap.tla` is the promise: a table of cells, changed one entry at a time, a copy on disk that is brought up to date, and
an error that throws away what the disk has not got. `KeepsFat` is the refinement. `OnlyClfix` says that no entry changes by
itself, `FullWhenFull` that a write ends early only when no cluster is free (that is, among those `xgscan16` looks at: it never
gives out the last two of a drive). Left out: that `bufl`'s address is compared where its contents are meant, a definite media
change, and links that lead out of the drive.

### ByteFile and FileIO: reading and writing a file

`FileIO.tla` is `xrw`, `addit`, `usrio` and `ixlseek`: how a request becomes a part of a record, whole records, whole clusters and a part
again. A call is one action. Bytes are not modelled by their value: what counts is which byte is moved where, and whether
the copy it is moved from is the latest. The FAT is taken for a map, as `FatCache` justifies. `ByteFile.tla` is the promise, a file
as an array of bytes with a position; `MovesBytes` is the refinement. `NothingStale` says that the OFD's cluster and offset are those of its position
and that no record is read from a copy that is behind. `MCDisk` extends both `FatCache` and `FileIO`, so names that both have in the
code differ here: `Getrec`, `m_numcl` and `ENDOFCHAIN` are the `getrec`, `numcl` and end mark of `FatCache`.

### AESWindows: windows and what the screen shows

`AESWindows.tla` models the windows from their tree and rectangle lists up to each cell of a screen of 7x8. `brkrct`, `mkrect` and
`newrects` split and hand out rectangles from the pool of ORECTs; `draw_change` works out from the rectangles before and after
what to move on the screen (`bb_screen`), what to draw at once and whom to send a redraw (`w_redraw`, united in the pipe by `doq`).
`wm_find` finds the window under a point. Programs create, open, close and delete in order, do what redraws they have been
sent before they move a window, and put none at (0,0), which the code takes for closed. `WS_PREV` exists only within
`draw_change`. `low` is the fewest ORECTs free during the last call; below zero it tells that the pool, ten ORECTs a window in the code, was too small. Shadows are one
cell wide (`DROP_SIZE`; the code: 2), and their two far corners, which are never painted, are let be.

### Floppy and FloppyDriver: disks

`Floppy.tla` is about disks being exchanged. `Rwabs` and `Getbpb` run for GEMDOS in steps, between which time passes, the vertical
blank looks at the write-protect sensor of one drive in turn, and the user takes disks out and puts others in; with
one drive he is asked for the other disk (`fdchange`). Disks differ by their serial numbers. Assumptions: nobody changes a
disk within `fd_mediach` of an access; nor, unseen by the sensor, during a long transfer on the other drive (`seen`); a check that the
user has given up leaves a drive `unsure`. A wrong disk put in at the prompt is not noticed there (`fdchange` comes after
`ckmediach`). Programs that call `Getbpb` or `Floprd` themselves are left out, as is `Flopfmt` on drive B of a
one-drive machine, where `setdchg` marks drive A. `chgdrv`'s clearing of `diruse` is not modelled.

`FloppyDriver.tla` is one call of `floprd`, `flopwrt` or `flopver`: sectors are tried three times, before the last after the head
has been sent home and back. The controller knows the head by its track register; steps may be missed, commands time out, and
the head may be elsewhere to begin with. `bad` is `flopver`'s list.

### Console: editing a line

`Console.tla` is `Cconrs` on the console: keys typed ahead go through the ring that `constat` and `conbrk` fill, and each key becomes
characters printed and a column counted in `glbcolumn`. `doing` is the call with the variables of `cgets`. Whether a key has been
typed is a choice; a tab has `Tab` columns, the ring `KBBUFSZ` entries. A line fits the screen and begins where nothing is on
the right: `ConsoleAssumption` has room for the longest line there can be, of the widest keys, and wrapping is left out, as are the
printer, redirected handles and the retries of `constat`.

## The runs

| Run | Instance | Shows |
|---|---|---|
| `kernel_pipe` | 3 programs, 6 EVBs, 2 bits, pipes of 2 messages; evnt_multi for key or message and for message or mouse, reads and writes to any pipe | no lost wakeup, no stale bit or EVB, blocked readers and writers are served |
| `kernel_live` | 2 programs with nested wind_update, change of ownership, evnt_multi for time or mouse; 2 bits, a fork queue of 1; fairness | exclusion of the window semaphore, the inductive invariant of the proofs, every ready program runs, BEG_UPDATE is granted |
| `kernel_six` | 2 programs that wait for all six events, 10 EVBs | **violated** `EvbPool`: the pool of five EVBs per process is too small for evnt_multi |
| `interrupts` | a ring of 3 and 2 forks; 3 timers of 0, 2 or 3 ticks; a serial line; 2 programs and one button; 2 places and 2 forms of the cursor | the fork queue is a FIFO queue until an interrupt comes into the middle of a process's `forkq`; timers keep their times and end; no byte is lost and nobody waits in vain but for XOFFs that cross; clicks are counted; the cursor is right |
| `fork_queue_proc` | the ring of 3, beyond such an interrupt | **violated** `FillsRing`: a slot behind the ring is filled |
| `user_memory` | 4 units, 4 descriptors in 2 blocks, 3 processes, 1 resident; 4 blocks for 2 directories in 2 drives | no unit is lost or given out twice; lists, rover and pool are sound; nothing outlives its owner; what is free can be had; the tree of directories is one, and processes stay where they are |
| `user_memory_zero` | 3 units, with Mshrink to zero | **violated** `RestoredAtEnd`: the free list stays a loop |
| `file_table` | 2 entries of `sft`, 2 files of length 0 or 1, 2 base pages, 1 standard handle; 2 disks in 1 or 2 drives; a drive of 4 tracks; a line of 3 characters | use counts, closing and deleting of files; no disk is taken for another; every sector is delivered or its failure told; the line shown is the line returned |
| `file_table_any` | the files, with everything allowed | **violated** `DeleteSparesOthers`: a child deletes the file its parent has as standard output |
| `disk` | 2 files, 2 buffers, 4 clusters, one disk error; a FAT of 16 bits in 3 records or of 12 bits in 2; data in 2-byte records, 2 to a cluster | buffers and copies of the FAT agree with the promise, chains stay apart, a write ends early only on a full disk, bytes go where they should |
| `disk_12` | 1 file, 2 buffers, 6 clusters, 12 bits in 3 records, no error | **violated** `OnlyClfix`: an entry in two records is lost |
| `windows` | the desktop and 2 windows, 8 ORECTs, a screen of 7x8 | rectangle lists divide the screen, cells show what is on top or are about to be redrawn, the ORECTs are just enough, `wm_find` finds what is shown |

### Bounds

*AES.* Three programs are the fewest for which two wait for what the third has; TOS itself runs the application, the
screen manager and six accessories, which meet only on the same lists. Pipes of two messages fill, block a writer and
are emptied again (the code's hold eight). `NFORKS = 1` makes the fork queue overflow (the code has 32), one
character fills a key queue (the code: 8). `MaxNest = 2` is the least at which an inner `END_UPDATE` differs from the
outer one. `MaxIrq` limits the interrupts and keys between two switches to one. `Irqs` says which interrupts queue forks: in `kernel_pipe` those of the mouse, besides the keys, which `chkkbd` polls.
There states that differ only in the numbers of the EVBs in use are taken for one (`VIEW EvbsAlike`): nothing the kernel does depends on
which EVB it gets, and a process's EVBs are told apart by their bits.

*Interrupts.* Once the fork queue is torn, its indices run away, and the run does not follow them (`BeyondTear`). A ring of three slots has full, empty and wrapped states, all distinct, and two forks tell slots apart; their values are never
compared with each other by the code. Times 0, 2 and 3 put timers before, between, behind and level with each other.
`Longest = 4` bounds how long the fork queue may stay full, that is how many ticks the counter may gather. A serial buffer
holds 7 with marks 0 and 2 (the code: 256, 64 and 192): what counts is how many bytes may come after XOFF has been asked for,
and the buffer has room for them and no more. Double clicks are the most (`MaxClicks`); a click may take `gl_dclick = 2` ticks, and words of 16 values
have room for them as those of the code have for theirs. Two places and two forms of the cursor, and a program that hides it
twice, tell one apart from the other.

*Memory.* Four units are an environment, a base page and two blocks beside them, or two generations of programs; with
four descriptors besides the BIOS's own the pool is exhausted while memory is left and while blocks of it are lent to
directories. The view of `user_memory` identifies states that differ in what unused descriptors hold, which `mgetmd`
clears before it is read, and in which descriptor of a block stands for a piece of memory. A tree of two directories has a
directory in another or beside it; with four blocks for nodes and descriptors they must be given up to go on.

*Files and disks.* Two entries of `sft` are a redirected file and a second opening of it, or a second file, or a duplicated device; with two
the table also fills up. With two base pages a program starts one program after another at the same address, so that
what the first left behind meets the second. `MaxLost = 1` bounds how often `Fforce` overwrites a reference; more do the
same again. The view leaves out the standard handles in dead base pages and the fields of descriptors not in use, and
files and descriptors are interchangeable. `MaxFaults = 3` lets all three tries at a sector fail. One of the disks is protected; a
user exchanges one at a time (`MaxMoves`). With two buffers for three records of a FAT and the root every record is thrown out and fetched again. Four
clusters make the disk full with two files. In `windows` the screen is as small as two windows with borders, side by side or
overlapping and partly off the screen, allow. `NUM_ORECT = 8` is the least with which `ScreenShows` holds for two windows: at
times all of them are in lists, so that one that is lost or kept too long shows. The code has ten a window.

### Fairness

`Fairness` in `AESKernel` is weak fairness of the kernel's own steps, which follow each other without a wait, and of each
program's next call: a program that computes for ever without calling the AES does stop the system, and no claim is
made about that. `PoliteSpec` adds that programs end what they begin: a program holding the screen calls `END_UPDATE`
again and again, the outermost one too. `ScreenGranted` further supposes that no holder sleeps for ever with the screen in
hand, and is claimed for two programs only: with three, two can hand the screen to each other for ever, because `unsync` serves the newest waiter (`aes/gemflag.c:154`).
Interrupts are never fair there. In `AESTimer` the clock ticks for ever and `forker` runs what was queued: the tick
interrupt is periodic, and a running program that never calls the AES again is excluded as above. The other modules state no
fairness, and no liveness.

No run constrains the state space beyond the guards named above; `kernel_pipe` alone has a view, besides its symmetry. Deadlock is checked everywhere except in
`file_table_any`, `user_memory` and `user_memory_zero`, where `foldermsg` or an endless search may stop the system.

## The proofs

Eight modules hold theorems: `AESKernel_proofs`, `Interrupts_proofs` (`ForkQueue`, `AESTimer`, `Clicks`, `Cursor`),
`Devices_proofs` (`Serial`, `Floppy`, `FloppyDriver`, `Console`), `FileTable_proofs`, `FatCache_proofs`, `FileIO_proofs`,
`UserMemory_proofs` and `AESWindows_proofs`. All are proved for every value of the constants that satisfies the module's assumption, and rest on nothing else, except
where the table says so.

| Theorem | Says | Assumes |
|---|---|---|
| `KernelInvariant`, and `WakeupsNotLost`, `BitsAreEvbs`, `PipesServe`, `ScreenExclusive` and others from it | the safety properties of the AES kernel | `KernelAssumption` |
| `RingInvariant`, `RingImplementsFifo` | the ring's indices agree, and it implements `ForkFifo`, until an interrupt queues a fork in the middle of a process's `forkq` | `ForkAssumption` |
| `AlwaysArmed`, `NeverEarly`, `TimersRefine` | the tick interrupt is armed, no timer ends early but by uncharged ticks, `AESTimer` implements `Countdown` | `TimerAssumption` |
| `WaitsCounted`, `ButtonSettles` | `gl_bpend` is right; programs see the button as it is | `ClickAssumption` |
| `CursorAlwaysRight` | `CursorRight`: no traces, no half form, what the program has asked for | `CursorAssumption` |
| `NeverStalls`, `DeadForGood`, `NothingLost` | nothing stays behind at a serial line, and who waits is owed an XON that can be sent, unless XOFFs have crossed; where both ends wait that is for good; no byte is lost | `SerialAssumption`, and `high + 6 <= size` for the third |
| `UseCountsHold`, `NothingOutlivesHolds`, `ClosesWellAlways`, `DeleteSpares` | the properties of `file_table` | `FileAssumption` |
| `RightDiskAlways`, `DeliveredAlways` | no disk is taken for another; every sector is delivered or its failure told | `FloppyAssumption`, `DriverAssumption` |
| `LineAlwaysShown` | while `Cconrs` waits for a key the screen shows the line as typed and nothing behind it | `ConsoleAssumption` |
| `MemorySound`, `MemoryOwned`, `MemoryServed` | user memory: blocks, lists, rover and pool are sound; no block outlives its owner; what is free can be had | `MemoryAssumption` |
| `CopiesAlwaysAgree`, `PointerAlwaysHolds` | the copies of the FAT, and `dirrec` | `FatAssumption` |
| `BuffersAlwaysHold`, `ImplementsMap`, `OnlyClfixChanges`, `FullOnlyWhenFull` | the FAT behind its buffers is `FatMap`'s table | `FatAssumption` and `NoneSpans` |
| `ChainsAlwaysOK` | `ChainsOK`: between calls each file's chain ends, no two meet, and all other clusters are free | the same |
| `FileSound`, `FileMovesBytes` | a file's position, cluster and buffers agree; `FileIO` implements `ByteFile` | `IOAssumption` |
| `WindowsInvariant`, `ListsDivideScreen`, `TreeAndActive` | rectangle lists divide the screen; the tree of windows is sound and its last one is active | `WindowAssumption` |
| `ClicksFindShown` | `wm_find` names the window that is shown, in every state in which `ScreenShows` holds | the same |

The arguments:

- **AESKernel.** `KernelInv` is inductive, and says more than the properties of the runs because those are not. Where a
  process is on the lists depends on where it is in its call (`CallState`); that `mwait` tests before it sleeps matters
  only together with `MaskState` (a sleeper waits for exactly the bits it passed, none of them satisfied); a satisfied
  bit stands for an EVB on the zombie list only if bits and EVBs correspond one to one (`EvbState`); and the queues of
  the semaphore and the pipes must hold distinct, live EVBs of blocked calls, none of them of `evnt_multi`, lest `acancel`
  take one away (`QueueState`). `WindowLock` needs to know where the waiters are: each has nothing else to wait for, and
  owns the semaphore exactly when it has been woken (`LockState`). One lemma per conjunct goes through the actions.
- **ForkQueue.** `RingFits` is inductive as long as the queue is not torn: at any moment one of the two frames at most is between the test of `fpcnt` and
  its increment, and while the process is there no handler runs. `Fill` maps to `Put`, `TakeOut` to `Take`, `Ran` to `Run`, everything else to a stutter.
- **AESTimer.** What a timer has left is a sum along the list. The model has it as the sum of the prefix that ends at the timer, a
  recursive function of the length; `Sums` says that the prefix sums of a list are the one function that grows by the list's elements,
  and what insertion, removal and a tick do to the list is then shown for them element by element. `TimerInv` adds to `Armed` that no
  timer has more left than any asked for (`Within`), and that what a timer may still ask for and what is uncharged is not more than it
  has left (`Owing`).
- **Clicks.** `Delays` bounds `gl_bdelay` by what the clicks gathered so far can have set it to, so that it never passes zero
  without a tick seeing it. `Reported` says that either the button as it is is what programs will see when the queue has
  been drained (`Becomes`), or it is being gathered, or `mchange` is about to report it.
- **Cursor.** A call of the AES leaves a list of calls of the VDI, and what it has written into `gl_mouse` and `gl_moff` becomes
  true when they have been made. `Course` says that: the calls lead from where the VDI is (`Stage`) to what the AES takes
  it to be (`Meets`), each allowed when its turn comes. That is stated as the existence of the states passed through (`Leads`) and not by recursion
  along the list; a call added at the end prolongs it, one made at the front shortens it. From `Course` follows what the screen depends on
  (`Device`), and from that, step by step, where the cursor is drawn and what lies behind it (`Picture`), and that it has
  followed the mouse or is about to (`Followed`).
- **Serial.** The receiver stays below the high mark until it has asked the other end to wait; then at most six more bytes come: those in the
  transmitter, on the line and in the interrupts' hands, and those sent while the XOFF waits behind a byte. `OwedInv` says that who was told to wait is owed an XON,
  wherever on its way the last handshake byte is (`Told`). `CrossInv` says that an end that waits while its own XOFF is still under way is in `crossed`,
  and that of two ends that wait one at least is: an end that waits sends no new XOFF.
- **FileTable.** `FileInv` is an invariant of `AnySpec`. Use counts alone would be inductive but for the second loop of `ixterm`,
  which closes what the process has opened without asking who else has it: that an entry it closes is no longer
  referred to needs `Below` (a standard handle leads to what its process or one before it in the chain opened), and that
  the process at the end of the chain is in it once, `Chain`. `Left` says what the loop has done so far. `OfdInv` is an invariant
  of `Spec`: each descriptor in use is that of one entry (`OneEach`), is on the list of the directory (`Listed`), is alone if it may write
  (`Writers`), and holds the length the directory has not got (`Behind`).
- **UserMemory.** The model follows links (`Chain`); the invariant does not. `Fits` says that there are two sequences of
  descriptors whose links are those of the free and the allocated list (`Follows`), with distinct elements, that together with the resident
  blocks they divide the memory (`Tiled`), that the free one is in order of address (`Ordered`), and that the pool knows what is used
  (`Pool`). `ChainIs` shows that a chain of links is such a sequence, if it is no longer than there are descriptors. Its last argument
  is the set of places at which two free neighbours may touch: empty between calls, and what `Insert` has opened and the two `Join`s close
  within `freeit`. Each operator has its lemma, from `mgetmd` (`MgetmdFresh`) to the loops of `ixterm` and `xmakeres` (`SweepFits`), whose turns are counted by what is
  left of the list. Who owns what is `Family`. That every allocated block belongs to a running process is not inductive, because
  `PexecGo` makes a process of a page that has been set up and gives it that page and what `p_env` says is its environment, and because a page is itself a
  block with an owner: if that owner ended first, a running process would be without its base page. So `Family`
  says that a base page belongs to itself or to a process started before, and, by way of a number `t` that tells when each program was set up, that no process is
  given the page of one that runs already as its environment. `MemInv` is both, and
  holds whether or not memory or descriptors run out. `MemoryServed` then follows from the lists alone: units in a row that no
  allocated or resident block has lie in one free block, because neighbours are joined, and the search comes to every free block, because the rover is on the list.
- **Floppy.** A drive whose disk may have been changed is one of which the code knows: `Noticed`, with `Watched` for the
  disks exchanged since the last look at the sensor, and `Asking` and `Moving` for a call under way.
- **FloppyDriver.** `Passed` says which sectors are behind the call and how; `Reasons` says what has gone wrong, at least, when it gives one up, and for that
  where head and track register are after each try.
- **Console.** `LineShown` speaks of the moments when nothing is left to print; `ConsoleInv` says what holds between them. A line is being printed,
  and what is left to print is what its text has after the column the cursor is in (`Printing`); or columns behind it are being rubbed out, each in three
  signs (`Rubbing`); or it begins anew after `#` and a new line (`Restarting`); or the call returns. That the three loops of the code agree rests on
  `ColumnIs`: the column `backsp` computes is the one `cookdout` has printed up to, key by key, which is shown for the recursive functions
  `column` and `Cooked` by building the sequence of their values. The proof also made `Shown` and `conout` name the keys that do not move the cursor (`Silent`).
- **FatCache.** `Sound` is inductive for any drive: no record is in two buffers, and the copies differ only where a write was
  interrupted. The rest needs that a buffer marked clean has what the disk has (`CleanMatches`), and that is false when an entry may lie in two records, as
  `disk_12` shows. `NoneSpans` says that none does, which holds for every 16-bit FAT. Then each access to buffers is one of
  `BufferStep`'s, and `KeepsFat` maps every step to one of `FatMap`'s or a stutter. `Scanned` carries what
  the search has seen of the FAT to the point where it gives up. For the chains, `ChainInv` does not follow links: as long as no disk error
  came, there is a layout, a sequence of clusters for each file, of which the map of links is the image (`Laid`), with each file's first and
  current cluster in it (`Owns`). Two exceptions make it inductive: between its two calls of `clfix`, `nextcl` has a last cluster that is
  linked but not yet marked as the last (`Unended`), and while a file is deleted its layout is what the walk has left (`Deletes`). That
  `ChainFrom`, which does follow links, returns the layout is shown by a least counterexample. The proof needs of a drive what `FatAssumption`
  says: the numbers of its clusters are not taken for the end of a chain, and the files start with chains that are apart.
- **FileIO.** `IOInv` says that the file is a chain of clusters (`Chain`), long enough for its bytes, with the OFD at the `i`-th of them
  and `d` bytes into it (`At`, `Behind`): the position at the end of a cluster has two forms, an offset of all its bytes and one of 0, and
  the code leaves either. `Held` says the same of the buffers as `NothingStale`, and that no record is in two. A call is followed through `xrw` by a relation (`On`, `Fore`) between
  what it has moved so far and where the OFD is now. Each of the five parts has its lemma (`HeaderIs`, `HeaderRecordsIs`, `WholeClustersIs`,
  `TailRecordsIs`, `Tail0Is`), and `xrwIs` puts them together: where a part leaves the OFD, the next one takes for granted
  (`MidIs`, `MiddleIs`). Within the loop over whole clusters what is pending has been passed but not yet moved; `LoopIs` takes the loop apart into its turns, `ClusterIs` carries that
  through a turn, and `WholeClustersIs` from the first to the last. A request ends early only when `Rover` finds no free cluster (`nextclIs`), and that is what
  `ByteFile` calls a lack of room. `chainIs` shows that `chain`, which follows links, is the chain of the invariant, and `WalkIs` the same of
  the walk of `ixlseek`. The proof needed a stronger statement than the run had: `NothingStale` alone is not inductive, since a record in two
  buffers, or a chain that ends before the file does, would break it at the next call.
- **AESWindows.** `Sound` says of a sequence of windows that the links of the tree lead through it (`Links`), that the list of each is what no
  window after it covers, in rectangles that are apart (`Divided`), and that the last one is active (`Activated`); `WinInv` that there is such a
  sequence. A rectangle is four numbers in the proof and its cells are points that lie in it (`In`), so that what `brkrct` leaves is shown by
  comparing numbers (`BrkrctIs`); `mkrect` does that to a list (`MkrectIs`), `newrect` to the lists of all windows below (`NewrectIs`), and
  `newrects` goes from the desktop to the top (`ListsShare`). What a call draws changes neither (`Drawn`, `ChangedKeeps`). `OwnerIs` shows that the owner of a cell,
  which the model finds from the top, is the last window that has it. `ClicksFindShown` keeps `ScreenShows` as its premise: that
  `draw_change` leaves no stale cell is about the cells it moves or draws in some dozen cases, and only model-checked.

Only model-checked. Liveness (`ReadyRuns`, `ScreenGranted`, `TimerEnds`) is out of the prover's reach. The library's induction theorems are too,
and where a proof needs induction over data it is spelled out with a least counterexample or as the uniqueness of a function, as in `AESTimer`, `FileTable`,
`FatCache`, `FileIO`, `UserMemory`, `AESWindows` and `Console`. That is not done for trees in the order of a walk
(`DirsOK`, `StaysInDir`), nor for what `draw_change` draws (`ScreenShows`). What the runs with a violation check is not true.

## What the runs found

1. `kernel_six`. A program that waits for all six events of `evnt_multi` needs six EVBs; the pool has five per process, and
   `iasync` tests for an empty pool only around the unlinking and then uses the EVB it did not get.
2. `fork_queue_proc`. `forkq` is to be entered with interrupts off and `chkkbd`, `ap_tplay` and `b_delay` called by
   `mchange` do not. An interrupt between the increment of `fpt` and its wrap fills the slot behind `g_fpdx`; `fpt` is
   then past `NFORKS`, where the test for equality no longer finds it.
3. `user_memory_zero`. `Mshrink` to zero frees a block that stays on the allocated list; when its owner ends it is freed
   again and its descriptor becomes its own successor. It is not restored at the end of the program, as
   `system/tos14fx5.txt` has it.
4. `file_table_any`. The first `xclose` of a shared entry takes its OFD off the list of the directory though the entry
   stays open; `ixdel` then no longer sees that another process has the file open, and frees its clusters.
5. `disk_12`. `clfix` of a 12-bit entry in two records fetches the second record after the first; the fetch may write all dirty buffers of
   the FAT back and mark them clean, and the half stored afterwards in the first is lost with its buffer.

Met while modelling, and stated in the modules instead of being given a run: timers end early by ticks counted before they were
set (`NotEarly`); a handler that fires while `forker` takes a fork from a full ring overwrites it (`Spoiled`); a tick between
the halves of `b_delay` (`overtaken`) and `sh_main`'s clearing of `gl_bpend` (`miscounted`) in `Clicks`; with one drive `setdchg` of the desktop marks drive A whatever it has
formatted (`desk/deskdisk.c:365-367`); a transfer repeated after the user has given up at the prompt for the other disk (`bios/blkdev.c:388`); `v_locator` leaves a ghost of the cursor.

## Plan

Done: all the modules above, and the proofs of the table. To come, in this order:

1. A proof of `ScreenShows` of `AESWindows`, without which `FindsShown` has it as a premise, and of `DirsOK` and `StaysInDir` of `CurDirs`.
2. The screen manager as a process (the message it writes while it holds the semaphore), `mtrans` in `Clicks`, a media change in
   `FileTable`, `getosm` in `UserMemory`: the hazards `PROJECT.json` lists without a property.
3. The alphanumeric cursor (`vdi/escape.S`), which is drawn by an interrupt as the mouse is; `seedfill.c`, whose queue has a bound.
4. The tree of objects (`gemobed.c`) and `fm_do`; keyboard input of the BIOS.

Not planned: drawing, layout and text (objects, resources, file selector, desktop, most of the VDI), sequential code
over an application's own data; the parts of the BIOS that are assembler at hardware registers; the build tools.
