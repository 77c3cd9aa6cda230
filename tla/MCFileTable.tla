---------------------------- MODULE MCFileTable ----------------------------
(* Instances for TLC of what is behind a handle: open files, and, apart    *)
(* from them, exchanged disks (Floppy), calls of the disk driver           *)
(* (FloppyDriver) and the console.  A behaviour is one of the parts.       *)
EXTENDS FileTable, Floppy, FloppyDriver, Console, TLC

CONSTANT Parts   \* what is checked: "files", "disks", "driver", "console"

VARIABLE part

ASSUME Instances == FloppyAssumption /\ DriverAssumption /\ ConsoleAssumption

MCInit ==
  /\ part \in Parts /\ Init /\ FloppyInit
  /\ part # "disks" => nflops = 1 /\ disk[0] = none
  /\ DriverInit
  /\ part # "driver" => op = "read" /\ count = 1 /\ {fd_track, head, reg, fd_curtrack} = {0}
  /\ ConsoleInit

MCNext ==
  \/ part = "files" /\ Next /\ UNCHANGED <<part, floppyvars, drivervars, consolevars>>
  \/ part = "disks" /\ FloppyNext /\ UNCHANGED <<part, vars, drivervars, consolevars>>
  \/ part = "driver" /\ DriverNext /\ UNCHANGED <<part, vars, floppyvars, consolevars>>
  \/ part = "console" /\ ConsoleNext /\ UNCHANGED <<part, vars, floppyvars, drivervars>>
MCAnyNext == part = "files" /\ AnyNext /\ UNCHANGED <<part, floppyvars, drivervars, consolevars>>

MCSpec == MCInit /\ [][MCNext]_<<part, vars, floppyvars, drivervars, consolevars>>
MCAnySpec == MCInit /\ [][MCAnyNext]_<<part, vars, floppyvars, drivervars, consolevars>>

\* Base pages of processes that have ended and descriptors not in use are never read.
View ==
  <<sft, [p \in (Live \cup {ending.pd}) \ {NULL} |-> p_uft[p]], run, ending,
    [o \in inuse |-> <<o_dirbyt[o], o_mod[o], o_fileln[o], o_dirty[o], eraser[o]>>],
    d_files, f_fileln, halted, held, lost, written, part, floppyvars, drivervars, consolevars>>

Symmetry == Permutations(OFDs) \cup Permutations(Files) \cup Permutations(PDs \ {ospd})
=============================================================================
