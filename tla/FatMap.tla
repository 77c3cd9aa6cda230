------------------------------- MODULE FatMap -------------------------------
(* What the FAT buffers of GEMDOS promise to the rest of the file system   *)
(* (bdos/fsfat.c): the FAT is a table of cells, changed one entry at a     *)
(* time, with a copy on disk that is brought up to date now and then.      *)
(* Nothing changes an entry by itself, but for a disk error, which throws  *)
(* away whatever the disk has not got.                                     *)
EXTENDS Integers

CONSTANT Clusters   \* the clusters whose entries the file system sets

VARIABLES
  w,      \* cells (half bytes) of an entry: 3 or 4
  fat,    \* the table, a value for each cell
  disk,   \* the copy on disk
  errs    \* disk errors so far

mapVars == <<w, fat, disk, errs>>

EntryCells(cl) == w * cl .. w * cl + w - 1
Same(f, g, S) == \A c \in S : f[c] = g[c]
\* g is f with some cells brought up to date from h
Towards(f, g, h) ==
  DOMAIN g = DOMAIN f /\ \A c \in DOMAIN f : g[c] \in {f[c], h[c]}

MapInit == fat = disk /\ errs = 0

\* an entry is given another value
Set(cl) ==
  /\ DOMAIN fat' = DOMAIN fat
  /\ Same(fat', fat, DOMAIN fat \ EntryCells(cl))
  /\ UNCHANGED <<w, disk, errs>>

\* some cells are written to disk
WriteBack == Towards(disk, disk', fat) /\ UNCHANGED <<w, fat, errs>>

\* a disk error, perhaps after some cells have been written
Fail ==
  /\ Towards(disk, disk', fat) /\ fat' = disk'
  /\ errs' = errs + 1 /\ UNCHANGED w

MapNext == (\E cl \in Clusters : Set(cl)) \/ WriteBack \/ Fail

MapSpec == MapInit /\ [][MapNext]_mapVars
=============================================================================
