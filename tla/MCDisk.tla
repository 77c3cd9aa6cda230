------------------------------- MODULE MCDisk -------------------------------
(* Instances for TLC of bdos/fsfat.c: the buffers of the FAT (FatCache)    *)
(* and the transfer of data (FileIO).  FileIO takes the FAT for a map, as  *)
(* FatCache shows it to be, and so each is checked by itself: a behaviour  *)
(* is one of either.                                                       *)
EXTENDS FatCache, FileIO

CONSTANT Parts   \* what is checked: "fat", "data"
VARIABLE part

\* a 16-bit FAT of three records, which Mediach makes getrec read again now
\* and then, and a 12-bit FAT of two records with one entry in both
GeomsHold ==
  {[w |-> 4, rs |-> 8, may |-> TRUE], [w |-> 3, rs |-> 10, may |-> FALSE]}
\* a 12-bit FAT of three records
Geoms12 == {[w |-> 3, rs |-> 8, may |-> FALSE]}

\* one file of one cluster
Chains4 == {("f" :> <<4>>) @@ ("g" :> <<>>)}
Chains6 == {("f" :> <<6>>)}

\* a disk with a gap and a nearly full one
Disks == {{3, 5}, {2, 4, 6}}

MCInit ==
  /\ part \in Parts /\ Init /\ IOInit
  /\ part # "fat" => w = 3
  /\ part # "data" =>
       {c \in Clnums : fat[c] # FREE} = CHOOSE taken \in Layouts : TRUE

MCNext ==
  \/ part = "fat" /\ Next /\ UNCHANGED <<part, iovars>>
  \/ part = "data" /\ IONext /\ UNCHANGED <<part, vars>>

MCSpec == MCInit /\ [][MCNext]_<<part, vars, iovars>>

Symmetry == Permutations(Bufs)
=============================================================================
