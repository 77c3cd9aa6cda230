---------------------------- MODULE MCUserMemory ----------------------------
(* Instances for TLC of the user memory and of the directories in memory,  *)
(* which take their descriptors from the same pool of blocks.  UserMemory  *)
(* has directories take and give back whole blocks at any time; CurDirs    *)
(* shows when they do.  A behaviour is one of either.                      *)
EXTENDS UserMemory

CONSTANTS
  Parts,                    \* what is checked: "memory", "dirs"
  Dirs, Filled, Disks, DirBlocks, Root, None, MaxChanges    \* of CurDirs

VARIABLES part, disk, mem, dirtbl, diruse, p_curdir, live, o_dnode, o_dirfil,
          leaked, changes

D == INSTANCE CurDirs WITH
       Blocks <- 1..DirBlocks, NCURDIR <- 3, PDs <- {1, 2}, NULL <- None
dirvars == <<disk, mem, dirtbl, diruse, p_curdir, live, o_dnode, o_dirfil,
             leaked, changes>>

\* b lies in a; the other drives come about by Dcreate and Ddelete
Drives == {[d \in Dirs |-> IF d = "a" THEN Root ELSE "a"]}

MCInit == part \in Parts /\ Init /\ D!Init
MCNext ==
  \/ part = "memory" /\ Next /\ UNCHANGED <<part, dirvars>>
  \/ part = "dirs" /\ D!Next /\ UNCHANGED <<part, vars>>
MCSpec == MCInit /\ [][MCNext]_<<part, vars, dirvars>>

\* Two states are one when they differ in what is left in descriptors not in
\* use, which mgetmd clears before anything reads it, or in which descriptor of
\* a block stands for what: all of a block are taken and released alike.
View ==
  LET Seen(m) == <<Block(m), heap.start[m], heap.length[m], heap.own[m]>>
      Unowned(m) == <<Block(m), heap.start[m], heap.length[m]>>
  IN  <<[i \in DOMAIN free |-> Unowned(free[i])], [i \in DOMAIN mal |-> Seen(mal[i])],
        {Unowned(m) : m \in resident},
        IF heap.rover = NULL THEN 0 ELSE heap.start[heap.rover],
        heap.x_flag, heap.halted, run, p_env, part, dirvars>>

\* Nodes, their blocks and the open files fit together, and a slot is counted for
\* each process that is in its directory.
DirsOK == D!NodesOK /\ D!UseCounted
\* A process stays in its directory.
StaysInDir == D!StaysInDir
=============================================================================
