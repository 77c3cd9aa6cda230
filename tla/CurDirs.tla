------------------------------ MODULE CurDirs ------------------------------
(* The directories of a drive that GEMDOS keeps in memory, and the current *)
(* directories of processes (bdos/fsdir.c, fsfat.c, sup.c).  A directory   *)
(* node (DND) is made when a path leads through the directory and stays in *)
(* the tree until its block of the pool is wanted for something else; the  *)
(* current directory of a process is a slot of dirtbl, counted in diruse.  *)
(* A call is atomic.  Within a call nodes may be taken away at every       *)
(* mgetofd, but for those whose X_USER is the number of the call.          *)
EXTENDS Integers, Sequences, FiniteSets, SequencesExt, FiniteSetsExt

CONSTANTS
  Blocks,       \* the blocks of the pool of mgetofd, 1..n in order
  NCURDIR,
  PDs,          \* processes 1..n; each but the first is started by the one before
  Dirs,         \* names of directories other than the root
  Root, NULL,
  Filled,       \* directories that hold a file, if they exist
  Disks,        \* drives: what directory each directory is in, or NULL
  MaxChanges    \* bounds the changes of the medium

Nodes == Blocks \cup {Root}
RootOfd == 0                  \* the OFD of the root, not of the pool
Slots == 1..NCURDIR - 1

VARIABLES
  disk,             \* where each directory is on the medium
  mem,              \* the pool and the tree of DNDs, see Fresh
  dirtbl, diruse,   \* the current directories and their use counts
  p_curdir,         \* of each process: a slot, or 0 for none yet
  live,             \* the process that runs; those before it wait for it
  o_dnode,          \* of open files: block of the OFD -> directory node
  o_dirfil,         \* ... and -> the OFD of the directory
  leaked,           \* history: blocks nothing leads to any more
  changes           \* history: changes of the medium

vars == <<disk, mem, dirtbl, diruse, p_curdir, live, o_dnode, o_dirfil,
          leaked, changes>>

Running == 1..live
AllNull == [n \in Nodes |-> NULL]
Fresh == [
  x_flag |-> [b \in Blocks |-> 0],              \* whether the block is taken
  d_name |-> [n \in Nodes |-> IF n = Root THEN Root ELSE NULL],
  d_parent |-> AllNull, d_left |-> AllNull, d_right |-> AllNull,
  d_ofd |-> [n \in Nodes |-> IF n = Root THEN RootOfd ELSE NULL],
  d_dirfil |-> AllNull,
  seen |-> {},                                  \* X_USER is that of the call
  halted |-> FALSE]                             \* foldermsg

-----------------------------------------------------------------------------
(* The pool *)

\* the nodes of the tree as leftmost visits them
Preorder(m) ==
  LET sub[n \in Nodes \cup {NULL}] ==
        IF n = NULL THEN <<>>
        ELSE <<n>> \o sub[m.d_left[n]] \o sub[m.d_right[n]]
  IN  sub[Root]

\* mutant of Idle: current directories may be taken
Idle_current(m, n, has) ==
  n # Root /\ m.d_left[n] = NULL /\ n \notin has /\ n \notin m.seen

\* leftmost may take node n; has says which nodes have open files
Idle(m, n, has) ==
  /\ n # Root /\ m.d_left[n] = NULL /\ n \notin has /\ n \notin m.seen
  /\ \A i \in Slots : diruse[i] = 0 \/ dirtbl[i] # n

\* n is taken out of the tree
Unlink(m, n) ==
  LET up == m.d_parent[n]
  IN  IF m.d_left[up] = n THEN [m EXCEPT !.d_left[up] = m.d_right[n]]
      ELSE LET p == CHOOSE p \in Blocks : m.d_right[p] = n
           IN  [m EXCEPT !.d_right[p] = m.d_right[n]]

\* oftdel(b); what was in the block no longer counts
oftdel(m, b) ==
  [m EXCEPT !.x_flag[b] = 0, !.d_name[b] = NULL, !.d_parent[b] = NULL,
            !.d_left[b] = NULL, !.d_right[b] = NULL, !.d_ofd[b] = NULL,
            !.d_dirfil[b] = NULL]
WithoutOfd(m, n) == IF m.d_ofd[n] = NULL THEN m ELSE oftdel(m, m.d_ofd[n])

\* node n and the OFD it has are given up
GiveUp(m, n) == oftdel(Unlink(WithoutOfd(m, n), n), n)

\* fsgetofd: the first node leftmost finds is given up, or the system stops
GiveUpFirst(m, idle) ==
  IF idle = <<>> THEN [mem |-> [m EXCEPT !.halted = TRUE], at |-> NULL]
  ELSE [mem |-> GiveUp(m, Head(idle)), at |-> Head(idle)]
fsgetofd(m, has) ==
  GiveUpFirst(m, SelectSeq(Preorder(m), LAMBDA n : Idle(m, n, has)))

\* mgetofd returns block at
Marked(got) == IF got.at = NULL THEN got ELSE [got EXCEPT !.mem.x_flag[got.at] = -1]
Unused(m) == {b \in Blocks : m.x_flag[b] = 0}
mgetofd(m, has) ==
  Marked(IF Unused(m) # {} THEN [mem |-> m, at |-> Min(Unused(m))] ELSE fsgetofd(m, has))

HasFiles == {o_dnode[b] : b \in DOMAIN o_dnode}

-----------------------------------------------------------------------------
(* Paths *)

See(m, n) == [m EXCEPT !.seen = @ \cup {n}]

\* n gets an OFD if it has none
WithOfd(got, n) ==
  IF got.at = NULL THEN got.mem ELSE [got.mem EXCEPT !.d_ofd[n] = got.at]
makofd(m, n) ==
  IF m.d_ofd[n] # NULL THEN m ELSE WithOfd(mgetofd(m, HasFiles), n)

Children(m, n) == {c \in Blocks : m.d_parent[c] = n}

\* a new node for directory e of p, first among its siblings
FirstBelow(got, p, e) ==
  IF got.at = NULL THEN got
  ELSE [got EXCEPT !.mem.d_right[got.at] = got.mem.d_left[p],
                   !.mem.d_left[p] = got.at, !.mem.d_parent[got.at] = p,
                   !.mem.d_dirfil[got.at] = got.mem.d_ofd[p],
                   !.mem.d_name[got.at] = e]
GetDnd(m, p, e) == FirstBelow(mgetofd(See(m, p), HasFiles), p, e)

\* the node of directory e of p, or NULL: one there is or a new one
Known(m, p, e) == {c \in Children(m, p) : m.d_name[c] = e}
NodeOf(m, p, e) ==
  IF m.halted \/ disk[e] # m.d_name[p] THEN [mem |-> m, at |-> NULL]
  ELSE IF Known(m, p, e) # {} THEN [mem |-> m, at |-> CHOOSE c \in Known(m, p, e) : TRUE]
  ELSE GetDnd(m, p, e)
dirscan(m, p, e) == NodeOf(makofd(See(m, p), p), p, e)

\* one element of a path, from the node of r
Follow(r, e) ==
  IF r.at = NULL THEN r
  ELSE IF e = ".." THEN [r EXCEPT !.at = r.mem.d_parent[r.at]]
  ELSE IF Known(r.mem, r.at, e) # {}
  THEN [r EXCEPT !.at = CHOOSE c \in Known(r.mem, r.at, e) : TRUE]
  ELSE dirscan(r.mem, r.at, e)

\* ckdrv: the slot of process pd, when it has none or its slot is empty
NoSlot(pd) == p_curdir[pd] = 0 \/ dirtbl[p_curdir[pd]] = NULL
FreeSlots(use) == {i \in Slots : use[i] = 0}
ckdrv(pd) ==
  IF ~NoSlot(pd) THEN [tbl |-> dirtbl, use |-> diruse, cur |-> p_curdir[pd]]
  ELSE IF FreeSlots(diruse) = {} THEN [tbl |-> dirtbl, use |-> diruse, cur |-> 0]
  ELSE LET i == Min(FreeSlots(diruse))
       IN  [tbl |-> [dirtbl EXCEPT ![i] = Root],
            use |-> [diruse EXCEPT ![i] = @ + 1], cur |-> i]

\* findit, after ckdrv has answered s: path is <<whether absolute, elements>>
Reached(r) == IF r.at = NULL THEN r ELSE [r EXCEPT !.mem = See(@, r.at)]
From(n, elements) ==
  Reached(FoldLeft(Follow, [mem |-> See([mem EXCEPT !.seen = {}], n), at |-> n], elements))
findit(s, path) ==
  IF s.cur = 0 THEN [mem |-> mem, at |-> NULL]
  ELSE From(IF path[1] THEN Root ELSE s.tbl[s.cur], path[2])

\* scan(n): a directory is read, which takes an OFD
scan(m, n) == makofd(See(m, n), n)

-----------------------------------------------------------------------------
(* Calls of the running process *)

\* whether absolute, and the elements; ".." only where it may mean something
Steps(E) == {<<>>} \cup {<<e>> : e \in E}
              \cup ({<<d, e>> : d \in E, e \in Dirs} \ {<<d, d>> : d \in Dirs})
Paths == {<<TRUE, p>> : p \in Steps(Dirs)}
           \cup {<<FALSE, p>> : p \in Steps(Dirs \cup {".."})}

\* what a call leaves behind
Keep(m) == mem' = [m EXCEPT !.seen = {}]
Tables(s) ==
  /\ dirtbl' = s.tbl /\ diruse' = s.use
  /\ p_curdir' = [p_curdir EXCEPT ![live] = s.cur]
Handles == UNCHANGED <<o_dnode, o_dirfil>>
Medium == UNCHANGED <<disk, changes>>

\* A call on path: ckdrv, then findit, then Rest of what they leave.
\* (\E x \in {e} gives e a name.)
Call(path, Rest(_, _)) ==
  /\ live > 0 /\ ~mem.halted
  /\ \E s \in {ckdrv(live)} : \E r \in {findit(s, path)} :
       IF r.at = NULL \/ r.mem.halted
       THEN Tables(s) /\ Keep(r.mem) /\ Medium /\ Handles /\ UNCHANGED <<live, leaked>>
       ELSE Rest(s, r)

\* xchdir: the slot that has the directory, or the first free one
SlotFor(s, n) ==
  LET same == {i \in Slots : s.tbl[i] = n}
  IN  IF same # {} THEN Min(same)
      ELSE IF FreeSlots(s.use) # {} THEN Min(FreeSlots(s.use)) ELSE 0
\* mutant of Move: the slot left is not counted down
Move_kept(s, n) ==
  LET i == SlotFor(s, n)
  IN  IF i = 0 THEN s
      ELSE [tbl |-> [s.tbl EXCEPT ![i] = n],
            use |-> [s.use EXCEPT ![i] = @ + 1], cur |-> i]

Move(s, n) ==
  LET i == SlotFor(s, n)
      less == [s.use EXCEPT ![s.cur] = IF @ > 0 THEN @ - 1 ELSE @]
  IN  IF i = 0 THEN s
      ELSE [tbl |-> [s.tbl EXCEPT ![i] = n],
            use |-> [less EXCEPT ![i] = @ + 1], cur |-> i]
Dsetpath(path) ==
  Call(path, LAMBDA s, r :
    /\ Tables(Move(s, r.at)) /\ Keep(r.mem)
    /\ Medium /\ Handles /\ UNCHANGED <<live, leaked>>)

Fsfirst(path) ==
  Call(path, LAMBDA s, r :
    /\ Tables(s) /\ Keep(scan(r.mem, r.at))
    /\ Medium /\ Handles /\ UNCHANGED <<live, leaked>>)

\* Dcreate of e: a handle for it is opened and closed again
Returned(got) == IF got.at = NULL THEN got.mem ELSE oftdel(got.mem, got.at)
Dcreate(path, e) ==
  Call(path, LAMBDA s, r : \E m \in {scan(r.mem, r.at)} :
    /\ disk[e] \in {NULL, m.d_name[r.at]}
    /\ IF disk[e] = NULL /\ ~m.halted
       THEN /\ Keep(Returned(mgetofd(m, HasFiles)))
            /\ disk' = [disk EXCEPT ![e] = m.d_name[r.at]]
       ELSE Keep(m) /\ UNCHANGED disk
    /\ Tables(s) /\ Handles /\ UNCHANGED <<changes, live, leaked>>)

\* Ddelete.  Programs do not delete the root or a directory that is the
\* current one of a process: nothing in the code prevents it.
InUse(s, n) == \E pd \in Running :
  LET i == IF pd = live THEN s.cur ELSE p_curdir[pd] IN i # 0 /\ s.tbl[i] = n
Empty(name) == name \notin Filled /\ \A d \in Dirs : disk[d] # name

\* the node and the OFD it has are given back; the OFD xrmdir has made for
\* itself is not
xrmdir(m, n) ==
  IF m.d_ofd[n] # NULL THEN [mem |-> m, at |-> NULL] ELSE mgetofd(m, HasFiles)
Gone(m, n) == ~m.halted /\ Empty(m.d_name[n]) /\ m.d_left[n] = NULL

Ddelete(path) ==
  Call(path, LAMBDA s, r : \E own \in {xrmdir(r.mem, r.at)} :
    /\ r.at # Root /\ ~InUse(s, r.at)
    /\ Tables(s)
    /\ leaked' = leaked \cup ({own.at} \ {NULL})
    /\ IF Gone(own.mem, r.at)
       THEN /\ Keep(GiveUp(own.mem, r.at))
            /\ disk' = [disk EXCEPT ![own.mem.d_name[r.at]] = NULL]
       ELSE Keep(own.mem) /\ UNCHANGED disk
    /\ UNCHANGED <<changes, live>> /\ Handles)

\* a file of the directory is opened
Holds(m, n) == ~m.halted /\ m.d_name[n] \in Filled
Opened(got, n) ==
  /\ Keep(got.mem)
  /\ IF got.at = NULL THEN Handles
     ELSE /\ o_dnode' = (got.at :> n) @@ o_dnode
          /\ o_dirfil' = (got.at :> got.mem.d_ofd[n]) @@ o_dirfil
Fopen(path) ==
  Call(path, LAMBDA s, r : \E m \in {scan(r.mem, r.at)} :
    /\ Tables(s) /\ Medium /\ UNCHANGED <<live, leaked>>
    /\ IF Holds(m, r.at) THEN Opened(mgetofd(m, HasFiles), r.at)
       ELSE Keep(m) /\ Handles)

Without(f, S) == [b \in DOMAIN f \ S |-> f[b]]
CloseAll(m, S) == FoldSet(LAMBDA b, x : oftdel(x, b), m, S)
Fclose(b) ==
  /\ ~mem.halted
  /\ o_dnode' = Without(o_dnode, {b}) /\ o_dirfil' = Without(o_dirfil, {b})
  /\ Keep(oftdel(mem, b))
  /\ Medium /\ UNCHANGED <<dirtbl, diruse, p_curdir, live, leaked>>

\* Pexec opens and closes the file and passes the current directory on
Started(s, got) ==
  /\ Keep(Returned(got))
  /\ IF got.at = NULL THEN Tables(s) /\ UNCHANGED live
     ELSE /\ dirtbl' = s.tbl /\ live' = live + 1
          /\ diruse' = [s.use EXCEPT ![s.cur] = @ + 1]
          /\ p_curdir' = [p_curdir EXCEPT ![live] = s.cur, ![live + 1] = s.cur]
Pexec(path) ==
  Call(path, LAMBDA s, r : \E m \in {scan(r.mem, r.at)} :
    /\ live + 1 \in PDs
    /\ IF Holds(m, r.at) THEN Started(s, mgetofd(m, HasFiles))
       ELSE Keep(m) /\ Tables(s) /\ UNCHANGED live
    /\ Medium /\ Handles /\ UNCHANGED leaked)

\* the last process ends; which files are its own is in FileTable
Pterm(closed) ==
  /\ live > 1 /\ ~mem.halted
  /\ LET i == p_curdir[live]
     IN  diruse' = IF i # 0 /\ diruse[i] > 0 THEN [diruse EXCEPT ![i] = @ - 1]
                   ELSE diruse
  /\ p_curdir' = [p_curdir EXCEPT ![live] = 0] /\ live' = live - 1
  /\ o_dnode' = Without(o_dnode, closed) /\ o_dirfil' = Without(o_dirfil, closed)
  /\ Keep(CloseAll(mem, closed))
  /\ Medium /\ UNCHANGED <<dirtbl, leaked>>

\* freetree, after offree has given back the OFDs of open files
freetree(m) ==
  LET tree == ToSet(Preorder(m)) \ {Root}
      ofds == {m.d_ofd[n] : n \in tree} \ {NULL}
  IN  [CloseAll(m, tree \cup ofds) EXCEPT !.d_left[Root] = NULL]

\* chgdrv and adddrv.  Media are not changed while a process waits that has
\* a current directory: its slot would be given away.
MediaChange ==
  /\ ~mem.halted /\ changes < MaxChanges /\ changes' = changes + 1
  /\ live = 1
  /\ disk' \in Disks
  /\ o_dnode' = <<>> /\ o_dirfil' = <<>>
  /\ Keep(freetree(CloseAll(mem, DOMAIN o_dnode)))
  /\ diruse' = [i \in Slots |-> 0]
  /\ dirtbl' = [i \in Slots |->
       IF diruse[i] > 0 \/ dirtbl[i] \in ToSet(Preorder(mem)) THEN NULL ELSE dirtbl[i]]
  /\ UNCHANGED <<p_curdir, live, leaked>>

-----------------------------------------------------------------------------

Init ==
  /\ disk \in Disks /\ mem = Fresh
  /\ dirtbl = [i \in Slots |-> NULL] /\ diruse = [i \in Slots |-> 0]
  /\ p_curdir = [pd \in PDs |-> 0] /\ live = 1
  /\ o_dnode = <<>> /\ o_dirfil = <<>> /\ leaked = {} /\ changes = 0

Next ==
  \/ \E path \in Paths :
       \/ Dsetpath(path) \/ Fsfirst(path) \/ Ddelete(path)
       \/ Fopen(path) \/ Pexec(path)
       \/ \E e \in Dirs : Dcreate(path, e)
  \/ \E b \in DOMAIN o_dnode : Fclose(b)
  \/ \E closed \in SUBSET DOMAIN o_dnode : Pterm(closed)
  \/ MediaChange

Spec == Init /\ [][Next]_vars

-----------------------------------------------------------------------------

Tree == ToSet(Preorder(mem))
OfdsOf(S) == {mem.d_ofd[n] : n \in S} \ {NULL, RootOfd}

\* Whatever has been given up and taken again, the nodes are a tree of
\* directories that are on the medium, each where it is there; every block
\* taken is a node, the OFD of one node, or an open file's OFD; and an open
\* file leads to its directory and the OFD its entry is written through when
\* it is closed (fsfat.c:92, fsopnclo.c:58).
NodesOK ==
  /\ \A n \in Nodes : Cardinality({k \in DOMAIN Preorder(mem) : Preorder(mem)[k] = n}) <= 1
  /\ \A n \in Tree \ {Root} :
       /\ mem.d_parent[n] \in Tree
       /\ disk[mem.d_name[n]] = mem.d_name[mem.d_parent[n]]
       /\ mem.d_dirfil[n] = mem.d_ofd[mem.d_parent[n]]
  /\ \A m, n \in Tree : mem.d_name[m] = mem.d_name[n] => m = n
  /\ \A m, n \in Tree : mem.d_ofd[m] = mem.d_ofd[n] /\ m # n => mem.d_ofd[m] = NULL
  /\ {b \in Blocks : mem.x_flag[b] # 0}
       = (Tree \ {Root}) \cup OfdsOf(Tree) \cup DOMAIN o_dnode \cup leaked
  /\ \A b \in DOMAIN o_dnode :
       o_dnode[b] \in Tree /\ o_dirfil[b] = mem.d_ofd[o_dnode[b]]

\* The use count of a slot is the number of processes that are in its
\* directory, and that directory is in the tree (fsfat.c:28).
UseCounted ==
  \A i \in Slots :
    LET users == {pd \in Running : p_curdir[pd] = i /\ ~NoSlot(pd)}
    IN  diruse[i] = Cardinality(users) /\ (users # {} => dirtbl[i] \in Tree)

\* A process stays in its directory until it changes it, whatever the process
\* it has started does and whatever nodes are given up meanwhile.
Cwd(pd) == IF NoSlot(pd) THEN NULL ELSE mem.d_name[dirtbl[p_curdir[pd]]]
StaysInDir ==
  [][\A pd \in Running : pd # live /\ Cwd(pd) # NULL => Cwd(pd)' = Cwd(pd)]_vars
=============================================================================
