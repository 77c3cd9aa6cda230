----------------------------- MODULE UserMemory -----------------------------
(***************************************************************************)
(* The user memory of GEMDOS: the free and the allocated list of memory    *)
(* descriptors with their rover (bdos/umem.c), the pool the descriptors    *)
(* come from (bdos/osmem.c), and the processes that are given memory by    *)
(* Pexec and give it back when they end (bdos/proc.c).                     *)
(*                                                                         *)
(* Memory is counted in units of one even number of bytes.  A process is   *)
(* known, as in the code, by the address of its base page.                 *)
(***************************************************************************)
EXTENDS Integers, Sequences, FiniteSets

CONSTANTS
  Size,           \* units of memory, at addresses 1..Size
  NBLOCKS,        \* blocks of ofdbuf
  MDS_PER_BLOCK,  \* descriptors in a block
  PDLEN,          \* units of a base page
  ENVLEN,         \* units of an environment
  Amounts,        \* units programs ask Malloc for
  MaxProcs,       \* bound: processes that have been started and not ended
  MaxResident     \* bound: blocks that Ptermres has kept

ASSUME MemoryAssumption ==
  /\ Size \in Nat \ {0} /\ NBLOCKS \in Nat \ {0}
  /\ MDS_PER_BLOCK \in Nat \ {0, 1}
  /\ PDLEN \in Nat \ {0} /\ ENVLEN \in Nat \ {0} /\ MaxProcs \in Nat \ {0}
  /\ MaxResident \in Nat
  /\ Amounts \subseteq Nat \ {0}

VARIABLES
  heap,      \* descriptors, list heads, rover and pool
  run,       \* the processes, each after its parent; the last one runs
  p_env,     \* the environment of the base page at an address
  resident   \* history: descriptors of the memory kept by Ptermres

vars == <<heap, run, p_env, resident>>

NULL == 0
MFL == -1       \* mp_mfl and mp_mal, seen as descriptors that are only a link
MAL == -2
MF_FREE == -1   \* m_own of a descriptor not in use
NOBODY == -2    \* m_own of a descriptor just taken
ospd == 0       \* the first process; its base page is not in user memory

Blocks == 1..NBLOCKS
themd == NBLOCKS * MDS_PER_BLOCK + 1    \* the descriptor of the BIOS
MD == 1..themd
Block(m) == ((m - 1) \div MDS_PER_BLOCK) + 1
buf(b) == {m \in MD \ {themd} : Block(m) = b}
Addr == 1..Size

Lowest(S) == CHOOSE x \in S : \A y \in S : x <= y
Highest(S) == CHOOSE x \in S : \A y \in S : x >= y

\* the descriptors from m on; longer than MD is large when the list is a loop
Chain(h, m) ==
  LET to[n \in 0..themd] ==
        IF n = 0 THEN <<m>>
        ELSE LET s == to[n - 1]
                 x == h.link[s[Len(s)]]
             IN  IF x = NULL THEN s ELSE Append(s, x)
  IN  IF m = NULL THEN <<>> ELSE to[themd]

Free(h) == Chain(h, h.link[MFL])
Allocated(h) == Chain(h, h.link[MAL])
Loop(s) == Len(s) > themd
Elements(s) == {s[i] : i \in DOMAIN s}

\* the system stops: foldermsg, or a search that does not end
Halt(h) == [h EXCEPT !.halted = TRUE]
-----------------------------------------------------------------------------
\* blocks in use as descriptors with one left, and blocks not in use
Partly(h) == {b \in Blocks : h.x_flag[b] > 0 /\ \E m \in buf(b) : h.own[m] = MF_FREE}
Idle(h) == {b \in Blocks : h.x_flag[b] = 0}

Taken(h, m) ==
  [md |-> m, heap |-> [h EXCEPT !.own[m] = NOBODY, !.link[m] = NULL,
                                !.start[m] = 0, !.length[m] = 0]]

\* a block becomes one of descriptors, and its last one is taken
NewBlock(h, b) ==
  Taken([h EXCEPT !.x_flag[b] = 1,
                  !.own = [m \in MD |-> IF m \in buf(b) THEN MF_FREE ELSE h.own[m]]],
        Highest(buf(b)))

\* mgetmd: a descriptor from a block in use as descriptors, else from a block
\* not in use, else from the block rb that fsgetofd takes from the directories
\* (the OFD fsgetofd gives back with it is an oftdel)
mgetmd(h, rb) ==
  IF Partly(h) # {}
  THEN Taken(h, Lowest({m \in buf(Lowest(Partly(h))) : h.own[m] = MF_FREE}))
  ELSE IF Idle(h) # {} THEN NewBlock(h, Highest(Idle(h)))
  ELSE IF rb # NULL THEN NewBlock(h, rb)
  ELSE [md |-> NULL, heap |-> h]

xmdfree(h, m) ==
  IF m = themd \/ h.own[m] = MF_FREE THEN Halt(h)
  ELSE IF h.x_flag[Block(m)] <= 0 THEN Halt(h)
  ELSE [h EXCEPT !.own[m] = MF_FREE]

\* mutant: a list that was empty keeps no rover
Insert_norover(h, m, p1, p) ==
  [h EXCEPT !.link = [@ EXCEPT ![m] = p, ![IF p1 = NULL THEN MFL ELSE p1] = m]]

\* freeit: into the free list, between p1 and p
Insert(h, m, p1, p) ==
  [h EXCEPT !.link = [@ EXCEPT ![m] = p, ![IF p1 = NULL THEN MFL ELSE p1] = m],
            !.rover = IF @ = NULL THEN m ELSE @]

\* mutant: the descriptor taken over is not given back
Join_keeps(h, m, p) ==
  IF m = NULL \/ p = NULL THEN h
  ELSE IF h.start[m] + h.length[m] # h.start[p] THEN h
  ELSE [h EXCEPT !.length[m] = @ + h.length[p], !.link[m] = h.link[p],
                 !.rover = IF @ = p THEN m ELSE @]

\* freeit: m takes over p, which begins where m ends
Join(h, m, p) ==
  IF m = NULL \/ p = NULL THEN h
  ELSE IF h.start[m] + h.length[m] # h.start[p] THEN h
  ELSE xmdfree([h EXCEPT !.length[m] = @ + h.length[p],
                         !.link[m] = h.link[p],
                         !.rover = IF @ = p THEN m ELSE @], p)

\* freeit: m after the first k of the free list s
PutAfter(h, m, s, k) ==
  LET p1 == IF k = 0 THEN NULL ELSE s[k]
      p  == IF k = Len(s) THEN NULL ELSE s[k + 1]
  IN  IF Loop(s) /\ p = NULL THEN Halt(h)
      ELSE Join(Join(Insert(h, m, p1, p), m, p), p1, m)

PutInOrder(h, m, s) ==
  PutAfter(h, m, s,
    Cardinality({i \in DOMAIN s : \A j \in 1..i : h.start[s[j]] < h.start[m]}))

freeit(h, m) == PutInOrder(h, m, Free(h))
-----------------------------------------------------------------------------
\* ffit: the free descriptors in the order they are looked at: from the one
\* after the rover to the end, then from the head of the list
Round(h, s) == IF Loop(s) THEN s ELSE s \o Free(h)
Order(h) == IF h.rover = NULL THEN <<>> ELSE Round(h, Chain(h, h.link[h.rover]))

\* ffit(-1): the length of the largest free block
largest(h) == Highest({0} \cup {h.length[m] : m \in Elements(Order(h))})

\* p of ffit: the descriptor or list head whose link leads to the i-th of s
LinkTo(h, s, i) ==
  LET p == IF i = 1 THEN h.rover ELSE s[i - 1]
  IN  IF h.link[p] = NULL THEN MFL ELSE p

\* ffit: q, which p links to, to the allocated list and to the process r
Allocate(h, p, q, r) ==
  [md |-> q,
   heap |-> [h EXCEPT !.link = [@ EXCEPT ![q] = h.link[MAL], ![MAL] = q],
                      !.own[q] = r,
                      !.rover = IF p = MFL THEN h.link[MFL] ELSE p]]

\* ffit: q is cut to n units, and the new q1 has the rest
Split(h, p, q, q1, n) ==
  [h EXCEPT !.start[q1] = h.start[q] + n, !.length[q1] = h.length[q] - n,
            !.link[q1] = h.link[q], !.length[q] = n, !.link[p] = q1]

\* ffit: n units from q
TakeFrom(h, p, q, n, rb, r) ==
  IF h.length[q] = n THEN Allocate([h EXCEPT !.link[p] = h.link[q]], p, q, r)
  ELSE LET got == mgetmd(h, rb)
       IN  IF got.md = NULL THEN got
           ELSE Allocate(Split(got.heap, p, q, got.md, n), p, q, r)

\* ffit: the first of s that is large enough
FirstFit(h, s, n, rb, r) ==
  LET large == {i \in DOMAIN s : h.length[s[i]] >= n}
  IN  IF large # {}
      THEN TakeFrom(h, LinkTo(h, s, Lowest(large)), s[Lowest(large)], n, rb, r)
      ELSE [md |-> NULL, heap |-> IF h.rover = NULL \/ h.rover \in Elements(s)
                                  THEN h ELSE Halt(h)]

\* n units for r
ffit(h, n, rb, r) == FirstFit(h, Order(h), n, rb, r)

\* the first descriptor of s for the block at a, the one Mfree and Mshrink take
FindIn(h, s, a) ==
  LET at == {i \in DOMAIN s : h.start[s[i]] = a}
  IN  IF at = {} THEN NULL ELSE s[Lowest(at)]
Find(h, a) == FindIn(h, Allocated(h), a)

\* xsetblk: the block p keeps n units, and m, from mgetmd, has the rest
Cut(h, p, m, n) ==
  freeit([h EXCEPT !.start[m] = h.start[p] + n, !.length[m] = h.length[p] - n,
                   !.length[p] = n], m)

ShrinkTo(h, p, n, rb) ==
  IF p = NULL THEN h
  ELSE IF h.length[p] <= n THEN h
  ELSE IF n = 0 THEN freeit(h, p)
  ELSE LET got == mgetmd(h, rb)
       IN  IF got.md = NULL THEN h ELSE Cut(got.heap, p, got.md, n)

xsetblk(h, a, n, rb) == ShrinkTo(h, Find(h, a), n, rb)

\* xmfree: m, which is on the allocated list s, off it and freed
Release(h, s, m) ==
  LET i == Lowest({j \in DOMAIN s : s[j] = m})
      q == IF i = 1 THEN MAL ELSE s[i - 1]
  IN  freeit([h EXCEPT !.link[q] = h.link[m]], m)

xmfree(h, a) == Release(h, Allocated(h), Find(h, a))

\* mutant: the block after one that was freed is passed over
Turn_skips(at, r, give) ==
  LET h == at.heap
      m == h.link[at.q]
      off == [h EXCEPT !.link[at.q] = h.link[m]]
  IN  IF m = NULL \/ h.halted THEN at
      ELSE IF h.own[m] # r THEN [at EXCEPT !.q = m]
      ELSE [heap |-> IF give THEN freeit(off, m) ELSE off,
            q |-> IF h.link[m] = NULL THEN at.q ELSE h.link[m]]

\* one turn of the loops over the allocated list: at.q is the link looked at
Turn(at, r, give) ==
  LET h == at.heap
      m == h.link[at.q]
      off == [h EXCEPT !.link[at.q] = h.link[m]]
  IN  IF m = NULL \/ h.halted THEN at
      ELSE IF h.own[m] # r THEN [at EXCEPT !.q = m]
      ELSE [at EXCEPT !.heap = IF give THEN freeit(off, m) ELSE off]

Ended(at) == IF at.heap.link[at.q] = NULL THEN at.heap ELSE Halt(at.heap)

\* all blocks of r leave the allocated list, and are freed if give
Sweep(h, r, give) ==
  LET turn[n \in 0..(2 * themd)] ==
        IF n = 0 THEN [heap |-> h, q |-> MAL] ELSE Turn(turn[n - 1], r, give)
  IN  Ended(turn[2 * themd])

ixterm(h, r) == Sweep(h, r, TRUE)
xmakeres(h, r) == Sweep(h, r, FALSE)

\* xmsetown
SetOwner(h, m, r) == IF m = NULL THEN h ELSE [h EXCEPT !.own[m] = r]
xmsetown(h, a, r) == SetOwner(h, Find(h, a), r)
-----------------------------------------------------------------------------
This == run[Len(run)]
Parents == SubSeq(run, 1, Len(run) - 1)

Owns(r, m) == m # NULL /\ heap.own[m] = r

\* the blocks a program may give back: its own, but no running base page
Own(a) == a \notin Elements(run) /\ Owns(This, Find(heap, a))

\* the block fsgetofd takes from the directories, if they can spare one; it is
\* asked only when there is no other
Reclaimable ==
  {NULL} \cup (IF Partly(heap) \cup Idle(heap) # {} THEN {}
               ELSE {b \in Blocks : heap.x_flag[b] = -1})

\* base pages that are still allocated
Pages(h, env) ==
  LET blocks == Allocated(h)
  IN  [a \in Addr |-> IF FindIn(h, blocks, a) = NULL THEN 0 ELSE env[a]]

Malloc(n) ==
  /\ \E rb \in Reclaimable : heap' = ffit(heap, n, rb, This).heap
  /\ UNCHANGED <<run, p_env, resident>>

Mfree(a) ==
  /\ Own(a)
  /\ heap' = xmfree(heap, a)
  /\ p_env' = Pages(heap', p_env)
  /\ UNCHANGED <<run, resident>>

\* to fewer units; otherwise it is an error and nothing changes
Mshrink(a, n) ==
  /\ a = This \/ Own(a)
  /\ n < heap.length[Find(heap, a)]
  /\ \E rb \in Reclaimable : heap' = xsetblk(heap, a, n, rb)
  /\ p_env' = Pages(heap', p_env)
  /\ UNCHANGED <<run, resident>>

\* xexec: the base page p and the environment env of a program, for itself in
\* mode 0, else for the process that sets it up
Page(mode, env, p) ==
  LET b == p.heap.start[p.md]
      owner == IF mode = "loadgo" THEN b ELSE This
  IN  [done |-> TRUE, page |-> b, env |-> p.heap.start[env],
       heap |-> [p.heap EXCEPT !.own = [@ EXCEPT ![env] = owner, ![p.md] = owner]]]

\* xexec: all that is left after the environment e is for the base page
Base(mode, e) ==
  IF e.md = NULL THEN [done |-> FALSE, heap |-> e.heap]
  ELSE IF largest(e.heap) < PDLEN THEN [done |-> FALSE, heap |-> freeit(e.heap, e.md)]
  ELSE Page(mode, e.md, ffit(e.heap, largest(e.heap), NULL, This))

Created(mode, rb) == Base(mode, ffit(heap, ENVLEN, rb, This))

\* Pexec 0, and 3 and 5, which only set a program up; loaded is whether xpgmld
\* could load it.  Left out: Pexec with room for the environment only, and a disk
\* error during the load, where xexec frees blocks that stay on the allocated
\* list, as MshrinkToZero does
Pexec(mode, loaded) ==
  /\ mode = "loadgo" => Len(run) < MaxProcs
  /\ \E rb \in Reclaimable : \E new \in {Created(mode, rb)} :
       /\ new.done
       /\ IF loaded
          THEN /\ heap' = new.heap
               /\ p_env' = [p_env EXCEPT ![new.page] = new.env]
               /\ run' = IF mode = "loadgo" THEN Append(run, new.page) ELSE run
          ELSE /\ heap' = ixterm(new.heap, new.page)
               /\ p_env' = Pages(heap', p_env)
               /\ UNCHANGED run
  /\ UNCHANGED resident

\* Pexec 4 and 6: a program that was set up is run; 6 gives it its memory
PexecGo(b, mode) ==
  /\ Len(run) < MaxProcs
  /\ p_env[b] # 0 /\ Own(b)
  /\ heap' = IF mode = "go" THEN heap
             ELSE xmsetown(xmsetown(heap, b, b), p_env[b], b)
  /\ run' = Append(run, b)
  /\ UNCHANGED <<p_env, resident>>

Pterm ==
  /\ This # ospd
  /\ heap' = ixterm(heap, This)
  /\ run' = Parents
  /\ p_env' = Pages(heap', p_env)
  /\ UNCHANGED resident

Ptermres(n) ==
  /\ This # ospd /\ Cardinality(resident) < MaxResident
  /\ \E rb \in Reclaimable : \E h \in {xsetblk(heap, This, n, rb)} :
       /\ heap' = ixterm(xmakeres(h, This), This)
       /\ resident' = resident \cup {m \in Elements(Allocated(h)) : h.own[m] = This}
  /\ run' = Parents
  /\ p_env' = Pages(heap', p_env)

\* mgetofd: a block not in use, or in use for descriptors that are all free
mgetofd ==
  \E b \in Blocks :
    /\ b = Lowest({c \in Blocks : heap.x_flag[c] >= 0 /\
                     (heap.x_flag[c] > 0 => \A m \in buf(c) : heap.own[m] = MF_FREE)}
                  \cup {NBLOCKS + 1})
    /\ heap' = [heap EXCEPT
         !.x_flag[b] = -1,
         !.own = [m \in MD |-> IF m \in buf(b) THEN NOBODY ELSE heap.own[m]]]
    /\ UNCHANGED <<run, p_env, resident>>

oftdel(b) ==
  /\ heap.x_flag[b] = -1
  /\ heap' = [heap EXCEPT !.x_flag[b] = 0]
  /\ UNCHANGED <<run, p_env, resident>>
-----------------------------------------------------------------------------
\* Mshrink to nothing: the block is freed, but not taken off the allocated list
MshrinkToZero(a) == This # ospd /\ Mshrink(a, 0)
-----------------------------------------------------------------------------
Init ==
  /\ heap = [link   |-> [m \in MD \cup {MFL, MAL} |-> IF m = MFL THEN themd ELSE NULL],
             start  |-> [m \in MD |-> IF m = themd THEN 1 ELSE 0],
             length |-> [m \in MD |-> IF m = themd THEN Size ELSE 0],
             own    |-> [m \in MD |-> NOBODY],
             x_flag |-> [b \in Blocks |-> 0],
             rover  |-> themd,
             halted |-> FALSE]
  /\ run = <<ospd>>
  /\ p_env = [a \in Addr |-> 0]
  /\ resident = {}

Next ==
  \/ \E n \in Amounts : Malloc(n)
  \/ \E a \in Addr : Mfree(a)
  \/ \E a, n \in Addr : Mshrink(a, n)
  \/ \E mode \in {"loadgo", "load"}, loaded \in BOOLEAN : Pexec(mode, loaded)
  \/ \E b \in Addr, mode \in {"go", "gothenfree"} : PexecGo(b, mode)
  \/ Pterm
  \/ \E n \in Addr : Ptermres(n)
  \/ mgetofd
  \/ \E b \in Blocks : oftdel(b)

Spec == Init /\ [][Next]_vars

\* with Mshrink to zero
ZeroSpec == Init /\ [][~heap.halted /\ (Next \/ \E a \in Addr : MshrinkToZero(a))]_vars
-----------------------------------------------------------------------------
free == Free(heap)
mal == Allocated(heap)
Held == Elements(free) \cup Elements(mal) \cup resident
Extent(m) == heap.start[m]..(heap.start[m] + heap.length[m] - 1)
Distinct(s) == \A i, j \in DOMAIN s : s[i] = s[j] => i = j

\* Heads, links, lengths and flags have their types; no block of a list is empty.
TypeOK ==
  /\ heap.link \in [MD \cup {MFL, MAL} -> MD \cup {NULL}]
  /\ heap.start \in [MD -> 0..Size + 1] /\ heap.length \in [MD -> 0..Size]
  /\ heap.own \in [MD -> {MF_FREE, NOBODY, ospd} \cup Addr]
  /\ heap.x_flag \in [Blocks -> {-1, 0, 1}]
  /\ heap.rover \in MD \cup {NULL} /\ heap.halted \in BOOLEAN
  /\ run \in Seq(Addr \cup {ospd}) /\ run # <<>>
  /\ p_env \in [Addr -> 0..Size] /\ resident \subseteq MD
  /\ \A m \in Held : heap.length[m] > 0

\* Every unit of memory is in exactly one block, free, allocated or resident:
\* none is given out twice and none is lost, by splitting, joining, shrinking,
\* Pexec, or the end of a process.
Tiling ==
  /\ TypeOK
  /\ Distinct(free \o mal)
  /\ resident \cap Elements(free \o mal) = {}
  /\ \A m \in Held : Extent(m) \subseteq Addr
  /\ \A a \in Addr : \E m \in Held : a \in Extent(m)
  /\ \A m, n \in Held : m # n => Extent(m) \cap Extent(n) = {}

\* The free list is in order of address, neighbours are joined, and the rover,
\* at which the search of ffit ends, is on it.
FreeListOK ==
  /\ \A i \in 1..Len(free) - 1 :
       heap.start[free[i]] + heap.length[free[i]] < heap.start[free[i + 1]]
  /\ IF free = <<>> THEN heap.rover = NULL ELSE heap.rover \in Elements(free)

\* A descriptor is marked free in its block exactly when no list uses it, its
\* block is not in use for anything else, and the BIOS's own descriptor, which
\* is in no block and whose release would stop the system, is never released.
Descriptors ==
  /\ FreeListOK
  /\ ~heap.halted
  /\ themd \in Held
  /\ \A b \in Blocks, m \in MD \ {themd} : m \in buf(b) =>
       IF heap.x_flag[b] = 1 THEN heap.own[m] = MF_FREE <=> m \notin Held
       ELSE m \notin Held

\* Memory, the lists and the pool of descriptors fit together after every call.
BlocksSound == Tiling /\ Descriptors

\* No block outlives the process that owns it, except what Ptermres keeps:
\* each allocated block belongs to a process that has not ended.
ProcessesOwn ==
  /\ Distinct(run)
  /\ \A m \in Elements(mal) : heap.own[m] \in Elements(run)

\* Malloc finds memory whenever there is some: n units can be had exactly when n
\* units in a row are neither allocated nor resident, provided a descriptor
\* can be had, and Malloc(-1) tells the most that can be had.
Served ==
  LET used == UNION {Extent(m) : m \in Elements(mal) \cup resident}
      Gap(n) == \E a \in Addr : a + n - 1 <= Size /\ a..(a + n - 1) \cap used = {}
  IN  /\ \A n \in Addr : mgetmd(heap, NULL).md # NULL =>
           (Gap(n) <=> ffit(heap, n, NULL, ospd).md # NULL)
      /\ largest(heap) = Highest({0} \cup {n \in Addr : Gap(n)})

\* When every program has ended, memory is whole again and nothing is allocated,
\* whatever the programs did with it.
RestoredAtEnd == run = <<ospd>> /\ ~heap.halted /\ resident = {} => Tiling /\ ProcessesOwn
=============================================================================
