----------------------------- MODULE FileTable -----------------------------
(***************************************************************************)
(* The open files of GEMDOS: the system file table sft, the standard       *)
(* handles p_uft of each process, the open-file descriptors (OFD) and the  *)
(* entries of one directory, as Fopen, Fcreate, Fclose, Fdup, Fforce,      *)
(* Fwrite, Fdelete, Pexec and Pterm change them.                           *)
(*                                                                         *)
(* GEMDOS is not reentrant: a call is one action.  Only the end of a       *)
(* process is taken apart, into the calls of xclose that ixterm makes one  *)
(* after the other; no program runs in between.                            *)
(***************************************************************************)
EXTENDS Integers, Sequences, FiniteSets

CONSTANTS
  PDs,      \* places for base pages; a process is known by its own
  ospd,     \* the first process
  NUMSTD,   \* standard handles of a process
  NSFT,     \* entries of sft (OPNFILES - NUMSTD)
  OFDs,     \* blocks for open-file descriptors
  Files,    \* entries of the directory
  NULL,
  MaxLen,   \* bounds the length of files
  MaxLost   \* bounds how many references to an entry Fforce overwrites

ASSUME FileAssumption ==
  /\ ospd \in PDs /\ NULL \notin PDs \cup OFDs /\ NULL \notin Int
  /\ NUMSTD \in Nat \ {0} /\ NSFT \in Nat /\ MaxLen \in Nat /\ MaxLost \in Nat
  /\ IsFiniteSet(PDs) /\ IsFiniteSet(OFDs) /\ Cardinality(OFDs) >= NSFT
  /\ OFDs \cap Int = {}

Std == 0..NUMSTD - 1
Slots == 0..NSFT - 1
Device == -1          \* handles of devices are negative
Erased == -1          \* the length of a file that does not exist

VARIABLES
  f_own, f_use, f_ofd,       \* sft
  p_uft,                     \* for each PD and standard handle a handle
  run,                       \* the chain of processes; the last one runs
  ending,                    \* what ixterm has come to
  inuse,                     \* the OFDs in use (x_flag)
  o_dirbyt, o_mod, o_fileln, o_dirty,
  d_files,                   \* the OFDs open in the directory, newest first
  f_fileln,                  \* the directory: each entry's length
  halted,                    \* foldermsg was called
  \* history
  held,                      \* the entries whose handle the owner has not closed
  lost,                      \* references Fforce has overwritten, for each entry
  written,                   \* what f_fileln is to be once all is closed
  eraser                     \* for each OFD, who has deleted its file

sft == <<f_own, f_use, f_ofd>>
ofds == <<inuse, o_dirbyt, o_mod, o_fileln, o_dirty, d_files, f_fileln, halted>>
vars == <<sft, p_uft, run, ending, ofds, held, lost, written, eraser>>

This == run[Len(run)]
NotEnding == [pd |-> NULL, std |-> 0, slot |-> 0]
Calls == ending = NotEnding /\ ~halted
Exists(e) == f_fileln[e] # Erased
\* the OFDs of file e that have not outlived it
Current(e) == {o \in inuse : o_dirbyt[o] = e /\ eraser[o] = NULL}
OnList(o) == \E i \in DOMAIN d_files : d_files[i] = o
-----------------------------------------------------------------------------
\* the list without some of its OFDs
Without(files, gone) ==
  LET kept[k \in 0..Len(files)] ==
        IF k = 0 THEN <<>>
        ELSE IF files[k] \in gone THEN kept[k - 1] ELSE Append(kept[k - 1], files[k])
  IN  kept[Len(files)]
Unlinked(files, o) == Without(files, {o})

\* mutant of ixclose: the list is searched first, and an OFD not on it not written
ixclose_first(o) ==
  /\ f_fileln' = IF o_dirty[o] /\ OnList(o) /\ Exists(o_dirbyt[o])
                 THEN [f_fileln EXCEPT ![o_dirbyt[o]] = o_fileln[o]] ELSE f_fileln
  /\ o_dirty' = [o_dirty EXCEPT ![o] = FALSE]
  /\ d_files' = Unlinked(d_files, o)

\* ixclose(o, 0): the entry is brought up to date before the list is searched,
\* whether or not o is on it
ixclose(o) ==
  /\ f_fileln' = IF o_dirty[o] /\ Exists(o_dirbyt[o])
                 THEN [f_fileln EXCEPT ![o_dirbyt[o]] = o_fileln[o]] ELSE f_fileln
  /\ o_dirty' = [o_dirty EXCEPT ![o] = FALSE]
  /\ d_files' = Unlinked(d_files, o)

\* --f_use, and the entry is free when that makes zero
Drop(i) ==
  IF f_use[i] = 1
  THEN /\ f_own' = [f_own EXCEPT ![i] = NULL]
       /\ f_use' = [f_use EXCEPT ![i] = 0]
       /\ f_ofd' = [f_ofd EXCEPT ![i] = NULL]
  ELSE f_use' = [f_use EXCEPT ![i] = @ - 1] /\ UNCHANGED <<f_own, f_ofd>>

\* oftdel: a block that is not in use stops the system
oftdel(o) ==
  IF o \in inuse THEN inuse' = inuse \ {o} /\ UNCHANGED halted
  ELSE halted' = TRUE /\ UNCHANGED inuse

\* xclose for a handle of sft, once p_uft is out of the way: a device's or a file's
CloseDevice(i) == f_ofd[i] = Device /\ Drop(i) /\ UNCHANGED ofds
CloseFile(i) ==
  /\ f_ofd[i] \in OFDs
  /\ ixclose(f_ofd[i])
  /\ Drop(i)
  /\ IF f_use[i] = 1 THEN oftdel(f_ofd[i]) ELSE UNCHANGED <<inuse, halted>>
  /\ UNCHANGED <<o_dirbyt, o_mod, o_fileln>>
Close(i) == CloseDevice(i) \/ CloseFile(i)
-----------------------------------------------------------------------------
\* ffhndl
Free == {i \in Slots : f_own[i] = NULL}
First(S) == CHOOSE i \in S : \A j \in S : i <= j
ffhndl == First(Free)

\* makopn steals the length from the newest OFD of the list for the same entry
Stolen(files, e) ==
  LET same == {i \in DOMAIN files : o_dirbyt[files[i]] = e}
  IN  IF same = {} THEN f_fileln'[e] ELSE o_fileln[files[First(same)]]

\* opnfil and makopn; ixdel may have shortened the list before
opnfil(files, e, mode) ==
  \E o \in OFDs \ inuse :
    /\ f_own' = [f_own EXCEPT ![ffhndl] = This]
    /\ f_use' = [f_use EXCEPT ![ffhndl] = 1]
    /\ f_ofd' = [f_ofd EXCEPT ![ffhndl] = o]
    /\ inuse' = inuse \cup {o}
    /\ o_dirbyt' = [o_dirbyt EXCEPT ![o] = e]
    /\ o_mod' = [o_mod EXCEPT ![o] = mode]
    /\ o_fileln' = [o_fileln EXCEPT ![o] = Stolen(files, e)]
    /\ d_files' = <<o>> \o files
    /\ held' = held \cup {ffhndl}
    /\ UNCHANGED <<p_uft, run, ending, halted, lost>>

Fopen(e, mode) ==
  /\ Calls /\ Exists(e) /\ Free # {}
  /\ UNCHANGED <<f_fileln, written>>
  /\ opnfil(d_files, e, mode)
  /\ o_dirty' = [o_dirty EXCEPT ![f_ofd'[ffhndl]] = FALSE]
  /\ eraser' = [eraser EXCEPT ![f_ofd'[ffhndl]] = NULL]
-----------------------------------------------------------------------------
\* ixdel goes through the list and, for each OFD of the entry, through sft; it
\* closes what the process that runs owns until it meets what another owns
Match(e) == {m \in (DOMAIN d_files) \X Slots :
               o_dirbyt[d_files[m[1]]] = e /\ f_ofd[m[2]] = d_files[m[1]]}
\* mutant of Refused: the owner is not looked at
Refused_never(e) == {m \in Match(e) : f_own[m[2]] = NULL}
Refused(e) == {m \in Match(e) : f_own[m[2]] # This}
Closed(e) == {m \in Match(e) \ Refused(e) :
                \A r \in Refused(e) : m[1] < r[1] \/ (m[1] = r[1] /\ m[2] < r[2])}
ixdel(e) ==
  LET closed == {d_files[m[1]] : m \in Closed(e)}
      last == {m \in Closed(e) : o_dirty[d_files[m[1]]] /\
                 \A n \in Closed(e) : o_dirty[d_files[n[1]]] => n[1] <= m[1]}
  IN  [files |-> Without(d_files, closed),
       dirty |-> [o \in OFDs |-> o_dirty[o] /\ o \notin closed],
       length |-> IF last = {} THEN f_fileln[e]
                  ELSE o_fileln[d_files[(CHOOSE m \in last : TRUE)[1]]]]

\* E_ACCDN, after some of the caller's own may have been closed
Denied(e) ==
  /\ Refused(e) # {}
  /\ f_fileln' = [f_fileln EXCEPT ![e] = ixdel(e).length]
  /\ d_files' = ixdel(e).files /\ o_dirty' = ixdel(e).dirty
  /\ UNCHANGED <<sft, p_uft, run, ending, inuse, o_dirbyt, o_mod, o_fileln, halted, held, lost,
                 written, eraser>>

Fdelete(e) ==
  /\ Calls /\ Exists(e)
  /\ \/ Denied(e)
     \/ /\ Refused(e) = {}
        /\ d_files' = ixdel(e).files /\ o_dirty' = ixdel(e).dirty
        /\ f_fileln' = [f_fileln EXCEPT ![e] = Erased]
        /\ written' = [written EXCEPT ![e] = Erased]
        /\ eraser' = [o \in OFDs |-> IF o \in Current(e) THEN This ELSE eraser[o]]
        /\ UNCHANGED <<sft, p_uft, run, ending, inuse, o_dirbyt, o_mod, o_fileln, halted, held, lost>>

\* ixcreat: a file of that name is deleted first, and its entry used again; which
\* erased entry takes a new name does not matter
Fcreate(e) ==
  /\ Calls /\ Free # {}
  /\ \/ Denied(e)
     \/ /\ Refused(e) = {}
        /\ f_fileln' = [f_fileln EXCEPT ![e] = 0]
        /\ written' = [written EXCEPT ![e] = 0]
        /\ opnfil(ixdel(e).files, e, "write")
        /\ o_dirty' = [ixdel(e).dirty EXCEPT ![f_ofd'[ffhndl]] = TRUE]
        /\ eraser' = [o \in OFDs |-> IF o = f_ofd'[ffhndl] THEN NULL
                                     ELSE IF o \in Current(e) THEN This ELSE eraser[o]]
-----------------------------------------------------------------------------
References(i, p) == {n \in Std : p_uft[p][n] = i + NUMSTD}
\* f_use still counts a reference when Fforce overwrites it
Overwritten(n) ==
  [i \in Slots |-> IF p_uft[This][n] = i + NUMSTD THEN lost[i] + 1 ELSE lost[i]]

\* xclose of a handle of one's own
Fclose(i) ==
  /\ Calls /\ i \in held /\ f_own[i] = This
  /\ Close(i)
  /\ held' = held \ {i}
  /\ UNCHANGED <<p_uft, run, ending, lost, written, eraser>>

\* xclose of a standard handle
FcloseStd(n) ==
  /\ Calls
  /\ p_uft' = [p_uft EXCEPT ![This][n] = Device]
  /\ IF p_uft[This][n] >= NUMSTD THEN Close(p_uft[This][n] - NUMSTD) ELSE UNCHANGED <<sft, ofds>>
  /\ UNCHANGED <<run, ending, held, lost, written, eraser>>

\* xdup: the entry shares the OFD
Fdup(n) ==
  /\ Calls /\ Free # {}
  /\ f_own' = [f_own EXCEPT ![ffhndl] = This]
  /\ f_use' = [f_use EXCEPT ![ffhndl] = 1]
  /\ f_ofd' = [f_ofd EXCEPT ![ffhndl] = IF p_uft[This][n] >= NUMSTD
                                        THEN f_ofd[p_uft[This][n] - NUMSTD] ELSE Device]
  /\ held' = held \cup {ffhndl}
  /\ UNCHANGED <<p_uft, run, ending, ofds, lost, written, eraser>>

\* xforce; what the standard handle was before is not closed
FforceDevice(n) ==
  /\ Calls
  /\ p_uft' = [p_uft EXCEPT ![This][n] = Device]
  /\ lost' = Overwritten(n) /\ \A j \in Slots : lost'[j] <= MaxLost
  /\ UNCHANGED <<sft, run, ending, ofds, held, written, eraser>>

Fforce(n, i) ==
  /\ Calls /\ i \in held /\ f_own[i] = This
  /\ IF f_ofd[i] = Device
     THEN p_uft' = [p_uft EXCEPT ![This][n] = Device] /\ UNCHANGED f_use
     ELSE /\ p_uft' = [p_uft EXCEPT ![This][n] = i + NUMSTD]
          /\ f_use' = [f_use EXCEPT ![i] = @ + 1]
  /\ lost' = Overwritten(n) /\ \A j \in Slots : lost'[j] <= MaxLost
  /\ UNCHANGED <<f_own, f_ofd, run, ending, ofds, held, written, eraser>>

\* xwrite through a handle of one's own or a standard handle; it may add to the file
Fwrite(i) ==
  /\ Calls
  /\ (i \in held /\ f_own[i] = This) \/ References(i, This) # {}
  /\ \E o \in OFDs :
       /\ o = f_ofd[i] /\ o_mod[o] = "write" /\ eraser[o] = NULL
       /\ o_dirty' = [o_dirty EXCEPT ![o] = TRUE]
       /\ \E n \in {o_fileln[o], o_fileln[o] + 1} \cap 0..MaxLen :
            /\ o_fileln' = [o_fileln EXCEPT ![o] = n]
            /\ written' = [written EXCEPT ![o_dirbyt[o]] = n]
  /\ UNCHANGED <<sft, p_uft, run, ending, inuse, o_dirbyt, o_mod, d_files, f_fileln, halted, held,
                 lost, eraser>>
-----------------------------------------------------------------------------
Absent == PDs \ {run[k] : k \in DOMAIN run}

\* mutant of Inherit: the references are copied but not counted
Inherit_uncounted(p) ==
  /\ p_uft' = [p_uft EXCEPT ![p] = p_uft[This]]
  /\ UNCHANGED <<sft, ofds, held, lost, written, eraser>>

\* xexec: the new process inherits the standard handles by ixforce
Inherit(p) ==
  /\ p_uft' = [p_uft EXCEPT ![p] = p_uft[This]]
  /\ f_use' = [i \in Slots |-> f_use[i] + Cardinality(References(i, This))]
  /\ UNCHANGED <<f_own, f_ofd, ofds, held, lost, written, eraser>>

Pexec(p) ==
  /\ Calls /\ p \in Absent
  /\ Inherit(p)
  /\ run' = Append(run, p)
  /\ UNCHANGED ending

\* the program could not be loaded: ixterm takes the process down again
PexecFails(p) ==
  /\ Calls /\ p \in Absent
  /\ Inherit(p)
  /\ ending' = [pd |-> p, std |-> 0, slot |-> 0]
  /\ UNCHANGED run

Pterm ==
  /\ Calls /\ Len(run) > 1
  /\ ending' = [pd |-> This, std |-> 0, slot |-> 0]
  /\ run' = SubSeq(run, 1, Len(run) - 1)
  /\ UNCHANGED <<sft, p_uft, ofds, held, lost, written, eraser>>

\* ixterm, first loop: the standard handles
ixtermStd ==
  LET h == p_uft[ending.pd][ending.std]
  IN  /\ ending.pd # NULL /\ ~halted /\ ending.std < NUMSTD
      /\ IF h > 0 THEN Close(h - NUMSTD) ELSE UNCHANGED <<sft, ofds>>
      /\ ending' = [ending EXCEPT !.std = @ + 1]
      /\ UNCHANGED <<p_uft, run, held, lost, written, eraser>>

\* mutant of ixtermSft: the last entry is not looked at
ixtermSft_short ==
  LET i == ending.slot
  IN  /\ ending.pd # NULL /\ ~halted /\ ending.std = NUMSTD /\ i < NSFT
      /\ IF f_own[i] = ending.pd /\ i < NSFT - 1
         THEN /\ Close(i)
              /\ held' = held \ {i}
              /\ lost' = IF i \in held THEN lost ELSE [lost EXCEPT ![i] = @ - 1]
         ELSE UNCHANGED <<sft, ofds, held, lost>>
      /\ ending' = [ending EXCEPT !.slot = @ + 1]
      /\ UNCHANGED <<p_uft, run, written, eraser>>

\* second loop: what the process owns
ixtermSft ==
  LET i == ending.slot
  IN  /\ ending.pd # NULL /\ ~halted /\ ending.std = NUMSTD /\ i < NSFT
      /\ IF f_own[i] = ending.pd
         THEN /\ Close(i)
              /\ held' = held \ {i}
              /\ lost' = IF i \in held THEN lost ELSE [lost EXCEPT ![i] = @ - 1]
         ELSE UNCHANGED <<sft, ofds, held, lost>>
      /\ ending' = [ending EXCEPT !.slot = @ + 1]
      /\ UNCHANGED <<p_uft, run, written, eraser>>

Ended ==
  /\ ending.pd # NULL /\ ~halted /\ ending.std = NUMSTD /\ ending.slot = NSFT
  /\ ending' = NotEnding
  /\ UNCHANGED <<sft, p_uft, run, ofds, held, lost, written, eraser>>
-----------------------------------------------------------------------------
Init ==
  /\ f_own = [i \in Slots |-> NULL]
  /\ f_use = [i \in Slots |-> 0]
  /\ f_ofd = [i \in Slots |-> NULL]
  /\ p_uft = [p \in PDs |-> [n \in Std |-> Device]]
  /\ run = <<ospd>> /\ ending = NotEnding
  /\ inuse = {} /\ d_files = <<>> /\ halted = FALSE
  /\ \E e \in Files : o_dirbyt = [o \in OFDs |-> e]
  /\ o_mod = [o \in OFDs |-> "read"]
  /\ o_fileln = [o \in OFDs |-> 0]
  /\ o_dirty = [o \in OFDs |-> FALSE]
  /\ f_fileln = [e \in Files |-> Erased]
  /\ held = {} /\ lost = [i \in Slots |-> 0]
  /\ written = [e \in Files |-> Erased]
  /\ eraser = [o \in OFDs |-> NULL]

\* GEMDOS has no file sharing: programs see to it that a file one of them may
\* write is not open twice
Alone(e, mode) == \A o \in Current(e) : mode = "read" /\ o_mod[o] = "read"
\* a file some OFD of which has left the list while in use
Hidden(e) == \E o \in Current(e) : ~OnList(o)

Common ==
  \/ \E e \in Files, mode \in {"read", "write"} : Alone(e, mode) /\ Fopen(e, mode)
  \/ \E i \in Slots : Fclose(i) \/ Fwrite(i) \/ \E n \in Std : Fforce(n, i)
  \/ \E n \in Std : FcloseStd(n) \/ FforceDevice(n)
  \/ \E p \in PDs : Pexec(p) \/ PexecFails(p)
  \/ Pterm
  \/ ixtermStd \/ ixtermSft \/ Ended

\* no program deletes what is hidden or duplicates a handle of a file
Next ==
  \/ Common
  \/ \E e \in Files : ~Hidden(e) /\ (Fdelete(e) \/ Fcreate(e))
  \/ \E n \in Std : p_uft[This][n] < 0 /\ Fdup(n)

Spec == Init /\ [][Next]_vars

AnyNext ==
  \/ Common
  \/ \E e \in Files : Fdelete(e) \/ Fcreate(e)
  \/ \E n \in Std : Fdup(n)

AnySpec == Init /\ [][AnyNext]_vars
-----------------------------------------------------------------------------
Handles == NUMSTD..NUMSTD + NSFT - 1
Live == {run[k] : k \in DOMAIN run}
\* the standard handles that ixterm has still to close count as references
Referring(i) ==
  {r \in PDs \X Std : /\ p_uft[r[1]][r[2]] = i + NUMSTD
                      /\ r[1] \in Live \/ (r[1] = ending.pd /\ r[2] >= ending.std)}
Refers(i) == Cardinality(Referring(i))

\* Handles, counts, descriptors and flags have their types, and the system is
\* not stopped by foldermsg.
TypeOK ==
  /\ f_own \in [Slots -> PDs \cup {NULL}]
  /\ f_use \in [Slots -> Nat]
  /\ f_ofd \in [Slots -> OFDs \cup {Device, NULL}]
  /\ p_uft \in [PDs -> [Std -> Handles \cup {Device}]]
  /\ run \in Seq(PDs) /\ run # <<>>
  /\ ending \in [pd : PDs \cup {NULL}, std : 0..NUMSTD, slot : 0..NSFT]
  /\ inuse \subseteq OFDs /\ d_files \in Seq(OFDs)
  /\ o_dirbyt \in [OFDs -> Files] /\ o_mod \in [OFDs -> {"read", "write"}]
  /\ o_fileln \in [OFDs -> 0..MaxLen] /\ o_dirty \in [OFDs -> BOOLEAN]
  /\ f_fileln \in [Files -> {Erased} \cup 0..MaxLen]
  /\ ~halted
  /\ held \subseteq Slots /\ lost \in [Slots -> Nat]
  /\ written \in [Files -> {Erased} \cup 0..MaxLen]
  /\ eraser \in [OFDs -> PDs \cup {NULL}]

\* A use count tells exactly the references to the entry: the handle its owner
\* has not closed, the standard handles forced to it, inherited or not, and
\* those Fforce has overwritten. So no handle ever names a free entry, which the
\* next Fopen could give to another file; standard handles name entries of files.
UseCounts ==
  \A i \in Slots :
    /\ f_use[i] = (IF i \in held THEN 1 ELSE 0) + Refers(i) + lost[i]
    /\ f_use[i] = 0 <=> f_own[i] = NULL
    /\ Refers(i) > 0 => f_ofd[i] \in OFDs

\* All files a process has opened are closed when it has ended, except for those
\* of which Fforce has overwritten a reference.
NothingOutlives ==
  \A i \in Slots :
    f_own[i] \notin Live \cup {NULL, ending.pd} => lost[i] > 0

\* The descriptors in use are those of the open entries, one each: none is freed
\* while a handle still leads to it or kept when none does. What is on the list of
\* the directory is among them, and its file exists.
OfdsHeld ==
  /\ TypeOK
  /\ inuse = {f_ofd[i] : i \in Slots} \ {Device, NULL}
  /\ \A i, j \in Slots : f_ofd[i] = f_ofd[j] /\ f_ofd[i] \in OFDs => i = j
  /\ \A k, m \in DOMAIN d_files : d_files[k] = d_files[m] => k = m
  /\ \A k \in DOMAIN d_files : d_files[k] \in inuse /\ eraser[d_files[k]] = NULL

\* The length in the directory is behind only as long as some open handle leads to
\* a descriptor that is marked to bring it up to date; redirection, inheritance and the
\* end of the process that wrote do not lose it.
LengthKept ==
  \A e \in Files : f_fileln[e] # written[e] =>
    \E i \in Slots : \E o \in Current(e) :
      f_ofd[i] = o /\ o_dirty[o] /\ o_fileln[o] = written[e]

\* No close loses a descriptor or a length.
ClosesWell == OfdsHeld /\ LengthKept

\* A file is deleted, or created anew, only if no other process has it open.
DeleteSparesOthers ==
  \A i \in Slots : \A o \in OFDs :
    f_ofd[i] = o /\ eraser[o] # NULL => f_own[i] = eraser[o]
=============================================================================
