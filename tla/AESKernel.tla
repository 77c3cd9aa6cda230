----------------------------- MODULE AESKernel -----------------------------
(***************************************************************************)
(* The AES process kernel of TOS 1.04-1.62 (aes/gemdisp.c, gemasync.c,     *)
(* gemaints.c, gemflag.c, gemqueue.c, geminput.c, gemevlib.c): a           *)
(* cooperative dispatcher, event blocks (EVBs) that processes hang on the  *)
(* lists of the things they wait for, and interrupt handlers that may only *)
(* queue work for the forker.                                              *)
(*                                                                         *)
(* One action is one run of kernel code between two points where an        *)
(* interrupt can be told apart.  Interrupts only append to the fork queue. *)
(***************************************************************************)
EXTENDS Naturals, Sequences, FiniteSets

CONSTANTS
  Procs,        \* process descriptors (PD)
  Evbs,         \* the pool of event blocks, by number
  NULL,         \* the null pointer
  EvBits,       \* bit numbers of an EVSPEC
  NFORKS,       \* capacity of the fork queue
  KBD_SIZE,     \* characters an input queue (CQUEUE) holds
  QUEUE_SIZE,   \* 16-byte messages a message pipe holds
  MultiFlags,   \* the sets of events programs pass to evnt_multi
  BlockFuncs,   \* the single events programs wait for
  Ops,          \* the other AES calls programs make
  Irqs,         \* the interrupts that queue forks: of the buttons ("bchange"),
                \* the mouse ("mchange") and the tick ("tchange")
  MaxNest,      \* bound: how deep a program nests BEG_UPDATE
  MaxIrq        \* bound: interrupts and keys between two switches

MultiFuncs == {"AKBIN", "ABUTTON", "AMOUSE", "AMOUSE2", "AQRD", "ADELAY"}
Afuncs == MultiFuncs \cup {"AQWRT", "AMUTEX"}

ASSUME KernelAssumption ==
  /\ NULL \notin Procs
  /\ EvBits \subseteq Nat /\ Evbs \subseteq Nat
  /\ NFORKS \in Nat /\ KBD_SIZE \in Nat /\ QUEUE_SIZE \in Nat \ {0}
  /\ Irqs \subseteq {"bchange", "mchange", "tchange"}
  /\ MaxNest \in Nat /\ MaxIrq \in Nat
  /\ \A flags \in MultiFlags : flags # {} /\ flags \subseteq MultiFuncs
  /\ BlockFuncs \subseteq MultiFuncs \ {"AQRD"}
  /\ Ops \subseteq {"read", "write", "update", "chgown"}

VARIABLES
  ctx,        \* who has the CPU: "user", "forker" (inside evnt_multi),
              \* "dispforker", "poll" and "schedule" (inside disp)
  rlr,        \* ready list, the running process first
  drl,        \* processes signalled since the last dispatch
  nrl,        \* processes asleep in mwait
  p_evbits,   \* event bits a process has in use
  p_evwait,   \* event bits a process waits for
  p_evflg,    \* event bits that are satisfied
  e_list,     \* the list an EVB is linked into
  e_pd,       \* the process an EVB belongs to
  e_mask,     \* the event bit of an EVB
  fpq,        \* the fork queue, oldest first
  irqs,       \* interrupts and keys since the last switch (a bound, not code)
  sy_tas,     \* window semaphore: nesting count
  sy_owner,   \* window semaphore: owner
  sy_wait,    \* window semaphore: waiting EVBs, newest first
  c_cnt,      \* characters in the input queue of a process
  gl_kowner,  \* owner of the keyboard
  p_qindex,   \* messages in the pipe of a process
  p_qnq,      \* EVBs of writers blocked on a pipe, newest first
  pc,         \* where a process is in its AES call
  call,       \* which AES call a process is in
  todo,       \* the events a process still has to pass to iasync
  wmask,      \* the mask of the events it has passed
  qpb_pid,    \* the pipe a process writes to
  nest        \* BEG_UPDATEs a program has not yet ended

procVars == <<rlr, drl, nrl>>
flagVars == <<p_evbits, p_evwait, p_evflg>>
evbVars  == <<e_list, e_pd, e_mask>>
syncVars == <<sy_tas, sy_owner, sy_wait>>
pipeVars == <<p_qindex, p_qnq>>
callVars == <<pc, call, todo, wmask, qpb_pid, nest>>
vars == <<ctx, procVars, flagVars, evbVars, fpq, irqs, syncVars, c_cnt,
          gl_kowner, pipeVars, callVars>>

WaitLists == {"c_iiowait", "c_bsleep", "c_msleep", "dlr", "p_qdq", "p_qnq",
              "sy_wait"}
Lists == {"eul", "zlr"} \cup WaitLists
FCodes == {"kchange", "kshift", "bchange", "mchange", "tchange"}

RangeOf(s) == {s[i] : i \in DOMAIN s}
-----------------------------------------------------------------------------
(* The process lists and the event blocks.                                 *)

\* rlr is the running process only in process context: forker() parks it at -1
Running(p) == ctx = "user" /\ rlr # <<>> /\ Head(rlr) = p

\* the EVBs on the event list of p
p_evlist(p) == {e \in Evbs : e_list[e] # "eul" /\ e_pd[e] = p}

\* the EVBs of p that wait on a list l
Waiting(p, l) == {e \in Evbs : e_list[e] = l /\ e_pd[e] = p}

\* signal: the satisfied bits sig[q] are posted to every q; a process of the
\* not-ready list that waits for one of them goes to the drl
signal(sig) ==
  LET woken == {q \in nrl : (p_evflg[q] \cup sig[q]) \cap p_evwait[q] # {}}
  IN  /\ p_evflg' = [q \in Procs |-> p_evflg[q] \cup sig[q]]
      /\ nrl' = nrl \ woken
      /\ drl' = drl \cup woken

\* mutant of evremove: the satisfied bit is not signalled
evremove_quiet(S) ==
  /\ e_list' = [e \in Evbs |-> IF e \in S THEN "zlr" ELSE e_list[e]]
  /\ UNCHANGED <<p_evflg, nrl, drl>>

\* evremove: the EVBs of S leave their lists for the zombie list
evremove(S) ==
  /\ e_list' = [e \in Evbs |-> IF e \in S THEN "zlr" ELSE e_list[e]]
  /\ signal([q \in Procs |-> {e_mask[e] : e \in {x \in S : e_pd[x] = q}}])

\* mutant of disp: the caller stays at the head of the ready list
disp_head(p, ready) ==
  /\ rlr' = IF ready THEN rlr ELSE Tail(rlr)
  /\ nrl' = IF ready THEN nrl ELSE nrl \cup {p}
  /\ ctx' = "dispforker"

\* the first half of disp: the caller leaves the head of the ready list,
\* for its tail when it is ready, for the not-ready list when it is not
disp(p, ready) ==
  /\ rlr' = IF ready THEN Append(Tail(rlr), p) ELSE Tail(rlr)
  /\ nrl' = IF ready THEN nrl ELSE nrl \cup {p}
  /\ ctx' = "dispforker"
-----------------------------------------------------------------------------
(* Interrupts and the fork queue.                                          *)

\* forkq: a full queue drops the entry
forkq(code) == IF Len(fpq) < NFORKS THEN Append(fpq, code) ELSE fpq

\* chkkbd: a key is read from the driver only if its owner has room for it;
\* a change of the shift keys alone is queued too
chkkbd == \E code \in {"none", "kchange", "kshift"} :
  IF code = "none" \/ (code = "kchange" /\ c_cnt[gl_kowner] >= KBD_SIZE)
  THEN UNCHANGED <<fpq, irqs>>
  ELSE irqs < MaxIrq /\ irqs' = irqs + 1 /\ fpq' = forkq(code)

\* a button, mouse or tick interrupt
Interrupt(code) ==
  /\ irqs < MaxIrq
  /\ irqs' = irqs + 1
  /\ fpq' = forkq(code)
  /\ UNCHANGED <<ctx, procVars, flagVars, evbVars, syncVars, c_cnt, gl_kowner,
                 pipeVars, callVars>>

\* post_keybd: the key goes to a waiter of the owner, or into his queue
kchange ==
  LET W == Waiting(gl_kowner, "c_iiowait") IN
  \/ /\ W # {}
     /\ \E e \in W : evremove({e})
     /\ UNCHANGED c_cnt
  \/ /\ W = {}
     /\ c_cnt' = IF c_cnt[gl_kowner] < KBD_SIZE
                 THEN [c_cnt EXCEPT ![gl_kowner] = @ + 1] ELSE c_cnt
     /\ UNCHANGED <<e_list, drl, nrl, p_evflg>>

\* post_button, post_mouse: the waiters of the mouse owner the new state
\* satisfies; tchange: the waiters whose time is up; kchange without a key
\* only notes the shift keys
satisfied(code) ==
  /\ UNCHANGED c_cnt
  /\ \/ \E p \in Procs : \E S \in SUBSET Waiting(p, "c_bsleep") :
          code = "bchange" /\ evremove(S)
     \/ \E p \in Procs : \E S \in SUBSET Waiting(p, "c_msleep") :
          code = "mchange" /\ evremove(S)
     \/ code = "kshift" /\ evremove({})
     \/ \E S \in SUBSET {e \in Evbs : e_list[e] = "dlr"} :
          code = "tchange" /\ evremove(S)

\* one turn of forker's loop
ForkerStep ==
  /\ ctx \in {"forker", "dispforker"}
  /\ fpq # <<>>
  /\ fpq' = Tail(fpq)
  /\ IF Head(fpq) = "kchange" THEN kchange ELSE satisfied(Head(fpq))
  /\ UNCHANGED <<ctx, rlr, p_evbits, p_evwait, e_pd, e_mask, irqs, syncVars,
                 gl_kowner, pipeVars, callVars>>

\* forker's loop ends; it returns to evnt_multi or to disp
ForkerDone ==
  /\ ctx \in {"forker", "dispforker"}
  /\ fpq = <<>>
  /\ ctx' = IF ctx = "forker" THEN "user" ELSE "poll"
  /\ UNCHANGED <<procVars, flagVars, evbVars, fpq, irqs, syncVars, c_cnt,
                 gl_kowner, pipeVars, callVars>>

\* disp: poll the keyboard
Poll ==
  /\ ctx = "poll"
  /\ chkkbd
  /\ ctx' = "schedule"
  /\ UNCHANGED <<procVars, flagVars, evbVars, syncVars, c_cnt, gl_kowner,
                 pipeVars, callVars>>

\* disp: a signalled process goes to the end of the ready list
DrlToRlr(p) ==
  /\ ctx = "schedule"
  /\ p \in drl
  /\ drl' = drl \ {p}
  /\ rlr' = Append(rlr, p)
  /\ UNCHANGED <<ctx, nrl, flagVars, evbVars, fpq, irqs, syncVars, c_cnt,
                 gl_kowner, pipeVars, callVars>>

\* disp: run the forks, poll again while there is nobody to run, or switch to
\* the head of the ready list
Schedule ==
  /\ ctx = "schedule"
  /\ drl = {}
  /\ ctx' = CASE fpq # <<>> -> "dispforker"
              [] fpq = <<>> /\ rlr = <<>> -> "poll"
              [] fpq = <<>> /\ rlr # <<>> -> "user"
  /\ irqs' = IF fpq = <<>> THEN 0 ELSE irqs
  /\ UNCHANGED <<procVars, flagVars, evbVars, fpq, syncVars, c_cnt, gl_kowner,
                 pipeVars, callVars>>
-----------------------------------------------------------------------------
(* AES calls of the running process.                                       *)

\* evnt_multi: a keyboard poll, then the forker runs in process context
EvMulti(p, flags) ==
  /\ Running(p) /\ pc[p] = "user"
  /\ chkkbd
  /\ ctx' = "forker"
  /\ pc' = [pc EXCEPT ![p] = "check"]
  /\ call' = [call EXCEPT ![p] = "multi"]
  /\ todo' = [todo EXCEPT ![p] = flags]
  /\ UNCHANGED <<procVars, flagVars, evbVars, syncVars, c_cnt, gl_kowner,
                 pipeVars, wmask, qpb_pid, nest>>

\* the quick checks of evnt_multi.  Whether the mouse, the buttons or a zero
\* timer satisfy it (quick) is data.  A waiting message is read by ev_mesag.
EvQuick(p, quick) ==
  LET key  == "AKBIN" \in todo[p] /\ c_cnt[p] > 0
      msg  == "AQRD" \in todo[p] /\ p_qindex[p] > 0
      what == key \/ msg \/ quick # {}
  IN
  /\ Running(p) /\ pc[p] = "check"
  /\ c_cnt' = IF key THEN [c_cnt EXCEPT ![p] = @ - 1] ELSE c_cnt
  /\ pc' = [pc EXCEPT ![p] = IF what /\ ~msg THEN "exit" ELSE "iasync"]
  /\ todo' = CASE ~what      -> todo
               [] what /\ msg  -> [todo EXCEPT ![p] = {"AQRD"}]
               [] what /\ ~msg -> [todo EXCEPT ![p] = {}]
  /\ call' = IF what THEN [call EXCEPT ![p] = "block"] ELSE call
  /\ UNCHANGED <<ctx, procVars, flagVars, evbVars, fpq, irqs, syncVars,
                 gl_kowner, pipeVars, wmask, qpb_pid, nest>>

\* ev_block: one event, then mwait, then aret
EvBlock(p, func, how, q) ==
  /\ Running(p) /\ pc[p] = "user"
  /\ pc' = [pc EXCEPT ![p] = "iasync"]
  /\ call' = [call EXCEPT ![p] = how]
  /\ todo' = [todo EXCEPT ![p] = {func}]
  /\ qpb_pid' = [qpb_pid EXCEPT ![p] = q]
  /\ UNCHANGED <<ctx, procVars, flagVars, evbVars, fpq, irqs, syncVars, c_cnt,
                 gl_kowner, pipeVars, wmask, nest>>

\* mutant of tak_flag: a semaphore taken once counts as free
tak_flag_once(p) == sy_tas <= 1 \/ sy_owner = p

\* tak_flag: free, or already ours
tak_flag(p) == sy_tas = 0 \/ sy_owner = p

\* wind_update(BEG_UPDATE)
BegUpdate(p) ==
  /\ "update" \in Ops /\ nest[p] < MaxNest
  /\ IF tak_flag(p)
     THEN /\ Running(p) /\ pc[p] = "user"
          /\ sy_tas' = sy_tas + 1
          /\ sy_owner' = p
          /\ nest' = [nest EXCEPT ![p] = @ + 1]
          /\ pc' = [pc EXCEPT ![p] = "exit"]
          /\ UNCHANGED <<ctx, procVars, flagVars, evbVars, fpq, irqs, sy_wait,
                         c_cnt, gl_kowner, pipeVars, call, todo, wmask,
                         qpb_pid>>
     ELSE EvBlock(p, "AMUTEX", "mutex", p)

\* wind_update(END_UPDATE), unsync: the last one hands the semaphore to the
\* newest waiter and dispatches.  Programs end only what they began.
EndUpdate(p) ==
  /\ "update" \in Ops
  /\ Running(p) /\ pc[p] = "user" /\ nest[p] > 0
  /\ nest' = [nest EXCEPT ![p] = @ - 1]
  /\ pc' = [pc EXCEPT ![p] = "exit"]
  /\ IF sy_tas = 1 /\ sy_wait # <<>>
     THEN LET e == Head(sy_wait) IN
          /\ sy_wait' = Tail(sy_wait)
          /\ sy_owner' = e_pd[e]
          /\ sy_tas' = 1
          /\ evremove({e})
          /\ rlr' = Append(Tail(rlr), p)
          /\ ctx' = "dispforker"
     ELSE /\ sy_tas' = IF sy_tas > 0 THEN sy_tas - 1 ELSE 0
          /\ sy_owner' = IF sy_tas = 1 THEN NULL ELSE sy_owner
          /\ UNCHANGED <<ctx, procVars, p_evflg, e_list, sy_wait>>
  /\ UNCHANGED <<p_evbits, p_evwait, e_pd, e_mask, fpq, irqs, c_cnt,
                 gl_kowner, pipeVars, call, todo, wmask, qpb_pid>>

\* ct_chgown: q gets mouse and keyboard; the mouse and button events its
\* waiters are satisfied with (S) are posted
ChgOwn(p, q) ==
  /\ "chgown" \in Ops
  /\ Running(p) /\ pc[p] = "user"
  /\ \E S \in SUBSET (Waiting(q, "c_msleep") \cup Waiting(q, "c_bsleep")) :
       evremove(S)
  /\ gl_kowner' = q
  /\ pc' = [pc EXCEPT ![p] = "exit"]
  /\ UNCHANGED <<ctx, rlr, p_evbits, p_evwait, e_pd, e_mask, fpq, irqs,
                 syncVars, c_cnt, pipeVars, call, todo, wmask, qpb_pid, nest>>
-----------------------------------------------------------------------------
(* iasync: an unused EVB e (all are alike: the first stands for the head   *)
(* of eul) and the lowest free event bit b are given to an event, which is *)
(* either satisfied at once or waits on a list.                            *)

\* the event, and the EVBs W it satisfies besides, are complete
Satisfied(p, e, b, W) ==
  /\ e_list' = [x \in Evbs |-> IF x \in W \cup {e} THEN "zlr" ELSE e_list[x]]
  /\ signal([q \in Procs |-> {e_mask[x] : x \in {y \in W : e_pd[y] = q}}
                              \cup (IF q = p THEN {b} ELSE {})])

\* evinsert
Insert(e, l) ==
  /\ e_list' = [e_list EXCEPT ![e] = l]
  /\ UNCHANGED <<drl, nrl, p_evflg>>

akbin(p, e, b) ==
  /\ IF c_cnt[p] > 0
     THEN /\ c_cnt' = [c_cnt EXCEPT ![p] = @ - 1]
          /\ Satisfied(p, e, b, {})
     ELSE Insert(e, "c_iiowait") /\ UNCHANGED c_cnt
  /\ UNCHANGED <<syncVars, pipeVars>>

\* whether mouse and buttons satisfy the event already is data
amouse(p, e, b, l) ==
  /\ Satisfied(p, e, b, {}) \/ Insert(e, l)
  /\ UNCHANGED <<c_cnt, syncVars, pipeVars>>

adelay(e) == Insert(e, "dlr") /\ UNCHANGED <<c_cnt, syncVars, pipeVars>>

\* doq: a message goes into a pipe with n messages in it; a redraw message is
\* united with one for the same window that is there already
doq(n) == {n + 1} \cup (IF n > 0 THEN {n} ELSE {})

\* mutant of aqrd: a blocked writer is not served
aqrd_alone(p, e, b) ==
  /\ IF p_qindex[p] > 0
     THEN /\ Satisfied(p, e, b, {})
          /\ p_qindex' = [p_qindex EXCEPT ![p] = @ - 1]
          /\ UNCHANGED p_qnq
     ELSE Insert(e, "p_qdq") /\ UNCHANGED pipeVars
  /\ UNCHANGED <<c_cnt, syncVars>>

\* aqueue(FALSE): p reads its own pipe; the newest blocked writer may then
\* put its message into the room
aqrd(p, e, b) ==
  /\ IF p_qindex[p] > 0
     THEN IF p_qnq[p] # <<>>
          THEN /\ Satisfied(p, e, b, {Head(p_qnq[p])})
               /\ p_qnq' = [p_qnq EXCEPT ![p] = Tail(@)]
               /\ \E n \in doq(p_qindex[p] - 1) :
                    p_qindex' = [p_qindex EXCEPT ![p] = n]
          ELSE /\ Satisfied(p, e, b, {})
               /\ p_qindex' = [p_qindex EXCEPT ![p] = @ - 1]
               /\ UNCHANGED p_qnq
     ELSE Insert(e, "p_qdq") /\ UNCHANGED pipeVars
  /\ UNCHANGED <<c_cnt, syncVars>>

\* aqueue(TRUE): p writes to the pipe of q, whose blocked read may then take
\* the message
aqwrt(p, e, b, q) ==
  /\ IF p_qindex[q] < QUEUE_SIZE
     THEN \/ /\ Waiting(q, "p_qdq") = {}
             /\ Satisfied(p, e, b, {})
             /\ \E n \in doq(p_qindex[q]) :
                  p_qindex' = [p_qindex EXCEPT ![q] = n]
             /\ UNCHANGED p_qnq
          \/ /\ \E r \in Waiting(q, "p_qdq") : Satisfied(p, e, b, {r})
             /\ UNCHANGED pipeVars
     ELSE /\ Insert(e, "p_qnq")
          /\ p_qnq' = [p_qnq EXCEPT ![q] = <<e>> \o @]
          /\ UNCHANGED p_qindex
  /\ UNCHANGED <<c_cnt, syncVars>>

\* mutant of amutex: the EVB is not linked to the semaphore
amutex_unlinked(p, e, b) ==
  /\ IF tak_flag(p)
     THEN /\ Satisfied(p, e, b, {})
          /\ sy_tas' = sy_tas + 1
          /\ sy_owner' = p
          /\ UNCHANGED sy_wait
     ELSE Insert(e, "sy_wait") /\ UNCHANGED syncVars
  /\ UNCHANGED <<c_cnt, pipeVars>>

amutex(p, e, b) ==
  /\ IF tak_flag(p)
     THEN /\ Satisfied(p, e, b, {})
          /\ sy_tas' = sy_tas + 1
          /\ sy_owner' = p
          /\ UNCHANGED sy_wait
     ELSE /\ Insert(e, "sy_wait")
          /\ sy_wait' = <<e>> \o sy_wait
          /\ UNCHANGED <<sy_tas, sy_owner>>
  /\ UNCHANGED <<c_cnt, pipeVars>>

\* the order in which evnt_multi passes its events
Rank == [f \in Afuncs |->
  CASE f = "AKBIN" -> 1 [] f = "ABUTTON" -> 2 [] f = "AMOUSE" -> 3
    [] f = "AMOUSE2" -> 4 [] f = "AQRD" -> 5 [] f = "ADELAY" -> 6
    [] OTHER -> 7]

iasync(p, f, e, b) ==
  /\ Running(p) /\ pc[p] = "iasync"
  /\ f \in todo[p] /\ \A g \in todo[p] : Rank[f] <= Rank[g]
  /\ e_list[e] = "eul" /\ \A x \in Evbs : e_list[x] = "eul" => e <= x
  /\ b \in EvBits \ p_evbits[p] /\ \A c \in EvBits \ p_evbits[p] : b <= c
  /\ e_pd' = [e_pd EXCEPT ![e] = p]
  /\ e_mask' = [e_mask EXCEPT ![e] = b]
  /\ p_evbits' = [p_evbits EXCEPT ![p] = @ \cup {b}]
  /\ wmask' = [wmask EXCEPT ![p] = @ \cup {b}]
  /\ todo' = [todo EXCEPT ![p] = @ \ {f}]
  /\ \/ f = "AKBIN" /\ akbin(p, e, b)
     \/ f = "ABUTTON" /\ amouse(p, e, b, "c_bsleep")
     \/ f \in {"AMOUSE", "AMOUSE2"} /\ amouse(p, e, b, "c_msleep")
     \/ f = "ADELAY" /\ adelay(e)
     \/ f = "AQRD" /\ aqrd(p, e, b)
     \/ f = "AQWRT" /\ aqwrt(p, e, b, qpb_pid[p])
     \/ f = "AMUTEX" /\ amutex(p, e, b)
  /\ UNCHANGED <<ctx, rlr, p_evwait, fpq, irqs, gl_kowner, pc, call, qpb_pid,
                 nest>>

\* mutant of mwait: it sleeps without testing the events first
mwait_untested(p) ==
  /\ Running(p) /\ pc[p] = "iasync" /\ todo[p] = {}
  /\ p_evwait' = [p_evwait EXCEPT ![p] = wmask[p]]
  /\ pc' = [pc EXCEPT ![p] = "return"]
  /\ disp(p, FALSE)
  /\ UNCHANGED <<drl, p_evbits, p_evflg, evbVars, fpq, irqs, syncVars, c_cnt,
                 gl_kowner, pipeVars, call, todo, wmask, qpb_pid, nest>>

\* mwait: sleep unless an awaited event is already satisfied
mwait(p) ==
  /\ Running(p) /\ pc[p] = "iasync" /\ todo[p] = {}
  /\ p_evwait' = [p_evwait EXCEPT ![p] = wmask[p]]
  /\ pc' = [pc EXCEPT ![p] = "return"]
  /\ IF wmask[p] \cap p_evflg[p] # {}
     THEN UNCHANGED <<ctx, rlr, nrl>>
     ELSE disp(p, FALSE)
  /\ UNCHANGED <<drl, p_evbits, p_evflg, evbVars, fpq, irqs, syncVars, c_cnt,
                 gl_kowner, pipeVars, call, todo, wmask, qpb_pid, nest>>

\* mutant of acancel: a pending read of the keyboard is forgotten
acancel_nokbd(p, m) ==
  {e \in p_evlist(p) : e_mask[e] \in m /\ e_list[e] \notin {"zlr", "c_iiowait"}}

\* acancel: what mask m of p still waits for is cancelled
acancel(p, m) ==
  {e \in p_evlist(p) : e_mask[e] \in m /\ e_list[e] # "zlr"}

\* aret: an event is returned once it is on the zombie list
aret(p, m) ==
  {e \in p_evlist(p) : e_mask[e] \in m /\ e_list[e] = "zlr"}

\* the EVBs of S go back to the unused list
Free(S) ==
  /\ e_list' = [e \in Evbs |-> IF e \in S THEN "eul" ELSE e_list[e]]
  /\ e_pd' = [e \in Evbs |-> IF e \in S THEN NULL ELSE e_pd[e]]
  /\ e_mask' = [e \in Evbs |-> IF e \in S THEN 0 ELSE e_mask[e]]

\* what follows mwait: evnt_multi cancels what did not happen and returns
\* what did; ev_block returns its event
EvReturn(p) ==
  LET cancelled == IF call[p] = "multi" THEN acancel(p, wmask[p]) ELSE {}
      returned  == aret(p, wmask[p])
      bits(S)   == {e_mask[e] : e \in S}
  IN
  /\ Running(p) /\ pc[p] = "return"
  /\ Free(cancelled \cup returned)
  /\ p_evbits' = [p_evbits EXCEPT ![p] = @ \ bits(cancelled \cup returned)]
  /\ p_evwait' = [p_evwait EXCEPT ![p] = @ \ bits(cancelled \cup returned)]
  /\ p_evflg' = [p_evflg EXCEPT ![p] = @ \ bits(returned)]
  /\ nest' = IF call[p] = "mutex" THEN [nest EXCEPT ![p] = @ + 1] ELSE nest
  /\ pc' = [pc EXCEPT ![p] = "exit"]
  /\ call' = [call EXCEPT ![p] = "block"]
  /\ wmask' = [wmask EXCEPT ![p] = {}]
  /\ qpb_pid' = [qpb_pid EXCEPT ![p] = p]
  /\ UNCHANGED <<ctx, procVars, fpq, irqs, syncVars, c_cnt, gl_kowner,
                 pipeVars, todo>>

\* every AES call, and appl_yield, ends in dsptch: the caller goes to the
\* end of the ready list
Exit(p) ==
  /\ Running(p) /\ pc[p] \in {"user", "exit"}
  /\ disp(p, TRUE)
  /\ pc' = [pc EXCEPT ![p] = "user"]
  /\ UNCHANGED <<drl, flagVars, evbVars, fpq, irqs, syncVars, c_cnt,
                 gl_kowner, pipeVars, call, todo, wmask, qpb_pid, nest>>
-----------------------------------------------------------------------------
\* process 0 runs, the other processes have been started (pstart); one of
\* them, the screen manager, owns the keyboard
Init ==
  /\ ctx = "user"
  /\ \E p \in Procs : rlr = <<p>> /\ drl = Procs \ {p}
  /\ gl_kowner \in drl
  /\ nrl = {}
  /\ p_evbits = [p \in Procs |-> {}]
  /\ p_evwait = [p \in Procs |-> {}]
  /\ p_evflg = [p \in Procs |-> {}]
  /\ e_list = [e \in Evbs |-> "eul"]
  /\ e_pd = [e \in Evbs |-> NULL]
  /\ e_mask = [e \in Evbs |-> 0]
  /\ fpq = <<>> /\ irqs = 0
  /\ sy_tas = 0 /\ sy_owner = NULL /\ sy_wait = <<>>
  /\ c_cnt = [p \in Procs |-> 0]
  /\ p_qindex = [p \in Procs |-> 0]
  /\ p_qnq = [p \in Procs |-> <<>>]
  /\ pc = [p \in Procs |-> "user"]
  /\ call = [p \in Procs |-> "block"]
  /\ todo = [p \in Procs |-> {}]
  /\ wmask = [p \in Procs |-> {}]
  /\ qpb_pid = [p \in Procs |-> p]
  /\ nest = [p \in Procs |-> 0]

\* a program makes one of its AES calls
UserCall(p) ==
  \/ \E flags \in MultiFlags : EvMulti(p, flags)
  \/ \E func \in BlockFuncs : EvBlock(p, func, "block", p)
  \/ "read" \in Ops /\ EvBlock(p, "AQRD", "block", p)
  \/ "write" \in Ops /\ \E q \in Procs : EvBlock(p, "AQWRT", "block", q)
  \/ BegUpdate(p)
  \/ EndUpdate(p)
  \/ \E q \in Procs : ChgOwn(p, q)

\* the kernel goes on with the AES call of the running process
KernelStep(p) ==
  \/ \E quick \in SUBSET (todo[p] \ {"AKBIN", "AQRD"}) : EvQuick(p, quick)
  \/ \E f \in Afuncs, e \in Evbs, b \in EvBits : iasync(p, f, e, b)
  \/ mwait(p)
  \/ EvReturn(p)

Next ==
  \/ \E code \in Irqs : Interrupt(code)
  \/ ForkerStep
  \/ ForkerDone
  \/ \E p \in Procs : DrlToRlr(p)
  \/ Poll
  \/ Schedule
  \/ \E p \in Procs : UserCall(p) \/ KernelStep(p) \/ Exit(p)

Spec == Init /\ [][Next]_vars

\* The kernel runs on, and programs keep making AES calls: the dispatcher is
\* cooperative, a program that never calls the AES stops everyone else.
Fairness ==
  /\ WF_vars(ForkerStep) /\ WF_vars(ForkerDone)
  /\ WF_vars(Poll) /\ WF_vars(Schedule)
  /\ \A p \in Procs : /\ WF_vars(DrlToRlr(p))
                      /\ WF_vars(KernelStep(p))
                      /\ WF_vars(UserCall(p) \/ Exit(p))

FairSpec == Spec /\ Fairness

\* Programs that have the screen also give it up again and again: each
\* BEG_UPDATE is ended, the outermost one too.
PoliteSpec == FairSpec /\ \A p \in Procs :
  SF_vars(EndUpdate(p)) /\ SF_vars(nest[p] = 1 /\ EndUpdate(p))
-----------------------------------------------------------------------------
(* What the kernel promises.                                               *)

\* Type invariant: the process lists, masks, EVB fields, counters and program
\* counters stay in their ranges (aes/struct88.h).
TypeOK ==
  /\ ctx \in {"user", "forker", "dispforker", "poll", "schedule"}
  /\ rlr \in Seq(Procs) /\ drl \subseteq Procs /\ nrl \subseteq Procs
  /\ p_evbits \in [Procs -> SUBSET EvBits]
  /\ p_evwait \in [Procs -> SUBSET EvBits]
  /\ p_evflg \in [Procs -> SUBSET EvBits]
  /\ e_list \in [Evbs -> Lists]
  /\ e_pd \in [Evbs -> Procs \cup {NULL}]
  /\ e_mask \in [Evbs -> EvBits \cup {0}]
  /\ fpq \in Seq(FCodes) /\ Len(fpq) <= NFORKS
  /\ irqs \in 0..MaxIrq
  /\ sy_tas \in Nat /\ sy_owner \in Procs \cup {NULL}
  /\ sy_wait \in Seq(Evbs)
  /\ c_cnt \in [Procs -> 0..KBD_SIZE]
  /\ gl_kowner \in Procs
  /\ p_qindex \in [Procs -> 0..QUEUE_SIZE]
  /\ p_qnq \in [Procs -> Seq(Evbs)]
  /\ pc \in [Procs -> {"user", "check", "iasync", "return", "exit"}]
  /\ call \in [Procs -> {"multi", "block", "mutex"}]
  /\ todo \in [Procs -> SUBSET Afuncs]
  /\ wmask \in [Procs -> SUBSET EvBits]
  /\ qpb_pid \in [Procs -> Procs]
  /\ nest \in [Procs -> Nat]

\* Every process is on exactly one of rlr, drl and nrl, and once: disp,
\* disp_act, signal and pstart move the one p_link of a PD between the lists,
\* and a process in two lists would cut one of them off.
OnOneList ==
  /\ RangeOf(rlr) \cup drl \cup nrl = Procs
  /\ drl \cap nrl = {} /\ RangeOf(rlr) \cap (drl \cup nrl) = {}
  /\ \A i, j \in DOMAIN rlr : rlr[i] = rlr[j] => i = j

\* No wakeup is lost: while a process sleeps in mwait nothing it waits for has
\* happened, and each thing it waits for has an EVB on a waiting list that a
\* fork, a message or an unsync can still signal.
NoLostWakeup == \A p \in nrl :
  /\ p_evwait[p] # {} /\ p_evwait[p] \cap p_evflg[p] = {}
  /\ \A b \in p_evwait[p] : \E e \in p_evlist(p) :
       e_mask[e] = b /\ e_list[e] \in WaitLists

\* No wakeup is spurious: a process that has left mwait finds an event it
\* waited for on the zombie list, so evnt_multi and ev_block never return
\* with nothing.
NoSpuriousWakeup == \A p \in Procs : pc[p] = "return" /\ p \notin nrl =>
  \E e \in p_evlist(p) : e_list[e] = "zlr" /\ e_mask[e] \in p_evwait[p]

\* The event bits of a process are those of its EVBs, one each, and the
\* satisfied ones are those of its EVBs on the zombie list; between two AES
\* calls it has none: acancel and aret leave no EVB and no stale bit behind,
\* which would complete a later event that has not happened.
BitsMatchEvbs == \A p \in Procs :
  /\ p_evbits[p] = {e_mask[e] : e \in p_evlist(p)}
  /\ p_evflg[p] = {e_mask[e] : e \in {x \in p_evlist(p) : e_list[x] = "zlr"}}
  /\ \A e, x \in p_evlist(p) : e_mask[e] = e_mask[x] => e = x
  /\ pc[p] \in {"user", "check", "exit"} =>
       p_evlist(p) = {} /\ p_evwait[p] = {}

\* The window semaphore (wind_update): at most one program is between BEG_ and
\* END_UPDATE, the count is its nesting, and a semaphore that is not held has
\* no owner and nobody waiting.
WindowLock ==
  /\ \A p \in Procs : nest[p] > 0 => sy_owner = p /\ sy_tas = nest[p]
  /\ sy_tas = 0 <=> sy_owner = NULL
  /\ sy_tas = 0 => sy_wait = <<>>
  /\ sy_tas > 0 /\ nest[sy_owner] = 0 =>
       sy_tas = 1 /\ call[sy_owner] = "mutex" /\ p_evflg[sy_owner] # {}

\* No reader and no writer is stranded on a pipe: a reader is blocked only
\* while it is empty, a writer only while a message is left whose reading will
\* serve it.  A redraw that doq unites with another leaves room behind it
\* although aqueue wakes one writer only.
PipeWaiters == \A q \in Procs :
  /\ p_qnq[q] # <<>> => p_qindex[q] > 0
  /\ Waiting(q, "p_qdq") # {} => p_qindex[q] = 0

\* iasync finds an unused EVB: it links the EVB without testing for NULL.
EvbPool == \A p \in Procs :
  pc[p] = "iasync" /\ todo[p] # {} => \E e \in Evbs : e_list[e] = "eul"

\* A process that is ready, or was signalled, runs: disp takes the ready list
\* in turn and drains the drl at every dispatch.
ReadyRuns == \A p \in Procs :
  (p \in drl \/ p \in RangeOf(rlr)) ~> Running(p)

\* A program blocked in BEG_UPDATE gets the screen when the holders keep
\* giving it up and none waits for an event forever with the screen in hand
\* (aes/gemflag.c: "blocked until the wind_update( FALSE ) is called by the
\* owner").
ScreenGranted ==
  (\A q \in Procs : []<>(nest[q] = 0 \/ q \notin nrl)) =>
    \A p \in Procs : (call[p] = "mutex" /\ pc[p] = "return") ~> sy_owner = p
-----------------------------------------------------------------------------
(* The inductive invariant: what ties the program counter of a process to  *)
(* the lists it is on and to its event bits.                               *)

\* who is where in an AES call
CallState ==
  /\ ctx \in {"user", "forker"} => rlr # <<>>
  /\ \A p \in Procs :
       /\ pc[p] \in {"check", "iasync"} =>
            ctx \in {"user", "forker"} /\ p = Head(rlr)
       /\ p \in nrl => pc[p] = "return"
       /\ pc[p] \in {"user", "return", "exit"} => todo[p] = {}
       /\ pc[p] = "check" => call[p] = "multi" /\ todo[p] # {}
       /\ call[p] = "multi" => todo[p] \subseteq MultiFuncs

\* the events of a call are those its mask names
MaskState == \A p \in Procs :
  /\ wmask[p] = p_evbits[p]
  /\ p_evwait[p] = IF pc[p] = "return" THEN wmask[p] ELSE {}
  /\ pc[p] \in {"user", "check", "exit"} => wmask[p] = {}
  /\ pc[p] = "iasync" /\ call[p] = "multi" => wmask[p] # {} \/ todo[p] # {}
  /\ pc[p] = "iasync" /\ call[p] # "multi" =>
       \/ wmask[p] = {} /\ \E f \in Afuncs : todo[p] = {f}
       \/ todo[p] = {} /\ \E b \in EvBits : wmask[p] = {b}
  /\ pc[p] = "return" => wmask[p] # {}
  /\ pc[p] = "return" /\ call[p] # "multi" => \E b \in EvBits : wmask[p] = {b}
  /\ pc[p] = "return" => (p \in nrl <=> p_evwait[p] \cap p_evflg[p] = {})

\* the writers' and the semaphore's lists hold EVBs of blocked calls, once
QueueState ==
  /\ \A q \in Procs : \A i \in DOMAIN p_qnq[q] : e_list[p_qnq[q][i]] = "p_qnq"
  /\ \A q, r \in Procs : \A i \in DOMAIN p_qnq[q], j \in DOMAIN p_qnq[r] :
       p_qnq[q][i] = p_qnq[r][j] => q = r /\ i = j
  /\ \A i \in DOMAIN sy_wait : e_list[sy_wait[i]] = "sy_wait"
  /\ \A i, j \in DOMAIN sy_wait : sy_wait[i] = sy_wait[j] => i = j
  /\ \A e \in Evbs : e_list[e] \in {"p_qnq", "sy_wait"} =>
       call[e_pd[e]] # "multi"

EvbState ==
  /\ \A e \in Evbs : e_list[e] # "eul" => e_pd[e] \in Procs
  /\ \A p \in Procs :
       /\ p_evbits[p] = {e_mask[e] : e \in p_evlist(p)}
       /\ p_evflg[p] =
            {e_mask[e] : e \in {x \in p_evlist(p) : e_list[x] = "zlr"}}
       /\ \A e, x \in p_evlist(p) : e_mask[e] = e_mask[x] => e = x

\* a program that waits for the semaphore has taken nothing, waits for nothing
\* else, and is the owner exactly when it has been woken
LockState ==
  /\ \A p \in Procs :
       /\ "AMUTEX" \in todo[p] => call[p] = "mutex"
       /\ call[p] = "mutex" =>
            /\ nest[p] = 0 /\ pc[p] \in {"iasync", "return"}
            /\ todo[p] \subseteq {"AMUTEX"}
            /\ pc[p] = "iasync" => sy_tas > 0 /\ sy_owner # p
            /\ p_evflg[p] # {} => sy_owner = p /\ sy_tas = 1
  /\ \A i \in DOMAIN sy_wait : call[e_pd[sy_wait[i]]] = "mutex"
  /\ \A e \in Evbs : e_list[e] \in WaitLists /\ call[e_pd[e]] = "mutex" =>
       e_list[e] = "sy_wait"

\* Type correctness, the process lists, the state of every call, its event
\* mask, its EVBs, the waiting lists and the semaphore, together preserved by
\* every step of the kernel (aes/gemdisp.c, gemasync.c, gemqueue.c, gemflag.c).
KernelInv ==
  TypeOK /\ OnOneList /\ CallState /\ MaskState /\ EvbState /\ QueueState
    /\ PipeWaiters /\ WindowLock /\ LockState
=============================================================================
