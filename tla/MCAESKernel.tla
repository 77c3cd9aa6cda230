---------------------------- MODULE MCAESKernel ----------------------------
(* Instances of AESKernel for TLC. *)
EXTENDS AESKernel, TLC

Symmetry == Permutations(Procs)

\* All EVBs are alike: states that differ only in which of them are in use, and
\* in what order they were taken, are one.  An EVB in use is known by its process
\* and its bit (EvbsAlike: BitsMatchEvbs says that no two have the same).
Named(e) == <<e_pd[e], e_mask[e]>>
AllNamed(s) == [i \in DOMAIN s |-> Named(s[i])]
EvbsAlike ==
  <<ctx, procVars, flagVars, fpq, irqs, c_cnt, gl_kowner, callVars,
    {<<Named(e), e_list[e]>> : e \in {x \in Evbs : e_list[x] # "eul"}},
    Cardinality({e \in Evbs : e_list[e] = "eul"}),
    <<sy_tas, sy_owner, AllNamed(sy_wait)>>,
    <<p_qindex, [q \in Procs |-> AllNamed(p_qnq[q])]>>>>

None == {}
PipeOps == {"write", "read"}
UpdateChgOps == {"update", "chgown"}

MultiKbdMouse == {{"AKBIN", "AQRD"}, {"AQRD", "AMOUSE"}}
MultiMouse == {{"ADELAY", "AMOUSE"}}
MultiAll == {MultiFuncs}

Evbs4 == 1..4
Evbs6 == 1..6
Evbs10 == 1..10
Bits2 == 0..1
Bits6 == 0..5
=============================================================================
