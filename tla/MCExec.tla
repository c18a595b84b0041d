------------------------------- MODULE MCExec --------------------------------
(* Guests of the four architectures, on words of 8 bits: the states they   *)
(* start in and the instructions their programs are made of.  First the    *)
(* RV32 guests: three registers, sixteen bytes of memory at 64, everything *)
(* else unmapped.                                                          *)
EXTENDS Exec, RvExec, PpcIr, TLC, ArmIr, G4Exec

MCMap == <<RamRegion(64, 16)>>
Ms0 == [mie |-> FALSE, mpie |-> FALSE, mpp |-> U, sie |-> FALSE, spie |-> FALSE, spp |-> FALSE,
        mprv |-> FALSE, sum |-> FALSE, mxr |-> FALSE, tvm |-> FALSE, tw |-> FALSE, tsr |-> FALSE]
PmpOff == [a |-> "OFF", l |-> FALSE, perm |-> {}, addr |-> 0]
Raw(x1, x2, fs, fr) ==
       [arch |-> "rv", reg |-> (0 :> 0) @@ (1 :> x1) @@ (2 :> x2) @@ (3 :> 7) @@ (32 :> fs), fw |-> {},
        freg |-> (0 :> fr[1]) @@ (1 :> fr[2]) @@ (2 :> fr[3]),
        pc |-> 8, retired |-> 0, priv |-> M, ms |-> Ms0, mip |-> {}, mie |-> {}, mideleg |-> {}, medeleg |-> {},
        mtvec |-> [base |-> 128, vectored |-> FALSE], stvec |-> [base |-> 160, vectored |-> FALSE], mepc |-> 0, mcause |-> <<>>, mtval |-> <<>>,
        sepc |-> 0, scause |-> <<>>, stval |-> <<>>, satp |-> [on |-> FALSE, root |-> 1],
        pte |-> <<>>, mem |-> [a \in 64 .. 79 |-> a % 4], tlb |-> <<>>, dtlb |-> <<>>, itlb |-> <<>>, mega |-> {},
        vm_gen |-> 0, pmp |-> [i \in 0 .. PmpCount - 1 |-> PmpOff], pmp_active |-> FALSE, pmp_any |-> FALSE,
        pmp_gen |-> 0, vm_active |-> FALSE, trig |-> [on |-> FALSE, modes |-> {}, kinds |-> {}, addr |-> 64],
        trig_active |-> FALSE, fetch_guard |-> FALSE, data_guard |-> FALSE, resv |-> None,
        split |-> [valid |-> FALSE, req |-> 0, at |-> 0], irq_dirty |-> FALSE, jit_ctx |-> <<>>,
        state |-> "RUN", frm |-> 0, mcounteren |-> {}, scounteren |-> {},
        hpm |-> [event |-> "NONE", inhibit |-> FALSE, armed |-> FALSE, count |-> 0, of |-> FALSE, not |-> {}],
        menvcfg |-> [cbie |-> "NO", cbze |-> TRUE, cbcfe |-> FALSE],
        senvcfg |-> [cbie |-> "NO", cbze |-> TRUE, cbcfe |-> FALSE]]
FReg(hi, lo) == [hi |-> hi, lo |-> lo]
Boxed(x) == FReg(255, x)
RvCpu(x1, x2, fs, f0, f1, f2) ==
    LET k == [MmuFlush(Raw(x1, x2, fs, <<f0, f1, f2>>)) EXCEPT !.vm_gen = 0] IN [k EXCEPT !.jit_ctx = CtxKey(k)]
\* User code, which physical memory protection keeps below 72.
RvUser(h) ==
    LET k == PmpRefresh([h EXCEPT !.priv = U, !.pmp[0] = [PmpOff EXCEPT !.a = "TOR", !.addr = 18, !.perm = Perms]])
    IN [k EXCEPT !.jit_ctx = CtxKey(k)]
\* Values at the edges: the most negative word and -1, zero, an address.
RvCpus == <<RvCpu(128, 255, 1, Boxed(20), FReg(3, 9), Boxed(120)),
            RvCpu(66, 3, 1, Boxed(20), Boxed(112), Boxed(240)),
            RvCpu(201, 0, 0, Boxed(20), FReg(3, 9), Boxed(120)),
            RvUser(RvCpu(70, 64, 1, Boxed(20), FReg(3, 9), Boxed(120)))>>
Base == [op |-> "OP", f3 |-> 0, f7 |-> 0, rd |-> 1, rs1 |-> 1, rs2 |-> 2, rs3 |-> 0, imm |-> 0, len |-> 4,
         fmt |-> 0, f5 |-> 0, sys |-> "none", csr |-> "none", v |-> 0, cbo |-> "ZERO", op5 |-> "ADD", aq |-> TRUE, rl |-> TRUE]
RvKept(h) ==
    [ms |-> h.ms, mie |-> h.mie, mip |-> h.mip, deleg |-> <<h.medeleg, h.mideleg>>, vec |-> <<h.mtvec, h.stvec>>, mepc |-> h.mepc, sepc |-> h.sepc,
     mcause |-> h.mcause, scause |-> h.scause, satp |-> h.satp, pmp |-> h.pmp, env |-> <<h.menvcfg, h.senvcfg, h.mcounteren>>, trig |-> h.trig,
     mem |-> [a \in {b \in DOMAIN h.mem : ~PmpCheck(h, b, 1, "STORE")} |-> h.mem[a]]]
RvHandlers(h) == {h.mtvec.base, h.stvec.base}
RvRefused(h, in) == h.mcause \in {Fault("LOAD", "ACCESS"), Fault("STORE", "ACCESS")} /\ ~(in.op = "AMO" /\ in.op5 = "SC")
RvOpened(h) == PmpRefresh([h EXCEPT !.pmp[0] = [@ EXCEPT !.a = "TOR", !.addr = 64, !.perm = Perms]])
RvReturned(h) == Mret(h, Base).h
RvVisible(h) ==
    [reg |-> h.reg, freg |-> h.freg, pc |-> h.pc, mem |-> h.mem, priv |-> h.priv, pmp |-> h.pmp, satp |-> h.satp,
     ms |-> [h.ms EXCEPT !.mpie = FALSE, !.mie = FALSE]]
RvOp(f3, f7) == [Base EXCEPT !.f3 = f3, !.f7 = f7]
RvOpI(f3, f7, sh, imm) == [Base EXCEPT !.op = "OP_IMM", !.f3 = f3, !.f7 = f7, !.rs2 = sh, !.imm = imm, !.rd = 2]
RvI(op, f3, rd, imm) == [Base EXCEPT !.op = op, !.f3 = f3, !.rd = rd, !.imm = imm]
RvAmo(op5, f3, rd, rs2) == [Base EXCEPT !.op = "AMO", !.op5 = op5, !.f3 = f3, !.rd = rd, !.rs2 = rs2]
RvF(f5, f3, rs2, fmt) == [Base EXCEPT !.op = "OP_FP", !.f5 = f5, !.f3 = f3, !.rs2 = rs2, !.fmt = fmt]
RvC(q, f3, hi, sel, sub, imm, rs2) ==
    [op |-> "C", q |-> q, f3 |-> f3, hi |-> hi, sel |-> sel, sub |-> sub, rd |-> 1, rs2 |-> rs2, imm |-> imm, len |-> 2]
F3 == 0 .. 7
RvValues == {RvOp(f3, f7) : f3 \in F3, f7 \in {0, 1, 4, 5, 7, 16, 20, 32, 36, 48, 52, 2}}
         \cup {RvOpI(f3, f7, sh, 200) : f3 \in {1, 5}, f7 \in {0, 20, 32, 36, 48, 52, 2}, sh \in {0, 1, 2, 4, 5, 6, 7}}
         \cup {RvOpI(f3, 0, 0, imm) : f3 \in F3 \ {1, 5}, imm \in {0, 200}}
RvOthers == {RvI(op, 0, rd, imm) : op \in {"LUI", "AUIPC", "JAL", "FENCE", "BAD"}, rd \in {0, 1}, imm \in {4, 252, 248}}
         \cup {RvI("BRANCH", f3, 0, imm) : f3 \in F3, imm \in {8, 252, 248}}
         \cup {RvI(op, f3, rd, imm) : op \in {"LOAD", "STORE"}, f3 \in F3, rd \in {0, 1}, imm \in {0, 12}}
         \cup {RvI("JALR", f3, rd, imm) : f3 \in {0, 1}, rd \in {0, 1}, imm \in {0, 70}}
RvAtomics == {RvAmo(op5, f3, rd, rs2) : op5 \in AmoOps \cup {"LOAD_ACQ", "STORE_REL", "BAD"}, f3 \in {2, 3}, rd \in {0, 2}, rs2 \in {0, 2}}
          \cup {[Base EXCEPT !.op = "SYSTEM", !.sys = s, !.rd = r, !.rs1 = r] : s \in {"TIME", "ECALL", "EBREAK", "WFI", "WRS", "SFENCE", "BAD"}, r \in {0, 1}}
          \cup {[Base EXCEPT !.op = "SYSTEM", !.sys = s, !.rd = 1, !.rs1 = 0] : s \in {"TIME", "SFENCE"}}
          \cup {[Base EXCEPT !.op = "CBO"]}
\* What user code is refused, all but the one register and WRS_STO.
RvPrivileged == {[Base EXCEPT !.op = "SYSTEM", !.sys = s, !.rd = 0, !.rs1 = 0] : s \in {"MRET", "SRET", "WFI", "WRS_STO", "SFENCE"}}
          \cup {[Base EXCEPT !.op = "SYSTEM", !.sys = "CSR", !.rd = 0, !.csr = n] :
                   n \in MachineCsrs \cup SupervisorCsrs \cup ReadOnlyCsrs \cup {"FCSR"}}
RvFloats == {RvF(f5, f3, rs2, fmt) : f5 \in {0, 2, 3, 4, 5, 8, 11, 20, 24, 26, 28, 30, 1}, f3 \in {0, 1, 7}, rs2 \in {0, 1, 2}, fmt \in 0..3}
         \cup {[Base EXCEPT !.op = op, !.f3 = 7, !.fmt = fmt] : op \in {"MADD", "MSUB", "NMSUB", "NMADD"}, fmt \in 0..2}
         \cup {[Base EXCEPT !.op = op, !.f3 = f3, !.imm = imm] : op \in {"LOAD_FP", "STORE_FP"}, f3 \in 0..4, imm \in {0, 6, 254}}
RvCompressed == {RvC(q, f3, hi, 0, 0, imm, rs2) : q \in 0..2, f3 \in F3, hi \in {0, 1}, imm \in {0, 2}, rs2 \in {0, 2}}
         \cup {RvC(q, 4, hi, sel, sub, imm, 2) : q \in {0, 1}, hi \in {0, 1}, sel \in 0..3, sub \in 0..3, imm \in {0, 2}}
MoreFloats == {RvF(0, 0, 2, 0), RvF(28, 0, 0, 0), RvF(30, 0, 0, 0), [Base EXCEPT !.op = "LOAD_FP", !.f3 = 2, !.imm = 254], RvF(5, 0, 2, 0)}
MoreValues == {RvOp(0, 0), RvOp(5, 1), RvOp(4, 5), RvOpI(0, 0, 0, 200), RvI("LOAD", 0, 1, 0), RvI("STORE", 2, 0, 254),
                RvI("BRANCH", 1, 0, 252), RvI("JAL", 0, 1, 252), RvI("JALR", 0, 1, 0), RvAmo("LR", 2, 1, 0), RvI("BAD", 0, 0, 0)}

------------------------------------------------------------------------------
(* An e200 core with four registers and words of 8 bits, and the           *)
(* instructions it is run on.                                              *)

PpcRegs(r1, r2, cr, xer) ==
    (0 :> 64) @@ (1 :> r1) @@ (2 :> r2) @@ (3 :> 3) @@
    (PpcCR :> cr) @@ (PpcXER :> xer) @@ (PpcLR :> 71) @@ (PpcCTR :> 1)
PpcBare(regs, msr, vle, fpscr) ==
    [arch |-> "ppc", reg |-> regs, fw |-> {}, freg |-> <<>>, pc |-> 8, retired |-> 0, vle |-> vle,
     reset_vle |-> vle, mmu_on |-> FALSE, msr |-> msr,
     spr |-> [s \in PpcSlots |-> IF s = "IVPR" THEN 128 ELSE 0],
     ivor |-> [e \in PpcExceptions |-> IF e = "DATA_STORAGE" THEN 12 ELSE 8], tlb |-> <<>>, tlb_default |-> TRUE, mas0 |-> 0, mas1 |-> 0, mas2 |-> 0,
     mas3 |-> 0, mas4 |-> 0, mas6 |-> 0, pid0 |-> 1, tsr |-> {}, tcr |-> {}, hid0 |-> {}, l1csr0 |-> {"DCE"}, dbsr |-> 16, mcsr |-> 0, dec |-> 0,
     tb |-> 0, tbclk_last |-> 0, lag |-> 0, soc_until |-> PpcForever, spefscr |-> fpscr, smp_live |-> FALSE,
     slow_store |-> FALSE, dsi_bo |-> FALSE, state |-> "RUNNING", irq_dirty |-> FALSE, ext_pending |-> FALSE,
     jit_ctx |-> 0, jit_flush |-> FALSE, win |-> <<>>, nwin |-> 0, coreid |-> 0, start |-> FALSE, start_pc |-> 0,
     start_vle |-> FALSE, intc |-> PpcIntcZero, stm |-> PpcStmZero, swt |-> PpcSwtZero,
     sh |-> [mem |-> [a \in 64..79 |-> a % 4], resv |-> [k \in PpcCores |-> PpcNoResv], count |-> 0, gen |-> 0, blocks |-> {}]]
PpcFpOff == [flags |-> {}, rm |-> 0]
PpcFpTrap == [flags |-> {<<"enable", "inv">>, <<"enable", "inx">>}, rm |-> 2]
\* Translation off: the entry reset leaves.
PpcFlat(r1, r2, cr, xer, msr, vle, fp) ==
    LET c == PpcMmuReset(PpcBare(PpcRegs(r1, r2, cr, xer), msr, vle, fp)) IN [c EXCEPT !.jit_ctx = PpcCtx(c)]
\* Translation on: two pages of memory exchanged, the second little-endian.
PpcPageAt(epn, rpn, le, perm) ==
    [mas1 |-> [PpcMas1Zero EXCEPT !.v = TRUE, !.tid = 1], mas2 |-> [PpcMas2Zero EXCEPT !.epn = epn, !.e = le],
     mas3 |-> [PpcMas3Zero EXCEPT !.rpn = rpn, !.perm = perm]]
PpcHolds(e, pa) == pa \in e.mas3.rpn .. e.mas3.rpn + 7
PpcPaged(c, perm) ==
    LET d == PpcTlbChanged([c EXCEPT !.tlb[0] = PpcPageAt(64, 72, FALSE, PpcPerms), !.tlb[1] = PpcPageAt(72, 64, TRUE, perm)])
    IN [d EXCEPT !.jit_ctx = PpcCtx(d)]
PpcGuestCpus == <<PpcFlat(128, 255, 98, 128, {"ME"}, TRUE, PpcFpOff),
                  PpcPaged(PpcFlat(66, 3, 9, 32, {}, FALSE, PpcFpTrap), PpcPerms),
                  PpcPaged(PpcFlat(70, 0, 64, 160, {"PR", "SPE"}, TRUE, [PpcFpOff EXCEPT !.rm = 3]), PpcPerms \ {"UW"}),
                  [PpcPaged(PpcFlat(70, 76, 9, 32, {"PR"}, FALSE, PpcFpTrap), {"SR", "SW", "SX", "UX"}) EXCEPT !.sh.resv[0].held = TRUE]>>

\* A page the user may not write, or not read: the other page's bytes, where
\* they really are, are the user's.
PpcKept(c) ==
    [msr |-> c.msr, spr |-> [s \in PpcSlots \ {"USPRG0"} |-> c.spr[s]], ivor |-> c.ivor, tlb |-> c.tlb, mas |-> <<c.mas0, c.mas1, c.mas2, c.mas3, c.mas4, c.mas6>>,
     pid0 |-> c.pid0, tcr |-> c.tcr, tsr |-> c.tsr, hid0 |-> c.hid0, dec |-> c.dec, tb |-> c.tb,
     l1csr0 |-> c.l1csr0, dbsr |-> c.dbsr, mcsr |-> c.mcsr,
     mem |-> [a \in {b \in 64 .. 79 : \A i \in DOMAIN c.tlb : ~(PpcHolds(c.tlb[i], b) /\ "UW" \in c.tlb[i].mas3.perm)} |-> c.sh.mem[a]]]
PpcHandlers(c) == {PpcHandler(c, e) : e \in PpcExceptions}
\* Not the loads over their own base, nor what moves the SRR pairs, which the
\* fault itself changes.
PpcRefusedIn(c, d) ==
    c.pc = PpcHandler(c, "DATA_STORAGE") /\ ~(d.sem = "LMV" /\ d.crs = 0) /\ ~(d.sem \in {"LMV", "STMV"} /\ d.crs >= 4)
PpcOpened(c) == PpcTlbChanged([c EXCEPT !.tlb = [i \in DOMAIN @ |-> [@[i] EXCEPT !.mas3.perm = PpcPerms]]])
PpcReturned(c) == PpcReturn(c, [PpcInsn EXCEPT !.sem = "RFI"]).c
PpcVisible(c) ==
    [reg |-> c.reg, pc |-> c.pc, mem |-> c.sh.mem, resv |-> c.sh.resv, msr |-> c.msr, fp |-> c.spefscr, state |-> c.state, tlb |-> c.tlb,
     spr |-> [s \in PpcSlots \ {"SRR0", "SRR1", "DEAR", "ESR"} |-> c.spr[s]]]

PpcOp(sem) == [PpcInsn EXCEPT !.sem = sem, !.rd = 1, !.ra = 1, !.rb = 2, !.imm = 200, !.rc = TRUE]
PpcValues ==
       {[PpcOp(s) EXCEPT !.oe = oe, !.ra0 = oe, !.ra = IF oe THEN 0 ELSE 1] :
           s \in PpcAdds \cup PpcSubs \cup PpcMulDivs \cup PpcImms \cup PpcLogics, oe \in BOOLEAN}
  \cup {[PpcOp(s) EXCEPT !.rd = 2, !.imm = 0] : s \in {"ADDI", "OR", "NOR", "ANDI", "ORI", "XORI"}}
  \cup {[PpcOp(s) EXCEPT !.sh = sh, !.mb = m[1], !.me = m[2], !.rb = rb] :
           s \in PpcShifts, sh \in {0, 3, 7}, m \in {<<0, 7>>, <<0, 4>>, <<5, 7>>, <<6, 1>>}, rb \in {2, 3}}
PpcCrs ==
       {[PpcOp(s) EXCEPT !.crf = f, !.immop = i, !.imm = 15] : s \in PpcCmps, f \in {0, 1}, i \in BOOLEAN}
  \cup {[PpcOp(s) EXCEPT !.rd = 5, !.ra = 1, !.rb = rb] : s \in PpcCrOps, rb \in {1, 2}}
  \cup {[PpcOp(s) EXCEPT !.crf = 1, !.imm = imm, !.bi = imm, !.ra0 = TRUE, !.ra = 0] : s \in PpcCrMoves, imm \in 1..3}
PpcMems ==
       {[PpcOp(s) EXCEPT !.size = n, !.rev = k[1], !.sext = k[2], !.upd = k[3], !.idx = k[4], !.imm = imm, !.rd = 2, !.rb = 3] :
           s \in {"LOAD", "STORE"}, n \in {1, 2, 4}, imm \in {0, 4},
           k \in {<<FALSE, FALSE, FALSE, FALSE>>, <<TRUE, FALSE, FALSE, TRUE>>, <<FALSE, FALSE, TRUE, FALSE>>}}
  \cup {[PpcOp("LOAD") EXCEPT !.size = 2, !.sext = TRUE, !.upd = TRUE, !.imm = 1]}
  \cup {[PpcOp(s) EXCEPT !.ra = 0, !.imm = imm, !.crs = k, !.rd = 2] : s \in PpcMultis, imm \in {0, 4, 12, 1}, k \in {0, 1, 4, 5}}
  \cup {[PpcOp(s) EXCEPT !.ra = 0, !.imm = imm, !.size = n, !.rd = 2] : s \in {"LARX", "STCX", "DCBZ"}, imm \in {0, 2, 8, 20}, n \in {2, 4}}
PpcJumps ==
       {[PpcOp(s) EXCEPT !.lk = lk, !.aa = aa, !.imm = imm, !.bo = bo, !.bi = 1] :
           s \in PpcBranches, lk \in BOOLEAN, aa \in BOOLEAN, imm \in {8, 252}, bo \in {0, 2, 4, 8, 10, 12, 16, 18, 20}}
PpcSys ==
       {[PpcOp(s) EXCEPT !.immop = i, !.rd = 9] : s \in {"TW"}, i \in BOOLEAN}
  \cup {[PpcOp(s) EXCEPT !.spr = n] : s \in {"MFSPR", "MTSPR"}, n \in {"LR", "CTR", "XER", "SPRG0", "NONE"}}
  \cup {[PpcOp(s) EXCEPT !.icbi = i] : s \in {"NOP", "SC", "WAIT", "MFMSR", "MTMSR", "SPE", "ILLEGAL", "PRIV_ILLEGAL", "RFI"}, i \in BOOLEAN}
\* Moves of every special register there is: those whose value is a word, and
\* those whose value is the fields of one, which r1 then holds.
PpcMove(N) == {[PpcOp(s) EXCEPT !.spr = n] : s \in {"MFSPR", "MTSPR"}, n \in N}
PpcWordSprs ==
    PpcSlots \cup PpcExceptions \cup PpcReadOnly \cup PpcWriteOnly \cup
    {"DEC", "TSR", "TCR", "HID0", "L1CSR0", "DBSR", "MCSR", "PID0", "MMUCSR0"}
PpcFieldSprs == PpcMasRegs \cup {"SPEFSCR"}
PpcWord ==
    [other |-> 1, flags |-> {<<"sticky", "inx">>, <<"now", "inx">>}, rm |-> 1] @@ PpcMas0Zero @@ PpcMas1Zero @@
    PpcMas2Zero @@ PpcMas3Zero @@ PpcMas4Zero @@ PpcMas6Zero
PpcWide(c) == [c EXCEPT !.reg[1] = PpcWord]
PpcFloats ==
       {[PpcOp("EFS") EXCEPT !.spr = o, !.ra = ra, !.rb = rb, !.crf = 1] : ra \in {0, 1}, rb \in {2, 3},
           o \in EfsCompares \cup {"ADD", "SUB", "MUL", "DIV", "MADD", "MSUB", "NMADD", "NMSUB", "SQRT", "MAX", "MIN", "ABS", "NABS", "NEG",
                 "CFSI", "CFUI", "CFSF", "CFUF", "CTSI", "CTUI", "CTSIZ", "CTUIZ", "CTSF", "CTUF", "CFH", "CTH"}}
PpcLess == {[PpcOp("ADDE") EXCEPT !.ra = 3], [PpcOp("BC") EXCEPT !.bo = 12, !.imm = 252]}
PpcMore ==
    PpcLess \cup
    {[PpcOp("SRAW") EXCEPT !.len = 2], [PpcOp("STORE") EXCEPT !.imm = 2, !.size = 4, !.rd = 2],
     [PpcOp("MTSPR") EXCEPT !.spr = "XER"]}

------------------------------------------------------------------------------
(* An ARMv7-M core with words of 8 bits: code in a ROM at 0, sixteen bytes *)
(* of memory at 64, everything else unmapped.                              *)

ArmGuestMap == <<RomRegion(0, 48), RamRegion(64, 16)>>
ArmGuestStack == {a \in 16 .. 79 : a % 4 = 0}
ArmGuestVector(vtor, exc) == IF exc = ArmUsage THEN 38 ELSE 33
ArmRegs(r0, r1, r2, r3, sp, lr, xpsr) ==
    (0 :> r0) @@ (1 :> r1) @@ (2 :> r2) @@ (3 :> r3) @@ (12 :> 9) @@ (13 :> sp) @@ (14 :> lr) @@ (16 :> xpsr) @@
    (17 :> 0) @@ (18 :> 0) @@ (19 :> 0) @@ (20 :> 0) @@ (21 :> 0)
ArmOffRegion == [base |-> 0, sz |-> 0, srd |-> {}, ap |-> 0, xn |-> FALSE, on |-> FALSE]
ArmGuestCpu(regs, cond, same) ==
    [arch |-> "arm", reg |-> regs, pc |-> 8, fw |-> {}, freg |-> <<>>, retired |-> 0, ipsr |-> 0, ge |-> {1}, split |-> FALSE,
     pending |-> {}, active |-> {}, enabled |-> {}, line |-> {}, prio |-> [e \in ArmExcs |-> 0], prigroup |-> 3,
     primask |-> FALSE, faultmask |-> FALSE, basepri |-> 0, irq_maybe |-> FALSE, msp |-> regs[13], psp |-> 72, control |-> {},
     ccr |-> {"STKALIGN"}, shcsr |-> {}, cfsr |-> {}, hfsr |-> {}, mmfar |-> 0, bfar |-> 0, vtor |-> 0,
     mpu |-> [i \in 0 .. ArmRegions - 1 |-> ArmOffRegion], mpu_ctrl |-> {}, mpu_rnr |-> 0, smc |-> ArmNoWatch, blocks |-> {},
     mem |-> [a \in (0 .. 47) \cup (64 .. 79) |-> (a + (a \div 4)) % 4], stk |-> [a \in ArmStack |-> ArmCell(0)],
     s |-> [i \in 0 .. ArmFpBank - 1 |-> 0], fpscr |-> ArmFpscr0, fpccr |-> {}, fpcar |-> 0, fpdscr |-> ArmFpscr0, cpacr |-> 0, scr |-> {},
     imprecise |-> FALSE, excl_open |-> TRUE, excl_addr |-> 64, lockup |-> FALSE, faulted |-> FALSE, fault_pc |-> 0,
     state |-> "RUNNING", pc_not_exc_return |-> FALSE, tick |-> [ctrl |-> {}, reload |-> 0, value |-> 0, flag |-> FALSE],
     gen |-> 0, reset_by |-> "NONE", it |-> [cond |-> cond, same |-> same]]
ArmOpenRegion(base, sz, ap) == [base |-> base, sz |-> sz, srd |-> {}, ap |-> ap, xn |-> FALSE, on |-> TRUE]
\* Thread mode; thread mode without privilege, on the process stack, half of
\* memory read-only, every trap on; a handler, blocks made from memory; half
\* of memory closed, and read-only.
ArmGuestCpus ==
    <<ArmGuestCpu(ArmRegs(68, 128, 255, 3, 72, 71, 36), 1, FALSE),
      [ArmGuestCpu(ArmRegs(66, 130, 0, 33, 72, 18, 220), 10, TRUE) EXCEPT
          !.ccr = {"STKALIGN", "UNALIGN_TRP", "DIV_0_TRP"}, !.shcsr = {"MEMFAULTENA", "BUSFAULTENA", "USGFAULTENA"},
          !.control = {"NPRIV", "SPSEL"}, !.mpu_ctrl = {"ENABLE"}, !.mpu[0] = ArmOpenRegion(0, 6, 3), !.mpu[1] = ArmOpenRegion(72, 2, 2)],
      [ArmGuestCpu(ArmRegs(72, 7, 8, 201, 72, 249, 68), 8, FALSE) EXCEPT
          !.ipsr = ArmTick, !.active = {ArmTick}, !.blocks = {1},
          !.smc = [lo |-> 64, span |-> 16, base |-> 64, bits |-> {1}, wide |-> FALSE, watch |-> TRUE]],
      [ArmGuestCpu(ArmRegs(68, 66, 1, 8, 64, 15, 132), 13, TRUE) EXCEPT
          !.mpu_ctrl = {"ENABLE", "PRIVDEFENA"}, !.mpu[0] = ArmOpenRegion(72, 2, 0)],
      [ArmGuestCpu(ArmRegs(64, 76, 12, 200, 68, 15, 132), 13, TRUE) EXCEPT
          !.mpu_ctrl = {"ENABLE", "PRIVDEFENA"}, !.mpu[0] = ArmOpenRegion(72, 2, 6)]>>
\* The unit on, in a context that has used it; its modes all set; only with
\* privilege, which this core has, a save still owed and the context new; the
\* same without privilege; a save owed to words that are closed.
ArmFpRegs(a, b) == (0 :> 53) @@ (1 :> a) @@ (2 :> b) @@ (3 :> 130)
ArmFloat(cpu, a, b, cp) == [cpu EXCEPT !.s = ArmFpRegs(a, b), !.cpacr = cp, !.fpccr = {"ASPEN", "LSPEN"}, !.control = @ \cup {"FPCA"}]
ArmFpCpus ==
    <<ArmFloat(ArmGuestCpus[1], 200, 117, 3),
      [ArmFloat(ArmGuestCpus[4], 5, 247, 3) EXCEPT !.fpscr = [ArmFpscr0 EXCEPT !.rm = 1, !.bits = {"FZ", "DN", "AHP"}]],
      [ArmFloat(ArmGuestCpus[3], 116, 0, 1) EXCEPT !.fpccr = @ \cup {"LSPACT"}, !.fpcar = 64, !.control = {},
                                                   !.fpdscr = [ArmFpscr0 EXCEPT !.rm = 2]],
      ArmFloat(ArmGuestCpus[2], 116, 0, 1),
      [ArmFloat(ArmGuestCpus[5], 116, 112, 3) EXCEPT !.fpccr = @ \cup {"LSPACT", "HFRDY"}, !.fpcar = 72]>>

ArmStepOf(cpu, w) == ArmRunTurn(cpu, w)
ArmTranslationOf(cpu, p) == ArmTranslate(cpu, p, cpu.pc)
ArmTrappedIn(cpu) == cpu.lockup \/ cpu.ipsr \in {ArmHard, ArmMem, ArmBus, ArmUsage}
\* The flags are in xpsr again; the context is the one the core is in.
ArmSettled(cpu) ==
    LET k == ArmPack(cpu) IN
    [k EXCEPT !.reg[ArmNF] = 0, !.reg[ArmZF] = 0, !.reg[ArmCF] = 0, !.reg[ArmVF] = 0, !.irq_maybe = FALSE, !.imprecise = FALSE,
              !.reg[ArmCTX] = IF cpu.split /\ @ # ArmCtx(k) THEN 1 ELSE 0]
ArmKept(cpu) ==
    [masks |-> <<cpu.primask, cpu.faultmask, cpu.basepri, cpu.control>>, prio |-> cpu.prio, enabled |-> cpu.enabled, ccr |-> cpu.ccr,
     shcsr |-> cpu.shcsr, vtor |-> cpu.vtor, mpu |-> <<cpu.mpu, cpu.mpu_ctrl>>, msp |-> cpu.msp,
     mem |-> [a \in {b \in DOMAIN cpu.mem : ~ArmMpuPermits(cpu, b, FALSE, "W")} |-> cpu.mem[a]]]
ArmHandlers(cpu) == {2 * (ArmVector(cpu.vtor, e) \div 2) : e \in ArmExcs}
\* The exception return takes the frame back; STREX finds no reservation after.
ArmRefused(cpu, w) ==
    cpu.ipsr \in {ArmHard, ArmMem} /\ "DACCVIOL" \in cpu.cfsr /\ "MSTKERR" \notin cpu.cfsr
    /\ ~(w.enc = "DUALEXCL" /\ w.form \in {"EX", "EXB", "EXH"})
ArmOpened(cpu) == [cpu EXCEPT !.mpu_ctrl = {}]
ArmReturned(cpu) == ArmExcReturn(cpu, cpu.reg[ArmLR]).cpu
ArmVisible(cpu) ==
    [reg |-> [r \in DOMAIN cpu.reg \ {ArmCTX} |-> cpu.reg[r]], pc |-> cpu.pc, mem |-> cpu.mem, ipsr |-> cpu.ipsr, ge |-> cpu.ge,
     msp |-> cpu.msp, psp |-> cpu.psp, active |-> cpu.active, pending |-> cpu.pending, control |-> cpu.control, state |-> cpu.state, s |-> cpu.s, fpscr |-> cpu.fpscr]

W(enc) == [ArmAny EXCEPT !.enc = enc, !.rd = 1, !.rn = 1, !.rm = 2, !.ra = 3]
ArmRegisters ==
       {[W("SHIFTADD") EXCEPT !.op = o, !.imm = i] : o \in {0, 4, 8, 12, 13, 14, 15, 16, 20, 24, 28}, i \in {0, 1, 3}}
  \cup {[W("DP") EXCEPT !.op = o, !.rm = m] : o \in 0 .. 15, m \in {2, 3}}
  \cup {[W("SPECIAL") EXCEPT !.op = o, !.rd = k[1], !.rm = k[2]] : o \in {0, 4, 8, 12, 14},
           k \in {<<1, 2>>, <<13, 1>>, <<15, 0>>, <<1, 15>>, <<0, 14>>, <<0, 2>>, <<14, 13>>}}
  \cup {[W(e) EXCEPT !.op = o, !.imm = 3, !.rd = 3] : e \in {"ADR", "ADDSP", "SPADJ", "EXT", "REV"}, o \in 0 .. 3}
ArmWide ==
       {[W("DPIMM") EXCEPT !.op = o, !.s = s, !.rd = k[1], !.rn = k[2], !.imm = 3, !.imm2 = i] : o \in 0 .. 15, s \in BOOLEAN,
           k \in {<<1, 1>>, <<15, 1>>, <<1, 15>>}, i \in {0, 3, 6}}
  \cup {[W("DPREG") EXCEPT !.op = o, !.s = s, !.op2 = t, !.rd = k[1], !.rn = k[2], !.imm = i] : o \in 0 .. 15, s \in BOOLEAN,
           t \in 0 .. 3, k \in {<<1, 1>>, <<15, 1>>, <<1, 15>>}, i \in {0, 3}}
  \cup {[W("DPPLAIN") EXCEPT !.op = o, !.rn = n, !.imm = i, !.imm2 = j] : o \in 0 .. 31, n \in {1, 15}, i \in {0, 2, 5}, j \in {0, 3, 6}}
ArmLongs ==
       {[W("DPREGISTER") EXCEPT !.op = o, !.op2 = p, !.rn = n] : o \in 0 .. 15, p \in 0 .. 15, n \in {1, 15}}
  \cup {[W("MUL") EXCEPT !.op = o, !.op2 = p, !.ra = a] : o \in 0 .. 7, p \in 0 .. 3, a \in {3, 15}}
  \cup {[W("MULL") EXCEPT !.op = o, !.op2 = p, !.rd = d] : o \in 0 .. 6, p \in {0, 6, 8, 9, 10, 11, 12, 13, 15}, d \in {1, 2, 15}}
ArmMems ==
       {[W("LDST") EXCEPT !.op = o, !.op2 = p, !.load = l, !.rn = 0, !.rm = 3, !.imm = 1] : o \in 5 .. 9, p \in 0 .. 7, l \in BOOLEAN}
  \cup {[W("LDST32") EXCEPT !.sz = z, !.load = l, !.sext = x, !.form = f, !.rn = n, !.imm = 2, !.rd = d, !.u = u, !.wb = u] :
           z \in 0 .. 2, l \in BOOLEAN, x \in BOOLEAN, f \in {"imm12", "imm8", "reg"}, n \in {0, 15}, d \in {2, 15}, u \in BOOLEAN}
  \cup {[W("LDST32") EXCEPT !.load = l, !.form = "imm8", !.p = p, !.wb = ~p, !.rn = 0, !.imm = 4] : l \in BOOLEAN, p \in BOOLEAN}
  \cup {[W("LIT") EXCEPT !.imm = i] : i \in {1, 2, 50}}
ArmBlocksOf ==
       {[W("DUALEXCL") EXCEPT !.form = f, !.load = l, !.rn = n, !.rd = 2, !.wb = b, !.p = p, !.imm = i] :
           f \in {"DUAL", "EX", "EXB", "EXH"}, l \in BOOLEAN, n \in {0, 15}, b \in BOOLEAN, p \in BOOLEAN, i \in {0, 1}}
  \cup {[W("DUALEXCL") EXCEPT !.form = f, !.rn = n, !.rm = 3] : f \in {"TBB", "TBH"}, n \in {0, 15}}
  \cup {[W("LDM32") EXCEPT !.op = o, !.load = l, !.wb = b, !.rn = n, !.list = s] : o \in {1, 2}, l \in BOOLEAN, b \in BOOLEAN,
           n \in {0, 13}, s \in {{1, 3}, {2, 14}, {0, 2}, {1, 15}}}
  \cup {[W("LDM") EXCEPT !.load = l, !.rn = n, !.list = s] : l \in BOOLEAN, n \in {0, 1}, s \in {{}, {0}, {1, 2}, {0, 1, 2, 3}}}
  \cup {[W("PUSHPOP") EXCEPT !.load = l, !.list = s \cup (IF s = {2} THEN {IF l THEN ArmPC ELSE ArmLR} ELSE {})] :
           l \in BOOLEAN, s \in {{}, {1}, {0, 3}, {2}}}
ArmBranches ==
       {[W("BCC") EXCEPT !.cond = k, !.imm = i] : k \in 0 .. 15, i \in {0, 252, 250}}
  \cup {[W("BRANCHMISC") EXCEPT !.form = f, !.cond = 3, !.imm = i, !.imm2 = 0, !.op = i] :
           f \in {"BCC", "B", "BL", "HINT", "CLREX", "DSB", "DMB", "ISB", "UDF", "MSR", "MRS"}, i \in {0, 4}}
  \cup {[W("B") EXCEPT !.imm = i] : i \in {0, 252}}
  \cup {[W("CBZ") EXCEPT !.op = o, !.imm = i, !.rn = 2] : o \in {0, 1}, i \in {0, 2}}
  \cup {[W("HINT") EXCEPT !.op = o] : o \in 0 .. 4}
  \cup {W("BKPT")} \cup {[W("CPS") EXCEPT !.op = o, !.imm = 2] : o \in {0, 1}}
ArmIts == {[W("HINT") EXCEPT !.imm = i] : i \in {1, 3}}
\* What an IT block is made of here.
ArmInside ==
    {[W("SHIFTADD") EXCEPT !.op = 12, !.imm = 2], [W("DP") EXCEPT !.op = 10], [W("DPIMM") EXCEPT !.op = 13, !.s = TRUE, !.imm = 3],
     [W("MUL") EXCEPT !.op = 1, !.op2 = 2], [W("LDST") EXCEPT !.op = 6, !.load = TRUE, !.rn = 0], [W("LDST") EXCEPT !.op = 7, !.rn = 0],
     [W("DUALEXCL") EXCEPT !.form = "DUAL", !.load = TRUE, !.rn = 0, !.rd = 2, !.wb = TRUE, !.imm = 1],
     [W("PUSHPOP") EXCEPT !.list = {0, 3}], [W("B") EXCEPT !.imm = 252], [W("BRANCHMISC") EXCEPT !.form = "ISB"],
     [W("DPREGISTER") EXCEPT !.op = 2, !.op2 = 0], [W("DPPLAIN") EXCEPT !.op = 22, !.imm = 2, !.imm2 = 6]}
F(form) == [W("FP") EXCEPT !.form = form]
ArmFloats ==
       {[F("DP") EXCEPT !.op = o, !.op3 = k, !.s = t, !.rm = m] : o \in 0 .. 6, k \in 0 .. 1, t \in BOOLEAN, m \in {1, 2}}
  \cup {[F("DP") EXCEPT !.op = 7, !.op2 = o, !.op3 = k, !.s = t, !.imm = 19] : o \in 0 .. 15, k \in 0 .. 3, t \in BOOLEAN}
  \cup {[F("DP") EXCEPT !.op = 7, !.op2 = 5, !.op3 = 1, !.rm = 0], [F("DP") EXCEPT !.sz = 3], F("SIMD"), F("OTHER")}
  \cup {[F("XFER32") EXCEPT !.op = o, !.sz = z, !.load = l, !.rd = d, !.rn = n] :
           o \in {0, 1, 2, 7}, z \in {2, 3}, l \in BOOLEAN, d \in {1, 15}, n \in {1, 2}}
  \cup {[F("XFER32") EXCEPT !.s = TRUE], [F("XFER32") EXCEPT !.imm = 1]}
  \cup {[F("XFER64") EXCEPT !.load = l, !.rn = n, !.rm = m] : l \in BOOLEAN, n \in {1, 2}, m \in {1, 3}}
ArmFpMems ==
       {[F("LDST") EXCEPT !.load = l, !.sz = z, !.rn = n, !.imm = i, !.u = u] :
           l \in BOOLEAN, z \in {2, 3}, n \in {0, 1, 15}, i \in {0, 2}, u \in BOOLEAN}
  \cup {[F("LDST") EXCEPT !.p = p, !.u = ~p, !.wb = b, !.load = l, !.sz = z, !.rn = 0, !.imm = i] :
           p \in BOOLEAN, b \in BOOLEAN, l \in BOOLEAN, z \in {2, 3}, i \in {0, 1, 3}}
  \cup {[F("LDST") EXCEPT !.p = FALSE, !.u = FALSE]}
ArmLess == {[W("DP") EXCEPT !.op = 5], [W("LDST") EXCEPT !.op = 6, !.rn = 0]}
ArmMore ==
    ArmLess \cup
    {[W("BCC") EXCEPT !.cond = 9, !.imm = 250],
     [W("SPECIAL") EXCEPT !.op = 14, !.rd = 0, !.rm = 14], [W("DPREGISTER") EXCEPT !.op = 8, !.op2 = 9]}

------------------------------------------------------------------------------
(* A G4MH core with words of 8 bits: code in a ROM at 0, sixteen bytes of  *)
(* memory at 64, everything else unmapped.                                 *)

G4GuestMap == <<RomRegion(0, 48), RamRegion(64, 16)>>
G4Banked == <<1, 30>>
G4Regs(r1, r2, r3, r20, r30, r31) ==
    (0 :> 0) @@ (1 :> r1) @@ (2 :> r2) @@ (3 :> r3) @@ (20 :> r20) @@ (21 :> 7) @@ (30 :> r30) @@ (31 :> r31)
G4Entry(la, ua, at) == [la |-> la, ua |-> ua, at |-> at, rm |-> {0}, wm |-> {1}]
G4Sr ==
    [EIPC |-> 33, EIPSW |-> {"UM", "Z"}, FEPC |-> 34, FEPSW |-> {"ID"}, EIIC |-> G4None, FEIC |-> G4None, CTPC |-> 18, CTPSW |-> {"C"},
     CTBP |-> 64, MEA |-> 0, MEI |-> <<>>, FPEPC |-> 0, RBASE |-> 0, EBASE |-> 16, SCBP |-> 68, SCCFG |-> 1, MCTL |-> 0, SVLOCK |-> 0,
     PID |-> 0, HTCFG0 |-> 0, INTCFG |-> 0, ISPR |-> 6, PLMR |-> 0, RBNR |-> 1, RBIP |-> 95,
     FPSR |-> [xp |-> {}, xe |-> {}, xc |-> {}, if |-> {}, cc |-> {1}, rm |-> 0, fs |-> TRUE, fn |-> FALSE]]
G4GuestCpu(regs, fw) ==
    [arch |-> "g4", reg |-> regs, pc |-> 8, fw |-> fw, freg |-> <<>>, retired |-> 0,
     mem |-> [a \in (0 .. 47) \cup (64 .. 79) |-> (a + (a \div 4)) % 4], sr |-> G4Sr, spid |-> 0,
     mpu |-> [G4MpuReset EXCEPT !.ent[0] = G4Entry(0, 8, {"E", "G", "UX", "UR", "SX"}), !.ent[1] = G4Entry(64, 72, {"E", "UR", "UW", "SR"}),
                                !.mpid[1] = 1],
     mei_reg |-> 0, ll_valid |-> FALSE, ll_addr |-> 0, jit_ctx |-> 0, gen |-> 0, irq_dirty |-> FALSE, state |-> "RUNNING"]
\* A supervisor; two users under the protection unit; a supervisor with a
\* reservation; one under protection itself, with
\* floating-point exceptions enabled.
G4GuestCpus ==
    <<G4GuestCpu(G4Regs(66, 200, 76, 3, 65, 15), {"Z", "C"}),
      [G4GuestCpu(G4Regs(68, 130, 72, 0, 72, 66), {"UM", "V", "CU0"}) EXCEPT !.mpu.mpm = {"MPE"}, !.mpu.mpid[0] = 0, !.mpu.mpid[1] = 0],
      [G4GuestCpu(G4Regs(72, 130, 76, 66, 68, 65), {"UM", "S"}) EXCEPT !.mpu.mpm = {"MPE"}, !.mpu.ent[1].la = 68, !.mpu.mpid[1] = 0],
      [G4GuestCpu(G4Regs(64, 1, 76, 128, 64, 77), {"CU0", "S", "ID"}) EXCEPT !.ll_valid = TRUE, !.ll_addr = 64, !.sr.FPSR.fs = FALSE],
      [G4GuestCpu(G4Regs(67, 255, 80, 14, 68, 9), {"CU0", "EBV", "SAT"}) EXCEPT !.mpu.mpm = {"MPE", "SVP"},
          !.sr.FPSR.xe = {"V", "I"}, !.sr.FPSR.rm = 2, !.sr.FPSR.fn = TRUE, !.sr.INTCFG = 1]>>

G4StepOf(cpu, w) == G4AfterInterp(G4Turn(cpu, w))
G4TranslationOf(cpu, p) == G4Translate(cpu, p, cpu.pc)
G4TrappedIn(cpu) == cpu.sr.FEIC # G4None \/ cpu.sr.EIIC # G4None
\* A user may write the context of CALLT and the status of the floating-point
\* unit; G4Handlers, one for each code an instruction can raise.
G4Kept(cpu) ==
    [sr |-> [r \in DOMAIN cpu.sr \ {"CTPC", "CTPSW", "CTBP", "FPSR", "MEA", "MEI"} |-> cpu.sr[r]], spid |-> cpu.spid,
     mpu |-> [cpu.mpu EXCEPT !.mpidx = 0], fw |-> cpu.fw \ (G4Arith \cup {"SAT"}), state |-> cpu.state,
     mem |-> [a \in {b \in DOMAIN cpu.mem : ~G4Permits(cpu.mpu, b, 1, "WRITE", TRUE, cpu.spid)} |-> cpu.mem[a]]]
G4Handlers(cpu) ==
    {G4Handler(cpu, e) : e \in {G4Exc[x] : x \in DOMAIN G4Exc}} \cup {Add(cpu.sr.SCBP, x) : x \in {LoadLe(cpu.mem, a, 4) : a \in {68, 72}}}
\* As FERET returns.  An exception drops the reservation STC needs.
G4RefusedIn(cpu, w) == cpu.sr.FEIC.code = G4Exc.MDP /\ ~(w.op = "STC" /\ w.imm = 0)
G4Opened(cpu) == [cpu EXCEPT !.mpu.mpm = {}]
G4Returned(cpu) == [cpu EXCEPT !.fw = cpu.sr.FEPSW, !.pc = cpu.sr.FEPC]
G4Visible(cpu) ==
    [reg |-> cpu.reg, pc |-> cpu.pc, mem |-> cpu.mem, fw |-> cpu.fw, mpu |-> cpu.mpu, spid |-> cpu.spid, state |-> cpu.state,
     sr |-> [r \in DOMAIN cpu.sr \ {"FEPC", "FEPSW", "FEIC", "MEA", "MEI"} |-> cpu.sr[r]]]

GW(op) == [G4Any EXCEPT !.op = op]
G4Shorts ==
       {[GW(o) EXCEPT !.len = 2, !.r1 = k[1], !.r2 = k[2]] :
           o \in {"MOV", "OR", "XOR", "AND", "NOT", "TST", "SUBR", "SUB", "ADD", "CMP", "SATADD", "SATSUB", "SATSUBR", "MULH", "DIVH"},
           k \in {<<1, 2>>, <<2, 1>>, <<31, 2>>, <<0, 1>>, <<20, 20>>}}
  \cup {[GW(o) EXCEPT !.len = 2, !.kind = "imm", !.imm = i] :
           o \in {"MOV", "ADD", "CMP", "SATADD", "MULH", "SHL", "SHR", "SAR"}, i \in {0, 1, 5, 250}}
  \cup {[GW(o) EXCEPT !.len = 2, !.size = z, !.r1 = k] : o \in {"ZX", "SX"}, z \in {1, 2}, k \in {1, 2, 31}}
  \cup {[GW(o) EXCEPT !.imm = i, !.r2 = k] : o \in {"ADDI", "MOVEA", "MOVHI", "SATSUBI", "ORI", "XORI", "ANDI", "MULHI"}, i \in {1, 200},
           k \in {1, 2}}
G4Longs ==
       {[GW(o) EXCEPT !.r1 = k, !.r3 = 31] : o \in {"SHL", "SHR", "SAR", "SHL3", "SHR3", "SAR3"}, k \in {0, 1, 2, 20, 31}}
  \cup {[GW(o) EXCEPT !.cond = k, !.r1 = 31, !.r3 = 20] : o \in {"SETF", "SASF", "CMOV", "ADF", "SBF", "BCOND"}, k \in 0 .. 15}
  \cup {[GW("CMOV") EXCEPT !.kind = "imm", !.imm = 9, !.cond = 2], [GW("MOV32") EXCEPT !.len = 6, !.imm = 99]}
  \cup {[GW("MUL") EXCEPT !.signed = s, !.r3 = k, !.kind = m, !.imm = 250] : s \in BOOLEAN, k \in {0, 2, 20}, m \in {"reg", "imm"}}
  \cup {[GW(o) EXCEPT !.signed = s, !.r1 = k, !.r3 = 20] : o \in {"DIV", "DIVH3"}, s \in BOOLEAN, k \in {0, 1, 2, 20}}
  \cup {[GW("MAC") EXCEPT !.signed = s, !.r3 = 20, !.imm2 = 30] : s \in BOOLEAN}
  \cup {[GW("CLIP") EXCEPT !.size = z, !.signed = s, !.r1 = k, !.r3 = q] : z \in {1, 2}, s \in BOOLEAN, k \in {1, 2, 31}, q \in {0, 1}}
  \cup {[GW(o) EXCEPT !.r1 = k, !.r3 = 20] : o \in {"ROTL", "BSW", "BSH", "HSW", "HSH"}, k \in {0, 1}}
  \cup {[GW("SCH") EXCEPT !.r1 = 0, !.wide = d, !.signed = s] : d \in BOOLEAN, s \in BOOLEAN}
  \cup {[GW("BINS") EXCEPT !.imm = i, !.imm2 = j] : i \in {2, 5}, j \in {1, 3}}
G4Flow ==
       {[GW("JMP") EXCEPT !.len = n, !.r1 = k, !.imm = IF n = 2 THEN 0 ELSE 6] : n \in {2, 6}, k \in {0, 31}}
  \cup {[GW("JARL") EXCEPT !.len = n, !.r2 = k, !.imm = i] : n \in {4, 6}, k \in {0, 31}, i \in {0, 4, 252}}
  \cup {[GW("JARLR") EXCEPT !.r1 = 31, !.r3 = k] : k \in {31, 1}}
  \cup {[GW("LOOP") EXCEPT !.r1 = k, !.imm = i] : k \in {1, 20}, i \in {0, 4}}
  \cup {GW(o) : o \in {"NOP", "SYNCI", "RIE", "SWITCH", "CTRET", "EIRET", "FERET", "RESBANK", "SNOOZE", "HALT"}}
  \cup {[GW(o) EXCEPT !.imm = i] : o \in {"FETRAP", "CALLT", "SYSCALL", "TRAP"}, i \in {1, 3}}
  \cup {[GW(o) EXCEPT !.r3 = k] : o \in {"DI", "EI"}, k \in {0, 1}}
  \cup {[GW("CACHE") EXCEPT !.fop = f] : f \in {"CLL", "CHBII", "CIBII", "CFALI", "CISTI", "CILDI", "PREF"}}
  \cup {[GW(o) EXCEPT !.sr = <<r, 1>>] : o \in {"LDSR", "STSR"},
           r \in {"PSW", "EIPSW", "EIPC", "FEIC", "MEI", "CTPSW", "SCBP", "SPID", "SVLOCK", "MPM", "MPIDX", "MPLA", "MPAT", "MPID", "MCC",
                  "MCR", "FPST", "FPCC", "FPCFG", "FPSR", "ISPR", "PLMR", "MCTL"}}
G4Mems ==
       {[GW(o) EXCEPT !.len = n, !.size = z, !.signed = s, !.r1 = b, !.r2 = d, !.imm = i] :
           o \in {"LD", "ST"}, n \in {2, 4, 6}, z \in {1, 2, 4}, s \in BOOLEAN, b \in {30, 1}, d \in {2}, i \in {0, 3}}
  \cup {[GW(o) EXCEPT !.len = 6, !.r1 = b, !.r2 = d, !.imm = i] : o \in {"LDDW", "STDW"}, b \in {1, 30}, d \in {2, 30, 0}, i \in {0, 4, 10}}
  \cup {[GW("BITOP") EXCEPT !.fop = f, !.kind = k, !.imm = i, !.imm2 = 1, !.r1 = b] :
           f \in {"SET", "INV", "CLR", "TST"}, k \in {"imm", "reg"}, i \in {0, 7}, b \in {1, 20}}
  \cup {[GW(o) EXCEPT !.size = z, !.imm = i, !.signed = s, !.r3 = 20] :
           o \in {"LDL", "STC"}, z \in {1, 2, 4}, i \in 0 .. 3, s \in BOOLEAN}
  \cup {[GW("CAXI") EXCEPT !.r2 = k, !.r3 = 20] : k \in {2, 21}}
  \cup {[GW(o) EXCEPT !.imm = i, !.imm2 = j] : o \in {"STMMP", "LDMMP"}, i \in {0, 1}, j \in {0, 1}}
G4Stacks ==
       {[GW("PREPARE") EXCEPT !.list = l, !.imm = i, !.imm2 = 5, !.kind = k] : l \in {{}, {31}, {20, 30, 31}}, i \in {0, 1},
           k \in {"none", "sp", "imm"}}
  \cup {[GW("DISPOSE") EXCEPT !.list = l, !.imm = i, !.r1 = k] : l \in {{}, {31}, {20, 30}}, i \in {0, 1}, k \in {0, 3, 31}}
  \cup {[GW(o) EXCEPT !.r1 = a, !.r3 = b] : o \in {"PUSHSP", "POPSP"}, a \in {1, 3, 30}, b \in {2, 20, 31}}
  \cup {[GW("FPU") EXCEPT !.fop = f, !.wide = x, !.r1 = 20, !.r3 = d, !.imm = i, !.cond = 12] :
           f \in {"TRFSR", "RIE", "ABS", "NEG", "SQRT", "ADD", "DIV", "MAX", "MIN", "CMPF", "CMOVF", "TOINT", "FROMINT", "HTOS", "STOH",
                  "STOD", "DTOS"}, x \in BOOLEAN, d \in {20, 30}, i \in {1, 16}}
  \cup {[GW("FPU") EXCEPT !.fop = f, !.r1 = 20, !.r3 = 31] : f \in {"RECIP", "RSQRT", "MUL", "SUB", "FMA", "FMS", "FNMA", "FNMS"}}
\* What may follow, and what a few longer programs are made of.
G4More ==
    {[GW("CMP") EXCEPT !.len = 2], [GW("ST") EXCEPT !.size = 4, !.r1 = 30, !.r2 = 31], [GW("BCOND") EXCEPT !.cond = 6, !.imm = 252],
     [GW("SETF") EXCEPT !.cond = 11, !.r2 = 31], [GW("JARLR") EXCEPT !.r1 = 31, !.r3 = 31]}
G4Few ==
    {[GW("SHL") EXCEPT !.kind = "imm", !.imm = 1], [GW("BCOND") EXCEPT !.cond = 2, !.imm = 252, !.len = 2], [GW("LOOP") EXCEPT !.r1 = 20, !.imm = 4],
     [GW("BITOP") EXCEPT !.fop = "INV", !.kind = "imm", !.imm2 = 1], [GW("ADF") EXCEPT !.cond = 1], [GW("DISPOSE") EXCEPT !.list = {31}, !.r1 = 31],
     [GW("EI") EXCEPT !.r3 = 0], [GW("OR") EXCEPT !.r1 = 31], [GW("LDDW") EXCEPT !.len = 6, !.r1 = 30]}

------------------------------------------------------------------------------
(* Guests of the four architectures with words of 8 bits, a few registers  *)
(* and sixteen bytes of memory at 64.                                      *)

Of(cpu, rv, ppc, arm, g4) == CASE cpu.arch = "rv" -> rv [] cpu.arch = "ppc" -> ppc [] cpu.arch = "arm" -> arm [] OTHER -> g4
MCLoad(cpu, addr, spec) ==
    LET rv == RvIrLoad(cpu, addr, spec)
        ppc == PpcIrLoad(cpu, addr, spec)
        arm == ArmIrLoad(cpu, addr, spec)
        g4 == G4IrLoad(cpu, addr, spec)
    IN Of(cpu, rv, ppc, arm, g4)
MCStore(cpu, addr, spec, val) ==
    LET rv == RvIrStore(cpu, addr, spec, val)
        ppc == PpcIrStore(cpu, addr, spec, val)
        arm == ArmIrStore(cpu, addr, spec, val)
        g4 == G4IrStore(cpu, addr, spec, val)
    IN Of(cpu, rv, ppc, arm, g4)
MCHelper(n, cpu, a, b) ==
    LET rv == RvHelper(n[1], cpu, n[2])
        ppc == PpcHelper(n[1], cpu, n[2])
        arm == ArmHelper(cpu, n[2])
        g4 == G4Helper(n, cpu, a, b)
    IN Of(cpu, rv, ppc, arm, g4)
MCStep(cpu, w) ==
    LET rv == RvStep(cpu, w)
        ppc == PpcStep(cpu, w)
        arm == ArmStepOf(cpu, w)
        g4 == G4StepOf(cpu, w)
    IN Of(cpu, rv, ppc, arm, g4)
MCTranslation(cpu, p) ==
    LET rv == RvTranslate(cpu, p, cpu.pc)
        ppc == PpcTranslate(cpu, p, cpu.pc)
        arm == ArmTranslationOf(cpu, p)
        g4 == G4TranslationOf(cpu, p)
    IN Of(cpu, rv, ppc, arm, g4)
\* A trap was taken: a cause is recorded, or pc is at one of the vectors.
MCTrapped(cpu) ==
    LET rv == cpu.mcause # <<>>
        ppc == cpu.pc \in PpcHandlers(cpu)
        arm == ArmTrappedIn(cpu)
        g4 == G4TrappedIn(cpu)
    IN Of(cpu, rv, ppc, arm, g4)
MCLength(cpu, w) == Of(cpu, w.len, w.len, ArmLen(w), w.len)
MCEntered(cpu) ==
    LET rv == cpu
        ppc == cpu
        arm == ArmBind(cpu)
        g4 == G4Bind(cpu)
    IN Of(cpu, rv, ppc, arm, g4)
MCLeft(cpu) ==
    LET rv == cpu
        ppc == cpu
        arm == ArmSettled(cpu)
        g4 == cpu
    IN Of(cpu, rv, ppc, arm, g4)
MCZero(cpu, n) == n = 0 /\ cpu.arch \in {"rv", "g4"}
MCPc(cpu) == IF cpu.arch = "arm" THEN ArmPC ELSE NoReg
MCFlags(cpu) == IF cpu.arch = "g4" THEN G4Arith ELSE {}
MCCanLower(op, aux) == op \notin {"FMA", "FSQRT", "CTZ"}

MCUser(cpu) ==
    LET rv == cpu.priv = U
        ppc == PpcUser(cpu)
        arm == ~ArmPriv(cpu)
        g4 == G4User(cpu)
    IN Of(cpu, rv, ppc, arm, g4)
MCKept(cpu) ==
    LET rv == RvKept(cpu)
        ppc == PpcKept(cpu)
        arm == ArmKept(cpu)
        g4 == G4Kept(cpu)
    IN Of(cpu, rv, ppc, arm, g4)
MCHandlers(cpu) ==
    LET rv == RvHandlers(cpu)
        ppc == PpcHandlers(cpu)
        arm == ArmHandlers(cpu)
        g4 == G4Handlers(cpu)
    IN Of(cpu, rv, ppc, arm, g4)
MCRefused(cpu, w) ==
    LET rv == RvRefused(cpu, Decoded(w))
        ppc == PpcRefusedIn(cpu, w)
        arm == ArmRefused(cpu, w)
        g4 == G4RefusedIn(cpu, w)
    IN Of(cpu, rv, ppc, arm, g4)
MCOpened(cpu) ==
    LET rv == RvOpened(cpu)
        ppc == PpcOpened(cpu)
        arm == ArmOpened(cpu)
        g4 == G4Opened(cpu)
    IN Of(cpu, rv, ppc, arm, g4)
MCReturned(cpu) ==
    LET rv == RvReturned(cpu)
        ppc == PpcReturned(cpu)
        arm == ArmReturned(cpu)
        g4 == G4Returned(cpu)
    IN Of(cpu, rv, ppc, arm, g4)
MCVisible(cpu) ==
    LET rv == RvVisible(cpu)
        ppc == PpcVisible(cpu)
        arm == ArmVisible(cpu)
        g4 == G4Visible(cpu)
    IN Of(cpu, rv, ppc, arm, g4)

G(cpus, first, rest, max) == [cpus |-> cpus, first |-> first, rest |-> rest, max |-> max]
Rv(first, rest, max) == G(RvCpus, first, rest, max)
Ppc(first, rest) == G(PpcGuestCpus, first, rest, 2)
Arm(first, rest, max) == G(ArmGuestCpus, first, rest, max)
G4(first, rest, max) == G(G4GuestCpus, first, rest, max)
MCGuests ==
    LET rv == <<G(<<RvCpus[4]>>, RvPrivileged, {}, 1), Rv(RvValues, MoreValues, 2), Rv(RvOthers, MoreValues, 2), Rv(RvAtomics, MoreValues, 2), Rv(RvFloats, MoreFloats, 2),
                Rv(RvCompressed, MoreValues, 1)>>
        ppc == <<G(PpcGuestCpus, PpcMove(PpcWordSprs), {}, 1),
                 G([i \in DOMAIN PpcGuestCpus |-> PpcWide(PpcGuestCpus[i])], PpcMove(PpcFieldSprs), {}, 1),
                 G(<<PpcGuestCpus[3], PpcGuestCpus[4]>>, {PpcOp(s) : s \in PpcPrivileged \cup PpcReturns}, {}, 1),
                 Ppc(PpcValues, PpcLess), Ppc(PpcCrs, PpcLess), Ppc(PpcMems, PpcMore), Ppc(PpcJumps, PpcMore), Ppc(PpcSys, PpcMore),
                 Ppc(PpcFloats, PpcMore)>>
        arm == <<Arm(ArmRegisters, ArmMore, 2), Arm(ArmWide, ArmLess, 2), Arm(ArmLongs, ArmMore, 2), Arm(ArmMems, ArmMore, 2),
                 Arm(ArmBlocksOf, ArmMore, 2), Arm(ArmBranches, ArmMore, 2), Arm(ArmIts, ArmInside, 3),
                 G(ArmFpCpus, ArmFloats, ArmLess, 2), G(ArmFpCpus, ArmFpMems, ArmLess, 2)>>
        g4 == <<G4(G4Shorts, G4More, 2), G4(G4Longs, G4More, 2), G4(G4Flow, G4More, 2), G4(G4Mems, G4More, 2), G4(G4Stacks, G4More, 2),
                G4(G4Few, G4Few, 3)>>
    IN rv \o ppc \o arm \o g4
==============================================================================
