------------------------------- MODULE ArmCpu --------------------------------
(* The ARMv7-M core: its state, memory through the protection unit, the    *)
(* exception model (armv7m_exc.c, include/armv7m/armv7m_cpu.h).            *)
(*                                                                         *)
(* Words have Bits = 8 bits.  The register xpsr holds N Z C V Q T and two  *)
(* bits that name ITSTATE; IPSR and GE are fields of their own.  The       *)
(* frames of exceptions live in word cells apart from the bytes of memory, *)
(* so that a cell can hold the whole of xPSR.                              *)
EXTENDS Words, FiniteSetsExt, TLC

CONSTANTS
    ArmMap,              \* the memory map
    ArmStack,            \* the words frames can be in
    ArmVector(_, _),     \* the vector table at vtor: the word of an exception, or -1
    ArmIrqs,             \* the external exceptions that are implemented
    ArmSRegs,            \* how many floating registers a frame holds (16)
    ArmRegions,          \* MPU regions
    ArmMinSz, ArmSubSz,  \* the smallest region, the smallest with subregions
    ArmPage, ArmPages    \* the pages of the watch on code, and how many it has bits for

ArmSP == 13
ArmLR == 14
ArmPC == 15
ArmXPSR == 16
ArmCTX == 17
ArmNF == 18
ArmZF == 19
ArmCF == 20
ArmVF == 21
ArmNMI == 2
ArmHard == 3
ArmMem == 4
ArmBus == 5
ArmUsage == 6
ArmSvc == 11
ArmPendSv == 14
ArmTick == 15
ArmFirstIrq == 16
ArmExcs == {ArmNMI, ArmHard, ArmMem, ArmBus, ArmUsage, ArmSvc, 12, ArmPendSv, ArmTick} \cup ArmIrqs
ArmEnables == (ArmMem :> "MEMFAULTENA") @@ (ArmBus :> "BUSFAULTENA") @@ (ArmUsage :> "USGFAULTENA")

\* xpsr: bits 7 to 4 are N Z C V.
ArmQ == 8
ArmT == 4
ArmItBits(x) == x % 4
ArmItPut(x, it) == x - (x % 4) + it
ArmThumb(c) == And(c.reg[ArmXPSR], ArmT) # 0
ArmInIt(c) == ArmItBits(c.reg[ArmXPSR]) # 0
ArmSetT(c, on) == [c EXCEPT !.reg[ArmXPSR] = And(@, Not(ArmT)) + (IF on THEN ArmT ELSE 0)]

\* armv7m_handler_mode, armv7m_privileged, armv7m_jit_ctx.
ArmHandler(c) == c.ipsr # 0
ArmPriv(c) == ArmHandler(c) \/ "NPRIV" \notin c.control
ArmCtx(c) == Bool(ArmThumb(c)) + 2 * Bool(ArmInIt(c)) + 4 * Bool(ArmHandler(c)) + 8 * Bool(ArmPriv(c))

\* ARMV7M_EXC_RETURN_MASK: the top of the address space, where an address is
\* an EXC_RETURN.  An extended frame clears bit 4.
ArmIsReturn(x) == x >= 224
ArmReturn(low, fp) == 224 + low + (IF fp THEN 0 ELSE 16)

\* armv7m_flags_pack and armv7m_flags_unpack: translated code keeps the
\* flags in four words of their own.
ArmPack(c) ==
    IF ~c.split THEN c
    ELSE [c EXCEPT !.split = FALSE,
                   !.reg[ArmXPSR] = Low(@, 4) + And(c.reg[ArmNF], 128) + 64 * Bool(c.reg[ArmZF] = 0)
                                  + 32 * Bool(c.reg[ArmCF] # 0) + Shl(Shr(c.reg[ArmVF], 7), 4)]
ArmUnpack(c) ==
    IF c.split THEN c
    ELSE LET x == c.reg[ArmXPSR] IN
         [c EXCEPT !.split = TRUE, !.reg[ArmNF] = x, !.reg[ArmZF] = 1 - Bit(x, 6), !.reg[ArmCF] = Bit(x, 5),
                   !.reg[ArmVF] = Shl(And(x, 16), 3)]

-----------------------------------------------------------------------------
(* What is pending and at what priority the core runs. *)

\* pending_put; pending_any is whether the set is empty.
ArmPendingPut(c, exc, on) == [c EXCEPT !.pending = IF on THEN @ \cup {exc} ELSE @ \ {exc}]
\* armv7m_set_pending.
ArmSetPending(c, exc, on) ==
    IF exc \notin ArmExcs THEN c
    ELSE LET p == ArmPendingPut(c, exc, on) IN IF on THEN [p EXCEPT !.irq_maybe = TRUE] ELSE p

\* exc_prio and group.
ArmPrio(c, exc) == CASE exc = ArmNMI -> -2 [] exc = ArmHard -> -1 [] OTHER -> c.prio[exc]
ArmGroup(c, p) == IF p < 0 THEN p ELSE p - (p % (2 * 2 ^ c.prigroup))
ArmMasked(p) == p - (p % 16)          \* ARMV7M_PRIO_MASK

\* armv7m_exec_priority.
ArmExecPriority(c) ==
    LET highest == ArmGroup(c, Min({256} \cup {ArmPrio(c, e) : e \in c.active}))
        boosted == CASE c.faultmask -> -1
                     [] c.primask -> 0
                     [] ArmMasked(c.basepri) # 0 -> ArmGroup(c, ArmMasked(c.basepri))
                     [] OTHER -> 256
    IN Min({highest, boosted})

\* takeable: an interrupt that is enabled; a fault whose handler is.
ArmTakeable(c) ==
    {e \in ArmExcs : CASE e \in ArmIrqs -> e \in c.enabled
                       [] e \in DOMAIN ArmEnables -> ArmEnables[e] \in c.shcsr
                       [] OTHER -> TRUE}

\* armv7m_pending_exc: the one to take, the first of the highest priority,
\* or 0; and whether it preempts.
ArmPendingExc(c) ==
    LET can == c.pending \cap ArmTakeable(c) IN
    IF can = {} THEN 0
    ELSE LET p == Min({ArmPrio(c, e) : e \in can}) IN Min({e \in can : ArmPrio(c, e) = p})
ArmPreempts(c) ==
    LET e == ArmPendingExc(c) IN e # 0 /\ ArmGroup(c, ArmPrio(c, e)) < ArmExecPriority(c)

\* armv7m_rettobase.
ArmRetToBase(c) == ArmHandler(c) /\ Cardinality(c.active) <= 1

-----------------------------------------------------------------------------
(* Stack pointers. *)

\* active_bank, sp_save, sp_load.
ArmProcess(c) == ~ArmHandler(c) /\ "SPSEL" \in c.control
ArmSpSave(c) == IF ArmProcess(c) THEN [c EXCEPT !.psp = c.reg[ArmSP]] ELSE [c EXCEPT !.msp = c.reg[ArmSP]]
ArmSpLoad(c) == [c EXCEPT !.reg[ArmSP] = IF ArmProcess(c) THEN c.psp ELSE c.msp]
\* armv7m_get_sp and armv7m_set_sp; TRUE is the process stack.
ArmGetSp(c, p) == CASE p = ArmProcess(c) -> c.reg[ArmSP] [] p -> c.psp [] OTHER -> c.msp
ArmSetSp(c, p, v) ==
    LET w == v - (v % 4)
        d == IF p = ArmProcess(c) THEN [c EXCEPT !.reg[ArmSP] = w] ELSE c
    IN IF p THEN [d EXCEPT !.psp = w] ELSE [d EXCEPT !.msp = w]
\* armv7m_write_control.
ArmWriteControl(c, v) ==
    LET s == ArmSpSave(c)
        may == {"NPRIV", "FPCA"} \cup (IF ArmHandler(s) THEN {} ELSE {"SPSEL"})
    IN ArmSpLoad([s EXCEPT !.control = (@ \ may) \cup (v \cap may)])

-----------------------------------------------------------------------------
(* Memory, through the protection unit. *)

ArmPpb == 224 .. 239        \* the private peripheral bus
ArmDefaultXn(addr) == LET top == addr \div 16 IN top \in {4, 5} \/ top >= 10

\* mpu_permits: the highest region the address is in decides; acc is "R",
\* "W" or "X".
ArmInRegion(r, addr) ==
    LET size == 2 ^ (r.sz + 1)
        off == Sub(addr, r.base - (r.base % size))
    IN /\ r.on /\ r.sz >= ArmMinSz /\ off < size
       /\ ~(r.sz >= ArmSubSz /\ (off \div (size \div 8)) \in r.srd)
ArmAllows(r, priv, acc) ==
    /\ ~(acc = "X" /\ r.xn)
    /\ CASE r.ap = 1 -> priv
         [] r.ap = 2 -> priv \/ acc # "W"
         [] r.ap = 3 -> TRUE
         [] r.ap = 5 -> priv /\ acc # "W"
         [] r.ap \in {6, 7} -> acc # "W"
         [] OTHER -> FALSE
ArmMpuPermits(c, addr, priv, acc) ==
    LET hits == {i \in DOMAIN c.mpu : ArmInRegion(c.mpu[i], addr)}
        byMap == ~(acc = "X" /\ ArmDefaultXn(addr))
    IN CASE \/ "ENABLE" \notin c.mpu_ctrl
            \/ addr \in ArmPpb
            \/ ArmExecPriority(c) < 0 /\ "HFNMIENA" \notin c.mpu_ctrl -> byMap
         [] hits # {} -> ArmAllows(c.mpu[Max(hits)], priv, acc)
         [] OTHER -> priv /\ "PRIVDEFENA" \in c.mpu_ctrl /\ byMap

\* armv7m_smc_hit and armv7m_wrote: a store into a page that blocks were
\* built from flushes every block.
ArmNoWatch == [lo |-> 0, span |-> 0, base |-> 0, bits |-> {}, wide |-> FALSE, watch |-> FALSE]
ArmSmcHit(c, addr) ==
    LET page == Sub(addr, c.smc.base) \div ArmPage IN
    IF ~c.smc.wide /\ page < ArmPages /\ page \notin c.smc.bits THEN c
    ELSE [c EXCEPT !.smc = [@ EXCEPT !.span = 0, !.wide = FALSE, !.watch = FALSE, !.bits = {}], !.blocks = {}]
ArmWrote(c, addr) == IF Sub(addr, c.smc.lo) < c.smc.span THEN ArmSmcHit(c, addr) ELSE c

ArmRes(c, x, val) == [cpu |-> c, x |-> x, val |-> val]

\* armv7m_mem_read, armv7m_mem_read_checked.
ArmMemRead(c, addr, size, unpriv) ==
    LET priv == ~unpriv /\ ArmPriv(c) IN
    CASE ~ArmMpuPermits(c, addr, priv, "R") ->
            ArmRes([c EXCEPT !.cfsr = @ \cup {"DACCVIOL", "MMARVALID"}, !.mmfar = addr], "MEMMANAGE", 0)
      [] ~Readable(ArmMap, addr, size) ->
            ArmRes([c EXCEPT !.cfsr = @ \cup {"PRECISERR", "BFARVALID"}, !.bfar = addr], "BUSFAULT", 0)
      [] OTHER -> ArmRes(c, "NONE", LoadLe(c.mem, addr, size))

\* pend_imprecise, bus_error_imprecise: a store the bus refuses pends its
\* fault and goes on.
ArmPendImprecise(c) ==
    LET d == [c EXCEPT !.cfsr = @ \cup {"IMPRECISERR"}] IN
    IF "BUSFAULTENA" \in c.shcsr THEN ArmSetPending(d, ArmBus, TRUE)
    ELSE ArmSetPending([d EXCEPT !.hfsr = @ \cup {"FORCED"}], ArmHard, TRUE)
ArmBusErrorImprecise(c) == [ArmPendImprecise(c) EXCEPT !.imprecise = TRUE]

\* armv7m_mem_write, armv7m_mem_write_checked.
ArmMemWrite(c, addr, size, unpriv, v) ==
    LET priv == ~unpriv /\ ArmPriv(c) IN
    CASE ~ArmMpuPermits(c, addr, priv, "W") ->
            ArmRes([c EXCEPT !.cfsr = @ \cup {"DACCVIOL", "MMARVALID"}, !.mmfar = addr], "MEMMANAGE", 0)
      [] ~Writable(ArmMap, addr, size) -> ArmRes(ArmBusErrorImprecise(c), "NONE", 0)
      [] OTHER -> ArmRes(ArmWrote([c EXCEPT !.mem = StoreLe(@, addr, size, v)], addr), "NONE", 0)

\* armv7m_fetch_probe; armv7m_mem_fetch16, armv7m_mem_fetch16_checked.
ArmFetchProbe(c, addr) == ArmMpuPermits(c, addr, ArmPriv(c), "X") /\ Fetchable(ArmMap, addr)
ArmFetch(c, addr) ==
    CASE ~ArmMpuPermits(c, addr, ArmPriv(c), "X") ->
            ArmRes([c EXCEPT !.cfsr = @ \cup {"IACCVIOL"}], "MEMMANAGE", 0)
      [] ~Fetchable(ArmMap, addr) -> ArmRes([c EXCEPT !.cfsr = @ \cup {"IBUSERR"}], "BUSFAULT", 0)
      [] OTHER -> ArmRes(c, "NONE", 0)

-----------------------------------------------------------------------------
(* Entering an exception. *)

ArmFpscr0 == [nzcv |-> 0, rm |-> 0, bits |-> {}, cum |-> {}]
ArmCell(w) == [w |-> w, ipsr |-> 0, ge |-> {}, align |-> FALSE, fpscr |-> ArmFpscr0]

\* lockup: nothing can take the fault.
ArmLockupPc == 222
ArmLockup(c, pc) ==
    [c EXCEPT !.lockup = TRUE, !.faulted = TRUE, !.fault_pc = pc, !.state = "HALTED", !.pc = ArmLockupPc]

\* push_word.
ArmPushWord(c, addr, cell, priv) ==
    CASE ~ArmMpuPermits(c, addr, priv, "W") -> [ok |-> FALSE, cpu |-> [c EXCEPT !.cfsr = @ \cup {"MSTKERR"}]]
      [] addr \notin ArmStack -> [ok |-> TRUE, cpu |-> ArmPendImprecise(c)]
      [] OTHER -> [ok |-> TRUE, cpu |-> ArmWrote([c EXCEPT !.stk[addr] = cell], addr)]
ArmPushWords(c, frame, cells, priv) ==
    LET Push(acc, i) == IF ~acc.ok THEN acc ELSE ArmPushWord(acc.cpu, Add(frame, 4 * (i - 1)), cells[i], priv)
    IN Loop(Push, [ok |-> TRUE, cpu |-> c], Len(cells))

\* What a floating-point frame holds beyond the first eight words.
ArmFpCells(c) ==
    [i \in 1 .. ArmSRegs + 1 |-> IF i <= ArmSRegs THEN ArmCell(c.s[i - 1]) ELSE [ArmCell(0) EXCEPT !.fpscr = c.fpscr]]
ArmFrameSize(fp) == 32 + (IF fp THEN 4 * (ArmSRegs + 2) ELSE 0)

\* armv7m_fp_lazy_save: the floating-point part of a frame, stored when the
\* registers are about to change.
ArmLazyRefused(c) ==
    LET d == [c EXCEPT !.cfsr = @ \cup {"MLSPERR"}]
        now == ArmExecPriority(c)
        below == "MEMFAULTENA" \notin c.shcsr \/ ArmGroup(c, ArmPrio(c, ArmMem)) >= now
        e == IF below THEN [d EXCEPT !.fpccr = @ \ {"LSPACT"}] ELSE d
        forced == [e EXCEPT !.hfsr = @ \cup {"FORCED"}]
    IN CASE ~below /\ "MMRDY" \in c.fpccr -> ArmRes(d, "MEMMANAGE", 0)
         [] "MMRDY" \in c.fpccr -> ArmRes(ArmSetPending(e, ArmMem, TRUE), "NONE", 0)
         [] now <= -1 /\ "HFRDY" \notin c.fpccr -> ArmRes(e, "LOCKUP", 0)
         [] now > -1 -> ArmRes(forced, "HARDFAULT", 0)
         [] OTHER -> ArmRes(ArmSetPending(forced, ArmHard, TRUE), "NONE", 0)
ArmFpLazySave(c) ==
    LET priv == "USER" \notin c.fpccr
        mpu == "HFRDY" \in c.fpccr \/ "HFNMIENA" \in c.mpu_ctrl
        cells == ArmFpCells(c)
        Save(acc, i) ==
          LET addr == Add(c.fpcar, 4 * (i - 1)) IN
          CASE ~acc.ok -> acc
            [] mpu /\ ~ArmMpuPermits(acc.cpu, addr, priv, "W") -> [acc EXCEPT !.ok = FALSE]
            [] addr \notin ArmStack -> [acc EXCEPT !.cpu = ArmBusErrorImprecise(@)]
            [] OTHER -> [acc EXCEPT !.cpu = ArmWrote([@ EXCEPT !.stk[addr] = cells[i]], addr)]
        r == Loop(Save, [ok |-> TRUE, cpu |-> c], Len(cells))
    IN IF r.ok THEN ArmRes([r.cpu EXCEPT !.fpccr = @ \ {"LSPACT"}], "NONE", 0) ELSE ArmLazyRefused(r.cpu)

\* push_stack: the frame, whose order in memory is r0-r3, r12, lr, the
\* return address, xPSR; and lr becomes the EXC_RETURN that will undo it.
ArmLazyMarks == {"USER", "THREAD", "HFRDY", "MMRDY", "BFRDY", "MONRDY"}
ArmPushFp(c, frame, priv) ==
    LET now == ArmExecPriority(c)
        Ready(exc) == ArmEnables[exc] \in c.shcsr /\ ArmGroup(c, ArmPrio(c, exc)) < now
        marks == {m \in ArmLazyMarks :
                    CASE m = "USER" -> ~ArmPriv(c)        [] m = "THREAD" -> ~ArmHandler(c)
                      [] m = "HFRDY" -> now > -1           [] m = "MMRDY" -> Ready(ArmMem)
                      [] m = "BFRDY" -> Ready(ArmBus)      [] OTHER -> FALSE}
    IN IF "LSPEN" \notin c.fpccr THEN ArmPushWords(c, Add(frame, 32), ArmFpCells(c), priv)
       ELSE [ok |-> TRUE, cpu |-> [c EXCEPT !.fpcar = Add(frame, 32),
                                            !.fpccr = (@ \ ArmLazyMarks) \cup {"LSPACT"} \cup marks]]
ArmPushStack(c, ret) ==
    LET fp == "FPCA" \in c.control
        force == fp \/ "STKALIGN" \in c.ccr
        sp == c.reg[ArmSP]
        below == Sub(sp, ArmFrameSize(fp))
        frame == below - (below % (IF force THEN 8 ELSE 4))
        xpsr == [ArmCell(c.reg[ArmXPSR]) EXCEPT !.ipsr = c.ipsr, !.ge = c.ge, !.align = force /\ Bit(sp, 2) = 1]
        cells == [k \in 1 .. 6 |-> ArmCell(c.reg[<<0, 1, 2, 3, 12, ArmLR>>[k]])] \o <<ArmCell(ret), xpsr>>
        priv == ArmPriv(c)
        moved == [c EXCEPT !.reg[ArmSP] = frame, !.psp = IF ArmProcess(c) THEN frame ELSE @,
                           !.msp = IF ArmProcess(c) THEN @ ELSE frame]
        basic == ArmPushWords(moved, frame, cells, priv)
        whole == IF fp /\ basic.ok THEN ArmPushFp(basic.cpu, frame, priv) ELSE basic
        low == CASE ArmHandler(c) -> 1 [] "SPSEL" \in c.control -> 13 [] OTHER -> 9
    IN [whole EXCEPT !.cpu.reg[ArmLR] = ArmReturn(low, fp)]

\* exception_taken: to the vector, in handler mode on the main stack.
ArmTakenCan(c, exc) == ArmVector(c.vtor, exc) # -1
ArmTaken(c, exc) ==
    LET vec == ArmVector(c.vtor, exc)
        in == [ArmSetT(ArmSpSave(c), vec % 2 = 1) EXCEPT
                  !.ipsr = exc, !.reg[ArmXPSR] = ArmItPut(@, 0), !.control = @ \ {"FPCA", "SPSEL"}]
        at == vec - (vec % 2)
    IN IF ~ArmTakenCan(c, exc) THEN c
       ELSE ArmPendingPut([ArmSpLoad(in) EXCEPT !.pc = at, !.pc_not_exc_return = ArmIsReturn(at),
                                                !.active = @ \cup {exc}, !.excl_open = FALSE], exc, FALSE)

\* vector_to.
ArmVectorTo(c, exc, pc) ==
    LET d == [c EXCEPT !.hfsr = @ \cup {"VECTTBL"}] IN
    CASE ArmTakenCan(c, exc) -> ArmTaken(c, exc)
      [] exc = ArmHard \/ ArmExecPriority(c) <= -1 -> ArmLockup(c, pc)
      [] ArmTakenCan(c, ArmHard) -> ArmTaken(d, ArmHard)
      [] OTHER -> ArmLockup(d, pc)

\* armv7m_take: a fault of the stacking is taken instead or pended, by
\* priority.
ArmTake(c, exc, ret) ==
    LET p == ArmPushStack(c, ret)
        k == p.cpu
        now == ArmExecPriority(k)
        forced == "MEMFAULTENA" \notin k.shcsr \/ ArmGroup(k, ArmPrio(k, ArmMem)) >= now
        d == IF forced THEN ArmHard ELSE ArmMem
        e == IF forced THEN [k EXCEPT !.hfsr = @ \cup {"FORCED"}] ELSE k
        first == ArmPrio(k, d) < ArmPrio(k, exc) \/ (ArmPrio(k, d) = ArmPrio(k, exc) /\ d < exc)
    IN CASE p.ok -> ArmVectorTo(k, exc, ret)
         [] forced /\ now <= -1 -> ArmLockup(k, ret)
         [] first -> ArmVectorTo(ArmSetPending(e, exc, TRUE), d, ret)
         [] OTHER -> ArmVectorTo(ArmSetPending(e, d, TRUE), exc, ret)

\* armv7m_raise: what an instruction raised, or a HardFault when that cannot
\* be taken, or lockup when neither can.
ArmUsageBits == ("UNDEF" :> "UNDEFINSTR") @@ ("INVSTATE" :> "INVSTATE") @@ ("INVPC" :> "INVPC") @@
                ("NOCP" :> "NOCP") @@ ("UNALIGNED" :> "UNALIGNED") @@ ("DIVBYZERO" :> "DIVBYZERO")
ArmExcOf(x) ==
    CASE x \in DOMAIN ArmUsageBits -> ArmUsage [] x = "MEMMANAGE" -> ArmMem [] x = "BUSFAULT" -> ArmBus
      [] x = "SVC" -> ArmSvc [] OTHER -> ArmHard
ArmRaise(c, x, pc) ==
    LET exc == ArmExcOf(x)
        d == IF x \in DOMAIN ArmUsageBits THEN [c EXCEPT !.cfsr = @ \cup {ArmUsageBits[x]}] ELSE c
        now == ArmExecPriority(d)
        cannot == \/ exc \in DOMAIN ArmEnables /\ ArmEnables[exc] \notin d.shcsr
                  \/ ArmGroup(d, ArmPrio(d, exc)) >= now
    IN CASE x = "LOCKUP" \/ (cannot /\ now <= -1) -> ArmLockup(d, pc)
         [] cannot -> ArmTake([d EXCEPT !.hfsr = @ \cup {"FORCED"}], ArmHard, pc)
         [] OTHER -> ArmTake(d, exc, pc)

-----------------------------------------------------------------------------
(* Returning from one. *)

ArmDeactivate_NoLevel(c, exc) == [c EXCEPT !.active = @ \ {exc}, !.faultmask = IF exc = ArmNMI THEN @ ELSE FALSE]
\* deactivate: a line still high is pending again.
ArmDeactivate(c, exc) ==
    LET d == [c EXCEPT !.active = @ \ {exc}, !.faultmask = IF exc = ArmNMI THEN @ ELSE FALSE]
    IN IF exc \in ArmIrqs /\ exc \in c.line THEN ArmPendingPut(d, exc, TRUE) ELSE d

\* return_chain, return_fault: the fault of a return is entered on the frame
\* that is already there.
ArmReturnChain(c, f, excret) ==
    LET d == [c EXCEPT !.reg[ArmLR] = excret] IN
    CASE ArmEnables[f] \in d.shcsr /\ ArmGroup(d, ArmPrio(d, f)) < ArmExecPriority(d) -> ArmTaken(d, f)
      [] ArmExecPriority(d) > -1 -> ArmTaken([d EXCEPT !.hfsr = @ \cup {"FORCED"}], ArmHard)
      [] OTHER -> ArmLockup(d, excret)
ArmReturnFault(c, exc, excret) ==
    ArmReturnChain([ArmDeactivate(c, exc) EXCEPT !.cfsr = @ \cup {"INVPC"}], ArmUsage, excret)

\* pop_word over the words of a frame, stopping at the first that faults.
ArmPopWhy(c, addr, priv) ==
    CASE ~ArmMpuPermits(c, addr, priv, "R") -> "MUNSTKERR"
      [] addr \notin ArmStack -> "UNSTKERR"
      [] OTHER -> "NONE"
ArmPopBad(c, frame, priv) == {k \in 0 .. 7 : ArmPopWhy(c, Add(frame, 4 * k), priv) # "NONE"}

\* The floating-point part: still in the registers when it was never saved;
\* a word that faults leaves its register alone.
ArmPopFp_Always(c, frame, priv) ==
    LET At(k) == Add(frame, 32 + 4 * k)
        Why(k) == ArmPopWhy(c, At(k), priv)
    IN [c EXCEPT !.s = [k \in DOMAIN c.s |-> IF k < ArmSRegs /\ Why(k) = "NONE" THEN c.stk[At(k)].w ELSE c.s[k]],
                 !.fpscr = IF Why(ArmSRegs) = "NONE" THEN c.stk[At(ArmSRegs)].fpscr ELSE @,
                 !.fpccr = @ \ {"LSPACT"}]
ArmPopFp(c, frame, priv) ==
    LET At(k) == Add(frame, 32 + 4 * k)
        Why(k) == ArmPopWhy(c, At(k), priv)
    IN IF "LSPACT" \in c.fpccr THEN [c EXCEPT !.fpccr = @ \ {"LSPACT"}]
       ELSE [c EXCEPT !.s = [k \in DOMAIN c.s |-> IF k < ArmSRegs /\ Why(k) = "NONE" THEN c.stk[At(k)].w ELSE c.s[k]],
                      !.fpscr = IF Why(ArmSRegs) = "NONE" THEN c.stk[At(ArmSRegs)].fpscr ELSE @,
                      !.cfsr = @ \cup ({Why(k) : k \in 0 .. ArmSRegs} \ {"NONE"})]

\* tail_chain and the rest of armv7m_exc_return: unstack what entry stacked.
\* The frame must say the mode that EXC_RETURN does.
ArmUnstack(c, excret, toThread, process) ==
    LET saved == ArmSpSave(c)
        fp == Bit(excret, 4) = 0
        frame == IF process THEN saved.psp ELSE saved.msp
        priv == ~toThread \/ "NPRIV" \notin saved.control
        bad == ArmPopBad(saved, frame, priv)
        why == ArmPopWhy(saved, Add(frame, 4 * Min(bad)), priv)
        short == ArmSpLoad([saved EXCEPT !.cfsr = @ \cup {why}])
        Cell(k) == saved.stk[Add(frame, 4 * k)]
        d == IF fp THEN ArmPopFp(saved, frame, priv) ELSE saved
        force == fp \/ "STKALIGN" \in c.ccr
        top == Add(frame, ArmFrameSize(fp))
        sp == IF force /\ Cell(7).align THEN Or(top, 4) ELSE top
        at == Cell(6).w - (Cell(6).w % 2)
        back == [d EXCEPT
            !.psp = IF process THEN sp ELSE @, !.msp = IF process THEN @ ELSE sp,
            !.reg = [r \in DOMAIN @ |-> CASE r \in 0 .. 3 -> Cell(r).w [] r = 12 -> Cell(4).w
                                          [] r = ArmLR -> Cell(5).w [] r = ArmXPSR -> Cell(7).w [] OTHER -> @[r]],
            !.pc = at, !.pc_not_exc_return = ArmIsReturn(at), !.ipsr = Cell(7).ipsr, !.ge = Cell(7).ge,
            !.control = (@ \ {"FPCA", "SPSEL"}) \cup (IF fp THEN {"FPCA"} ELSE {}) \cup (IF process THEN {"SPSEL"} ELSE {})]
        home == ArmSpLoad(back)
        invpc == ArmPushStack([home EXCEPT !.cfsr = @ \cup {"INVPC"}], home.pc).cpu
    IN CASE bad # {} -> ArmReturnChain(short, IF "MUNSTKERR" \in short.cfsr THEN ArmMem ELSE ArmBus, excret)
         [] toThread = ArmHandler(home) -> ArmTaken([invpc EXCEPT !.reg[ArmLR] = excret], ArmUsage)
         [] OTHER -> [home EXCEPT !.excl_open = FALSE]

\* armv7m_exc_return.  An address in the range of EXC_RETURN that something
\* else put in pc is an instruction address.
ArmExcReturn(c, excret) ==
    LET low == excret % 16
        toThread == low # 1
        off == ArmDeactivate(c, c.ipsr)
        fetch == ArmFetch([c EXCEPT !.pc_not_exc_return = FALSE], excret)
    IN CASE c.pc_not_exc_return ->
                IF ArmThumb(c) THEN fetch ELSE ArmRes([c EXCEPT !.pc_not_exc_return = FALSE], "INVSTATE", 0)
         [] \/ c.ipsr \notin c.active
            \/ low \notin {1, 9, 13}
            \/ toThread /\ Cardinality(c.active) # 1 /\ "NONBASETHRDENA" \notin c.ccr ->
                ArmRes(ArmReturnFault(c, c.ipsr, excret), "NONE", 0)
         [] ArmPreempts(off) -> ArmRes(ArmVectorTo([off EXCEPT !.reg[ArmLR] = excret], ArmPendingExc(off), excret), "NONE", 0)
         [] OTHER -> ArmRes(ArmUnstack(off, excret, toThread, low = 13), "NONE", 0)

-----------------------------------------------------------------------------
(* The timer, the lines, and one turn of the interpreter's loop. *)

\* armv7m_systick_tick of one instruction.
ArmSystick(c) ==
    LET v == c.tick.value
        down == [c EXCEPT !.tick.value = v - 1, !.tick.flag = @ \/ v = 1]
    IN CASE "ENABLE" \notin c.tick.ctrl -> c
         [] v = 0 -> [c EXCEPT !.tick.value = c.tick.reload]
         [] v = 1 /\ "TICKINT" \in c.tick.ctrl -> ArmSetPending(down, ArmTick, TRUE)
         [] OTHER -> down

\* a7_count: a block retired n instructions.
ArmCount(c, n) ==
    LET d == [c EXCEPT !.retired = @ + n]
        Tick(k, i) == ArmSystick(k)
    IN CASE "ENABLE" \notin c.tick.ctrl -> d
         [] c.tick.value > n -> [d EXCEPT !.tick.value = @ - n]
         [] OTHER -> Loop(Tick, d, n)

\* armv7m_set_irq: a level.
ArmSetIrq(c, exc, level) ==
    IF exc \notin ArmIrqs THEN c
    ELSE IF level THEN ArmSetPending([c EXCEPT !.line = @ \cup {exc}], exc, TRUE)
    ELSE [c EXCEPT !.line = @ \ {exc}]

\* The turns of armv7m_run that execute nothing: a return, an exception
\* taken, a fetch refused; "go" when there is an instruction to execute.
ArmTurn(c, len) ==
    LET r == ArmExcReturn(c, c.pc)
        f == ArmFetch(c, c.pc)
        g == IF f.x = "NONE" /\ len = 4 THEN ArmFetch(f.cpu, Add(c.pc, 2)) ELSE f
        Went(k) == [go |-> FALSE, cpu |-> k]
    IN CASE ArmHandler(c) /\ ArmIsReturn(c.pc) -> Went(IF r.x = "NONE" THEN r.cpu ELSE ArmRaise(r.cpu, r.x, r.cpu.pc))
         [] ArmPreempts(c) -> Went(ArmTake(c, ArmPendingExc(c), c.pc))
         [] ~ArmThumb(c) -> Went(ArmRaise(c, "INVSTATE", c.pc))
         [] g.x # "NONE" -> Went(ArmRaise(g.cpu, g.x, c.pc))
         [] OTHER -> [go |-> TRUE, cpu |-> c]

------------------------------------------------------------------------------
(* The system control space of the ARMv7-M core (armv7m_nvic.c), a device  *)
(* on the bus whose registers are the core's own state.  The value of a    *)
(* register is decoded: a set of bits, a record of fields, a number.       *)

\* Exceptions SHCSR shows as active and as pending.
ArmShActive == {ArmMem, ArmBus, ArmUsage, ArmSvc, 12, ArmPendSv, ArmTick}
ArmShPended == {ArmUsage, ArmMem, ArmBus, ArmSvc}
ArmCcrBits == {"NONBASETHRDENA", "USERSETMPEND", "UNALIGN_TRP", "DIV_0_TRP", "BFHFNMIGN", "STKALIGN", "DC", "IC"}
ArmFpccrBits == {"ASPEN", "LSPEN", "MONRDY", "BFRDY", "MMRDY", "HFRDY", "THREAD", "USER", "LSPACT"}

\* shcsr_read and shcsr_write.
ArmShcsrRead(c) == [ena |-> c.shcsr, act |-> c.active \cap ArmShActive, pend |-> c.pending \cap ArmShPended]
ArmShcsrWrite(c, v) ==
    LET d == [c EXCEPT !.shcsr = v.ena, !.active = (@ \ ArmShActive) \cup v.act]
        Pend(k, i) == LET e == <<ArmUsage, ArmMem, ArmBus, ArmSvc>>[i] IN ArmSetPending(k, e, e \in v.pend)
    IN Loop(Pend, d, 4)

\* icsr_read, with vectpending; icsr_write.
ArmIcsrRead(c) ==
    [active |-> c.ipsr, base |-> ArmRetToBase(c), pending |-> ArmPendingExc(c),
     isr |-> c.pending \cap ArmIrqs # {}, bits |-> c.pending \cap {ArmTick, ArmPendSv, ArmNMI}]
ArmIcsrWrite(c, v) ==
    LET Set(k, bit, exc, on) == IF bit \in v THEN ArmSetPending(k, exc, on) ELSE k
    IN Set(Set(Set(Set(Set(c, "NMIPENDSET", ArmNMI, TRUE), "PENDSVSET", ArmPendSv, TRUE),
                   "PENDSVCLR", ArmPendSv, FALSE), "PENDSTSET", ArmTick, TRUE), "PENDSTCLR", ArmTick, FALSE)

\* byte_read and byte_write of the priorities and of CFSR, whose bits are
\* cleared by writing them.
ArmReserved == {7, 8, 9, 10, 13}
ArmPrioWrite(c, exc, v) == IF exc \in ArmReserved THEN c ELSE [c EXCEPT !.prio[exc] = ArmMasked(v)]
ArmCfsrWrite(c, v) == [c EXCEPT !.cfsr = @ \ v]

\* irq_bank_write, of one bank.
ArmIrqsWrite(c, v, on) ==
    [c EXCEPT !.pending = IF on THEN @ \cup (v \cap ArmIrqs) ELSE @ \ v,
              !.irq_maybe = @ \/ (on /\ v \cap ArmIrqs # {})]

\* word_write of the system control block.  A change of what translated code
\* was built for starts a new generation of it.
ArmScbWrite(c, r, v) ==
    CASE r = "ICSR" -> ArmIcsrWrite(c, v)
      [] r = "VTOR" -> [c EXCEPT !.vtor = v]
      [] r = "AIRCR" -> IF ~v.key THEN c
                        ELSE LET d == [c EXCEPT !.prigroup = v.group] IN
                             IF v.reset THEN [d EXCEPT !.state = "HALTED", !.reset_by = "SYSRESETREQ"] ELSE d
      [] r = "SCR" -> [c EXCEPT !.scr = v]
      [] r = "CCR" -> LET new == (v \cap ArmCcrBits) \cup {"STKALIGN"} IN
                      [c EXCEPT !.ccr = new,
                                !.gen = IF c.ccr \cap {"UNALIGN_TRP", "DIV_0_TRP"} # new \cap {"UNALIGN_TRP", "DIV_0_TRP"}
                                        THEN @ + 1 ELSE @]
      [] r = "SHCSR" -> ArmShcsrWrite(c, v)
      [] r = "HFSR" -> [c EXCEPT !.hfsr = @ \ v]
      [] r = "MMFAR" -> [c EXCEPT !.mmfar = v]
      [] r = "BFAR" -> [c EXCEPT !.bfar = v]
      [] r = "CPACR" -> [c EXCEPT !.cpacr = v]
      [] r = "FPCCR" -> [c EXCEPT !.fpccr = v \cap ArmFpccrBits]
      [] r = "FPCAR" -> [c EXCEPT !.fpcar = v - (v % 8)]
      [] OTHER -> [c EXCEPT !.fpdscr = v]

\* ... and of the protection unit, with mpu_region_write.
ArmMpuWrite(c, r, v) ==
    CASE r = "MPU_CTRL" -> [c EXCEPT !.mpu_ctrl = v, !.gen = @ + 1]
      [] r = "MPU_RNR" -> [c EXCEPT !.mpu_rnr = v % ArmRegions]
      [] r = "MPU_RBAR" -> LET n == IF v.valid THEN v.region % ArmRegions ELSE c.mpu_rnr IN
                           [c EXCEPT !.mpu_rnr = n, !.mpu[n].base = v.base, !.gen = @ + 1]
      [] OTHER -> [c EXCEPT !.mpu[c.mpu_rnr] = [base |-> @.base] @@ v, !.gen = @ + 1]

\* ... of the timer and of the interrupt controller.
ArmTickWrite(c, r, v) ==
    CASE r = "SYST_CSR" -> [c EXCEPT !.tick.ctrl = v]
      [] r = "SYST_RVR" -> [c EXCEPT !.tick.reload = v]
      [] OTHER -> [c EXCEPT !.tick.value = 0, !.tick.flag = FALSE]
ArmNvicWrite(c, r, v) ==
    CASE r = "STIR" -> IF v \in ArmIrqs THEN ArmSetPending(c, v, TRUE) ELSE c
      [] r = "ISER" -> [c EXCEPT !.enabled = @ \cup (v \cap ArmIrqs)]
      [] r = "ICER" -> [c EXCEPT !.enabled = @ \ v]
      [] r = "ISPR" -> ArmIrqsWrite(c, v, TRUE)
      [] r = "ICPR" -> ArmIrqsWrite(c, v, FALSE)
      [] r = "CFSR" -> ArmCfsrWrite(c, v)
      [] OTHER -> ArmPrioWrite(c, v.exc, v.prio)

ArmMpuRegs == {"MPU_CTRL", "MPU_RNR", "MPU_RBAR", "MPU_RASR"}
ArmTickRegs == {"SYST_CSR", "SYST_RVR", "SYST_CVR"}
ArmNvicRegs == {"STIR", "ISER", "ICER", "ISPR", "ICPR", "CFSR", "IPR"}

\* scs_write: any write may have made something deliverable.  Without
\* privilege only STIR can be written, when CCR allows it; otherwise the
\* access is a bus error.
ArmScsWrite(c, r, v) ==
    LET d == [c EXCEPT !.irq_maybe = TRUE] IN
    CASE ~ArmPriv(c) /\ ~(r = "STIR" /\ "USERSETMPEND" \in c.ccr) -> ArmBusErrorImprecise(d)
      [] r \in ArmMpuRegs -> ArmMpuWrite(d, r, v)
      [] r \in ArmTickRegs -> ArmTickWrite(d, r, v)
      [] r \in ArmNvicRegs -> ArmNvicWrite(d, r, v)
      [] OTHER -> ArmScbWrite(d, r, v)

\* word_read: what a register shows, and the one read that changes state.
ArmScsRead(c, r) ==
    LET v == CASE r = "SYST_CSR" -> [ctrl |-> c.tick.ctrl, flag |-> c.tick.flag]
               [] r = "SYST_RVR" -> c.tick.reload   [] r = "SYST_CVR" -> c.tick.value
               [] r = "ICSR" -> ArmIcsrRead(c)      [] r = "SHCSR" -> ArmShcsrRead(c)
               [] r = "VTOR" -> c.vtor              [] r = "AIRCR" -> c.prigroup
               [] r = "SCR" -> c.scr                [] r = "CCR" -> c.ccr
               [] r = "HFSR" -> c.hfsr              [] r = "CFSR" -> c.cfsr
               [] r = "MMFAR" -> c.mmfar            [] r = "BFAR" -> c.bfar
               [] r = "CPACR" -> c.cpacr            [] r = "FPCCR" -> c.fpccr
               [] r = "FPCAR" -> c.fpcar            [] r = "FPDSCR" -> c.fpdscr
               [] r = "MPU_CTRL" -> c.mpu_ctrl      [] r = "MPU_RNR" -> c.mpu_rnr
               [] r = "MPU_RBAR" -> [valid |-> FALSE, region |-> c.mpu_rnr, base |-> c.mpu[c.mpu_rnr].base]
               [] r = "MPU_RASR" -> [k \in DOMAIN c.mpu[c.mpu_rnr] \ {"base"} |-> c.mpu[c.mpu_rnr][k]]
               [] r \in {"ISER", "ICER"} -> c.enabled
               [] r \in {"ISPR", "ICPR"} -> c.pending \cap ArmIrqs
               [] OTHER -> c.active \cap ArmIrqs
    IN [val |-> v, cpu |-> IF r = "SYST_CSR" THEN [c EXCEPT !.tick.flag = FALSE] ELSE c]
==============================================================================
