----------------------------- MODULE PpcDevices ------------------------------
(* The devices beside an e200z7 core: the interrupt controller, the system *)
(* timer, the watchdog (ppc_intc.c, ppc_stm.c, ppc_swt.c), the clock that  *)
(* drives them (ppc_cpu.c) and the mode entry that starts the second core  *)
(* (ppc_sscm.c).  A core c carries its own three as c.intc, c.stm, c.swt;  *)
(* c.lag is the cycles run since the devices last heard of one.            *)
EXTENDS PpcCpu, FiniteSetsExt

CONSTANTS
    PpcSources,    \* 0 .. PPC_INTC_NSRC - 1
    PpcSoftware,   \* PPC_INTC_NSW: the sources below it are set by software
    PpcLifo,       \* PPC_INTC_LIFO
    PpcPriMax,     \* PPC_INTC_PRI_MAX
    PpcStmIrq0,    \* PPC_STM_IRQ0
    PpcSwtIrq0,    \* PPC_SWT_IRQ0
    PpcChannels,   \* 0 .. PPC_STM_CHANNELS - 1
    PpcSwtToMin,   \* PPC_SWT_TO_MIN
    PpcSwtToReset  \* PPC_SWT_TO_RESET

------------------------------------------------------------------------------
\* INTC.

\* ppc_intc_reset.
PpcIntcZero ==
    [vtes |-> FALSE, hven |-> FALSE, cpr |-> PpcPriMax, vtba |-> 0, vec |-> 0, pri |-> 0,
     req |-> FALSE, lifo |-> <<>>, psr |-> [n \in PpcSources |-> 0], flag |-> {}]

\* arbitrate: the raised source of the highest priority, the lowest of
\* several; source 0 at priority 0 for none.
PpcArbitrate(ic) ==
    LET up   == {n \in ic.flag : ic.psr[n] > 0}
        best == {n \in up : \A m \in up : ic.psr[n] > ic.psr[m] \/ (ic.psr[n] = ic.psr[m] /\ n <= m)}
    IN IF up = {} THEN [vec |-> 0, pri |-> 0]
       ELSE LET n == CHOOSE n \in best : TRUE IN [vec |-> n, pri |-> ic.psr[n]]

\* update.
PpcIntcUpdate(c) ==
    LET a == PpcArbitrate(c.intc)
    IN IF c.intc.req \/ a.pri <= c.intc.cpr THEN c
       ELSE [c EXCEPT !.intc.req = TRUE, !.intc.vec = a.vec, !.intc.pri = a.pri,
                      !.irq_dirty = TRUE]

\* push, pop: a ring that forgets its oldest entry.
PpcPush(lifo, pri) == IF Len(lifo) < PpcLifo THEN Append(lifo, pri) ELSE Append(Tail(lifo), pri)
PpcPop(c) ==
    IF c.intc.lifo = <<>> THEN [c EXCEPT !.intc.cpr = 0]
    ELSE [c EXCEPT !.intc.cpr = Last(c.intc.lifo), !.intc.lifo = Front(@)]

PpcAcknowledge(c) ==
    PpcIntcUpdate([c EXCEPT !.intc.lifo = PpcPush(@, c.intc.cpr), !.intc.cpr = c.intc.pri,
                            !.intc.req = FALSE])

\* ppc_intc_set_source, ppc_intc_ack.
PpcSetSource(c, n, level) ==
    LET d == [c EXCEPT !.intc.flag = IF level THEN @ \cup {n} ELSE @ \ {n}]
    IN IF n < PpcSoftware \/ n \notin PpcSources THEN c
       ELSE IF level THEN PpcIntcUpdate(d) ELSE d
PpcIntcAck(c) == IF c.intc.req THEN PpcAcknowledge(c) ELSE c

\* intc_read of IACKR, iackr: the vector's place in the table.
PpcIackr(c) ==
    [val |-> c.intc.vtba + c.intc.vec * (IF c.intc.vtes THEN 8 ELSE 4),
     c   |-> IF ~c.intc.hven /\ c.intc.req THEN PpcAcknowledge(c) ELSE c]

\* intc_write and byte_write, a register named and its value decoded; PSR
\* and SSCIR take the bytes an access covers.
PpcIntcWrite(c, reg, v) ==
    PpcIntcUpdate(
        CASE reg = "BCR"   -> [c EXCEPT !.intc.vtes = "VTES" \in v, !.intc.hven = "HVEN" \in v]
          [] reg = "CPR"   -> [c EXCEPT !.intc.cpr = v, !.intc.req = FALSE]
          [] reg = "IACKR" -> [c EXCEPT !.intc.vtba = v]
          [] reg = "EOIR"  -> PpcPop(c)
          [] reg = "PSR"   -> [c EXCEPT !.intc.psr = v @@ @]
          [] reg = "SSCIR" -> [c EXCEPT !.intc.flag =
                                  (@ \cup {n \in DOMAIN v : v[n] = "SET"})
                                     \ {n \in DOMAIN v : v[n] = "CLR"}])

------------------------------------------------------------------------------
\* STM.

PpcStmZero ==
    [cps |-> 0, ten |-> FALSE, cnt |-> 0, presc |-> 0, cen |-> {}, cif |-> {},
     cmp |-> [n \in PpcChannels |-> 0]]

\* request.
PpcStmRequest(c, n) == PpcSetSource(c, PpcStmIrq0 + n, n \in c.stm.cif)

\* ppc_stm_until: the ticks to the next compare of an armed channel.
PpcStmUntil(s) ==
    LET armed == s.cen \ s.cif
        At(n) == LET d == Sub(s.cmp[n], s.cnt)
                 IN ((IF d = 0 THEN Size ELSE d) * (s.cps + 1)) - s.presc
    IN IF ~s.ten \/ armed = {} THEN PpcForever
       ELSE Min({At(n) : n \in armed} \cup {PpcForever})

PpcStmAdvance(c, ticks) ==
    LET s == c.stm
        t == s.presc + ticks
        k == t \div (s.cps + 1)
        hit == {n \in s.cen \ s.cif : Sub(s.cmp[n], Add(s.cnt, 1)) < k}
        d == [c EXCEPT !.stm.presc = t % (s.cps + 1), !.stm.cnt = Add(@, k),
                       !.stm.cif = @ \cup hit]
    IN IF ~s.ten \/ ticks = 0 THEN c
       ELSE FoldSet(LAMBDA n, acc : PpcStmRequest(acc, n), d, hit)

------------------------------------------------------------------------------
\* SWT.

\* ppc_swt_reset.
PpcSwtZero ==
    [cr |-> {"RIA", "SLK"}, tif |-> FALSE, to |-> PpcSwtToReset, wn |-> 0, sk |-> 0, count |-> 0,
     expired |-> FALSE, svc_half |-> FALSE, unl_half |-> FALSE, reset |-> FALSE]
PpcSwtOn(w) == "WEN" \in w.cr
PpcSwtLocked(w) == w.cr \cap {"HLK", "SLK"} # {}
PpcSwtPeriod(w) == IF w.to > PpcSwtToMin THEN w.to ELSE PpcSwtToMin
PpcSwtRequest(c) == PpcSetSource(c, PpcSwtIrq0, c.swt.tif)
PpcSwtReset(c) == PpcSystemReset([c EXCEPT !.swt.reset = TRUE])

\* ppc_swt_until, ppc_swt_advance.
PpcSwtUntil(w) == IF PpcSwtOn(w) /\ ~w.reset THEN w.count ELSE PpcForever
PpcSwtAdvance(c, ticks) ==
    LET w     == c.swt
        warn  == [c EXCEPT !.swt.expired = TRUE, !.swt.tif = TRUE]
        over  == ticks - w.count
        first == "ITR" \in w.cr /\ ~w.expired
        Died(d) == PpcSwtReset([d EXCEPT !.swt.count = 0])
    IN IF ~PpcSwtOn(w) \/ w.reset THEN c
       ELSE IF ticks < w.count THEN [c EXCEPT !.swt.count = @ - ticks]
       ELSE IF ~first THEN Died(c)
       ELSE IF over >= PpcSwtPeriod(w) THEN Died(PpcSwtRequest(warn))
       ELSE [PpcSwtRequest(warn) EXCEPT !.swt.count = PpcSwtPeriod(w) - over]

\* invalid: an access the watchdog answers with a reset when RIA is set.
PpcSwtInvalid(c) == IF "RIA" \in c.swt.cr /\ PpcSwtOn(c.swt) THEN PpcSwtReset(c) ELSE c

\* serviced, service_write: [ok, c].  A code is a name, or a number for the
\* keyed mode.
PpcServiced(c) ==
    [c EXCEPT !.swt.count = PpcSwtPeriod(c.swt), !.swt.expired = FALSE, !.swt.svc_half = FALSE]
PpcNextKey(sk) == Wrap((17 * sk) + 3)
PpcService(c, code) ==
    LET w == c.swt
        Yes(d) == [ok |-> TRUE, c |-> d]
        No  == [ok |-> FALSE, c |-> c]
        Half(d) == Yes([d EXCEPT !.swt.svc_half = TRUE])
    IN IF code = <<"UNLOCK1">> THEN Yes([c EXCEPT !.swt.unl_half = TRUE])
       ELSE IF code = <<"UNLOCK2">> /\ w.unl_half
            THEN Yes([c EXCEPT !.swt.unl_half = FALSE, !.swt.cr = @ \ {"SLK"}])
       ELSE IF "WND" \in w.cr /\ PpcSwtOn(w) /\ w.count >= w.wn THEN No
       ELSE IF "KEY" \in w.cr
            THEN LET d == [c EXCEPT !.swt.sk = PpcNextKey(w.sk)]
                 IN IF code # <<"KEY", PpcNextKey(w.sk)>> THEN No
                    ELSE IF w.svc_half THEN Yes(PpcServiced(d)) ELSE Half(d)
       ELSE IF code = <<"SERVICE1">> THEN Half(c)
       ELSE IF code = <<"SERVICE2">> /\ w.svc_half THEN Yes(PpcServiced(c))
       ELSE No

------------------------------------------------------------------------------
\* The clock of both (ppc_cpu.c).

\* soc_recompute, ppc_cpu_sync_clock, ppc_cpu_soc_changed, ppc_cpu_clock_until.
PpcSocRecompute(c) == [c EXCEPT !.soc_until = Min({PpcStmUntil(c.stm), PpcSwtUntil(c.swt)})]
PpcSyncClock(c) ==
    LET n == c.lag
        d == [c EXCEPT !.lag = 0]
        e == IF PpcOnCoreClock(c) THEN PpcAdvance(d, n) ELSE d
    IN IF n = 0 THEN d ELSE PpcSocRecompute(PpcSwtAdvance(PpcStmAdvance(e, n), n))
PpcSocChanged(c) == [PpcSocRecompute(c) EXCEPT !.irq_dirty = TRUE]
PpcClockUntil(c) ==
    Min({c.soc_until, IF PpcOnCoreClock(c) /\ c.dec # 0 THEN c.dec ELSE PpcForever})

\* stm_read and swt_read: the time, before the register; [c, val].  A running
\* watchdog's count reads as zero.
PpcStmRead(c, reg, n) ==
    LET d == PpcSyncClock(c)
    IN [c |-> d, val |-> CASE reg = "CNT" -> d.stm.cnt [] reg = "CMP" -> d.stm.cmp[n]
                           [] reg = "CIR" -> Bool(n \in d.stm.cif)]
PpcSwtRead(c, reg) ==
    LET d == PpcSyncClock(c)
    IN [c |-> d, val |-> CASE reg = "IR" -> Bool(d.swt.tif) [] reg = "TO" -> d.swt.to
                           [] reg = "WN" -> d.swt.wn
                           [] reg = "CO" -> IF PpcSwtOn(d.swt) THEN 0 ELSE d.swt.count]

\* stm_write.
PpcStmWrite(c, reg, n, v) ==
    LET d == PpcSyncClock(c)
    IN PpcSocChanged(
        CASE reg = "CR"  -> [d EXCEPT !.stm.cps = v.cps, !.stm.ten = v.ten,
                                      !.stm.presc = IF v.cps # d.stm.cps \/ (v.ten /\ ~d.stm.ten)
                                                    THEN 0 ELSE @]
          [] reg = "CNT" -> [d EXCEPT !.stm.cnt = v]
          [] reg = "CCR" -> [d EXCEPT !.stm.cen = IF v THEN @ \cup {n} ELSE @ \ {n}]
          [] reg = "CIR" -> IF v THEN PpcStmRequest([d EXCEPT !.stm.cif = @ \ {n}], n) ELSE d
          [] reg = "CMP" -> [d EXCEPT !.stm.cmp[n] = v])

\* swt_write.
PpcSwtWrite(c, reg, v) ==
    LET d == PpcSyncClock(c)
        Locked(e) == IF PpcSwtLocked(d.swt) THEN PpcSwtInvalid(d) ELSE e
        up == "WEN" \in v \ d.swt.cr
        s  == PpcService(d, v)
    IN PpcSocChanged(
        CASE reg = "CR" -> Locked([d EXCEPT
                               !.swt.count = IF up THEN PpcSwtPeriod(d.swt) ELSE @,
                               !.swt.expired = IF up THEN FALSE ELSE @, !.swt.cr = v])
          [] reg = "IR" -> IF v THEN PpcSwtRequest([d EXCEPT !.swt.tif = FALSE]) ELSE d
          [] reg = "TO" -> Locked([d EXCEPT !.swt.to = v])
          [] reg = "WN" -> Locked([d EXCEPT !.swt.wn = v])
          [] reg = "SK" -> Locked([d EXCEPT !.swt.sk = v])
          [] reg = "CO" -> PpcSwtInvalid(d)
          [] reg = "SR" -> IF s.ok THEN s.c
                           ELSE LET e == [d EXCEPT !.swt.svc_half = FALSE, !.swt.unl_half = FALSE]
                                IN IF PpcSwtOn(e.swt) THEN PpcSwtInvalid(e) ELSE e)

------------------------------------------------------------------------------
\* Interrupts (ppc_cpu.c).

\* ppc_cpu_pending_irq.
PpcPendingIrq(c) ==
    IF "EE" \notin c.msr THEN PpcNoFault
    ELSE IF c.ext_pending \/ c.intc.req THEN "EXTERNAL"
    ELSE IF "DIS" \in c.tsr /\ "DIE" \in c.tcr THEN "DECREMENTER"
    ELSE PpcNoFault

\* ppc_cpu_wake: an idle core skips to its next clock event.
PpcWake(c) ==
    LET d == PpcSyncClock(c)
        u == PpcClockUntil(d)
        e == IF PpcPendingIrq(c) # PpcNoFault THEN c
             ELSE IF u = PpcForever THEN d ELSE PpcSyncClock([d EXCEPT !.lag = u])
    IN IF PpcPendingIrq(e) = PpcNoFault THEN e
       ELSE [e EXCEPT !.state = "RUNNING", !.irq_dirty = TRUE]

\* ppc_cpu_take_irq: [taken, c].
PpcTakeIrq(c) ==
    LET which == PpcPendingIrq(c)
        ext   == which = "EXTERNAL"
        hw    == ext /\ ~c.ext_pending /\ c.intc.hven
        d     == IF ~ext THEN c
                 ELSE IF c.ext_pending THEN [c EXCEPT !.ext_pending = FALSE]
                 ELSE IF hw THEN PpcIntcAck(c) ELSE c
        e     == IF ext /\ "ICR" \in c.hid0 THEN [d EXCEPT !.sh.resv[c.coreid].held = FALSE] ELSE d
        f     == PpcRaise([e EXCEPT !.state = "RUNNING"], which, c.pc, PpcEsrKeep)
    IN IF which = PpcNoFault THEN [taken |-> FALSE, c |-> c]
       ELSE [taken |-> TRUE,
             c |-> IF hw THEN [f EXCEPT !.pc = PpcAlign(c.spr["IVPR"], 2^HalfBits) + Wrap(c.intc.vec * 4)]
                   ELSE f]

------------------------------------------------------------------------------
(* The special-purpose registers of an e200z7 core (ppc_cpu.c).  A register *)
(* is named by a string, an IVOR by the exception it vectors; the value of  *)
(* a MAS register or of SPEFSCR is a record, of a register of flags the     *)
(* word they make.  Of the registers that are only stored and read back one *)
(* of each family is kept: SPRG0 for the SPRGs, DBCR0 for the debug         *)
(* registers, BUCSR for the caches and buffers.                             *)

PpcExceptions ==
    {"CRITICAL", "MACHINE_CHECK", "DATA_STORAGE", "INST_STORAGE", "EXTERNAL", "ALIGNMENT",
     "PROGRAM", "SYSTEM_CALL", "DECREMENTER", "WATCHDOG", "DTLB_ERROR", "ITLB_ERROR", "DEBUG",
     "SPE_UNAVAIL", "FP_DATA", "FP_ROUND"}
PpcSlots ==
    {"SRR0", "SRR1", "CSRR0", "CSRR1", "DSRR0", "DSRR1", "MCSRR0", "MCSRR1", "DEAR", "ESR",
     "IVPR", "DECAR", "USPRG0", "SPRG0", "SPRG4", "PIR", "DBCR0", "BUCSR"}
PpcMasRegs == {"MAS0", "MAS1", "MAS2", "MAS3", "MAS4", "MAS6"}

\* spr_privileged: bit 4 of the register's number.
PpcUserSprs ==
    {"XER", "LR", "CTR", "USPRG0", "SPRG4_R", "TBL_R", "TBU_R", "SPEFSCR", "L1CFG0", "L1CFG1"}
\* As if the time base's way in were open to users, as its way out is.
PpcSprRefused_Timers(c, n) == n \notin PpcUserSprs \cup {"SPRG0", "TBL_W", "DEC"} /\ "PR" \in c.msr
PpcSprRefused(c, n) == n \notin PpcUserSprs /\ "PR" \in c.msr

\* Read-only, and the write-only pair.
PpcReadOnly == {"TBL_R", "TBU_R", "SPRG4_R", "PVR", "SVR", "L1CFG0", "L1CFG1", "MMUCFG", "TLB1CFG"}
PpcWriteOnly == {"TBL_W", "TBU_W"}

\* spr_slot and the rest of ppc_spr_read: the value alone.
PpcSprValue(c, n) ==
    CASE n \in PpcSlots      -> c.spr[n]
      [] n \in PpcExceptions -> c.ivor[n]
      [] n = "LR"      -> c.reg[PpcLR]
      [] n = "CTR"     -> c.reg[PpcCTR]
      [] n = "XER"     -> c.reg[PpcXER]
      [] n = "DEC"     -> c.dec
      [] n = "TBL_R"   -> c.tb % Size
      [] n = "TBU_R"   -> c.tb \div Size
      [] n = "SPRG4_R" -> c.spr["SPRG4"]
      [] n = "TSR"     -> PpcWordOf(PpcTsrBits, c.tsr)
      [] n = "TCR"     -> PpcWordOf(PpcTcrBits, c.tcr)
      [] n = "HID0"    -> PpcWordOf(PpcHid0Bits, c.hid0)
      [] n = "L1CSR0"  -> PpcWordOf(<<"DCE">>, c.l1csr0)
      [] n = "DBSR"    -> c.dbsr
      [] n = "MCSR"    -> c.mcsr
      [] n = "SPEFSCR" -> c.spefscr
      [] n = "MAS0"    -> c.mas0
      [] n = "MAS1"    -> c.mas1
      [] n = "MAS2"    -> c.mas2
      [] n = "MAS3"    -> c.mas3
      [] n = "MAS4"    -> c.mas4
      [] n = "MAS6"    -> c.mas6
      [] n = "PID0"    -> c.pid0
      [] OTHER         -> 0          \* MMUCSR0 and the identification registers

\* ppc_spr_read: [c, err, val]; the registers that count catch up first.
PpcSprRead(c, n) ==
    LET d == IF n \in {"DEC", "TBL_R", "TBU_R"} THEN PpcSyncClock(c) ELSE c
        Out(e, err, v) == [c |-> e, err |-> err, val |-> v]
    IN IF PpcSprRefused(c, n) THEN Out(c, {"PPR"}, 0)
       ELSE IF n \in PpcWriteOnly \/ n = "NONE" THEN Out(c, {"PIL"}, 0)
       ELSE Out(d, {}, PpcSprValue(d, n))

\* PPC_SPEFSCR_IMPL: the status and enable bits there are, not MODE; and
\* PPC_MASn_IMPL: the fields the register has.
PpcFpImpl ==
    ({"now", "sticky", "enable"} \X {"inv", "dbz", "unf", "ovf"})
        \cup ({"sticky", "enable"} \X {"inx"}) \cup ({"guard"} \X {"fg", "fx"})
PpcImplemented(has, v) == [f \in DOMAIN has |-> v[f]]

\* ppc_spr_write.  DBSR and MCSR, as TSR, are written ones to clear.
PpcSprPut(c, n, v) ==
    LET d == PpcSyncClock(c)
        Dirty(e) == [e EXCEPT !.irq_dirty = TRUE]
    IN CASE n = "DECAR"  -> [d EXCEPT !.spr["DECAR"] = v]
         [] n \in PpcSlots \ {"DECAR"} -> [c EXCEPT !.spr[n] = v]
         [] n \in PpcExceptions -> [c EXCEPT !.ivor[n] = v]
         [] n = "LR"     -> [c EXCEPT !.reg[PpcLR] = v]
         [] n = "CTR"    -> [c EXCEPT !.reg[PpcCTR] = v]
         [] n = "XER"    -> [c EXCEPT !.reg[PpcXER] = And(v, PpcXerImpl)]
         [] n = "DEC"    -> Dirty([d EXCEPT !.dec = v])
         [] n = "TBL_W"  -> [d EXCEPT !.tb = ((@ \div Size) * Size) + v]
         [] n = "TBU_W"  -> [d EXCEPT !.tb = (v * Size) + (@ % Size)]
         [] n = "TSR"    -> Dirty([c EXCEPT !.tsr = @ \ PpcFlagsOf(PpcTsrBits, v)])
         [] n = "TCR"    -> Dirty([d EXCEPT !.tcr = PpcFlagsOf(PpcTcrBits, v)])
         [] n = "HID0"   -> Dirty([d EXCEPT !.hid0 = PpcFlagsOf(PpcHid0Bits, v)])
         [] n = "L1CSR0" -> [c EXCEPT !.l1csr0 = PpcFlagsOf(<<"DCE">>, v)]
         [] n = "DBSR"   -> [c EXCEPT !.dbsr = And(@, Not(v))]
         [] n = "MCSR"   -> [c EXCEPT !.mcsr = And(@, Not(v))]
         [] n = "SPEFSCR" -> [c EXCEPT !.spefscr = PpcImplemented(@, [v EXCEPT !.flags = @ \cap PpcFpImpl])]
         [] n = "MAS0"   -> [c EXCEPT !.mas0 = PpcImplemented(PpcMas0Zero, v)]
         [] n = "MAS1"   -> [c EXCEPT !.mas1 = PpcImplemented(PpcMas1Zero, v)]
         [] n = "MAS2"   -> [c EXCEPT !.mas2 = PpcImplemented(PpcMas2Zero, v)]
         [] n = "MAS3"   -> [c EXCEPT !.mas3 = PpcImplemented(PpcMas3Zero, v)]
         [] n = "MAS4"   -> [c EXCEPT !.mas4 = PpcImplemented(PpcMas4Zero, v)]
         [] n = "MAS6"   -> [c EXCEPT !.mas6 = PpcImplemented(PpcMas6Zero, v)]
         [] n = "MMUCSR0" -> IF Bit(v, 1) = 1 THEN PpcFlashInvalidate(c) ELSE c
         [] n = "PID0"   -> [c EXCEPT !.pid0 = Low(v, Bits \div 4)]
PpcSprWrite(c, n, v) ==
    IF PpcSprRefused(c, n) THEN [c |-> c, err |-> {"PPR"}]
    ELSE IF n \in PpcReadOnly \cup {"NONE"} THEN [c |-> c, err |-> {"PIL"}]
    ELSE [c |-> PpcSprPut(c, n, v), err |-> {}]

------------------------------------------------------------------------------
\* ppc_cpu_reset, with the devices ppc_ops_reset puts back, and what boot
\* and the start of a second core do on top.
PpcReset(c, pc) ==
    LET d == [c EXCEPT
                !.reg = [r \in DOMAIN c.reg |-> 0], !.pc = pc, !.msr = {},
                !.spefscr = [flags |-> {}, rm |-> 0],
                !.sh.resv[c.coreid].held = FALSE, !.smp_live = FALSE, !.slow_store = FALSE,
                !.spr["ESR"] = 0, !.dsi_bo = FALSE, !.hid0 = {}, !.l1csr0 = {}, !.tcr = {},
                !.tsr = {}, !.spr["BUCSR"] = 0, !.spr["DBCR0"] = 0, !.mcsr = 0, !.dbsr = 2^(Bits - 4),
                !.state = IF c.coreid = 0 THEN "RUNNING" ELSE "HELD",
                !.irq_dirty = FALSE, !.retired = 0, !.lag = 0, !.soc_until = PpcForever]
        e == PpcMmuReset(d)
    IN [e EXCEPT !.jit_ctx = PpcCtx(e), !.jit_flush = TRUE, !.nwin = 0, !.win = <<>>]
PpcResetDevices(c) == [c EXCEPT !.intc = PpcIntcZero, !.stm = PpcStmZero, !.swt = PpcSwtZero]
PpcTakeStart(c) ==
    LET d == PpcMmuReset([PpcReset(c, c.start_pc) EXCEPT !.vle = c.start_vle])
    IN [d EXCEPT !.jit_ctx = PpcCtx(d), !.smp_live = TRUE, !.slow_store = TRUE,
                 !.state = "RUNNING", !.start = FALSE]
==============================================================================
