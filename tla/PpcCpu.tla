------------------------------- MODULE PpcCpu --------------------------------
(* An e200 core: its translation of addresses, and after it the core       *)
(* itself, its registers, memory accesses and interrupts (ppc_cpu.c).      *)
(*                                                                         *)
(* The e200's software-managed TLB (ppc_mmu.c): entries and the MAS        *)
(* registers as records of their fields, the lookup, the faults it makes,  *)
(* the instructions that change the table and the translated blocks those  *)
(* retire.  A core c is a record; c.sh is what the cores share.            *)
EXTENDS Words, SequencesExt

CONSTANTS
    PpcTlbSize,   \* PPC_TLB_ENTRIES
    PpcMinPage,   \* the smallest page, 1 KB
    PpcTsizeMax,  \* PPC_TSIZE_MAX: the page of this size is the whole space
    PpcWindows,   \* PPC_JIT_WINDOWS
    PpcJitPage    \* the bytes of a page of the code cache's index

PpcTlbIndices == 0..(PpcTlbSize - 1)
PpcPerms == {"UX", "SX", "UW", "SW", "UR", "SR"}
PpcNoFault == "none"

\* One entry: MAS1, MAS2 and MAS3 of it.
PpcMas1Zero == [v |-> FALSE, iprot |-> FALSE, tid |-> 0, ts |-> FALSE, tsize |-> 0]
PpcMas2Zero == [epn |-> 0, vle |-> FALSE, e |-> FALSE]
PpcMas3Zero == [rpn |-> 0, perm |-> {}]
PpcEntryZero == [mas1 |-> PpcMas1Zero, mas2 |-> PpcMas2Zero, mas3 |-> PpcMas3Zero]
PpcMas0Zero == [tlbsel |-> 0, esel |-> 0, nv |-> 0]
PpcMas4Zero == [tlbsel |-> 0, tidsel |-> 0, tsize |-> 0, vle |-> FALSE, e |-> FALSE]
PpcMas6Zero == [spid |-> 0, sas |-> FALSE]

\* page_mask, as the size of the page; ea_on_page; entry_span.
PpcHasPage(m1) == m1.tsize <= PpcTsizeMax
PpcPage(m1) == PpcMinPage * 2^m1.tsize
PpcPageOf(m1, ea) == ea - (ea % PpcPage(m1))
PpcOnPage(e, ea) ==
    PpcHasPage(e.mas1) /\ PpcPageOf(e.mas1, ea) = PpcPageOf(e.mas1, e.mas2.epn)
PpcSpan(e) ==
    LET lo == PpcPageOf(e.mas1, e.mas2.epn) IN [lo |-> lo, hi |-> lo + PpcPage(e.mas1) - 1]

\* lookup: the lowest entry that matches, -1 for none.
PpcMatches(e, as, pid) == e.mas1.v /\ e.mas1.ts = as /\ e.mas1.tid \in {0, pid}
PpcLookup(c, ea, as, pid) ==
    LET hits == {i \in PpcTlbIndices : PpcMatches(c.tlb[i], as, pid) /\ PpcOnPage(c.tlb[i], ea)}
    IN IF hits = {} THEN -1 ELSE CHOOSE i \in hits : \A j \in hits : i <= j

\* DEFAULT_MAS1..3: the entry out of reset.
PpcDefaultEntry(vle) ==
    [mas1 |-> [PpcMas1Zero EXCEPT !.v = TRUE, !.iprot = TRUE, !.tsize = PpcTsizeMax],
     mas2 |-> [PpcMas2Zero EXCEPT !.vle = vle],
     mas3 |-> [PpcMas3Zero EXCEPT !.perm = PpcPerms]]
PpcRecomputeDefault(c) ==
    [c EXCEPT !.tlb_default = c.tlb[0] = PpcDefaultEntry(c.reset_vle)
                                /\ \A i \in PpcTlbIndices \ {0} : ~c.tlb[i].mas1.v]

\* ppc_cpu_ctx: the key a block is found under.  Fields that the code leaves
\* out of the key when translation is off are at their least values.
PpcCtx(c) ==
    IF c.mmu_on
    THEN [vle |-> c.vle, on |-> TRUE, is |-> "IS" \in c.msr, pr |-> "PR" \in c.msr,
          ds |-> "DS" \in c.msr, pid |-> c.pid0, core |-> c.coreid]
    ELSE [vle |-> c.vle, on |-> FALSE, is |-> FALSE, pr |-> FALSE, ds |-> FALSE, pid |-> 0,
          core |-> 0]

\* ppc_mmu_refresh.
PpcRefresh(c) ==
    LET on == ~c.tlb_default \/ c.msr \cap {"IS", "DS"} # {}
        d  == [c EXCEPT !.slow_store = on \/ c.smp_live]
        e  == [d EXCEPT !.mmu_on = on, !.irq_dirty = TRUE]
        f  == [e EXCEPT !.vle = c.reset_vle]
    IN IF on = c.mmu_on THEN d ELSE IF on THEN e ELSE [f EXCEPT !.jit_ctx = PpcCtx(f)]

\* ppc_mmu_reset.
PpcMmuReset(c) ==
    PpcRefresh([c EXCEPT
        !.reset_vle = c.vle,
        !.tlb = [i \in PpcTlbIndices |-> IF i = 0 THEN PpcDefaultEntry(c.vle) ELSE PpcEntryZero],
        !.mas0 = PpcMas0Zero, !.mas1 = PpcMas1Zero, !.mas2 = PpcMas2Zero,
        !.mas3 = PpcMas3Zero, !.mas4 = PpcMas4Zero, !.mas6 = PpcMas6Zero,
        !.tlb_default = TRUE, !.mmu_on = FALSE])

\* emu_jit_invalidate_range: the blocks built from the pages of lo..hi go.
\* A block records the span of effective addresses it was fetched from.
PpcInvalidateRange(sh, lo, hi) ==
    LET In(a) == a \div PpcJitPage
    IN [sh EXCEPT !.blocks =
           {b \in @ : In(b.last) < In(lo) \/ In(hi) < In(b.pc)}]

\* retire: a span of the TLB changed.  A block that read or wrote through an
\* inlined window of the span is not one of its pages, so the generation moves.
PpcRetireSpan(c, s) ==
    IF c.nwin > PpcWindows \/ \E w \in Range(c.win) : w.lo <= s.hi /\ s.lo <= w.hi
    THEN [c EXCEPT !.sh.gen = @ + 1, !.nwin = 0, !.win = <<>>]
    ELSE [c EXCEPT !.sh = PpcInvalidateRange(@, s.lo, s.hi)]
PpcRetireEntry(c, e) ==
    IF e.mas1.v /\ PpcHasPage(e.mas1) THEN PpcRetireSpan(c, PpcSpan(e)) ELSE c

PpcTlbChanged(c) == PpcRefresh(PpcRecomputeDefault(c))

\* as_of, real_of.
PpcAs(c, acc) == (IF acc = "X" THEN "IS" ELSE "DS") \in c.msr
PpcReal(e, ea) ==
    PpcPageOf(e.mas1, e.mas3.rpn) + (ea % PpcPage(e.mas1))
PpcNeed(c, acc) ==
    LET user == "PR" \in c.msr
    IN CASE acc = "X" -> IF user THEN "UX" ELSE "SX"
         [] acc = "W" -> IF user THEN "UW" ELSE "SW"
         [] OTHER     -> IF user THEN "UR" ELSE "SR"

\* tlb_error_update: what a miss leaves in the MAS registers.
PpcTlbErrorUpdate(c, ea, as) ==
    [c EXCEPT
        !.mas0 = [tlbsel |-> c.mas4.tlbsel, esel |-> c.mas0.nv, nv |-> c.mas0.nv],
        !.mas1 = [v |-> TRUE, iprot |-> FALSE, tid |-> IF c.mas4.tidsel = 3 THEN 0 ELSE c.pid0,
                  ts |-> as, tsize |-> c.mas4.tsize],
        !.mas2 = [epn |-> ea - (ea % PpcMinPage), vle |-> c.mas4.vle, e |-> c.mas4.e],
        !.mas3 = PpcMas3Zero,
        !.mas6 = [spid |-> c.pid0, sas |-> as]]

\* ppc_mmu_probe_exec: the same lookup with no side effect.
PpcProbeExec(c, ea) ==
    LET i == PpcLookup(c, ea, PpcAs(c, "X"), c.pid0)
    IN IF i < 0 \/ PpcNeed(c, "X") \notin c.tlb[i].mas3.perm
       THEN [ok |-> FALSE, pa |-> 0, vle |-> FALSE, le |-> FALSE]
       ELSE [ok |-> TRUE, pa |-> PpcReal(c.tlb[i], ea), vle |-> c.tlb[i].mas2.vle,
             le |-> c.tlb[i].mas2.e]

\* ppc_mmu_data_page: a page a block may read and write without a lookup.
PpcDataPage(c, ea) ==
    LET as == PpcAs(c, "R")
        i  == PpcLookup(c, ea, as, c.pid0)
        s  == PpcSpan(c.tlb[i])
    IN IF \/ i < 0
          \/ ~{PpcNeed(c, "R"), PpcNeed(c, "W")} \subseteq c.tlb[i].mas3.perm
          \/ c.tlb[i].mas2.e
          \/ \E j \in 0..(i - 1) :
                 /\ PpcMatches(c.tlb[j], as, c.pid0) /\ PpcHasPage(c.tlb[j].mas1)
                 /\ PpcSpan(c.tlb[j]).lo <= s.hi /\ s.lo <= PpcSpan(c.tlb[j]).hi
       THEN [ok |-> FALSE, lo |-> 0, hi |-> 0, pa |-> 0]
       ELSE [ok |-> TRUE, lo |-> s.lo, hi |-> s.hi,
             pa |-> PpcPageOf(c.tlb[i].mas1, c.tlb[i].mas3.rpn)]

\* ppc_mmu_xlate.
PpcXlate(c, ea, acc) ==
    LET as   == PpcAs(c, acc)
        i    == PpcLookup(c, ea, as, c.pid0)
        exec == acc = "X"
        Dear(d) == IF exec THEN d ELSE [d EXCEPT !.spr["DEAR"] = ea]
        Out(d, x, pa, vle, le) == [c |-> d, exc |-> x, pa |-> pa, vle |-> vle, le |-> le]
    IN IF i < 0
       THEN Out(Dear(PpcTlbErrorUpdate(c, ea, as)), IF exec THEN "ITLB_ERROR" ELSE "DTLB_ERROR",
                0, FALSE, FALSE)
       ELSE LET e == c.tlb[i]
            IN IF PpcNeed(c, acc) \notin e.mas3.perm
               THEN Out(Dear(c), IF exec THEN "INST_STORAGE" ELSE "DATA_STORAGE", 0, e.mas2.vle,
                        e.mas2.e)
               ELSE Out(c, PpcNoFault, PpcReal(e, ea), e.mas2.vle, e.mas2.e)

\* ppc_tlbre, ppc_tlbwe, ppc_tlbsx, ppc_tlbivax, ppc_mmu_flash_invalidate.
PpcMasFrom(c, e) == [c EXCEPT !.mas1 = e.mas1, !.mas2 = e.mas2, !.mas3 = e.mas3]
PpcTlbre(c) == PpcMasFrom(c, c.tlb[c.mas0.esel])
PpcTlbwe(c) ==
    LET i   == c.mas0.esel
        new == [mas1 |-> c.mas1, mas2 |-> c.mas2, mas3 |-> c.mas3]
        d   == [c EXCEPT !.tlb[i] = new]
    IN PpcTlbChanged(PpcRetireEntry(PpcRetireEntry(d, c.tlb[i]), new))
PpcTlbsx(c, ea) ==
    LET i == PpcLookup(c, ea, c.mas6.sas, c.mas6.spid)
    IN IF i >= 0
       THEN [PpcMasFrom(c, c.tlb[i]) EXCEPT !.mas0 = [tlbsel |-> 1, esel |-> i, nv |-> @.nv]]
       ELSE [c EXCEPT
                !.mas0 = [tlbsel |-> c.mas4.tlbsel, esel |-> @.nv, nv |-> @.nv],
                !.mas1 = [v |-> FALSE, iprot |-> FALSE, tid |-> c.mas6.spid, ts |-> c.mas6.sas,
                          tsize |-> c.mas4.tsize],
                !.mas2 = [epn |-> ea - (ea % PpcMinPage), vle |-> c.mas4.vle, e |-> c.mas4.e],
                !.mas3 = PpcMas3Zero]
PpcTlbivax(c, ea, all) ==
    LET Gone(i) == LET e == c.tlb[i]
                   IN e.mas1.v /\ ~e.mas1.iprot /\ (all \/ PpcOnPage(e, ea))
        Drop(d, i) == IF Gone(i)
                      THEN PpcRetireEntry([d EXCEPT !.tlb[i].mas1.v = FALSE], c.tlb[i]) ELSE d
    IN PpcTlbChanged(FoldLeft(Drop, c, [k \in 1..PpcTlbSize |-> k - 1]))
PpcFlashInvalidate(c) == PpcTlbivax(c, 0, TRUE)

------------------------------------------------------------------------------
(* An e200z7 core (ppc_cpu.c): exceptions, special registers, the clocks,  *)
(* interrupts, loads and stores under the TLB, the start of the second     *)
(* core and the reservations that cores break in each other.               *)

CONSTANTS
    PpcMap,        \* the bus's regions
    PpcCores,      \* the core numbers, from 0
    PpcForever     \* 0xFFFFFFFF: a clock event that does not come

PpcCR == 32
PpcXER == 33
PpcLR == 34
PpcCTR == 35

\* A register whose bits the code names is a set of flags; as a word, the
\* flags in order from the most significant bit.
PpcMsrBits == <<"SPE", "EE", "PR", "ME", "DE", "IS", "DS", "RI">>
PpcEsrBits == <<"PIL", "PPR", "PTR", "ST", "BO", "SPE", "VLEMI", "MIF">>
PpcTsrBits == <<"ENW", "WIS", "DIS", "FIS">>
PpcTcrBits == <<"WIE", "DIE", "FIE", "ARE">>
PpcHid0Bits == <<"ICR", "TBEN", "SEL_TBCLK">>
PpcWordOf(bits, set) ==
    FoldLeft(LAMBDA acc, i : acc + IF bits[i] \in set THEN 2^(Bits - i) ELSE 0, 0,
             [i \in 1..Len(bits) |-> i])
PpcFlagsOf(bits, w) == {bits[i] : i \in {j \in 1..Len(bits) : Bit(w, Bits - j) = 1}}

PpcXerImpl == 2^(Bits - 1) + 2^(Bits - 2) + 2^(Bits - 3)   \* SO, OV, CA

PpcSetMsr(c, v) ==
    LET d == PpcRefresh([c EXCEPT !.msr = v, !.irq_dirty = TRUE])
    IN [d EXCEPT !.jit_ctx = PpcCtx(d)]

\* handler_address and ppc_cpu_raise.  "KEEP" leaves ESR as it is.
PpcHandler(c, which) ==
    (c.spr["IVPR"] - (c.spr["IVPR"] % 2^HalfBits)) + And(c.ivor[which], 2^HalfBits - 4)
PpcEsrKeep == {"KEEP"}
PpcRaise(c, which, ret, esr) ==
    LET msr  == PpcWordOf(PpcMsrBits, c.msr)
        Save(a, b) == [c.spr EXCEPT ![a] = ret, ![b] = msr]
        kept == CASE which \in {"CRITICAL", "WATCHDOG", "DEBUG"} -> {"ME", "RI"}
                  [] which = "MACHINE_CHECK"                     -> {}
                  [] OTHER                                       -> {"ME", "DE", "RI"}
        spr  == CASE which \in {"CRITICAL", "WATCHDOG"} -> Save("CSRR0", "CSRR1")
                  [] which = "MACHINE_CHECK"            -> Save("MCSRR0", "MCSRR1")
                  [] which = "DEBUG"                    -> Save("DSRR0", "DSRR1")
                  [] OTHER                              -> Save("SRR0", "SRR1")
        vlemi == c.vle /\ which # "ITLB_ERROR"
        bo    == c.dsi_bo /\ which = "DATA_STORAGE"
        why   == esr \cup (IF vlemi THEN {"VLEMI"} ELSE {}) \cup (IF bo THEN {"BO"} ELSE {})
        d == [c EXCEPT
                !.spr = IF esr = PpcEsrKeep THEN spr
                        ELSE [spr EXCEPT !["ESR"] = PpcWordOf(PpcEsrBits, why)],
                !.dsi_bo = FALSE, !.msr = @ \cap kept, !.pc = PpcHandler(c, which)]
        e == PpcRefresh(d)
    IN [e EXCEPT !.jit_ctx = PpcCtx(e)]

------------------------------------------------------------------------------
\* The clocks.

\* on_core_clock, on_tbclk.
PpcOnCoreClock(c) == c.hid0 \cap {"TBEN", "SEL_TBCLK"} = {"TBEN"}
PpcOnTbclk(c) == {"TBEN", "SEL_TBCLK"} \subseteq c.hid0

\* ppc_cpu_advance.
PpcAdvance(c, ticks) ==
    LET t    == [c EXCEPT !.tb = (@ + ticks) % (Size * Size)]
        past == ticks - c.dec
        decar == c.spr["DECAR"]
    IN IF ticks = 0 THEN c
       ELSE IF c.dec = 0 THEN t
       ELSE IF c.dec > ticks THEN [t EXCEPT !.dec = @ - ticks]
       ELSE [t EXCEPT !.tsr = @ \cup {"DIS"}, !.irq_dirty = TRUE,
                      !.dec = IF "ARE" \in c.tcr /\ decar # 0 THEN decar - (past % decar) ELSE 0]

\* ppc_cpu_set_time: the board's clock, which a second core follows.
PpcSetTime(c, now) ==
    LET d == [c EXCEPT !.tbclk_last = now]
    IN IF PpcOnTbclk(c) THEN PpcAdvance(d, now - c.tbclk_last) ELSE d

\* ppc_cpu_set_ext.
PpcSetExt(c, level) == [c EXCEPT !.ext_pending = level, !.irq_dirty = @ \/ level]

\* ppc_cpu_system_reset.
PpcSystemReset(c) == [c EXCEPT !.state = "HALTED", !.irq_dirty = TRUE]

------------------------------------------------------------------------------
\* Reservations.  c.sh.resv holds every core's: the word it names, and the
\* raw memory word when it is RAM that a compare-and-swap can reach.

PpcNoResv == [held |-> FALSE, pa |-> 0, raw_ok |-> FALSE, raw |-> 0]
PpcReserve(c) == c.sh.resv[c.coreid].held
PpcAlign(a, n) == a - (a % n)

\* resv_count, resv_break.
PpcResvBreak(c, pa, size) ==
    LET lo == PpcAlign(pa, 4)
        hi == PpcAlign(Add(pa, size - 1), 4)
        hit == {k \in PpcCores \ {c.coreid} :
                   c.sh.resv[k].held /\ c.sh.resv[k].pa >= lo /\ c.sh.resv[k].pa <= hi}
    IN IF ~c.smp_live \/ c.sh.count = 0 THEN c
       ELSE [c EXCEPT
                !.sh.resv = [k \in PpcCores |->
                                IF k \in hit THEN [@[k] EXCEPT !.held = FALSE] ELSE @[k]],
                !.sh.count = @ - Cardinality(hit)]

------------------------------------------------------------------------------
\* Loads and stores: [c, exc, val].

PpcBusRead(c, pa, size) == Order(TRUE, LoadLe(c.sh.mem, pa, size), size)
PpcBusWrite(c, pa, size, val) == [c EXCEPT !.sh.mem = StoreLe(@, pa, size, Order(TRUE, val, size))]
PpcGot(c, exc, val) == [c |-> c, exc |-> exc, val |-> val]
PpcDsi(c, ea) == PpcGot([c EXCEPT !.spr["DEAR"] = ea], "DATA_STORAGE", 0)
\* byte_order_dsi.
PpcByteOrderDsi(c, ea) == PpcDsi([c EXCEPT !.dsi_bo = TRUE], ea)
PpcAt(c, ea, acc) ==
    IF c.mmu_on THEN PpcXlate(c, ea, acc)
    ELSE [c |-> c, exc |-> PpcNoFault, pa |-> ea, vle |-> FALSE, le |-> FALSE]

\* load_xlate, and the flat path of ppc_load, which is it with each address
\* its own translation.
PpcLoadBytes(c, ea, size) ==
    LET B(acc, i) ==
            IF acc.exc # PpcNoFault THEN acc
            ELSE LET a == PpcAt(acc.c, Add(ea, i), "R")
                     b == PpcBusRead(c, a.pa, 1)
                     le == IF i = 0 THEN a.le ELSE acc.le
                 IN IF a.exc # PpcNoFault THEN PpcGot(a.c, a.exc, 0) @@ [le |-> le]
                    ELSE IF a.le # le THEN PpcByteOrderDsi(a.c, Add(ea, i)) @@ [le |-> le]
                    ELSE IF ~Readable(PpcMap, a.pa, 1)
                         THEN PpcDsi(a.c, Add(ea, i)) @@ [le |-> le]
                    ELSE PpcGot(a.c, PpcNoFault,
                                IF le THEN acc.val + (b * 2^(ByteBits * i))
                                ELSE Wrap((acc.val * 2^ByteBits) + b)) @@ [le |-> le]
        r == FoldLeft(B, PpcGot(c, PpcNoFault, 0) @@ [le |-> FALSE], [k \in 1..size |-> k - 1])
    IN PpcGot(r.c, r.exc, r.val)
PpcLoadAligned(c, ea, size) ==
    LET a == PpcAt(c, ea, "R")
        v == PpcBusRead(c, a.pa, size)
    IN IF a.exc # PpcNoFault THEN PpcGot(a.c, a.exc, 0)
       ELSE IF ~Readable(PpcMap, a.pa, size) THEN PpcDsi(c, ea)
       ELSE PpcGot(c, PpcNoFault, IF a.le THEN SwapOf(v, size) ELSE v)
\* ppc_load.
PpcLoad(c, ea, size, sext) ==
    LET r == IF ea % size = 0 THEN PpcLoadAligned(c, ea, size) ELSE PpcLoadBytes(c, ea, size)
    IN IF sext THEN [r EXCEPT !.val = Sext(@, size * ByteBits)] ELSE r

\* store_xlate, store_flat_smp and ppc_store.  An unaligned store under the
\* TLB translates every byte before it writes one.
PpcPut(c, pa, size, val, ea) ==
    IF Writable(PpcMap, pa, size)
    THEN PpcGot(LET d == PpcBusWrite(c, pa, size, val)
                IN IF c.slow_store THEN PpcResvBreak(d, pa, size) ELSE d, PpcNoFault, 0)
    ELSE PpcDsi(c, ea)
PpcStoreAligned(c, ea, size, val) ==
    LET a == PpcAt(c, ea, "W")
    IN IF a.exc # PpcNoFault THEN PpcGot(a.c, a.exc, 0)
       ELSE PpcPut(c, a.pa, size, IF a.le THEN SwapOf(val, size) ELSE val, ea)
PpcStoreBytes(c, ea, size, val) ==
    LET at  == [i \in 0..(size - 1) |-> PpcAt(c, Add(ea, i), "W")]
        bad == {i \in 0..(size - 1) : at[i].exc # PpcNoFault \/ at[i].le # at[0].le}
        i0  == CHOOSE i \in bad : \A j \in bad : i <= j
        P(acc, i) ==
            IF acc.exc # PpcNoFault THEN acc
            ELSE PpcPut(acc.c, at[i].pa, 1, ByteOf(val, IF at[0].le THEN i ELSE size - 1 - i),
                        Add(ea, i))
    IN IF bad # {}
       THEN IF at[i0].exc # PpcNoFault THEN PpcGot(at[i0].c, at[i0].exc, 0)
            ELSE PpcByteOrderDsi(c, Add(ea, i0))
       ELSE FoldLeft(P, PpcGot(c, PpcNoFault, 0), [k \in 1..size |-> k - 1])
PpcStore(c, ea, size, val) ==
    IF ea % size = 0 THEN PpcStoreAligned(c, ea, size, val) ELSE PpcStoreBytes(c, ea, size, val)

------------------------------------------------------------------------------
\* The pair of instructions that reserve.

\* resv_host: the word as RAM.
PpcResvHost(pa) == Find(PpcMap, PpcAlign(pa, 4)).kind = "RAM"

\* ppc_larx_smp.
PpcLarxSmp(c, ea, size) ==
    LET a   == PpcAt(c, ea, "R")
        ram == PpcResvHost(a.pa)
        w   == PpcAlign(a.pa, 4)
        d   == [c EXCEPT
                  !.sh.count = IF PpcReserve(c) THEN @ ELSE @ + 1,
                  !.sh.resv[c.coreid] = [held |-> TRUE, pa |-> w, raw_ok |-> ram,
                                         raw |-> IF ram THEN LoadLe(c.sh.mem, w, 4) ELSE @.raw]]
        v   == PpcBusRead(c, a.pa, size)
    IN IF a.exc # PpcNoFault THEN PpcGot(a.c, a.exc, 0)
       ELSE IF ~ram /\ ~Readable(PpcMap, a.pa, size) THEN PpcDsi(d, ea)
       ELSE PpcGot(d, PpcNoFault, IF a.le THEN SwapOf(v, size) ELSE v)

\* ppc_stcx_smp; val is 1 when the store was made.
PpcStcxSmp(c, ea, size, val) ==
    LET a    == PpcAt(c, ea, "W")
        r    == c.sh.resv[c.coreid]
        w    == PpcAlign(a.pa, 4)
        cas  == r.raw_ok /\ w = r.pa /\ PpcResvHost(a.pa)
        wr   == PpcBusWrite(c, a.pa, size, IF a.le THEN SwapOf(val, size) ELSE val)
        Drop(d) == [d EXCEPT !.sh.resv[c.coreid].held = FALSE, !.sh.count = @ - 1]
    IN IF a.exc # PpcNoFault THEN PpcGot(a.c, a.exc, 0)
       ELSE IF ~r.held THEN PpcGot(c, PpcNoFault, 0)
       ELSE IF cas
            THEN IF LoadLe(c.sh.mem, w, 4) = r.raw
                 THEN PpcGot(Drop(PpcResvBreak(wr, a.pa, size)), PpcNoFault, 1)
                 ELSE PpcGot(Drop(c), PpcNoFault, 0)
       ELSE IF ~Writable(PpcMap, a.pa, size)
            THEN PpcGot(Drop([c EXCEPT !.spr["DEAR"] = ea]), "DATA_STORAGE", 0)
       ELSE PpcGot(Drop(PpcResvBreak(wr, a.pa, size)), PpcNoFault, 1)
==============================================================================
