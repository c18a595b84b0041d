-------------------------------- MODULE RvCsr --------------------------------
(* The instructions of the hart that reach past its registers: atomics and  *)
(* cache-block operations (rv_hart.c), CSR accesses (rv_csr.c), fences and  *)
(* the returns from traps (rv_interp.c).  Each answers [exc, h, tval] with  *)
(* the hart as it is left when there is no exception.                       *)
EXTENDS RvHart

Done(h)           == [exc |-> NoExc, h |-> h, tval |-> <<0>>]
Raise(h, exc, tv) == [exc |-> exc, h |-> h, tval |-> tv]
SetReg(h, rd, v)  == IF rd = 0 THEN h ELSE [h EXCEPT !.reg[rd] = v]

-----------------------------------------------------------------------------
(* Atomics: funct5 by name. *)

AmoOps == {"ADD", "SWAP", "LR", "SC", "XOR", "OR", "AND", "MIN", "MAX", "MINU", "MAXU", "CAS"}

AmoValue(op, old, src) ==
    CASE op = "ADD" -> Add(old, src)   [] op = "SWAP" -> src
      [] op = "XOR" -> Xor(old, src)   [] op = "OR" -> Or(old, src)   [] op = "AND" -> And(old, src)
      [] op = "MIN" -> IF Signed(old) < Signed(src) THEN old ELSE src
      [] op = "MAX" -> IF Signed(old) > Signed(src) THEN old ELSE src
      [] op = "MINU" -> IF old < src THEN old ELSE src
      [] OTHER -> IF old > src THEN old ELSE src

\* The address of an atomic, translated and checked for one kind of access.
AmoAddress(h, va, acc, size) ==
    LET t == IF h.vm_active THEN Translate(h, va, acc) ELSE [exc |-> NoExc, h |-> h, pa |-> va]
        pmp == IF size = 4 THEN t.h.pmp_active ELSE PmpNeeded(t.h, t.pa, size)
    IN IF t.exc = NoExc /\ pmp /\ ~PmpCheck(t.h, t.pa, size, acc) THEN [t EXCEPT !.exc = Fault(acc, "ACCESS")] ELSE t

\* rv_hart_amo.
Amo(h0, op, rd, va, src) ==
    LET acc == IF op = "LR" THEN "LOAD" ELSE "STORE"
        t   == AmoAddress(h0, va, acc, 4)
        h   == t.h
        pa  == t.pa
        r   == Find(Regions, pa)
        old == LoadLe(h.mem, pa, 4)
        No(exc) == Raise(h, exc, <<va>>)
        denied == Fault("STORE", "ACCESS")
    IN IF va % 4 # 0 THEN Raise(h0, Fault(acc, "MISALIGNED"), <<va>>)
       ELSE IF t.exc # NoExc THEN No(t.exc)
       ELSE IF op = "LR" THEN
            IF ~Readable(Regions, pa, 4) THEN No(Fault("LOAD", "ACCESS"))
            ELSE Done(SetReg([h EXCEPT !.resv = pa], rd, old))
       ELSE IF op = "SC" THEN
            IF r = NoRegion \/ "W" \notin r.perm THEN No(denied)
            ELSE IF h.resv # pa THEN Done(SetReg(h, rd, 1))
            ELSE IF ~Writable(Regions, pa, 4) THEN Raise([h EXCEPT !.resv = None], denied, <<va>>)
            ELSE Done(SetReg(Put([h EXCEPT !.resv = None], pa, 4, src), rd, 0))
       ELSE IF ~Readable(Regions, pa, 4) THEN No(denied)
       ELSE IF op = "CAS" /\ old # h.reg[rd] THEN Done(SetReg(h, rd, old))
       ELSE IF ~Writable(Regions, pa, 4) THEN No(denied)
       ELSE Done(SetReg(Put(h, pa, 4, IF op = "CAS" THEN src ELSE AmoValue(op, old, src)), rd, old))

\* rv_hart_amocas_d: two words against a pair of registers, register 0
\* standing for a pair of zeros.
AmocasD(h0, rd, rs2, va) ==
    LET t  == AmoAddress(h0, va, "STORE", 8)
        h  == t.h
        hiA == Add(t.pa, 4)
        Pair(r) == IF r = 0 THEN <<0, 0>> ELSE <<h.reg[r], h.reg[r + 1]>>
        old == <<LoadLe(h.mem, t.pa, 4), LoadLe(h.mem, hiA, 4)>>
        new == Pair(rs2)
        written == Put(Put(h, t.pa, 4, new[1]), hiA, 4, new[2])
        left == IF old = Pair(rd) THEN written ELSE h
        denied == Fault("STORE", "ACCESS")
    IN IF va % 8 # 0 THEN Raise(h0, Fault("STORE", "MISALIGNED"), <<va>>)
       ELSE IF t.exc # NoExc THEN Raise(h, t.exc, <<va>>)
       ELSE IF ~Readable(Regions, t.pa, 4) \/ ~Readable(Regions, hiA, 4) THEN Raise(h, denied, <<va>>)
       ELSE IF old = Pair(rd) /\ ~Writable(Regions, t.pa, 4) THEN Raise(h, denied, <<va>>)
       ELSE IF rd = 0 THEN Done(left)
       ELSE Done([left EXCEPT !.reg[rd] = old[1], !.reg[rd + 1] = old[2]])

\* rv_hart_zalasr: load-acquire and store-release of any width.
Zalasr(h, in) ==
    LET va == h.reg[in.rs1]
        size == 2 ^ in.f3
        st == Store(h, va, size, h.reg[in.rs2])
        ld == Load(h, va, size, TRUE)
        store == in.op5 = "STORE_REL"
    IN IF in.f3 > 2 THEN Raise(h, Illegal, <<in, "insn">>)
       ELSE IF store /\ (~in.rl \/ in.rd # 0) THEN Raise(h, Illegal, <<in, "insn">>)
       ELSE IF ~store /\ (~in.aq \/ in.rs2 # 0) THEN Raise(h, Illegal, <<in, "insn">>)
       ELSE IF va % size # 0 THEN Raise(h, Fault(IF store THEN "STORE" ELSE "LOAD", "MISALIGNED"), <<va>>)
       ELSE IF store THEN Raise(st.h, st.exc, <<va>>)
       ELSE IF ld.exc # NoExc THEN Raise(ld.h, ld.exc, <<va>>)
       ELSE Done(SetReg(ld.h, in.rd, ld.val))

\* rv_hart_atomic: the instruction's checks, and which of the above it is.
Atomic(h, in) ==
    IF in.op5 \in {"LOAD_ACQ", "STORE_REL"} THEN Zalasr(h, in)
    ELSE IF in.f3 = 3 /\ in.op5 = "CAS" THEN
         IF in.rd % 2 # 0 \/ in.rs2 % 2 # 0 THEN Raise(h, Illegal, <<in, "insn">>)
         ELSE AmocasD(h, in.rd, in.rs2, h.reg[in.rs1])
    ELSE IF in.f3 # 2 \/ in.op5 \notin AmoOps \/ (in.op5 = "LR" /\ in.rs2 # 0) THEN Raise(h, Illegal, <<in, "insn">>)
    ELSE Amo(h, in.op5, in.rd, h.reg[in.rs1], h.reg[in.rs2])

-----------------------------------------------------------------------------
(* Cache-block operations. *)

\* cbo_permitted: what menvcfg and senvcfg let the lower privileges do, and
\* the operation an INVAL becomes.
CboOp(h, op) ==
    LET s == IF h.priv = U THEN h.senvcfg ELSE h.menvcfg
        both == h.menvcfg.cbie # "NO" /\ s.cbie # "NO"
    IN CASE h.priv = M -> op
         [] op = "ZERO" -> IF h.menvcfg.cbze /\ s.cbze THEN op ELSE "none"
         [] op \in {"CLEAN", "FLUSH"} -> IF h.menvcfg.cbcfe /\ s.cbcfe THEN op ELSE "none"
         [] OTHER -> IF ~both THEN "none" ELSE IF "FLUSH" \in {h.menvcfg.cbie, s.cbie} THEN "FLUSH" ELSE op

\* rv_hart_cbo.
Cbo(h0, op, addr, in) ==
    LET base == addr - (addr % BlockSize)
        does == CboOp(h0, op)
        zero == does = "ZERO"
        t    == IF h0.vm_active THEN Translate(h0, base, IF zero THEN "STORE" ELSE "LOAD")
                ELSE [exc |-> NoExc, h |-> h0, pa |-> base]
        h    == t.h
        r    == Find(Regions, t.pa)
        Words4 == {k \in 0 .. BlockSize - 1 : k % 4 = 0}
        hit  == {k \in Words4 : TrigCheck(h0, Add(base, k), "STORE")}
        denied == Raise(h, Fault("STORE", "ACCESS"), <<base>>)
        cells == {Add(t.pa, k) : k \in 0 .. BlockSize - 1}
    IN IF does = "none" THEN Raise(h0, Illegal, <<in, "insn">>)
       ELSE IF zero /\ h0.trig_active /\ hit # {}
       THEN Raise(h0, Breakpoint, <<Add(base, CHOOSE k \in hit : \A j \in hit : k <= j)>>)
       ELSE IF t.exc # NoExc THEN Raise(h, <<"STORE", t.exc[2]>>, <<base>>)
       ELSE IF zero THEN
            IF \/ PmpNeeded(h, t.pa, BlockSize) /\ ~PmpCheck(h, t.pa, BlockSize, "STORE")
               \/ r = NoRegion \/ "W" \notin r.perm \/ Sub(t.pa, r.base) + BlockSize > r.size
            THEN denied
            ELSE Done([h EXCEPT !.resv = IF @ \in cells THEN None ELSE @,
                                !.mem = [x \in DOMAIN @ |-> IF x \in cells THEN 0 ELSE @[x]]])
       ELSE IF \/ /\ PmpNeeded(h, t.pa, BlockSize)
                  /\ \A acc \in {"LOAD", "STORE"} : ~PmpCheck(h, t.pa, BlockSize, acc)
               \/ r = NoRegion
       THEN denied
       ELSE Done(h)

-----------------------------------------------------------------------------
(* Returns, fences and waiting. *)

\* mret; the interrupts it enables are looked for.
MretTo(h, in, mark) ==
    LET back == IF h.ms.mpp \in {U, S} THEN h.ms.mpp ELSE M
        r == [h EXCEPT !.ms.mie = h.ms.mpie, !.ms.mpie = TRUE, !.ms.mpp = U,
                       !.ms.mprv = @ /\ back = M, !.priv = back, !.irq_dirty = mark, !.pc = h.mepc]
    IN IF h.priv # M THEN Raise(h, Illegal, <<in, "insn">>) ELSE Done(MmuRefresh(PmpRefresh(r)))
\* As if the interrupts it enables were not looked for; as if any mode had it.
Mret_NoMark(h, in) == MretTo(h, in, h.irq_dirty)
Mret_Any(h, in) == MretTo([h EXCEPT !.priv = M], in, TRUE)
Mret(h, in) == MretTo(h, in, TRUE)

\* sret.
Sret(h, in) ==
    LET r == [h EXCEPT !.ms.sie = h.ms.spie, !.ms.spie = TRUE, !.ms.spp = FALSE, !.ms.mprv = FALSE,
                       !.priv = IF h.ms.spp THEN S ELSE U, !.irq_dirty = TRUE, !.pc = h.sepc]
    IN IF h.priv = U \/ (h.priv = S /\ h.ms.tsr) THEN Raise(h, Illegal, <<in, "insn">>)
       ELSE Done(MmuRefresh(PmpRefresh(r)))

\* sfence.vma and sinval.vma.
Sfence(h, in, va) ==
    IF h.priv < S \/ (h.priv = S /\ h.ms.tvm) THEN Raise(h, Illegal, <<in, "insn">>)
    ELSE Done(IF in.rs1 # 0 THEN MmuFlushPage(h, va) ELSE MmuFlush(h))

\* wfi, and wrs.nto with a reservation.
Wfi(h, in) ==
    IF h.priv = U \/ (h.priv # M /\ h.ms.tw) THEN Raise(h, Illegal, <<in, "insn">>)
    ELSE Done([h EXCEPT !.state = "WFI"])
WrsNto(h, in) ==
    IF h.resv = None THEN Done(h)
    ELSE IF h.priv # M /\ h.ms.tw THEN Raise(h, Illegal, <<in, "insn">>)
    ELSE Done([h EXCEPT !.state = "WFI"])

------------------------------------------------------------------------------
(* The CSRs of the hart (rv_csr.c): who may read and write each, what a     *)
(* write keeps of the value, and what it refreshes.  Values are the fields  *)
(* a register holds: a record of flags, a set of interrupts, a PMP entry.   *)

\* csr_min_priv, and csr_is_readonly: the two top bits of the number.
MachineCsrs == {"MSTATUS", "MEDELEG", "MIDELEG", "MIE", "MTVEC", "MEPC", "MIP", "MCOUNTEREN", "MENVCFG",
                "TDATA1", "TDATA2", "PMPCFG", "PMPADDR", "MCOUNTINHIBIT", "MHPMEVENT", "MHPMCOUNTER", "MHARTID"}
SupervisorCsrs == {"SSTATUS", "SIE", "SIP", "STVEC", "SCOUNTEREN", "SENVCFG", "SEPC", "SATP", "SCOUNTOVF"}
ReadOnlyCsrs == {"CYCLE", "TIME", "INSTRET", "HPMCOUNTER", "SCOUNTOVF", "MHARTID"}
Counters == {"CYCLE", "TIME", "INSTRET", "HPMCOUNTER"}
MinPriv(csr) == CASE csr \in MachineCsrs -> M [] csr \in SupervisorCsrs -> S [] OTHER -> U

\* counter_enabled.
CounterEnabled(h, csr) ==
    h.priv = M \/ (csr \in h.mcounteren /\ (h.priv = U => csr \in h.scounteren))

\* rv_csr_read: whether it is legal.
CsrReadOk(h, csr) ==
    /\ MinPriv(csr) <= h.priv
    /\ csr = "SATP" => ~(h.priv = S /\ h.ms.tvm)
    /\ csr \in Counters => CounterEnabled(h, csr)

\* scountovf_read: the overflow bit, for those the counter is enabled for.
Scountovf(h) == h.hpm.of /\ (h.priv = M \/ "HPMCOUNTER" \in h.mcounteren)

\* The fields of mstatus that sstatus shows.
SstatusFields == {"sie", "spie", "spp", "sum", "mxr"}

\* envcfg_legal: the reserved value of CBIE becomes "no".
EnvcfgLegal(v) == [v EXCEPT !.cbie = IF @ = "RSVD" THEN "NO" ELSE @]

\* A PMP configuration write: a locked entry keeps its byte.
PmpCfgWrite(h, i, v) ==
    PmpRefresh(DtlbFlush([h EXCEPT !.pmp[i] = IF @.l THEN @ ELSE [v EXCEPT !.addr = h.pmp[i].addr],
                                   !.pmp_gen = @ + 1]))
\* A PMP address write: refused to a locked entry, and to the bottom of a
\* locked range.
PmpAddrWrite(h, i, addr) ==
    LET nextTor == i + 1 < PmpCount /\ h.pmp[i + 1].l /\ h.pmp[i + 1].a = "TOR" IN
    IF h.pmp[i].l \/ nextTor THEN h
    ELSE DtlbFlush([h EXCEPT !.pmp[i].addr = addr, !.pmp_gen = @ + 1])

\* rv_csr_write of a value v (and, of PMP, to entry v.i).
MayWrite(h, csr) == /\ MinPriv(csr) <= h.priv /\ csr \notin ReadOnlyCsrs
                    /\ csr = "SATP" => ~(h.priv = S /\ h.ms.tvm)
Dirty(h) == [h EXCEPT !.irq_dirty = TRUE]
\* rv_csr_write, the machine counters and PMP last.
CounterWrite(h, csr, v) ==
    CASE csr = "PMPCFG" -> PmpCfgWrite(h, v.i, v.e)
      [] csr = "PMPADDR" -> PmpAddrWrite(h, v.i, v.addr)
      [] csr = "MCOUNTINHIBIT" -> HpmRearm([h EXCEPT !.hpm.inhibit = v])
      [] csr = "MHPMEVENT" -> HpmRearm([h EXCEPT !.hpm.event = v.event, !.hpm.of = v.of, !.hpm.not = v.not])
      [] csr = "MHPMCOUNTER" -> [h EXCEPT !.hpm.count = v]
      [] OTHER -> h
MachineWrite(h, csr, v) ==
    CASE csr = "MIDELEG" -> Dirty([h EXCEPT !.mideleg = v \cap SIrqs])
      [] csr = "MIE" -> Dirty([h EXCEPT !.mie = v])
      [] csr = "MIP" -> [h EXCEPT !.mip = (@ \ SIrqs) \cup (v \cap SIrqs)]
      [] csr = "MEDELEG" -> [h EXCEPT !.medeleg = v]
      [] csr = "MTVEC" -> [h EXCEPT !.mtvec = v]
      [] csr = "MEPC" -> [h EXCEPT !.mepc = v - (v % 2)]
      [] csr = "MCOUNTEREN" -> [h EXCEPT !.mcounteren = v]
      [] csr = "MENVCFG" -> [h EXCEPT !.menvcfg = EnvcfgLegal(v)]
      [] csr = "TDATA1" -> WriteTdata1(h, v.on, v.modes, v.kinds)
      [] csr = "TDATA2" -> [h EXCEPT !.trig.addr = v]
      [] OTHER -> CounterWrite(h, csr, v)
CsrWrite(h, csr, v) ==
    CASE csr = "FCSR" -> [h EXCEPT !.frm = v]
      [] csr = "MSTATUS" -> MmuRefresh(PmpRefresh(Dirty([h EXCEPT !.ms = v.ms, !.reg[32] = v.fs])))
      [] csr = "SSTATUS" ->
           Dirty([h EXCEPT !.ms = [f \in DOMAIN @ |-> IF f \in SstatusFields THEN v.ms[f] ELSE @[f]], !.reg[32] = v.fs])
      [] csr = "SIE" -> Dirty([h EXCEPT !.mie = (@ \ h.mideleg) \cup (v \cap h.mideleg)])
      [] csr = "SIP" -> LET w == h.mideleg \cap {"SSI", "LCOF"} IN
                        Dirty([h EXCEPT !.mip = (@ \ w) \cup (v \cap w)])
      [] csr = "SATP" -> MmuRefresh(FlushTlb([h EXCEPT !.satp = v]))
      [] csr = "STVEC" -> [h EXCEPT !.stvec = v]
      [] csr = "SEPC" -> [h EXCEPT !.sepc = v - (v % 2)]
      [] csr = "SCOUNTEREN" -> [h EXCEPT !.scounteren = v]
      [] csr = "SENVCFG" -> [h EXCEPT !.senvcfg = EnvcfgLegal(v)]
      [] OTHER -> MachineWrite(h, csr, v)

\* A CSR instruction that writes v, reading first unless its destination is
\* register 0.
CsrInsn(h, csr, v, reads, in) ==
    IF (reads /\ ~CsrReadOk(h, csr)) \/ ~MayWrite(h, csr) THEN Raise(h, Illegal, <<in, "insn">>)
    ELSE Done(CsrWrite(h, csr, v))

------------------------------------------------------------------------------
(* The interrupt sources of the RV32 machine: the CLINT's timer and         *)
(* software interrupt (rv_clint.c) and the APLIC (rv_aplic.c).  Each write  *)
(* answers the device and the hart it drives.                               *)

CONSTANTS Sources      \* RV_APLIC_SOURCES: 1 .. n, 0 is no source

-----------------------------------------------------------------------------
(* CLINT: mtime, mtimecmp, msip. *)

\* rv_clint_init: the comparator is out of reach.
ClintInit(never) == [mtime |-> 0, mtimecmp |-> never, msip |-> FALSE]

\* update_mtip.
UpdateMtip(c, h) == [clint |-> c, h |-> SetIrq(h, "MTI", c.mtime >= c.mtimecmp)]

\* rv_clint_set_time, rv_clint_advance, and the writes of mtime and mtimecmp.
SetTime(c, h, now) == UpdateMtip([c EXCEPT !.mtime = now], h)
SetTimecmp(c, h, t) == UpdateMtip([c EXCEPT !.mtimecmp = t], h)
\* The write of msip.
SetMsip(c, h, on) == [clint |-> [c EXCEPT !.msip = on], h |-> SetIrq(h, "MSI", on)]

-----------------------------------------------------------------------------
(* APLIC, direct delivery, one hart. *)

Aplic0 == [mode |-> [i \in Sources |-> "INACTIVE"], target |-> [i \in Sources |-> 1], pending |-> {}, enabled |-> {},
           ie |-> FALSE, idelivery |-> FALSE, iforce |-> FALSE, ithreshold |-> 0]

SrcActive(a, i) == i \in Sources /\ a.mode[i] # "INACTIVE"
Prio(a, i) == IF a.target[i] = 0 THEN 1 ELSE a.target[i]

\* aplic_topi: the lowest number among the best priorities, unless the
\* threshold holds it back; 0 is none.
Topi(a) ==
    LET Ready == {i \in a.pending \cap a.enabled : SrcActive(a, i)}
        best  == CHOOSE i \in Ready : \A j \in Ready : Prio(a, i) < Prio(a, j) \/ (Prio(a, i) = Prio(a, j) /\ i <= j)
    IN IF Ready = {} \/ (a.ithreshold # 0 /\ Prio(a, best) >= a.ithreshold) THEN 0 ELSE best

Deliver(a) == a.ie /\ a.idelivery /\ (Topi(a) # 0 \/ a.iforce)

\* aplic_update.
AplicUpdate(a, h) == [aplic |-> a, h |-> SetIrq(h, "MEI", Deliver(a))]

\* aplic_set_pending, aplic_clear_pending.
SetPending(a, I) == [a EXCEPT !.pending = @ \cup {i \in I : SrcActive(a, i)}]
ClearPending(a, I) == [a EXCEPT !.pending = @ \ I]

\* rv_aplic_raise.
AplicRaise(a, h, i) == AplicUpdate(SetPending(a, {i}), h)

\* aplic_read of claimi: the source is taken, or the forced interrupt ends.
AplicClaim_NoUpdate(a, h) ==
    [aplic |-> IF Topi(a) = 0 THEN [a EXCEPT !.iforce = FALSE] ELSE ClearPending(a, {Topi(a)}), h |-> h]
AplicClaim(a, h) ==
    AplicUpdate(IF Topi(a) = 0 THEN [a EXCEPT !.iforce = FALSE] ELSE ClearPending(a, {Topi(a)}), h)

\* aplic_write: sourcecfg, an inactive source being neither pending nor
\* enabled.
Sourcecfg(a, i, mode) ==
    LET m == [a EXCEPT !.mode[i] = mode] IN
    IF mode = "INACTIVE" THEN [m EXCEPT !.pending = @ \ {i}, !.enabled = @ \ {i}] ELSE m

\* aplic_write: one register w.reg and a value w.v.
AplicWrite(a, h, w) ==
    AplicUpdate(CASE w.reg = "DOMAINCFG" -> [a EXCEPT !.ie = w.v]
                  [] w.reg = "SOURCECFG" -> Sourcecfg(a, w.i, w.v)
                  [] w.reg = "TARGET" -> [a EXCEPT !.target[w.i] = w.v]
                  [] w.reg \in {"SETIP", "SETIPNUM"} -> SetPending(a, w.v)
                  [] w.reg \in {"CLRIP", "CLRIPNUM"} -> ClearPending(a, w.v)
                  [] w.reg \in {"SETIE", "SETIENUM"} -> [a EXCEPT !.enabled = @ \cup (w.v \cap Sources)]
                  [] w.reg \in {"CLRIE", "CLRIENUM"} -> [a EXCEPT !.enabled = @ \ w.v]
                  [] w.reg = "IDELIVERY" -> [a EXCEPT !.idelivery = w.v]
                  [] w.reg = "IFORCE" -> [a EXCEPT !.iforce = w.v]
                  [] w.reg = "ITHRESHOLD" -> [a EXCEPT !.ithreshold = w.v]
                  [] OTHER -> a, h)
==============================================================================
