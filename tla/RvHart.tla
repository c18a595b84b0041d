------------------------------- MODULE RvHart --------------------------------
(* An RV32 hart: what protects its memory, and after it the hart itself,    *)
(* its traps, interrupts, loads and stores (rv_hart.c).                     *)
(*                                                                          *)
(* The RV32 hart's memory protection: PMP (rv_pmp.c), triggers (rv_trig.c), *)
(* Sv32 and its TLB (rv_mmu.c) and the page tables the fast paths probe     *)
(* (rv_dtlb.c).  A hart is a record; every operator maps a hart to a hart   *)
(* or to an answer.  Pages, indices and addresses are those of Sv32 scaled  *)
(* to words of Bits bits: half of an address is the offset in its page and  *)
(* each of the two indices is a quarter.  A PTE is a record in h.pte, by    *)
(* the address of its word; ms is mstatus, with FS apart in h.reg.          *)
EXTENDS Words

CONSTANTS Map,         \* the bus's regions
          PmpCount,    \* RV_PMP_ENTRIES
          TlbSize,     \* RV_TLB_ENTRIES
          DtlbSize     \* RV_DTLB_ENTRIES

Regions == Map

U == 0
S == 1
M == 3

PageBits == Bits \div 2
IdxBits  == Bits \div 4
PageSize == 2 ^ PageBits
Vpn(va)  == Shr(va, PageBits)
Vpn1(va) == Shr(va, PageBits + IdxBits)
PageOf(a) == a - Low(a, PageBits)
None == -1                          \* EMU_DTLB_NONE
NoEntry == [read |-> None, write |-> None, page |-> 0]

\* Exceptions: of an access, fault_for and access_fault_for, and the others.
Fault(acc, kind) == <<acc, kind>>
NoExc == <<>>
Illegal == <<"ILLEGAL">>
Breakpoint == <<"BREAKPOINT">>

\* rv_hart_data_priv: MPRV makes data accesses those of MPP.
DataPriv(h) == IF h.ms.mprv THEN h.ms.mpp ELSE h.priv
\* acc_priv.
AccPriv(h, acc) == IF acc = "FETCH" THEN h.priv ELSE DataPriv(h)

-----------------------------------------------------------------------------
(* PMP.  An entry is [a, l, perm, addr]; addr counts words. *)

\* pmp_bytes: a boundary past the address space saturates.
PmpBytes(words) == IF words >= 2 ^ (Bits - 2) THEN AllOnes ELSE words * 4

\* pmp_range: the bytes lo <= x < hi an entry covers, or nothing.
PmpRange(h, i) ==
    LET e == h.pmp[i]
        prev == IF i = 0 THEN 0 ELSE h.pmp[i - 1].addr
        size == 2 ^ (Ctz(Not(e.addr)) + 1)
        base == e.addr - (e.addr % size)
    IN CASE e.a = "TOR" /\ e.addr > prev -> [lo |-> PmpBytes(prev), hi |-> PmpBytes(e.addr)]
         [] e.a = "NA4"   -> [lo |-> PmpBytes(e.addr), hi |-> PmpBytes(e.addr + 1)]
         [] e.a = "NAPOT" -> [lo |-> PmpBytes(base), hi |-> PmpBytes(base + size)]
         [] OTHER -> [lo |-> 0, hi |-> 0]

\* The first entry that touches first .. last, or None.
PmpMatch(h, first, last) ==
    LET Hits == {i \in DOMAIN h.pmp : LET r == PmpRange(h, i) IN r.lo < r.hi /\ last >= r.lo /\ first < r.hi}
    IN IF Hits = {} THEN None ELSE CHOOSE i \in Hits : \A j \in Hits : i <= j
PmpWithin(h, i, first, last) == LET r == PmpRange(h, i) IN first >= r.lo /\ last < r.hi

PermOf(acc) == CASE acc = "FETCH" -> "X" [] acc = "LOAD" -> "R" [] OTHER -> "W"

\* rv_pmp_check: the first entry that touches the access decides it, and
\* refuses one it does not cover; an unlocked entry does not bind M-mode.
PmpCheck(h, addr, size, acc) ==
    LET last == Wrap(addr + size - 1)
        i == PmpMatch(h, addr, last)
        eff == AccPriv(h, acc)
    IN IF i = None THEN eff = M
       ELSE /\ PmpWithin(h, i, addr, last)
            /\ (~h.pmp[i].l /\ eff = M) \/ PermOf(acc) \in h.pmp[i].perm

\* rv_pmp_page_rights: what the whole page is allowed, for the fast tables.
PmpPageRights(h, page, priv) ==
    LET i == PmpMatch(h, page, page + PageSize - 1) IN
    IF priv = M \/ i = None THEN {}
    ELSE IF PmpWithin(h, i, page, page + PageSize - 1) THEN h.pmp[i].perm ELSE {}

\* rv_hart_refresh_fetch_guard.
RefreshGuards(h) ==
    [h EXCEPT !.fetch_guard = h.trig_active \/ h.pmp_active \/ h.vm_active,
              !.data_guard  = h.pmp_active \/ h.pmp_any \/ h.vm_active]

\* rv_pmp_refresh.
PmpRefresh(h) ==
    LET On(i) == h.pmp[i].a # "OFF" IN
    RefreshGuards([h EXCEPT !.pmp_any = \E i \in DOMAIN h.pmp : On(i),
                            !.pmp_active = \/ h.priv # M \/ DataPriv(h) # M
                                           \/ \E i \in DOMAIN h.pmp : On(i) /\ h.pmp[i].l])
\* rv_pmp_needed.
PmpNeeded(h, addr, size) == h.pmp_active \/ (h.pmp_any /\ (addr % 4) + size > 4)

-----------------------------------------------------------------------------
(* Triggers: one address match, [on, modes, kinds, addr]. *)

\* rv_trig_refresh, rv_trig_write_tdata1.
TrigRefresh(h) == RefreshGuards([h EXCEPT !.trig_active = h.trig.on /\ h.trig.modes # {} /\ h.trig.kinds # {}])
WriteTdata1(h, on, modes, kinds) ==
    TrigRefresh([h EXCEPT !.trig = IF on THEN [@ EXCEPT !.on = TRUE, !.modes = modes, !.kinds = kinds]
                                   ELSE [@ EXCEPT !.on = FALSE, !.modes = {}, !.kinds = {}]])

\* may_match: not where the trap would destroy the state it interrupts.
MayMatch(h) == CASE h.priv = M -> h.ms.mie
                 [] h.priv = S -> Breakpoint \notin h.medeleg \/ h.ms.sie
                 [] OTHER -> TRUE
\* rv_trig_check.
TrigCheck(h, addr, acc) ==
    /\ MayMatch(h)
    /\ h.trig.on /\ h.priv \in h.trig.modes /\ acc \in h.trig.kinds /\ h.trig.addr = addr

-----------------------------------------------------------------------------
(* Sv32. *)

\* rv_dtlb_flush, rv_mmu_flush_tlb, rv_mmu_flush.
DtlbFlush(h) == [h EXCEPT !.dtlb = [t \in {0, 1} |-> [i \in 0 .. DtlbSize - 1 |-> NoEntry]],
                          !.itlb = [t \in {0, 1} |-> [i \in 0 .. DtlbSize - 1 |-> NoEntry]]]
InvalidTlb == [valid |-> FALSE, vpn |-> 0, page |-> 0, f |-> {}]
FlushTlb(h) == DtlbFlush([h EXCEPT !.tlb = [i \in 0 .. TlbSize - 1 |-> InvalidTlb]])
MmuFlush(h) == [FlushTlb(h) EXCEPT !.mega = {}, !.vm_gen = @ + 1]

\* rv_mmu_refresh.
MmuRefresh(h) == RefreshGuards([h EXCEPT !.vm_active = h.satp.on /\ (h.priv # M \/ DataPriv(h) # M)])

\* rv_dtlb_flush_page.
DtlbFlushPage(h, va) ==
    LET vpn == Vpn(va)
        i == vpn % DtlbSize
        Drop(e) == IF vpn \in {e.read, e.write} THEN [e EXCEPT !.read = None, !.write = None] ELSE e
        Table(tab) == [t \in {0, 1} |-> [tab[t] EXCEPT ![i] = Drop(@)]]
    IN [h EXCEPT !.dtlb = Table(@), !.itlb = Table(@)]

\* rv_mmu_flush_page: a page of a region mapped by a superpage costs a whole
\* flush, the superpage's other pages being in other slots.  vm_gen counts
\* the events that retire translated code; jit_page names the page retired.
MmuFlushPage_NoMega(h, va) ==
    LET i == Vpn(va) % TlbSize IN
    DtlbFlushPage([h EXCEPT !.tlb[i].valid = @ /\ h.tlb[i].vpn # Vpn(va)], va)
MmuFlushPage(h, va) ==
    LET i == Vpn(va) % TlbSize IN
    IF Vpn1(va) \in h.mega THEN MmuFlush(h)
    ELSE DtlbFlushPage([h EXCEPT !.tlb[i].valid = @ /\ h.tlb[i].vpn # Vpn(va)], va)

\* leaf_permits.
LeafPermits(h, f, acc, priv) ==
    /\ IF priv = U THEN "U" \in f ELSE "U" \notin f \/ (acc # "FETCH" /\ h.ms.sum)
    /\ CASE acc = "FETCH" -> "X" \in f
         [] acc = "LOAD" -> "R" \in f \/ (h.ms.mxr /\ "X" \in f)
         [] OTHER -> "W" \in f /\ "D" \in f
    /\ "A" \in f

\* read_pte.
ReadPte(h, pa, acc) ==
    IF (h.pmp_active /\ ~PmpCheck(h, pa, 4, "LOAD")) \/ pa \notin DOMAIN h.pte
    THEN [exc |-> Fault(acc, "ACCESS")]
    ELSE [exc |-> NoExc, pte |-> h.pte[pa]]

IsPointer(pte) == {"R", "X"} \cap pte.f = {}
BadPte(pte) == "V" \notin pte.f \/ ("W" \in pte.f /\ "R" \notin pte.f)

\* The leaf of a walk found at a level, the page it gives, and the fault.
LeafAt(h, va, acc, priv, pte, level) ==
    LET base == IF level = 1 THEN pte.ppn + Low(Vpn(va), IdxBits) ELSE pte.ppn IN
    IF level = 1 /\ Low(pte.ppn, IdxBits) # 0 THEN [exc |-> Fault(acc, "PAGE")]
    ELSE IF ~LeafPermits(h, pte.f, acc, priv) THEN [exc |-> Fault(acc, "PAGE")]
    ELSE IF pte.past THEN [exc |-> Fault(acc, "ACCESS")]
    ELSE [exc |-> NoExc, page |-> base * PageSize, f |-> pte.f, mega |-> level = 1]

\* The walk of rv_mmu_translate: two levels.
Walk(h, va, acc, priv) ==
    LET top  == ReadPte(h, h.satp.root * PageSize + Vpn1(va) * 4, acc)
        low  == ReadPte(h, top.pte.ppn * PageSize + Low(Vpn(va), IdxBits) * 4, acc)
        page == [exc |-> Fault(acc, "PAGE")]
    IN IF top.exc # NoExc THEN top
       ELSE IF BadPte(top.pte) THEN page
       ELSE IF ~IsPointer(top.pte) THEN LeafAt(h, va, acc, priv, top.pte, 1)
       ELSE IF {"D", "A", "U"} \cap top.pte.f # {} THEN page
       ELSE IF top.pte.past THEN [exc |-> Fault(acc, "ACCESS")]
       ELSE IF low.exc # NoExc THEN low
       ELSE IF BadPte(low.pte) \/ IsPointer(low.pte) THEN page
       ELSE LeafAt(h, va, acc, priv, low.pte, 0)

\* rv_mmu_translate.
Translate(h, va, acc) ==
    LET priv == AccPriv(h, acc)
        i == Vpn(va) % TlbSize
        e == h.tlb[i]
        w == Walk(h, va, acc, priv)
        off == Low(va, PageBits)
    IN IF priv = M THEN [exc |-> NoExc, h |-> h, pa |-> va]
       ELSE IF e.valid /\ e.vpn = Vpn(va) /\ LeafPermits(h, e.f, acc, priv)
       THEN [exc |-> NoExc, h |-> h, pa |-> e.page + off]
       ELSE IF w.exc # NoExc THEN [exc |-> w.exc, h |-> h, pa |-> 0]
       ELSE [exc |-> NoExc, pa |-> w.page + off,
             h |-> [h EXCEPT !.tlb[i] = [valid |-> TRUE, vpn |-> Vpn(va), page |-> w.page, f |-> w.f],
                             !.mega = IF w.mega THEN @ \cup {Vpn1(va)} ELSE @]]

-----------------------------------------------------------------------------
(* The fast tables: one for U and one for S, of pages that need no check. *)

TableOf(priv) == IF priv = U THEN 0 ELSE 1

\* rv_mmu_dtlb_rights and rv_mmu_itlb_rights: what the TLB's entry says to
\* everybody at that privilege; {} when it says nothing.
TlbRights(h, va, priv) ==
    LET e == h.tlb[Vpn(va) % TlbSize] IN
    IF ~e.valid \/ e.vpn # Vpn(va) \/ ("U" \in e.f) # (priv = U) \/ "A" \notin e.f THEN {}
    ELSE {p \in Perms : p \in e.f /\ (p = "W" => "D" \in e.f)}
PageRights(h, va, priv) == IF h.satp.on THEN TlbRights(h, va, priv) ELSE Perms

\* The region test both fills end with: ordinary memory that holds the page.
HostPage(page, widths, perm) ==
    LET r == Find(Regions, page) IN
    /\ r.kind \in {"RAM", "ROM"} /\ r.size - (page - r.base) >= PageSize
    /\ widths \subseteq r.widths /\ perm \in r.perm

\* rv_dtlb_fill.
DtlbFill(h, va, pa) ==
    LET priv == DataPriv(h)
        t == TableOf(priv)
        i == Vpn(va) % DtlbSize
        page == PageOf(pa)
        rights == PageRights(h, va, priv) \cap PmpPageRights(h, page, priv)
        wr == /\ "W" \in PageRights(h, va, priv) /\ "W" \in PmpPageRights(h, page, priv)
              /\ Find(Regions, page).kind = "RAM" /\ "W" \in Find(Regions, page).perm
    IN IF priv = M \/ h.dtlb[t][i].read = Vpn(va) \/ "R" \notin rights \/ ~HostPage(page, Widths, "R") THEN h
       ELSE [h EXCEPT !.dtlb[t][i] = [read |-> Vpn(va), write |-> IF wr THEN Vpn(va) ELSE None, page |-> page]]

\* rv_itlb_fill: a refusal is remembered too, in write.
ItlbFill(h, va, pa) ==
    LET t == TableOf(h.priv)
        i == Vpn(va) % DtlbSize
        page == PageOf(pa)
        ok == /\ "X" \in PageRights(h, va, h.priv) \cap PmpPageRights(h, page, h.priv)
              /\ HostPage(page, {2}, "X")
    IN IF h.priv = M \/ Vpn(va) \in {h.itlb[t][i].read, h.itlb[t][i].write} THEN h
       ELSE [h EXCEPT !.itlb[t][i] = IF ok THEN [read |-> Vpn(va), write |-> None, page |-> page]
                                     ELSE [@ EXCEPT !.read = None, !.write = Vpn(va)]]

\* dtlb_probe and rv_itlb_lookup: the page a table vouches for, or None.
DtlbProbe(h, va, size, write) ==
    LET e == h.dtlb[TableOf(DataPriv(h))][Vpn(va) % DtlbSize] IN
    IF DataPriv(h) # M /\ va % size = 0 /\ Vpn(va) = (IF write THEN e.write ELSE e.read) THEN e.page ELSE None
ItlbLookup(h, va) ==
    LET e == h.itlb[TableOf(h.priv)][Vpn(va) % DtlbSize] IN
    IF h.priv # M /\ e.read = Vpn(va) THEN e.page ELSE None

------------------------------------------------------------------------------
(* The RV32 hart: traps, interrupts, the counters of events, loads, stores, *)
(* atomics and cache-block operations (rv_hart.c) and the CSRs (rv_csr.c).  *)
(* An access answers [exc, h, ...]; the caller takes the trap.  A trap      *)
(* value is <<address>> or, of an illegal instruction, <<insn, "insn">>.    *)

CONSTANTS MisalignedOk,   \* RV_MISALIGNED_OK
          BlockSize,      \* RV_CACHE_BLOCK_SIZE
          HpmLimit        \* the event counter wraps here

MIrqs == <<"MEI", "MSI", "MTI", "SEI", "SSI", "STI", "LCOF">>   \* by priority
SIrqs == {"SEI", "SSI", "STI", "LCOF"}
IrqCode == [MEI |-> 11, MSI |-> 3, MTI |-> 7, SEI |-> 9, SSI |-> 1, STI |-> 5, LCOF |-> 13]
AllIrqs == DOMAIN IrqCode

-----------------------------------------------------------------------------
(* Traps and interrupts. *)

\* rv_jit_ctx_key: what a translated block was specialised on.
CtxKey(h) == [satp |-> h.satp, priv |-> h.priv, fsOff |-> h.reg[32] = 0, frm |-> h.frm, data |-> DataPriv(h)]

\* rv_hart_set_irq.
SetIrq(h, irq, level) ==
    [h EXCEPT !.mip = IF level THEN @ \cup {irq} ELSE @ \ {irq}, !.irq_dirty = TRUE]

\* rv_hpm_rearm, rv_hpm_note_trap: one counter, of one event, that raises the
\* overflow interrupt when it wraps and its overflow bit was clear.
HpmRearm(h) == [h EXCEPT !.hpm.armed = h.hpm.event # "NONE" /\ ~h.hpm.inhibit]
HpmNoteTrap(h, cause, from) ==
    LET kind == IF cause[1] = "IRQ" THEN "IRQ" ELSE "EXC"
        n == (h.hpm.count + 1) % HpmLimit
        counted == [h EXCEPT !.hpm.count = n]
    IN IF ~h.hpm.armed \/ h.hpm.event \notin {kind, cause} \/ from \in h.hpm.not THEN h
       ELSE IF n = 0 /\ ~h.hpm.of THEN SetIrq([counted EXCEPT !.hpm.of = TRUE], "LCOF", TRUE)
       ELSE counted

\* trap_to_s.
TrapToS(h, cause) ==
    h.priv <= S /\ (IF cause[1] = "IRQ" THEN cause[2] \in h.mideleg ELSE cause \in h.medeleg)

\* rv_hart_trap; a faulting half of a split access gives its own address.
Trap(h, cause, tval) ==
    LET irq == cause[1] = "IRQ"
        val == IF h.split.valid /\ ~irq /\ tval = <<h.split.req>> THEN <<h.split.at>> ELSE tval
        toS == TrapToS(h, cause)
        entered ==
          IF toS
          THEN [h EXCEPT !.sepc = h.pc, !.scause = cause, !.stval = val, !.priv = S,
                         !.ms.spie = h.ms.sie, !.ms.sie = FALSE, !.ms.spp = h.priv = S]
          ELSE [h EXCEPT !.mepc = h.pc, !.mcause = cause, !.mtval = val, !.priv = M,
                         !.ms.mpie = h.ms.mie, !.ms.mie = FALSE, !.ms.mpp = h.priv]
        tvec == IF toS THEN h.stvec ELSE h.mtvec
        fresh == MmuRefresh(PmpRefresh(entered))
        there == [fresh EXCEPT !.split.valid = FALSE, !.jit_ctx = CtxKey(fresh), !.resv = None,
                               !.pc = IF tvec.vectored /\ irq THEN Add(tvec.base, 4 * IrqCode[cause[2]])
                                      ELSE tvec.base]
    IN HpmNoteTrap(there, cause, h.priv)

\* rv_hart_pending_irq: the interrupt to take now, or "none".
Deliverable(h) ==
    LET on == h.mip \cap h.mie IN
    CASE h.priv = M /\ ~h.ms.mie -> {}
      [] h.priv = M \/ (h.priv = S /\ ~h.ms.sie) -> on \ h.mideleg
      [] OTHER -> on
PendingIrq(h) ==
    LET D == {i \in DOMAIN MIrqs : MIrqs[i] \in Deliverable(h)} IN
    IF D = {} THEN "none" ELSE MIrqs[CHOOSE i \in D : \A j \in D : i <= j]

\* rv_hart_wfi_wake.
WfiWake(h) == h.mip \cap h.mie # {}

\* The interrupt check of the interpreter's loop and of rv_jit_take_irq: the
\* mark is dropped before the question is asked.
TakeIrq(h) ==
    IF ~h.irq_dirty THEN h
    ELSE LET q == [h EXCEPT !.irq_dirty = FALSE] IN
         IF PendingIrq(q) = "none" THEN q ELSE Trap(q, <<"IRQ", PendingIrq(q)>>, <<0>>)

-----------------------------------------------------------------------------
(* Loads and stores. *)

Ok(h, val)   == [exc |-> NoExc, h |-> h, val |-> val]
Bad(h, exc)  == [exc |-> exc, h |-> h, val |-> 0]
Extend(v, size, sext) == IF sext THEN Sext(v, size * ByteBits) ELSE v

\* A store to the reserved word drops the reservation.
Unreserve(h, pa) == IF h.resv = pa - (pa % 4) THEN [h EXCEPT !.resv = None] ELSE h
Put(h, pa, size, val) == [h EXCEPT !.mem = StoreLe(@, pa, size, val)]

\* mem_wide over one or two pages: both are translated and checked before a
\* byte moves.  The value is two words, at the address a fault is reported.
Wide(h, va, size, acc, val) ==
    LET room  == PageSize - Low(va, PageBits)
        two   == h.vm_active /\ room < size
        len1  == IF two THEN room ELSE size
        va2   == Add(va, len1)
        t1    == IF h.vm_active THEN Translate(h, va, acc) ELSE [exc |-> NoExc, h |-> h, pa |-> va]
        t2    == IF two THEN Translate(t1.h, va2, acc) ELSE [t1 EXCEPT !.pa = 0]
        g     == t2.h
        Refused(pa, len) ==
            LET r == Find(Regions, pa) IN
            \/ PmpNeeded(g, pa, len) /\ ~PmpCheck(g, pa, len, acc)
            \/ r = NoRegion
            \/ PermOf(acc) \notin r.perm
            \/ Sub(pa, r.base) + len > r.size
        Fail(at, exc, k) == [exc |-> exc, h |-> k, val |-> <<0, 0>>, at |-> at]
        At(k) == IF k < len1 THEN Add(t1.pa, k) ELSE Add(t2.pa, k - len1)
        Cells == {At(k) : k \in 0 .. size - 1}
        Old(k) == IF k < size THEN g.mem[At(k)] ELSE 0
        New(k) == ByteOf(val[1 + (k \div 4)], k % 4)
        unres == IF acc = "STORE" /\ \E a \in Cells : g.resv = a - (a % 4) THEN [g EXCEPT !.resv = None] ELSE g
    IN IF t1.exc # NoExc THEN Fail(va, t1.exc, t1.h)
       ELSE IF t2.exc # NoExc THEN Fail(va2, t2.exc, t2.h)
       ELSE IF Refused(t1.pa, len1) THEN Fail(va, Fault(acc, "ACCESS"), g)
       ELSE IF two /\ Refused(t2.pa, size - len1) THEN Fail(va2, Fault(acc, "ACCESS"), g)
       ELSE IF acc = "LOAD" THEN [exc |-> NoExc, h |-> g, at |-> va,
                                   val |-> <<Bytes(Old(0), Old(1), Old(2), Old(3)), Bytes(Old(4), Old(5), Old(6), Old(7))>>]
       ELSE [exc |-> NoExc, at |-> va, val |-> <<0, 0>>,
             h |-> [unres EXCEPT !.mem = [x \in DOMAIN @ |->
                       IF x \in Cells THEN New(CHOOSE k \in 0 .. size - 1 : At(k) = x) ELSE @[x]]]]

\* split_access: an access across two virtual pages.
Split(h, va, size, acc, val) ==
    LET w == Wide(h, va, size, acc, <<val, 0>>)
        marked == IF w.exc # NoExc /\ w.at # va
                  THEN [w EXCEPT !.h.split = [valid |-> TRUE, req |-> va, at |-> w.at]] ELSE w
    IN [marked EXCEPT !.val = @[1]]

\* rv_hart_load64 and rv_hart_store64, with wide_trigger.
Access64(h, va, acc, val) ==
    LET hit == h.trig_active /\ (TrigCheck(h, va, acc) \/ TrigCheck(h, Add(va, 4), acc))
        No(exc) == [exc |-> exc, h |-> h, val |-> <<0, 0>>, at |-> va]
    IN IF ~MisalignedOk /\ va % 8 # 0 THEN No(Fault(acc, "MISALIGNED"))
       ELSE IF hit THEN No(Breakpoint)
       ELSE Wide(h, va, 8, acc, val)

\* load_guarded.
LoadGuarded(h, va, size) ==
    LET page == DtlbProbe(h, va, size, FALSE)
        t == IF h.vm_active THEN Translate(h, va, "LOAD") ELSE [exc |-> NoExc, h |-> h, pa |-> va]
    IN IF page # None THEN Ok(h, LoadLe(h.mem, page + Low(va, PageBits), size))
       ELSE IF h.vm_active /\ MisalignedOk /\ Low(va, PageBits) + size > PageSize
       THEN Split(h, va, size, "LOAD", 0)
       ELSE IF t.exc # NoExc THEN Bad(t.h, t.exc)
       ELSE IF PmpNeeded(t.h, t.pa, size) /\ ~PmpCheck(t.h, t.pa, size, "LOAD") THEN Bad(t.h, Fault("LOAD", "ACCESS"))
       ELSE IF ~Readable(Regions, t.pa, size) THEN Bad(t.h, Fault("LOAD", "ACCESS"))
       ELSE Ok(DtlbFill(t.h, va, t.pa), LoadLe(h.mem, t.pa, size))

\* rv_hart_load.
Load(h, addr, size, sext) ==
    LET g == LoadGuarded(h, addr, size) IN
    IF ~MisalignedOk /\ addr % size # 0 THEN Bad(h, Fault("LOAD", "MISALIGNED"))
    ELSE IF h.trig_active /\ TrigCheck(h, addr, "LOAD") THEN Bad(h, Breakpoint)
    ELSE IF h.data_guard THEN [g EXCEPT !.val = Extend(@, size, sext)]
    ELSE IF ~Readable(Regions, addr, size) THEN Bad(h, Fault("LOAD", "ACCESS"))
    ELSE Ok(h, Extend(LoadLe(h.mem, addr, size), size, sext))

\* store_guarded; the fast table is not used while a reservation is held.
StoreChecked(h, va, size, val) ==
    LET t == IF h.vm_active THEN Translate(h, va, "STORE") ELSE [exc |-> NoExc, h |-> h, pa |-> va]
        u == Unreserve(t.h, t.pa)
    IN IF h.vm_active /\ MisalignedOk /\ Low(va, PageBits) + size > PageSize
       THEN Split(h, va, size, "STORE", val)
       ELSE IF t.exc # NoExc THEN Bad(t.h, t.exc)
       ELSE IF PmpNeeded(t.h, t.pa, size) /\ ~PmpCheck(t.h, t.pa, size, "STORE") THEN Bad(t.h, Fault("STORE", "ACCESS"))
       ELSE IF ~Writable(Regions, t.pa, size) THEN Bad(u, Fault("STORE", "ACCESS"))
       ELSE Ok(DtlbFill(Put(u, t.pa, size, val), va, t.pa), 0)
StoreFast(h, page, va, size, val) == Ok(Put(h, page + Low(va, PageBits), size, val), 0)
StoreGuarded_FastReserved(h, va, size, val) ==
    LET page == DtlbProbe(h, va, size, TRUE) IN
    IF page # None THEN StoreFast(h, page, va, size, val) ELSE StoreChecked(h, va, size, val)
StoreGuarded(h, va, size, val) ==
    LET page == IF h.resv # None THEN None ELSE DtlbProbe(h, va, size, TRUE) IN
    IF page # None THEN StoreFast(h, page, va, size, val) ELSE StoreChecked(h, va, size, val)

\* rv_hart_store.
Store(h, addr, size, val) ==
    LET u == Unreserve(h, addr) IN
    IF ~MisalignedOk /\ addr % size # 0 THEN Bad(h, Fault("STORE", "MISALIGNED"))
    ELSE IF h.trig_active /\ TrigCheck(h, addr, "STORE") THEN Bad(h, Breakpoint)
    ELSE IF h.data_guard THEN StoreGuarded(h, addr, size, val)
    ELSE IF ~Writable(Regions, addr, size) THEN Bad(u, Fault("STORE", "ACCESS"))
    ELSE Ok(Put(u, addr, size, val), 0)
==============================================================================
