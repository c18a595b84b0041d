----------------------------- MODULE RvMachine -----------------------------
(* The RV32 machine as its guest, its devices and the translator drive it: *)
(* an arbitrary privileged program, one instruction at a time, interpreted *)
(* (rv_interp.c) or from translated blocks (rv_ir.c), with interrupts, page*)
(* tables and PMP changing under it.  What an instruction computes is in   *)
(* RvExec; here are the hart's own caches and marks, and whether they are  *)
(* right when they are used.                                               *)
EXTENDS RvCsr

CONSTANTS
    Machines,     \* profiles: a sequence of [h0, ops, pcs, lines, never, raise]
    WordVpns,     \* page-table word -> the VPNs whose walk reads it
    MaxBlocks,    \* bound: translated blocks
    \* What a step does, as parameters, so that TLC counts what the machine's
    \* actions cover and not every path of the hart's operators under them;
    \* the instances give Interpreted, Ran, Translated, Grants and Entered.
    Interpreting(_, _, _, _), Running(_, _, _, _), Translating(_), Granting(_, _, _, _, _), Entering(_, _)

Profiles == Machines
Reach == WordVpns

VARIABLES
    mach,         \* the profile
    hart,         \* the hart
    clint, aplic, \* the devices
    blocks,       \* translated blocks of this generation: [va, pa, ctx, fast, table]
    stale,        \* page-table words written and not fenced: word -> "none", "leaf", "all"
    owed,         \* an interrupt became deliverable without a mark
    wrote         \* whether the reserved word was written since LR
\* The machine as it stands, for the operators that compute a step of it.
Machine == [h |-> hart, blocks |-> blocks, clint |-> clint, aplic |-> aplic, stale |-> stale, owed |-> owed, wrote |-> wrote]
vars == <<mach, hart, clint, aplic, blocks, stale, owed, wrote>>

Profile == Profiles[mach]

Init ==
    /\ mach \in DOMAIN Profiles
    /\ hart = Profile.h0
    /\ clint = ClintInit(Profile.never)
    /\ aplic = Aplic0
    /\ blocks = {}
    /\ stale = [w \in DOMAIN hart.pte |-> "none"]
    /\ owed = FALSE /\ wrote = "no"

\* Causes and values are not read back here.
Quiet(k) == [k EXCEPT !.mcause = <<>>, !.mtval = <<>>, !.scause = <<>>, !.stval = <<>>]

-----------------------------------------------------------------------------
(* Fetching. *)

\* fetch_check and the interpreter's fetch of a parcel.
FetchCheck(k, pc) ==
    LET page == ItlbLookup(k, pc)
        t == IF k.vm_active THEN Translate(k, pc, "FETCH") ELSE [exc |-> NoExc, h |-> k, pa |-> pc]
    IN IF ~k.fetch_guard THEN [exc |-> NoExc, h |-> k, pa |-> pc]
       ELSE IF k.trig_active /\ TrigCheck(k, pc, "FETCH") THEN [exc |-> Breakpoint, h |-> k, pa |-> 0]
       ELSE IF page # None THEN [exc |-> NoExc, h |-> k, pa |-> page + Low(pc, PageBits)]
       ELSE IF t.exc # NoExc THEN t
       ELSE IF t.h.pmp_active /\ ~PmpCheck(t.h, t.pa, 2, "FETCH") THEN [t EXCEPT !.exc = Fault("FETCH", "ACCESS")]
       ELSE [t EXCEPT !.h = ItlbFill(t.h, pc, t.pa)]

\* The second parcel of an instruction that has one.
SecondParcel(k, pc, fpc) ==
    LET cross == k.vm_active /\ Low(pc, PageBits) = PageSize - 2
        t == IF cross THEN Translate(k, Add(pc, 2), "FETCH") ELSE [exc |-> NoExc, h |-> k, pa |-> Add(fpc, 2)]
        vouched == Low(pc, PageBits) # PageSize - 2 /\ ItlbLookup(k, pc) # None
    IN IF t.exc # NoExc THEN t
       ELSE IF t.h.pmp_active /\ pc % 4 # 0 /\ ~vouched /\ ~PmpCheck(t.h, t.pa, 2, "FETCH")
       THEN [t EXCEPT !.exc = Fault("FETCH", "ACCESS")]
       ELSE IF ~Fetchable(Regions, t.pa) THEN [t EXCEPT !.exc = Fault("FETCH", "ACCESS")]
       ELSE t

\* The fetch of an instruction of 2 or 4 bytes: the hart, or the trap.
Fetched(k, len) ==
    LET a == FetchCheck(k, k.pc)
        b == SecondParcel(a.h, k.pc, a.pa)
    IN IF a.exc # NoExc THEN Raise(a.h, a.exc, <<k.pc>>)
       ELSE IF ~Fetchable(Regions, a.pa) THEN Raise(a.h, Fault("FETCH", "ACCESS"), <<k.pc>>)
       ELSE IF len = 2 THEN Done(a.h)
       ELSE IF b.exc # NoExc THEN Raise(b.h, b.exc, <<Add(k.pc, 2)>>)
       ELSE Done(b.h)

-----------------------------------------------------------------------------
(* Instructions of the guest: [op, ...]. *)

Access(r, va) == [exc |-> r.exc, h |-> r.h, tval |-> <<va>>]
Effect(k, o) ==
    CASE o.op = "LOAD"  -> Access(Load(k, o.va, o.size, FALSE), o.va)
      [] o.op = "STORE" -> Access(Store(k, o.va, o.size, 0), o.va)
      [] o.op = "AMO"   -> Amo(k, o.amo, 0, o.va, 0)
      [] o.op = "CBO"   -> Cbo(k, o.cbo, o.va, o)
      [] o.op = "CSR"   -> CsrInsn(k, o.csr, o.v, o.reads, o)
      [] o.op = "SFENCE" -> Sfence(k, o, o.va)
      [] o.op = "MRET"  -> Mret(k, o)
      [] o.op = "SRET"  -> Sret(k, o)
      [] o.op = "WFI"   -> Wfi(k, o)
      [] o.op = "WRS"   -> WrsNto(k, o)
      [] o.op = "ECALL" -> Raise(k, <<"ECALL", k.priv>>, <<0>>)
      [] o.op = "SETPTE" -> IF k.priv = M /\ DataPriv(k) = M
                            THEN Done([k EXCEPT !.pte[o.word] = o.pte]) ELSE Done(k)
      [] OTHER -> Done(k)

\* Where an instruction that does not trap leaves the pc.
Landed(r, o, pc) == IF o.op \in {"MRET", "SRET"} THEN r.h ELSE [r.h EXCEPT !.pc = pc]

\* The ghosts.  A page-table write waits for a fence: any of its pages' when
\* the word was a leaf, a full one when it pointed to a table.
StaleAfter(stales, o, k, r) ==
    [w \in DOMAIN stales |->
       CASE o.op = "SETPTE" /\ w = o.word /\ r.h.pte # k.pte /\ "V" \in k.pte[w].f ->
              IF stales[w] = "all" \/ IsPointer(k.pte[w]) THEN "all" ELSE "leaf"
         [] o.op = "SFENCE" /\ r.exc = NoExc /\ (o.rs1 = 0 \/ (stales[w] = "leaf" /\ Vpn(o.va) \in Reach[w])) -> "none"
         [] OTHER -> stales[w]]
Fenced(v) == \A w \in DOMAIN stale : v \in Reach[w] => stale[w] = "none"

\* Physical addresses of a store, as a walk gives them.
Phys(k, va) ==
    LET w == Walk(k, va, "STORE", DataPriv(k)) IN
    IF ~k.vm_active \/ DataPriv(k) = M THEN va ELSE w.page + Low(va, PageBits)
\* What a step wrote of the reserved word: "all" for a store that begins in
\* it, one split over two pages, or a block zeroed; "end" for a misaligned
\* store that only ends in it.
WroteReserved(o, k, r) ==
    LET Hit(va) == LET p == Phys(k, va) IN p - (p % 4) = k.resv
        split == k.vm_active /\ Low(o.va, PageBits) + o.size > PageSize
        last == Add(o.va, o.size - 1)
    IN CASE r.exc # NoExc \/ k.resv = None -> "no"
         [] o.op = "STORE" -> IF Hit(o.va) \/ (split /\ Hit(last)) THEN "all" ELSE IF Hit(last) THEN "end" ELSE "no"
         [] o.op = "CBO" /\ CboOp(k, o.cbo) = "ZERO" -> IF Phys(k, o.va) \div BlockSize = k.resv \div BlockSize THEN "all" ELSE "no"
         [] OTHER -> "no"
WroteAfter(before, o, k, r, resv) ==
    IF resv = None \/ o.op = "AMO" THEN "no"
    ELSE IF "all" \in {before, WroteReserved(o, k, r)} THEN "all"
    ELSE IF before = "end" THEN "end" ELSE WroteReserved(o, k, r)

-----------------------------------------------------------------------------
(* The steps. *)

\* A store to a device, and the claim, which is a load.
OnDevice(m, k, o) ==
    LET c == CASE o.op = "MTIME" -> SetTime(m.clint, k, o.v)
               [] o.op = "MTIMECMP" -> SetTimecmp(m.clint, k, o.v)
               [] OTHER -> SetMsip(m.clint, k, o.v)
        a == IF o.op = "CLAIM" THEN AplicClaim(m.aplic, k) ELSE AplicWrite(m.aplic, k, o)
    IN IF o.op \in {"MTIME", "MTIMECMP", "MSIP"} THEN [clint |-> c.clint, aplic |-> m.aplic, h |-> c.h]
       ELSE IF o.op \in {"CLAIM", "APLIC"} THEN [clint |-> m.clint, aplic |-> a.aplic, h |-> a.h]
       ELSE [clint |-> m.clint, aplic |-> m.aplic, h |-> k]

\* rv_ir_gen_key.
GenKey_VmOnly(k) == k.vm_gen
GenKey(k) == k.vm_gen + k.pmp_gen

\* The interrupt check of the interpreter and of the dispatch.
Interrupted == hart.irq_dirty /\ PendingIrq(hart) # "none"
Interrupt ==
    /\ hart.state = "RUN" /\ Interrupted
    /\ hart' = Quiet(TakeIrq(hart))
    /\ owed' = (PendingIrq(hart') # "none" /\ ~hart'.irq_dirty)
    /\ wrote' = "no"
    /\ UNCHANGED <<mach, clint, aplic, blocks, stale>>

\* One instruction, interpreted: fetched, executed, its trap taken; then
\* rv_jit_after_interp, and the dispatch's look at the generation, which
\* drops the code of an older one.  Only whether the generation moved is
\* ever asked, so it is counted from 0 each time.
Interpreted(m, o, len, pc) ==
    LET f == Fetched(TakeIrq(m.h), len)
        d == OnDevice(m, f.h, o)
        e == Effect(d.h, o)
        ok == f.exc = NoExc
        k == IF ~ok THEN Trap(f.h, f.exc, f.tval)
             ELSE IF e.exc # NoExc THEN Trap(e.h, e.exc, e.tval) ELSE Landed(e, o, pc)
        page == {b \in m.blocks : ok /\ e.exc = NoExc /\ o.op = "SFENCE" /\ o.rs1 # 0 /\ Vpn(b.va) = Vpn(o.va)}
    IN [h      |-> [Quiet(k) EXCEPT !.jit_ctx = CtxKey(k), !.vm_gen = 0, !.pmp_gen = 0],
        blocks |-> IF GenKey(k) # 0 THEN {} ELSE m.blocks \ page,
        clint  |-> IF ok THEN d.clint ELSE m.clint,
        aplic  |-> IF ok THEN d.aplic ELSE m.aplic,
        stale  |-> IF ok THEN StaleAfter(m.stale, o, d.h, e) ELSE m.stale,
        owed   |-> ~k.irq_dirty /\ (m.owed \/ (o.op = "CSR" /\ o.csr = "MIP")),
        wrote  |-> IF ok THEN WroteAfter(m.wrote, o, d.h, e, k.resv) ELSE "no"]
Interp ==
    /\ hart.state = "RUN" /\ ~Interrupted
    /\ \E i \in DOMAIN Profile.ops, len \in Profile.lens, pc \in Profile.pcs :
         \E n \in {Interpreting(Machine, Profile.ops[i], len, pc)} :
           /\ hart' = n.h /\ blocks' = n.blocks /\ clint' = n.clint /\ aplic' = n.aplic
           /\ stale' = n.stale /\ owed' = n.owed /\ wrote' = n.wrote
    /\ UNCHANGED mach

\* rv_ir_fast_mem and rv_ir_dtlb: how a block's accesses are compiled.
FastMem(k) == ~k.vm_active /\ ~k.pmp_active /\ ~k.trig_active
DtlbTable(k) == IF FastMem(k) \/ DataPriv(k) = M \/ k.trig_active THEN None ELSE TableOf(DataPriv(k))

\* A block at the pc, after ir_fetch16 (a block of one parcel); no block
\* where the fetch fails.
Translated(q) ==
    LET page == ItlbLookup(q, q.pc)
        t == IF q.vm_active /\ page = None THEN Translate(q, q.pc, "FETCH") ELSE [exc |-> NoExc, h |-> q, pa |-> q.pc]
        pa == IF page # None THEN page + Low(q.pc, PageBits) ELSE t.pa
        allowed == page # None \/ (t.h.pmp_active => PmpCheck(t.h, pa, 2, "FETCH"))
    IN [ok |-> t.exc = NoExc /\ allowed /\ Fetchable(Regions, pa),
        h |-> IF page = None /\ q.fetch_guard THEN ItlbFill(t.h, q.pc, pa) ELSE t.h,
        block |-> [va |-> q.pc, pa |-> pa, ctx |-> q.jit_ctx, fast |-> FastMem(q), table |-> DtlbTable(q)]]
TranslateBlock ==
    /\ hart.state = "RUN" /\ ~Interrupted /\ ~hart.trig_active /\ Profile.jit
    /\ Cardinality(blocks) < MaxBlocks
    /\ \E t \in {Translating(TakeIrq(hart))} : t.ok /\ hart' = t.h /\ blocks' = blocks \cup {t.block}
    /\ UNCHANGED <<mach, clint, aplic, stale, owed, wrote>>

\* A store of a block: through the window it was compiled with, through the
\* table it was compiled with, or by the helper (rv_ir_store); neither of
\* the first two while a reservation is held.
BlockStore(k, b, va, size) ==
    LET e == k.dtlb[b.table][Vpn(va) % DtlbSize]
        window == b.fast /\ Find(Regions, va).kind = "RAM" /\ va % size = 0
        table == b.table # None /\ va % size = 0 /\ e.write = Vpn(va)
    IN IF k.resv = None /\ window THEN Ok(Put(k, va, size, 0), 0)
       ELSE IF k.resv = None /\ table THEN Ok(Put(k, e.page + Low(va, PageBits), size, 0), 0)
       ELSE Store(k, va, size, 0)

\* A block that is entered and stores once.
Ran(m, b, o, pc) ==
    LET r == BlockStore(TakeIrq(m.h), b, o.va, o.size)
        k == IF r.exc = NoExc THEN [r.h EXCEPT !.pc = pc] ELSE Trap(r.h, r.exc, <<o.va>>)
    IN [h |-> Quiet(k), owed |-> m.owed /\ ~k.irq_dirty,
        wrote |-> WroteAfter(m.wrote, o, m.h, r, k.resv)]
RunBlock ==
    /\ hart.state = "RUN" /\ ~Interrupted /\ ~hart.trig_active
    /\ \E b \in blocks, i \in DOMAIN Profile.ops, pc \in Profile.pcs :
         /\ b.va = hart.pc /\ b.ctx = hart.jit_ctx /\ Profile.ops[i].op = "STORE"
         /\ \E n \in {Running(Machine, b, Profile.ops[i], pc)} : hart' = n.h /\ owed' = n.owed /\ wrote' = n.wrote
    /\ UNCHANGED <<mach, clint, aplic, blocks, stale>>

\* rv_jit_wake and the start of interp_run.
Wake ==
    /\ hart.state = "WFI" /\ WfiWake(hart)
    /\ hart' = [hart EXCEPT !.state = "RUN", !.irq_dirty = TRUE]
    /\ owed' = FALSE
    /\ UNCHANGED <<mach, clint, aplic, blocks, stale, wrote>>

\* The platform: time passes, a device raises its source, a line moves.
Platform ==
    /\ \/ \E now \in clint.mtime .. Profile.never - 1 :
            LET c == SetTime(clint, hart, now) IN clint' = c.clint /\ hart' = c.h /\ UNCHANGED aplic
       \/ \E i \in Profile.raise :
            LET a == AplicRaise(aplic, hart, i) IN aplic' = a.aplic /\ hart' = a.h /\ UNCHANGED clint
       \/ \E irq \in Profile.lines, level \in BOOLEAN :
            hart' = SetIrq(hart, irq, level) /\ UNCHANGED <<clint, aplic>>
    /\ owed' = FALSE
    /\ UNCHANGED <<mach, blocks, stale, wrote>>

Next == Interrupt \/ Interp \/ TranslateBlock \/ RunBlock \/ Wake \/ Platform
Spec == Init /\ [][Next]_vars

-----------------------------------------------------------------------------
(* Properties. *)

\* What a comment says of irq_dirty (rv_hart.h 211-216): whenever an
\* interrupt is deliverable to a running hart, the mark that makes the run
\* loop look for it is set.
MarkedWhenDeliverable == hart.state = "RUN" /\ PendingIrq(hart) # "none" => hart.irq_dirty

\* No interrupt goes unnoticed: a deliverable one is marked, whatever the
\* devices, the CSR writes, the traps and the returns did since the last
\* look; left aside are a write of mip as a CSR, and the interrupt that a
\* delegated one of higher priority leaves behind (owed).
IrqNotMissed == hart.state = "RUN" /\ PendingIrq(hart) # "none" => hart.irq_dirty \/ owed

\* The lines of mip are what their devices say: the timer's the comparison,
\* the software's the register, the external the APLIC's delivery.
LinesTrue ==
    /\ ("MTI" \in hart.mip) = (clint.mtime >= clint.mtimecmp)
    /\ ("MSI" \in hart.mip) = clint.msip
    /\ ("MEI" \in hart.mip) = Deliver(aplic)

\* A fast table's entry for a page whose page tables are fenced gives what a
\* walk and a PMP check of every word give now, at the table's privilege.
As(k, p) == [k EXCEPT !.priv = p, !.ms.mprv = FALSE, !.pmp_active = FALSE]
Grants(k, p, v, page, acc) ==
    LET w == Walk(As(k, p), v * PageSize, acc, p) IN
    /\ IF k.satp.on THEN w.exc = NoExc /\ w.page = page ELSE page = v * PageSize
    /\ \A word \in 0 .. PageSize \div 4 - 1 : PmpCheck(As(k, p), page + 4 * word, 4, acc)
TablesHonest ==
    \A t \in {0, 1}, i \in 0 .. DtlbSize - 1 :
      LET p == IF t = 0 THEN U ELSE S
          d == hart.dtlb[t][i]
          f == hart.itlb[t][i]
          Right(v, page, acc) == v # None /\ Fenced(v) => Granting(hart, p, v, page, acc)
      IN Right(d.read, d.page, "LOAD") /\ Right(d.write, d.page, "STORE") /\ Right(f.read, f.page, "FETCH")

\* A block that would be entered now fetches, by a fresh walk and PMP check,
\* from where it was translated, and its accesses are still compiled right:
\* unchecked only where nothing is to be checked, through the table of the
\* privilege they are made at.
Entered(k, b) ==
    LET w == Walk(As(k, k.priv), b.va, "FETCH", k.priv)
        paged == k.satp.on /\ k.priv # M
    IN /\ IF paged THEN w.exc = NoExc /\ w.page + Low(b.va, PageBits) = b.pa ELSE b.pa = b.va
       /\ k.pmp_active => PmpCheck(k, b.pa, 2, "FETCH")
       /\ b.fast => FastMem(k)
       /\ b.table # None => b.table = TableOf(DataPriv(k)) /\ DataPriv(k) # M
BlocksStillRight ==
    \A b \in blocks :
      b.ctx = hart.jit_ctx /\ ~hart.trig_active /\ Fenced(Vpn(b.va)) => Entering(hart, b)

\* A reservation that is still held is of a word no store that begins in
\* it, store split over two pages or zeroed block has written since LR.
ReservationSound == hart.resv # None => wrote # "all"

\* What a comment of rv_hart_store says: any store to the reserved word
\* breaks the reservation.
AnyStoreBreaks == hart.resv # None => wrote = "no"
=============================================================================
