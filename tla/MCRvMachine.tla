---------------------------- MODULE MCRvMachine ----------------------------
(* Instances of the RV32 machine, one per behaviour.  Words are of 8 bits: *)
(* pages of 16 bytes, page 1 the root table, page 2 the table of vpns 4 to *)
(* 7, pages 4 to 7 memory.  The code and the data are at vpns 4 and 5.     *)
EXTENDS RvMachine, TLC

MCMap == <<RamRegion(16, 112)>>
MCInterpreting(m, o, len, pc) == LET r == Interpreted(m, o, len, pc) IN r
MCRunning(m, b, o, pc) == LET r == Ran(m, b, o, pc) IN r
MCTranslating(k) == LET r == Translated(k) IN r
MCGranting(k, p, v, page, acc) == LET r == Grants(k, p, v, page, acc) IN r
MCEntering(k, b) == LET r == Entered(k, b) IN r
MCWordVpns == (20 :> 4 .. 7) @@ (32 :> {4}) @@ (36 :> {5})

Leaf(ppn, f) == [f |-> {"V", "A"} \cup f, ppn |-> ppn, past |-> FALSE]
Table(ppn) == [f |-> {"V"}, ppn |-> ppn, past |-> FALSE]
Invalid == [f |-> {}, ppn |-> 0, past |-> FALSE]
All == {"R", "W", "X", "D"}

\* The bytes of the three pages that accesses reach.
Cells == UNION {{16 * p, 16 * p + 1, 16 * p + 2, 16 * p + 3, 16 * p + 14, 16 * p + 15} : p \in 4 .. 6}
Ms0 == [mie |-> FALSE, mpie |-> FALSE, mpp |-> U, sie |-> FALSE, spie |-> FALSE, spp |-> FALSE,
        mprv |-> FALSE, sum |-> FALSE, mxr |-> FALSE, tvm |-> FALSE, tw |-> FALSE, tsr |-> FALSE]
PmpOff == [a |-> "OFF", l |-> FALSE, perm |-> {}, addr |-> 0]
Tvec(base) == [base |-> base, vectored |-> FALSE]
Raw == [arch |-> "rv", reg |-> [r \in {0, 1, 32} |-> IF r = 32 THEN 1 ELSE 0], freg |-> <<>>, fw |-> <<>>,
        pc |-> 64, retired |-> 0, priv |-> M, ms |-> Ms0, mip |-> {}, mie |-> {}, mideleg |-> {}, medeleg |-> {},
        mtvec |-> Tvec(64), stvec |-> Tvec(64), mepc |-> 64, mcause |-> <<>>, mtval |-> <<>>,
        sepc |-> 64, scause |-> <<>>, stval |-> <<>>, satp |-> [on |-> FALSE, root |-> 1],
        pte |-> (20 :> Table(2)) @@ (32 :> Leaf(4, All \cup {"U"})) @@ (36 :> Leaf(5, All)),
        mem |-> [a \in Cells |-> 0], tlb |-> <<>>, dtlb |-> <<>>, itlb |-> <<>>, mega |-> {},
        vm_gen |-> 0, pmp |-> [i \in 0 .. PmpCount - 1 |-> PmpOff], pmp_active |-> FALSE, pmp_any |-> FALSE,
        pmp_gen |-> 0, vm_active |-> FALSE, trig |-> [on |-> FALSE, modes |-> {}, kinds |-> {}, addr |-> 64],
        trig_active |-> FALSE, fetch_guard |-> FALSE, data_guard |-> FALSE, resv |-> None,
        split |-> [valid |-> FALSE, req |-> 0, at |-> 0], irq_dirty |-> TRUE, jit_ctx |-> <<>>,
        state |-> "RUN", frm |-> 0, mcounteren |-> {}, scounteren |-> {},
        hpm |-> [event |-> "NONE", inhibit |-> FALSE, armed |-> FALSE, count |-> 0, of |-> FALSE, not |-> {}],
        menvcfg |-> [cbie |-> "NO", cbze |-> TRUE, cbcfe |-> FALSE],
        senvcfg |-> [cbie |-> "NO", cbze |-> TRUE, cbcfe |-> FALSE]]
\* rv_hart_reset, and what the boot code of a guest has set by then.
Reset == [MmuFlush(Raw) EXCEPT !.vm_gen = 0]
Boot(k) == LET r == MmuRefresh(PmpRefresh(k)) IN [r EXCEPT !.jit_ctx = CtxKey(r)]

Csr(csr, v) == [op |-> "CSR", csr |-> csr, v |-> v, reads |-> FALSE]
Plain(op) == [op |-> op, rs1 |-> 0]
StatusWith(f) == [ms |-> f, fs |-> 1]
Ld(va, size) == [op |-> "LOAD", va |-> va, size |-> size]
St(va, size) == [op |-> "STORE", va |-> va, size |-> size]
Pte(word, pte) == [op |-> "SETPTE", word |-> word, pte |-> pte]
Fence(va) == [op |-> "SFENCE", rs1 |-> 1, va |-> va]
FenceAll == [op |-> "SFENCE", rs1 |-> 0, va |-> 0]
Idle == [h0 |-> Boot(Reset), ops |-> <<>>, pcs |-> {64}, lens |-> {2}, lines |-> {}, raise |-> {}, never |-> 1, jit |-> FALSE]

\* Interrupts: delegation, traps and returns.
Open == [Reset EXCEPT !.pmp[0] = [a |-> "TOR", l |-> FALSE, perm |-> Perms, addr |-> 64]]
Delegation ==
    [Idle EXCEPT !.h0 = Boot([Open EXCEPT !.mie = {"SEI", "SSI"}]), !.lines = {"SEI"},
      !.ops = <<Csr("MIDELEG", {"SEI"}), Csr("MIDELEG", {"SEI", "SSI"}), Csr("SIP", {"SSI"}), Csr("SIP", {}),
                Csr("MSTATUS", StatusWith([Ms0 EXCEPT !.mie = TRUE])),
                Csr("MSTATUS", StatusWith([Ms0 EXCEPT !.mpp = S, !.mpie = TRUE])),
                Csr("SSTATUS", StatusWith([Ms0 EXCEPT !.sie = TRUE])),
                Plain("MRET"), Plain("SRET"), Plain("ECALL")>>]
\* Interrupts: enables, waiting, and the counter of events.
Enables ==
    [Idle EXCEPT !.h0 = Boot([Open EXCEPT !.mideleg = {"LCOF"}, !.ms.mpp = S]), !.lines = {"SEI"},
      !.ops = <<Csr("MIE", {"SEI", "LCOF"}), Csr("SIE", {"LCOF"}), Csr("SIE", {}), Csr("MIP", {}), Csr("SIP", {}),
                Csr("MSTATUS", StatusWith([Ms0 EXCEPT !.mie = TRUE, !.mpp = S])),
                Csr("SSTATUS", StatusWith([Ms0 EXCEPT !.sie = TRUE])),
                Csr("MHPMEVENT", [event |-> "EXC", of |-> FALSE, not |-> {U}]),
                Csr("MCOUNTINHIBIT", TRUE),
                Plain("MRET"), Plain("ECALL"), Plain("WFI")>>]
\* The devices: the timer, and two sources of the APLIC.
Timer == [Idle EXCEPT !.h0 = Boot([Open EXCEPT !.mie = {"MTI", "MSI"}]), !.never = 3,
      !.ops = <<[op |-> "MTIMECMP", v |-> 1], [op |-> "MTIMECMP", v |-> 3], [op |-> "MTIME", v |-> 0], [op |-> "MSIP", v |-> TRUE],
                [op |-> "MSIP", v |-> FALSE], Csr("MSTATUS", StatusWith([Ms0 EXCEPT !.mie = TRUE])), Plain("MRET")>>]
Reg(reg, i, v) == [op |-> "APLIC", reg |-> reg, i |-> i, v |-> v]
External == [Idle EXCEPT !.h0 = Boot([Open EXCEPT !.mie = {"MEI"}, !.ms.mpp = M]), !.raise = {1, 2}, !.never = 1,
      !.ops = <<Reg("DOMAINCFG", 0, TRUE), Reg("SOURCECFG", 1, "EDGE"), Reg("SOURCECFG", 2, "EDGE"), Reg("SOURCECFG", 1, "INACTIVE"),
                Reg("TARGET", 2, 2), Reg("SETIE", 0, {1, 2}), Reg("CLRIE", 0, {1}), Reg("SETIP", 0, {1}), Reg("CLRIP", 0, {2}),
                Reg("IDELIVERY", 0, TRUE), Reg("IFORCE", 0, TRUE), Reg("ITHRESHOLD", 0, 2), [op |-> "CLAIM"],
                Csr("MSTATUS", StatusWith([Ms0 EXCEPT !.mie = TRUE, !.mpp = M])), Plain("MRET")>>]

\* Paging: page tables that change under the TLB, the fast tables and the
\* translated code.
Paged == [Open EXCEPT !.satp.on = TRUE, !.medeleg = {}, !.ms.mpp = S]
Paging == [Idle EXCEPT !.h0 = Boot(Paged), !.pcs = {64, 78}, !.lens = {4}, !.jit = TRUE,
      !.ops = <<Pte(36, Leaf(5, All)), Pte(36, Leaf(6, {"R", "X"})), Pte(20, Table(2)), Pte(20, Leaf(4, All)),
                Fence(64), FenceAll, St(80, 4), Plain("MRET"), Plain("ECALL")>>]
UserPaged == [Paged EXCEPT !.pte = (20 :> Leaf(4, All \cup {"U"})) @@ (32 :> Leaf(4, All \cup {"U"})) @@ (36 :> Leaf(5, All))]
Privileges == [Idle EXCEPT !.h0 = Boot(UserPaged), !.pcs = {64}, !.jit = TRUE,
      !.ops = <<Pte(20, Table(2)), FenceAll, St(80, 4),
                Csr("SATP", [on |-> FALSE, root |-> 1]), Csr("SATP", [on |-> TRUE, root |-> 1]),
                Csr("MSTATUS", StatusWith([Ms0 EXCEPT !.mpp = S, !.mprv = TRUE, !.sum = TRUE])),
                Plain("MRET"), Plain("ECALL")>>]
\* Physical memory protection, with a locked entry and a trigger.
Entry(a, l, perm) == [a |-> a, l |-> l, perm |-> perm, addr |-> 0]
Protection == [Idle EXCEPT !.h0 = Boot([Open EXCEPT !.pmp[1].addr = 64]), !.pcs = {64, 78}, !.lens = {2, 4}, !.jit = TRUE,
      !.ops = <<Csr("PMPCFG", [i |-> 0, e |-> Entry("TOR", FALSE, Perms)]), Csr("PMPCFG", [i |-> 0, e |-> Entry("TOR", TRUE, {"R", "X"})]),
                Csr("PMPCFG", [i |-> 1, e |-> Entry("TOR", FALSE, {"X"})]), Csr("PMPADDR", [i |-> 0, addr |-> 20]),
                Csr("PMPADDR", [i |-> 0, addr |-> 64]), St(64, 4), St(78, 4), Ld(80, 4), Plain("MRET"), Plain("ECALL"),
                Csr("TDATA1", [on |-> TRUE, modes |-> {U}, kinds |-> {"LOAD"}]), Csr("TDATA1", [on |-> FALSE, modes |-> {}, kinds |-> {}])>>]
\* Reservations.
Reserve == [Idle EXCEPT !.h0 = Boot([UserPaged EXCEPT !.ms.mpp = U]), !.pcs = {64}, !.jit = TRUE,
      !.ops = <<[op |-> "AMO", amo |-> "LR", va |-> 64], [op |-> "AMO", amo |-> "SC", va |-> 64], [op |-> "AMO", amo |-> "LR", va |-> 80],
                [op |-> "AMO", amo |-> "ADD", va |-> 64], [op |-> "CBO", cbo |-> "ZERO", va |-> 64],
                St(64, 4), St(80, 1), St(78, 4), Ld(64, 4), Plain("WRS"), Plain("MRET"), Plain("ECALL")>>]
MCMachines == <<Delegation, Enables, Timer, External, Paging, Privileges, Protection, Reserve>>
=============================================================================
