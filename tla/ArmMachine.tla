----------------------------- MODULE ArmMachine -----------------------------
(* An ARMv7-M guest under the dispatcher of emu_jit.c: translated blocks,  *)
(* the interpreter when there is no block, exceptions looked for only when *)
(* irq_maybe is set, lines the host moves at any moment, and the watch on  *)
(* the memory blocks were made of.  What the guest executes is chosen at   *)
(* every step among the instructions of its kind.                          *)
EXTENDS ArmIr

CONSTANTS
    ArmKinds,            \* what a run starts with: a core and what may happen to it
    ArmDepth,            \* how deep exceptions nest
    \* What a step does, as parameters, so that TLC counts what the actions
    \* here cover and not every path of the core's operators under them; the
    \* instances give ArmLook, ArmInterpreted and ArmRan.
    ArmLooking(_), ArmInterpreting(_, _), ArmBlockRunning(_, _)

VARIABLES
    arm,        \* the core
    kind,       \* which of ArmKinds
    phase,      \* "run": in the dispatcher; "look": a7_take_irq has cleared irq_maybe; "interp": in armv7m_run
    context,    \* the contexts under the current one, the nearest first
    waived      \* lines whose request the guest has cleared while they were high

armVars == <<arm, kind, phase, context, waived>>
ArmKind == ArmKinds[kind]

ArmInit ==
    /\ kind \in DOMAIN ArmKinds
    /\ arm = ArmKinds[kind].core
    /\ phase = "run"
    /\ context = <<>>
    /\ waived = {}

\* What an exception must leave as it found it; of the floating-point state
\* only what CONTROL.FPCA says is in use.
ArmContext(c) ==
    LET k == ArmPack(c)
        fp == "FPCA" \in k.control
    IN
    [reg |-> [r \in {0, 1, 2, 3, 12, ArmSP, ArmLR, ArmXPSR} |-> k.reg[r]], pc |-> k.pc, ipsr |-> k.ipsr, ge |-> k.ge,
     control |-> k.control, s |-> [i \in 0 .. ArmSRegs - 1 |-> IF fp THEN k.s[i] ELSE 0],
     fpscr |-> IF fp THEN k.fpscr ELSE ArmFpscr0]
\* What is below a stack pointer is not read again: forgotten.
ArmForgets(c, msp, psp, process) ==
    [c EXCEPT !.stk = [a \in DOMAIN @ |-> IF a < msp /\ (a >= process \/ a < psp) THEN ArmCell(0) ELSE @[a]], !.retired = 0]
\* The core becomes c: it was entered from "before" when one more exception
\* is active, and went back to what it had interrupted when one fewer is.
ArmBecomes(before, c) ==
    LET n == Cardinality(arm.active)
        m == Cardinality(c.active)
    IN /\ m <= ArmDepth
       /\ \E msp \in {ArmGetSp(c, FALSE)}, psp \in {ArmGetSp(c, TRUE)}, process \in {ArmKind.process} :
             arm' = ArmForgets(c, msp, psp, process)
       /\ context' = CASE m > n -> <<ArmContext(before)>> \o context
                       [] m < n -> Tail(context)
                       [] OTHER -> context

\* Code is a loop at every multiple of 8: one instruction, and a branch back.
\* A handler leaves the stack pointer where it was.
ArmCodeAt(w) ==
    IF w.enc = "B" THEN arm.pc % 8 # 0 /\ Add(arm.pc, 4 + w.imm) = arm.pc - (arm.pc % 8)
    ELSE arm.pc % 8 = 0 /\ (w.rd = ArmSP => ~ArmHandler(arm))

-----------------------------------------------------------------------------
(* The dispatcher. *)

ArmAtReturn == ArmHandler(arm) /\ ArmIsReturn(arm.pc)
ArmRunning(in) == phase = in /\ arm.state = "RUNNING" /\ UNCHANGED kind

\* a7_take_irq.
ArmClears ==
    /\ ArmRunning("run")
    /\ arm.irq_maybe /\ ~ArmAtReturn
    /\ arm' = ArmClear(arm)
    /\ phase' = "look"
    /\ UNCHANGED <<context, waived>>
ArmLooks ==
    /\ ArmRunning("look")
    /\ \E c \in {ArmLooking(arm)} : ArmBecomes(arm, c)
    /\ phase' = "run"
    /\ UNCHANGED waived

\* No block at pc: a7_interp_run, the turns of armv7m_run, a7_after_interp.
ArmInterpBegins ==
    /\ ArmRunning("run")
    /\ ArmAtReturn \/ (~arm.irq_maybe /\ ArmKind.interp # {})
    /\ arm' = ArmPack(arm)
    /\ phase' = "interp"
    /\ UNCHANGED <<context, waived>>
ArmInterpreted(c, w) ==
    [from |-> IF ArmTurn(c, ArmLen(w)).go THEN [c EXCEPT !.pc = Add(@, ArmLen(w))] ELSE c, to |-> ArmRunTurn(c, w)]
ArmInterpTurn(w) ==
    /\ ArmRunning("interp")
    /\ \E t \in {ArmInterpreting(arm, w)} : ArmBecomes(t.from, t.to)
    /\ UNCHANGED <<phase, waived>>
ArmInterpEnds ==
    /\ ArmRunning("interp")
    /\ arm' = ArmRebind(arm)
    /\ phase' = "run"
    /\ UNCHANGED <<context, waived>>

\* A block: w, lowered or left to a7_ir_step, the branch back, and a7_count.
ArmRan(c, w) ==
    LET d == IF ArmDecoded(w).op \in ArmFpOps THEN ArmHelper(c, [w |-> w, pc |-> c.pc]).cpu
             ELSE ArmUnpack(ArmStepped(ArmPack(c), w).cpu)
    IN ArmCount(IF d.pc = Add(c.pc, ArmLen(w)) THEN [d EXCEPT !.pc = c.pc] ELSE d, 2)
ArmInBlock == ArmRunning("run") /\ ~arm.irq_maybe /\ ~ArmAtReturn
ArmBlock(w) ==
    /\ ArmInBlock
    /\ ~ArmMustDecline(ArmDecoded(w))
    /\ \E c \in {ArmBlockRunning(arm, w)} : ArmBecomes(arm, c)
    /\ UNCHANGED <<phase, waived>>
\* ... that stores v to register r of the system control space.
ArmControl(r, v) ==
    /\ ArmInBlock
    /\ \E c \in {ArmScsWrite(arm, r, v)} : ArmBecomes(arm, c)
    /\ waived' = IF r = "ICPR" THEN waived \cup (v \cap arm.line) ELSE waived
    /\ UNCHANGED phase
\* ... or to memory.
ArmStoreTo(addr) ==
    /\ ArmInBlock
    /\ \E c \in {ArmMemWrite(arm, addr, 1, FALSE, 0).cpu} : ArmBecomes(arm, c)
    /\ UNCHANGED <<phase, waived>>
\* armv7m_ir_translate of the bytes b.from .. b.to - 1.
ArmTranslates(b) ==
    /\ ArmInBlock
    /\ arm' = [ArmSmcMark(arm, b.from, b.to) EXCEPT !.blocks = @ \cup {b}]
    /\ UNCHANGED <<phase, context, waived>>

\* The host moves a line, whatever the core is doing.
ArmLine(e, level) ==
    /\ level # (e \in arm.line)
    /\ arm' = ArmSetIrq(arm, e, level)
    /\ waived' = waived \ {e}
    /\ UNCHANGED <<kind, phase, context>>

ArmNext ==
    \/ ArmClears \/ ArmLooks \/ ArmInterpBegins \/ ArmInterpEnds
    \/ \E w \in ArmKind.code : ArmCodeAt(w) /\ ArmBlock(w)
    \/ \E w \in ArmKind.interp : ArmCodeAt(w) /\ ArmInterpTurn(w)
    \/ ArmAtReturn /\ ArmInterpTurn(ArmAny)
    \/ \E x \in ArmKind.control : ArmControl(x.r, x.v)
    \/ \E a \in ArmKind.stores : ArmStoreTo(a)
    \/ \E b \in ArmKind.ranges : ArmTranslates(b)
    \/ \E e \in ArmKind.lines, level \in BOOLEAN : ArmLine(e, level)

-----------------------------------------------------------------------------
(* Correctness. *)

\* An exception is invisible to what it interrupts: when one returns, the
\* registers, the flags, the stack pointer, the mode and the floating-point
\* state are those its entry found, whatever nested, chained or used the
\* floating-point unit in between (push_stack, armv7m_exc_return,
\* armv7m_fp_lazy_save).
ReturnsWhole == [][Len(context') < Len(context) => ArmContext(arm') = Head(context)]_armVars

\* Nothing deliverable is left unlooked at when a block is entered: the mark
\* is set, or the dispatcher has cleared it and is about to look, or the
\* interpreter, which needs no mark, runs.  And a line that is high has its
\* exception pending or active, unless the guest cleared it.
ArmNotMissed ==
    /\ phase = "run" /\ ArmPreempts(arm) => arm.irq_maybe
    /\ arm.line \ waived \subseteq arm.pending \cup arm.active

\* Every byte of writable memory a live block was made of is watched: a store
\* to it discards the block (smc_mark, armv7m_wrote, armv7m_smc_hit).
SmcSound == \A b \in arm.blocks : \A a \in b.from .. b.to - 1 : Writable(ArmMap, a, 1) => ArmWrote(arm, a).blocks = {}
=============================================================================
