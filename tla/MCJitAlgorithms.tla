--------------------------- MODULE MCJitAlgorithms ---------------------------
(* Blocks as the translators build them, one instruction after another,    *)
(* with nothing after an exit; at every point the block so far is          *)
(* optimised, given registers and run.                                     *)
EXTENDS EmuIr, JitRetention

CONSTANTS
    Vocabularies,   \* each a set of instruction forms [op, aux, n, imm, defs]
    Prelude,        \* forms every block starts with
    Cpus,           \* the states a block is run from
    MaxLen,         \* bound: instructions of a block
    Reach,          \* bound: operands are among this many latest temps
    HostRegs        \* numbers of host registers to allocate

VARIABLES vocab, blk,
          opt             \* the block after emu_ir_optimise

vars == <<vocab, blk, opt>>

\* Operand lists for a form with n operands: recent temps, two of them with
\* the latest as one.
Latest == blk.next - 1
Recent == {t \in Latest - Reach + 1 .. Latest : t >= 0}
Args(n) == CASE n = 0 -> {<<NoTemp, NoTemp>>}
             [] n = 1 -> {<<x, NoTemp>> : x \in Recent}
             [] n = 2 -> {<<x, y>> \in Recent \X Recent : Latest \in {x, y}}

Put(b, f, s) == Emit(b, f.op, f.aux, s[1], s[2], NoTemp, f.imm, f.defs)

Optimised(b) == Optimise(b, CHOOSE c \in Cpus : TRUE)

Init ==
    /\ vocab \in Vocabularies
    /\ LET Step(b, i) == Put(b, Prelude[i], <<NoTemp, NoTemp>>) IN
       blk = Loop(Step, EmptyBlock(0), Len(Prelude))
    /\ opt = Optimised(blk)

Ended == blk.overflow \/ Len(blk.insn) = MaxLen \/ blk.insn[Len(blk.insn)].op = "EXIT"

EmitOne(f, s) == ~Ended /\ blk' = Put(blk, f, s) /\ opt' = Optimised(blk') /\ UNCHANGED vocab
Done == Ended /\ UNCHANGED vars

Next == (\E f \in vocab : \E s \in Args(f.n) : EmitOne(f, s)) \/ Done

Spec == Init /\ [][Next]_vars

-----------------------------------------------------------------------------
\* The optimised block leaves the machine exactly as the block written by the
\* translator does: registers, pc, flags, memory and the count of retired
\* instructions, on every path, an access that faults in the middle included
\* (emu_ir_optimise).
OptimiserSound == \A c \in Cpus : RunBlock(opt, c) = RunBlock(blk, c)

\* A value is in its register from its definition to its last use: no two
\* values share a register while both are needed, with any number of host
\* registers (emu_ir_regalloc).
RegistersNotShared ==
    \A n \in HostRegs :
       LET assign == Regalloc(opt, n)
           def == DefOf(opt.insn)
           last == LastUse(opt.insn)
       IN \A t, u \in 0 .. blk.next - 1 :
             (t < u /\ assign[t] # NoReg /\ assign[t] = assign[u]) => last[t] < def[u]

------------------------------------------------------------------------------
(* Words of four bits, a register that is the pc, one that is zero, RAM at *)
(* the low addresses; any other access traps.                              *)
R0 == 0     \* reads as zero
R1 == 1
R2 == 2
RPc == 3

Ram == 0 .. 1
Trap(cpu, addr) == [cpu EXCEPT !.trap = <<addr>>]
MCLoad(cpu, addr, spec) ==
    IF addr \in Ram THEN [trap |-> FALSE, cpu |-> cpu, val |-> cpu.mem[addr]]
    ELSE [trap |-> TRUE, cpu |-> Trap(cpu, addr), val |-> 0]
MCStore(cpu, addr, spec, val) ==
    IF addr \in Ram THEN [trap |-> FALSE, cpu |-> [cpu EXCEPT !.mem[addr] = val]]
    ELSE [trap |-> TRUE, cpu |-> Trap(cpu, addr)]
\* A helper that looks at the state and changes a register and a flag.
MCHelper(n, cpu, a, b) ==
    [cpu |-> [cpu EXCEPT !.reg[R1] = Add(@, a), !.fw = IF "C" \in @ THEN @ \ {"C"} ELSE @ \cup {"C"}],
     val |-> (cpu.reg[R1] + cpu.pc + cpu.retired) % 2]
MCZero(cpu, n) == n = R0
MCPc(cpu) == RPc
MCFlags(cpu) == Flags
MCCanLower(op, aux) == TRUE

F(op, aux, n, imm) == [op |-> op, aux |-> aux, n |-> n, imm |-> imm, defs |-> {}]
SetF(aux, defs) == [op |-> "SETF", aux |-> aux, n |-> 2, imm |-> 0, defs |-> defs]
Word0 == [size |-> 4, signed |-> FALSE]
MCLoadF == F("LOAD", Word0, 1, 0)
MCStoreF == F("STORE", Word0, 2, 1)

MCPrelude == <<F("RETIRE", "none", 0, 0), F("GET", "none", 0, R1), F("GET", "none", 0, R2)>>
N(op, n, imm) == F(op, "none", n, imm)
BitF(op, imm) == [N(op, 2, imm) EXCEPT !.defs = {"Z"}]
MCVocabularies == {
    {SetF("SUB", Flags), SetF("ADD", {"Z"}), F("GETCOND", "LT", 0, 0), MCLoadF, F("EXIT_IF", "EQ", 2, 5)},
    {SetF("SHIFT", Flags), F("SELECT", "EQ", 2, 0), N("PUT", 1, R2), BitF("BITOP_SET", 0), BitF("BITOP_TST", 1)},
    {N("GET", 0, R1), N("PUT", 1, R1), N("HELPER", 2, 0), N("MOV", 1, 0), F("EXIT_IF", "LTU", 2, 0)},
    {N("GET", 0, R0), N("PUT", 1, R0), N("PUT", 1, R1), N("GET", 0, R1), MCStoreF},
    {N("SETPC", 0, 6), N("SETPC", 1, 0), N("GET", 0, RPc), N("PUT", 1, RPc), N("EXIT", 0, 9), F("EXIT_IF", "NE", 2, 5)},
    {N("SETPC", 0, 6), N("RETIRE", 0, 0), N("HELPER_TRAP", 2, 0), MCLoadF, N("EXIT", 0, 0)},
    {N("RETIRE", 0, 0), N("RETIRE", 0, 2), N("SETPC", 0, 7), N("PUT", 1, R1), F("EXIT_IF", "NE", 2, 0)},
    {N("CONST", 0, 15), N("CONST", 0, 0), N("ADD", 2, 0), N("AND", 2, 0), MCLoadF},
    {N("CONST", 0, 3), N("CONST", 0, 5), N("SHL", 2, 0), N("PUT", 1, R2)},
    {N("ADDI", 1, 1), N("ROTLI", 1, 0), N("ANDI", 1, 0), MCStoreF, F("SETCC", "GT", 2, 0)},
    {N("MUL", 2, 0), N("ADD", 2, 0), N("SUB", 2, 0), N("PUT", 1, R1)}}

Cpu(x, y, fw) == [arch |-> "any", reg |-> [r \in 0 .. 2 |-> <<0, x, y>>[r + 1]], fw |-> fw, pc |-> 4,
                  freg |-> <<>>, retired |-> 0, mem |-> [a \in Ram |-> 9 + a], trap |-> <<>>]
MCCpus == {Cpu(0, 1, {}), Cpu(13, 7, {"Z", "S"})}

------------------------------------------------------------------------------
(* The two algorithms of the JIT that decide rather than translate: what a *)
(* full cache keeps, on a loop of three blocks of which any two fit, built *)
(* in any order so that heat may have to travel against the table's; and   *)
(* the optimiser and register allocator above.  One of the two in a *)
(* behaviour.                                                              *)

LoopPcs == 1 .. 3
LoopTarget == [pc \in LoopPcs |-> CASE pc = 1 -> {3} [] pc = 2 -> {1} [] OTHER -> {2, 3}]
LoopSize == [pc \in LoopPcs |-> IF pc = 3 THEN 7 ELSE 6]

NoBlocks == vocab = {} /\ blk = EmptyBlock(0) /\ opt = blk
MCInit == RetentionInit /\ (Init \/ NoBlocks)
MCNext == (vocab # {} /\ Next /\ UNCHANGED retentionVars) \/ (vocab = {} /\ RetentionNext /\ UNCHANGED vars)
==============================================================================
