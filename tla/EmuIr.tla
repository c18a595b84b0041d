-------------------------------- MODULE EmuIr --------------------------------
(* The intermediate representation the front ends translate guest code to: *)
(* its instructions, the builder (emu_ir.c) and what a block does when it  *)
(* is run (backend/common/interp.c, the reference the code generators are  *)
(* compared with).                                                         *)
(*                                                                         *)
(* A CPU is a record.  The representation sees the fields reg (the         *)
(* registers of the target, by number), fw (the set of condition flags),   *)
(* pc, freg (floating registers, two halves each) and retired; the rest    *)
(* is reached through the target's load, store and helpers.                *)
EXTENDS Words, SequencesExt

CONSTANTS
    MaxInsns, MaxTemps,       \* EMU_IR_MAX_INSNS, EMU_IR_MAX_TEMPS
    LoopCap,                  \* EMU_JIT_LOOP_CAP
    TargetLoad(_, _, _),      \* emu_ir_target_t: load(cpu, addr, spec)
    TargetStore(_, _, _, _),  \*                  store(cpu, addr, spec, val)
    TargetHelper(_, _, _, _), \*                  helpers[n](cpu, a, b)
    TargetZero(_, _),         \*                  reg_is_zero(n)
    TargetPc(_),              \*                  the register that is the pc, or NoReg
    NoReg,
    TargetFlags(_)            \*                  the flags the target has bits for

Flags  == {"Z", "S", "V", "C"}
NoTemp == -1
NoCpu  == [arch |-> "none"]

-----------------------------------------------------------------------------
(* Instructions and the builder. *)

\* emu_ir_insn_t.
Insn(op, aux, dst, a, b, c, imm, defs) ==
    [op |-> op, aux |-> aux, dst |-> dst, a |-> a, b |-> b, c |-> c,
     imm |-> imm, defs |-> defs, live |-> defs, uses |-> 0, dead |-> FALSE]

BitOps == {"BITOP_SET", "BITOP_CLR", "BITOP_INV", "BITOP_TST"}

\* op_writes: the operations without a result.
OpWrites(op) ==
    op \notin {"PUT", "FPUT", "STORE", "SETF", "RETIRE", "SETPC", "EXIT", "EXIT_IF",
               "NOP"} \cup BitOps

\* emu_ir_reset.
EmptyBlock(pc) ==
    [insn |-> <<>>, next |-> 0, start |-> pc, overflow |-> FALSE]

\* emu_ir_emit, emu_ir_emit3 and emu_ir_mem_if, with emu_ir_temp: the block
\* with one more instruction.  Its result, when it has one, is temp
\* next - 1; a block that is full is marked and drops the instruction.
Emit(blk, op, aux, a, b, c, imm, defs) ==
    IF Len(blk.insn) >= MaxInsns THEN [blk EXCEPT !.overflow = TRUE]
    ELSE LET full == OpWrites(op) /\ blk.next >= MaxTemps
             dst  == IF OpWrites(op) /\ ~full THEN blk.next ELSE NoTemp
         IN [blk EXCEPT !.insn = Append(@, Insn(op, aux, dst, a, b, c, imm, defs)),
                        !.next = IF dst = NoTemp THEN @ ELSE @ + 1,
                        !.overflow = @ \/ full]

-----------------------------------------------------------------------------
(* What an instruction computes. *)

\* reg_offset: where a register lives; in some targets one of them is the pc.
GetReg(cpu, n) == CASE TargetZero(cpu, n) -> 0 [] n = TargetPc(cpu) -> cpu.pc [] OTHER -> cpu.reg[n]
PutReg(cpu, n, v) ==
    CASE TargetZero(cpu, n) -> cpu
      [] n = TargetPc(cpu) -> [cpu EXCEPT !.pc = v]
      [] OTHER -> [cpu EXCEPT !.reg[n] = v]

\* eval_value_cond: a condition over two values.
ValueCond(a, b, cond) ==
    CASE cond = "EQ"  -> a = b                   [] cond = "NE"  -> a # b
      [] cond = "LT"  -> Signed(a) < Signed(b)   [] cond = "GE"  -> Signed(a) >= Signed(b)
      [] cond = "LTU" -> a < b                   [] cond = "GEU" -> a >= b
      [] cond = "LE"  -> Signed(a) <= Signed(b)  [] cond = "GT"  -> Signed(a) > Signed(b)
      [] cond = "LEU" -> a <= b                  [] cond = "GTU" -> a > b
      [] cond = "MI"  -> SignOf(Sub(a, b))       [] cond = "PL"  -> ~SignOf(Sub(a, b))
      [] cond = "VS"  -> SignOf(And(Xor(a, b), Xor(a, Sub(a, b))))
      [] cond = "VC"  -> ~SignOf(And(Xor(a, b), Xor(a, Sub(a, b))))
      [] OTHER -> TRUE

\* eval_cond: a condition over the flags.
FlagCond(fw, cond) ==
    LET z == "Z" \in fw  s == "S" \in fw  v == "V" \in fw  c == "C" \in fw IN
    CASE cond = "EQ"  -> z                  [] cond = "NE"  -> ~z
      [] cond = "LT"  -> s # v              [] cond = "GE"  -> s = v
      [] cond = "LTU" -> c                  [] cond = "GEU" -> ~c
      [] cond = "LE"  -> z \/ s # v         [] cond = "GT"  -> ~z /\ s = v
      [] cond = "LEU" -> c \/ z             [] cond = "GTU" -> ~c /\ ~z
      [] cond = "MI"  -> s                  [] cond = "PL"  -> ~s
      [] cond = "VS"  -> v                  [] cond = "VC"  -> ~v
      [] OTHER -> TRUE

\* apply_flags: the flags of a SETF from its source, of which the live ones
\* the target has are written.
NewFlags(src, x, y) ==
    LET sum == Add(x, y)  dif == Sub(x, y)
        r == CASE src = "ADD" -> sum [] src = "SUB" -> dif [] OTHER -> x
    IN {f \in Flags :
          CASE f = "Z" -> r = 0
            [] f = "S" -> SignOf(r)
            [] f = "C" -> CASE src = "ADD" -> sum < x [] src = "SUB" -> x < y
                            [] src = "SHIFT" -> y % 2 = 1 [] OTHER -> FALSE
            [] f = "V" -> CASE src = "ADD" -> SignOf(And(Not(Xor(x, y)), Xor(x, sum)))
                            [] src = "SUB" -> SignOf(And(Xor(x, y), Xor(x, dif)))
                            [] OTHER -> FALSE}

ApplyFlags(cpu, in, x, y) ==
    LET w == in.live \cap TargetFlags(cpu) IN
    [cpu EXCEPT !.fw = (@ \ w) \cup (w \cap NewFlags(in.aux, x, y))]

\* Integer operations of two values: the middle of interp_once.
Alu(op, aux, a, b, c, imm) ==
    CASE op = "CONST" -> imm                [] op = "MOV"  -> a
      [] op = "ADD"  -> Add(a, b)           [] op = "ADDI" -> Add(a, imm)
      [] op = "SUB"  -> Sub(a, b)           [] op = "NEG"  -> Sub(0, a)
      [] op = "AND"  -> And(a, b)           [] op = "ANDI" -> And(a, imm)
      [] op = "OR"   -> Or(a, b)            [] op = "ORI"  -> Or(a, imm)
      [] op = "XOR"  -> Xor(a, b)           [] op = "XORI" -> Xor(a, imm)
      [] op = "SHL"  -> Shl(a, Count(b))    [] op = "SHLI" -> Shl(a, Count(imm))
      [] op = "SHR"  -> Shr(a, Count(b))    [] op = "SHRI" -> Shr(a, Count(imm))
      [] op = "SAR"  -> Sar(a, Count(b))    [] op = "SARI" -> Sar(a, Count(imm))
      [] op = "ROTL" -> Rotl(a, Count(b))   [] op = "ROTLI" -> Rotl(a, Count(imm))
      [] op = "MUL"  -> Wrap(a * b)
      [] op = "MULHS" -> Wrap((Signed(a) * Signed(b)) \div Size)
      [] op = "MULHU" -> (a * b) \div Size
      [] op = "MAC"  -> IF aux = "SUB" THEN Wrap(c - a * b) ELSE Wrap(c + a * b)
      [] op = "DIVS" -> IF b = 0 \/ (a = SignBit /\ b = AllOnes) THEN a
                        ELSE Wrap(Quotient(Signed(a), Signed(b)))
      [] op = "DIVU" -> IF b = 0 THEN a ELSE a \div b
      [] op = "REMS" -> IF b = 0 \/ (a = SignBit /\ b = AllOnes) THEN 0
                        ELSE Wrap(Remainder(Signed(a), Signed(b)))
      [] op = "REMU" -> IF b = 0 THEN 0 ELSE a % b
      [] op = "NOT"  -> Not(a)              [] op = "BSWAP32" -> SwapBytes(a)
      [] op = "BSWAP16" -> SwapInHalves(a)  [] op = "HSWAP" -> SwapHalves(a)
      [] op = "CLZ"  -> Clz(a)              [] op = "CTZ"  -> Ctz(a)
      [] op = "POPCNT" -> Popcnt(a)         [] op = "BEXT" -> Bit(a, Count(b))
      [] op = "BSET" -> Or(a, 2 ^ Count(b))
      [] op = "BCLR" -> And(a, Not(2 ^ Count(b)))
      [] op = "BINV" -> Xor(a, 2 ^ Count(b))
      [] op = "SEXT8" -> Sext(a, ByteBits)  [] op = "SEXT16" -> Sext(a, HalfBits)
      [] op = "ZEXT8" -> Low(a, ByteBits)   [] op = "ZEXT16" -> Low(a, HalfBits)
      [] op = "SETCC" -> Bool(ValueCond(a, b, aux))

\* Floating point: the rounding of an operation is its aux.  FGET gives the
\* canonical NaN for a register that does not hold a boxed single, FPUT
\* boxes what it writes.
FpOps == {"FADD", "FSUB", "FMUL", "FDIV"}
FpUnary == {"FCVT_TO_I", "FCVT_FROM_I", "FCLASS"}
FpValue(op, aux, x, y) ==
    CASE op \in FpOps  -> FpArith(op, aux, x, y, 0)
      [] op = "FMIN"   -> NaNOr(FpMin, x, y)
      [] op = "FMAX"   -> NaNOr(FpMax, x, y)
      [] op = "FSGNJ"  -> FSgnj(aux, x, y)
      [] op = "FCMP"   -> Bool(FpCompare(aux, x, y))
      [] op = "FCVT_TO_I"   -> FpToInt(aux.signed, aux.rm, x)
      [] op = "FCVT_FROM_I" -> FpFromInt(aux.signed, aux.rm, x)
      [] OTHER -> FClass(x)
FGet(cpu, in) == IF in.aux = "BOX" /\ cpu.freg[in.imm].hi # AllOnes
                 THEN CanonicalNaN ELSE cpu.freg[in.imm].lo
FPut(cpu, in, v) ==
    [cpu EXCEPT !.freg[in.imm] = [lo |-> v, hi |-> IF in.aux = "BOX" THEN AllOnes ELSE @.hi]]

\* Every value an instruction without side effect defines.
Value(in, a, b, c, cpu) ==
    CASE in.op = "GET"     -> GetReg(cpu, in.imm)
      [] in.op = "FGET"    -> FGet(cpu, in)
      [] in.op \in FpOps \cup {"FMIN", "FMAX", "FSGNJ", "FCMP"} \cup FpUnary -> FpValue(in.op, in.aux, a, b)
      [] in.op = "GETCOND" -> Bool(FlagCond(cpu.fw, in.aux))
      [] in.op = "SELECT"  -> IF FlagCond(cpu.fw, in.aux) THEN a ELSE b
      [] OTHER             -> Alu(in.op, in.aux, a, b, c, in.imm)

-----------------------------------------------------------------------------
(* Running a block. *)

\* interp_models: what this interpreter declines to run.
Declines(blk) == \E i \in DOMAIN blk.insn : ~blk.insn[i].dead /\ blk.insn[i].op \in {"FSQRT", "FMA"}

ByteSpec == [size |-> 1, signed |-> FALSE]

\* The four bit operations: read a byte, set Z from the bit, write it back.
\* Each access can fault, and then the block is left.
BitOp(cpu, in, addr, bit) ==
    LET ld   == TargetLoad(cpu, addr, ByteSpec)
        mask == 2 ^ (bit % ByteBits)
        on   == And(ld.val, mask) # 0
        fl   == [ld.cpu EXCEPT !.fw = IF on THEN @ \ {"Z"} ELSE @ \cup {"Z"}]
        out  == CASE in.op = "BITOP_SET" -> Or(ld.val, mask)
                  [] in.op = "BITOP_CLR" -> And(ld.val, Not(mask))
                  [] OTHER -> Xor(ld.val, mask)
        st   == TargetStore(fl, addr, ByteSpec, out)
    IN IF ld.trap THEN [trap |-> TRUE, cpu |-> ld.cpu]
       ELSE IF in.op = "BITOP_TST" THEN [trap |-> FALSE, cpu |-> fl]
       ELSE [trap |-> st.trap, cpu |-> st.cpu]

\* interp_once: one instruction of it, from a CPU and the temps.  An exit to
\* the block's own start goes round again; any other leaves.
RunOne(blk, st, i) ==
    LET in == blk.insn[i]
        cpu == st.cpu
        tmp == st.tmp
        Of(t) == IF t = NoTemp THEN 0 ELSE tmp[t]
        a  == Of(in.a)
        b  == Of(in.b)
        Next(c)   == [st EXCEPT !.cpu = c]
        Def(c, v) == [st EXCEPT !.cpu = c, !.tmp[in.dst] = v]
        Left(c)   == [st EXCEPT !.how = "done", !.cpu = c]
        Exit(pc, const) == [st EXCEPT !.how = IF const /\ pc = blk.start THEN "loop" ELSE "done", !.cpu.pc = pc]
        Skipped   == in.c # NoTemp /\ tmp[in.c] = 0
    IN  CASE st.how # "on" \/ in.dead \/ in.op = "NOP" -> st
          [] in.op = "RETIRE" -> Next([cpu EXCEPT !.retired = @ + (IF in.imm # 0 THEN in.imm ELSE 1)])
          [] in.op = "PUT"  -> Next(PutReg(cpu, in.imm, a))
          [] in.op = "FPUT" -> Next(FPut(cpu, in, a))
          [] in.op = "SETF" -> Next(ApplyFlags(cpu, in, a, b))
          [] in.op = "SETPC" -> Next([cpu EXCEPT !.pc = IF in.a # NoTemp THEN a ELSE in.imm])
          [] in.op = "EXIT" -> IF in.a # NoTemp THEN Exit(a, FALSE) ELSE Exit(in.imm, TRUE)
          [] in.op = "EXIT_IF" -> IF ValueCond(a, b, in.aux) THEN Exit(in.imm, TRUE) ELSE st
          [] in.op = "LOAD" -> IF Skipped THEN Def(cpu, 0)
                               ELSE LET ld == TargetLoad(cpu, Add(a, in.imm), in.aux) IN
                                    IF ld.trap THEN Left(ld.cpu) ELSE Def(ld.cpu, ld.val)
          [] in.op = "STORE" -> IF Skipped THEN st
                                ELSE LET sr == TargetStore(cpu, Add(a, in.imm), in.aux, b) IN
                                     IF sr.trap THEN Left(sr.cpu) ELSE Next(sr.cpu)
          [] in.op \in BitOps -> LET r == BitOp(cpu, in, Add(a, in.imm), b) IN
                                 IF r.trap THEN Left(r.cpu) ELSE Next(r.cpu)
          [] in.op \in {"HELPER", "HELPER_TRAP"} ->
                 LET r == TargetHelper(in.imm, cpu, a, b) IN
                 IF in.op = "HELPER_TRAP" /\ r.val # 0 THEN Left(r.cpu) ELSE Def(r.cpu, r.val)
          [] OTHER -> Def(cpu, Value(in, a, b, Of(in.c), cpu))
RunOnce(blk, cpu) ==
    LET Step(st, i) == RunOne(blk, st, i)
    IN Loop(Step, [how |-> "on", cpu |-> cpu, tmp |-> [t \in 0 .. MaxTemps - 1 |-> 0]], Len(blk.insn))

\* emu_ir_interp: run the block, round and round while it exits to itself and
\* has not retired LoopCap instructions.
RECURSIVE Rounds(_, _)
Rounds(blk, cpu) ==
    LET r == RunOnce(blk, cpu) IN
    IF r.how = "loop" /\ r.cpu.retired < LoopCap THEN Rounds(blk, r.cpu) ELSE r.cpu

RunBlock(blk, cpu) ==
    IF blk.overflow \/ Declines(blk) THEN NoCpu ELSE Rounds(blk, [cpu EXCEPT !.retired = 0])

------------------------------------------------------------------------------
(* The optimiser of the intermediate representation and the register       *)
(* allocator (emu_ir.c).  A pass is a function of the block; the blocks    *)
(* are built one instruction at a time, as the translators build them, and *)
(* at every point the block so far is optimised, allocated and run.        *)

CONSTANTS
    GuestRegs,      \* registers below IR_MAX_GUEST_REGS
    CanLower(_, _)  \* emu_ir_can_lower(op, aux) of the code generator

Operands(in) == {in.a, in.b, in.c} \ {NoTemp}

-----------------------------------------------------------------------------
(* Passes, in the order emu_ir_optimise runs them. *)

\* op_reads_flags: who may look at the flags, a faulting access included.
Observers == {"LOAD", "STORE", "HELPER", "HELPER_TRAP"} \cup BitOps
OpReadsFlags_NotFaults(op) == op \in {"GETCOND", "SELECT", "EXIT_IF"}
OpReadsFlags(op) == op \in {"GETCOND", "SELECT", "EXIT_IF"} \cup Observers

\* pass_dead_flags: backwards, a SETF none of whose flags is read is dead.
DeadFlags(blk, liveOut) ==
    LET Step(acc, i) ==
          LET in   == acc.insn[i]
              live == in.defs \cap acc.live
              dead == in.op = "SETF" /\ live = {}
          IN IF in.dead THEN acc
             ELSE IF in.defs # {} /\ dead
                  THEN [acc EXCEPT !.insn[i].live = {}, !.insn[i].dead = TRUE]
             ELSE [insn |-> [acc.insn EXCEPT ![i].live = IF in.defs # {} THEN live ELSE @],
                   live |-> (acc.live \ in.defs) \cup (IF OpReadsFlags(in.op) THEN Flags ELSE {})]
    IN [blk EXCEPT !.insn = LoopDown(Step, [insn |-> @, live |-> liveOut], Len(@)).insn]

\* pass_reg_traffic: a register read again is the value it has already, and
\* copies are seen through.  A helper may write any register, SETPC the pc.
Forgets(cur, in, pcr) ==
    CASE in.op \in {"HELPER", "HELPER_TRAP"} -> [r \in GuestRegs |-> NoTemp]
      [] in.op = "SETPC" -> [r \in GuestRegs |-> IF r = pcr THEN NoTemp ELSE cur[r]]
      [] OTHER -> cur

RegTraffic(blk, cpu) ==
    LET Step(acc, i) ==
          LET Copy(t) == IF t = NoTemp THEN NoTemp ELSE acc.copy[t]
              old  == acc.insn[i]
              in   == [old EXCEPT !.a = Copy(@), !.b = Copy(@), !.c = Copy(@)]
              real == in.imm \in GuestRegs /\ ~TargetZero(cpu, in.imm)
              again == in.op = "GET" /\ real /\ acc.cur[in.imm] # NoTemp
              new  == IF again THEN [in EXCEPT !.op = "MOV", !.a = acc.cur[in.imm]] ELSE in
          IN IF old.dead THEN acc
             ELSE [insn |-> [acc.insn EXCEPT ![i] = new],
                   cur  |-> CASE in.op = "GET" /\ real /\ ~again -> [acc.cur EXCEPT ![in.imm] = in.dst]
                              [] in.op = "PUT" /\ real -> [acc.cur EXCEPT ![in.imm] = in.a]
                              [] OTHER -> Forgets(acc.cur, in, TargetPc(cpu)),
                   copy |-> IF new.op = "MOV" THEN [acc.copy EXCEPT ![new.dst] = new.a] ELSE acc.copy]
    IN [blk EXCEPT !.insn = Loop(Step, [insn |-> @, cur |-> [r \in GuestRegs |-> NoTemp],
                                        copy |-> [t \in 0 .. MaxTemps - 1 |-> t]], Len(@)).insn]

\* How often each temp is used, and where it is defined.
Temps(insn) == {insn[i].dst : i \in DOMAIN insn} \ {NoTemp}
Uses(insn) ==
    [t \in Temps(insn) |->
        LET As(o) == Cardinality({i \in DOMAIN insn : insn[i][o] = t /\ ~insn[i].dead})
        IN As("a") + As("b") + As("c")]
DefOf(insn) ==
    [t \in Temps(insn) |->
        LET D == {i \in DOMAIN insn : ~insn[i].dead /\ insn[i].dst = t} IN
        IF D = {} THEN 0 ELSE CHOOSE i \in D : TRUE]

\* imm_form_of, op_commutes and shift_imm_ok.
ImmForm == [ADD |-> "ADDI", AND |-> "ANDI", OR |-> "ORI", XOR |-> "XORI",
            SHL |-> "SHLI", SHR |-> "SHRI", SAR |-> "SARI", ROTL |-> "ROTLI"]
Commutes(op) == op \in {"ADD", "AND", "OR", "XOR"}
ShiftImmOk(op, imm) == op \in {"SHLI", "SHRI", "SARI", "ROTLI"} => imm < Bits

\* pass_fuse, part one: a constant operand used once becomes an immediate.
FoldConst(acc, def, i) ==
    LET in == acc.insn[i]
        Once(t) == t # NoTemp /\ acc.uses[t] = 1 /\ def[t] # 0 /\ acc.insn[def[t]].op = "CONST"
        fromB == Once(in.b)
        fromA == ~fromB /\ Commutes(in.op) /\ Once(in.a)
        src == IF fromB THEN in.b ELSE in.a
        k   == acc.insn[def[src]].imm
        op  == ImmForm[in.op]
    IN IF /\ in.op \in DOMAIN ImmForm
          /\ fromA \/ fromB
          /\ ShiftImmOk(op, k)
          /\ CanLower(op, in.aux)
       THEN [insn |-> [acc.insn EXCEPT
                         ![i] = [in EXCEPT !.op = op, !.imm = k, !.b = NoTemp,
                                           !.a = IF fromA THEN in.b ELSE @],
                         ![def[src]].dead = TRUE],
             uses |-> [acc.uses EXCEPT ![src] = 0]]
       ELSE acc

\* Part two: an address that is a sum used once moves into the access.
FoldAddress(acc, def, i) ==
    LET in == acc.insn[i]
        src == acc.insn[def[in.a]]
    IN IF /\ in.op \in {"LOAD", "STORE"}
          /\ in.a # NoTemp /\ acc.uses[in.a] = 1 /\ def[in.a] # 0
          /\ ~src.dead /\ src.op = "ADDI" /\ src.a # NoTemp
       THEN [acc EXCEPT !.insn[i] = [@ EXCEPT !.imm = Add(@, src.imm), !.a = src.a],
                        !.insn[def[in.a]].dead = TRUE]
       ELSE acc

\* Part three: an operation with a neutral operand is a copy or a constant.
Identity(acc, i) ==
    LET in == acc.insn[i] IN
    CASE \/ in.op \in {"ADDI", "ORI", "XORI", "SHLI", "SHRI", "SARI", "ROTLI"} /\ in.imm = 0
         \/ in.op = "ANDI" /\ in.imm = AllOnes -> [acc EXCEPT !.insn[i].op = "MOV"]
      [] in.op = "ANDI" /\ in.imm = 0 -> [acc EXCEPT !.insn[i] = [@ EXCEPT !.op = "CONST", !.a = NoTemp]]
      [] OTHER -> acc

Fuse(blk) ==
    LET def == DefOf(blk.insn)
        Step(acc, i) == IF acc.insn[i].dead THEN acc
                        ELSE Identity(FoldAddress(FoldConst(acc, def, i), def, i), i)
    IN [blk EXCEPT !.insn = Loop(Step, [insn |-> @, uses |-> Uses(@)], Len(@)).insn]

\* op_observes_state: where the registers and the pc must be in the CPU.
OpObservesState(op) == op \in {"EXIT", "EXIT_IF"} \cup Observers

\* pass_dead_puts: backwards, a PUT or SETPC overwritten before anyone looks.
DeadPuts(blk, cpu) ==
    LET Step(acc, i) ==
          LET in == acc.insn[i]
              Kill == [acc EXCEPT !.insn[i].dead = TRUE]
          IN CASE in.dead -> acc
               [] in.op = "PUT" -> IF in.imm \in acc.seen THEN Kill
                                   ELSE [acc EXCEPT !.seen = @ \cup ({in.imm} \cap GuestRegs)]
               [] in.op = "SETPC" -> IF acc.pc THEN Kill ELSE [acc EXCEPT !.pc = TRUE]
               [] in.op = "GET" /\ in.imm = TargetPc(cpu) -> [acc EXCEPT !.pc = FALSE]
               [] OpObservesState(in.op) ->
                    [acc EXCEPT !.seen = {}, !.pc = in.op = "EXIT" \/ (in.op = "EXIT_IF" /\ @)]
               [] OTHER -> acc
    IN [blk EXCEPT !.insn = LoopDown(Step, [insn |-> @, seen |-> {}, pc |-> FALSE], Len(@)).insn]

\* op_is_pure: what may go when its value is not used.  A load may fault and
\* floating arithmetic raises flags.
PureOps ==
    {"GET", "CONST", "MOV", "ADD", "SUB", "AND", "OR", "XOR", "SHL", "SHR", "SAR", "ROTL",
     "MUL", "MULHS", "MULHU", "DIVS", "DIVU", "REMS", "REMU", "MAC", "ADDI", "ANDI", "ORI",
     "XORI", "SHLI", "SHRI", "SARI", "ROTLI", "NEG", "NOT", "BSWAP32", "BSWAP16", "HSWAP",
     "CLZ", "CTZ", "POPCNT", "BEXT", "BSET", "BCLR", "BINV", "SEXT8", "SEXT16", "ZEXT8",
     "ZEXT16", "GETCOND", "SETCC", "SELECT", "FGET", "FSGNJ", "FCLASS"}
OpIsPure(op) == op \in PureOps

DeadValues(blk) ==
    LET Step(acc, i) ==
          LET in == acc.insn[i] IN
          IF in.dead THEN acc
          ELSE IF OpIsPure(in.op) /\ in.dst \notin acc.used THEN [acc EXCEPT !.insn[i].dead = TRUE]
          ELSE [acc EXCEPT !.used = @ \cup Operands(in)]
    IN [blk EXCEPT !.insn = LoopDown(Step, [insn |-> @, used |-> {}], Len(@)).insn]

\* pass_mac: a product used once by a sum, or subtracted.
Mac(blk) ==
    LET def  == DefOf(blk.insn)
        uses == Uses(blk.insn)
        Step(insn, i) ==
          LET in == insn[i]
              Product(t) == /\ t # NoTemp /\ uses[t] = 1 /\ def[t] # 0
                            /\ insn[def[t]].op = "MUL" /\ ~insn[def[t]].dead
              fromB == Product(in.b)
              fromA == ~fromB /\ in.op = "ADD" /\ Product(in.a)
              mul   == def[IF fromB THEN in.b ELSE in.a]
              aux   == IF in.op = "SUB" THEN "SUB" ELSE "none"
          IN IF /\ ~in.dead /\ in.op \in {"ADD", "SUB"}
                /\ fromA \/ fromB
                /\ CanLower("MAC", aux)
             THEN [insn EXCEPT ![i] = [in EXCEPT !.op = "MAC", !.aux = aux,
                                                 !.a = insn[mul].a, !.b = insn[mul].b,
                                                 !.c = IF fromB THEN in.a ELSE in.b],
                               ![mul].dead = TRUE]
             ELSE insn
    IN [blk EXCEPT !.insn = Loop(Step, @, Len(@))]

\* pass_merge_retire: counts add up until something can see the count.
MergeRetire(blk) ==
    LET Step(acc, i) ==
          LET in == acc.insn[i]
              n  == IF in.imm # 0 THEN in.imm ELSE 1
          IN CASE in.dead -> acc
               [] in.op = "RETIRE" ->
                    [insn |-> IF acc.carry = 0 THEN [acc.insn EXCEPT ![i].imm = n]
                              ELSE [acc.insn EXCEPT ![i].imm = n + acc.insn[acc.carry].imm,
                                                    ![acc.carry].dead = TRUE],
                     carry |-> i]
               [] OpObservesState(in.op) -> [acc EXCEPT !.carry = 0]
               [] OTHER -> acc
    IN [blk EXCEPT !.insn = Loop(Step, [insn |-> @, carry |-> 0], Len(@)).insn]

\* pass_count_uses.
CountUses(blk) ==
    LET uses == Uses(blk.insn) IN
    [blk EXCEPT !.insn = [i \in DOMAIN @ |->
        [@[i] EXCEPT !.uses = IF blk.insn[i].dead \/ blk.insn[i].dst = NoTemp THEN 0
                              ELSE uses[blk.insn[i].dst]]]]

\* emu_ir_optimise: with every flag live at the end, as emu_ir_jit.c asks.
Optimise(blk, cpu) ==
    IF blk.overflow THEN blk
    ELSE LET Traffic(b) == RegTraffic(b, cpu)
             Puts(b) == DeadPuts(b, cpu)
             fused == Given(Given(DeadFlags(blk, Flags), Traffic), Fuse)
         IN Given(Given(Given(Given(Given(fused, Puts), DeadValues), Mac), MergeRetire), CountUses)

-----------------------------------------------------------------------------
(* emu_ir_regalloc. *)

\* The last use of a temp.
LastUse(insn) ==
    [t \in 0 .. MaxTemps - 1 |->
        LET U == {i \in DOMAIN insn : ~insn[i].dead /\ t \in Operands(insn[i])} IN
        IF U = {} THEN 0 ELSE CHOOSE i \in U : \A j \in U : j <= i]

\* The next instruction that is still there; a value it alone uses needs no
\* register.
NextLive(insn, i) ==
    LET L == {j \in i + 1 .. Len(insn) : ~insn[j].dead} IN
    IF L = {} THEN Len(insn) + 1 ELSE CHOOSE j \in L : \A k \in L : j <= k

\* A register is free when the value in it was last used before here.
Expired_Early(last, u, d) == last[u] <= d + 1
Expired(last, u, d) == last[u] < d

\* Linear scan in order of definition: a free register, else the one whose
\* value is needed furthest away, if that is further than this one's.
Regalloc(blk, nregs) ==
    LET insn == blk.insn
        def  == DefOf(insn)
        last == LastUse(insn)
        Step(acc, n) ==
          LET t  == n - 1
              d  == def[t]
              in == [r \in 0 .. nregs - 1 |->
                       IF acc.in[r] # NoTemp /\ Expired(last, acc.in[r], d) THEN NoTemp ELSE acc.in[r]]
              Free == {r \in DOMAIN in : in[r] = NoTemp}
              Low1(R) == CHOOSE r \in R : \A q \in R : r <= q
              Far  == Low1({r \in DOMAIN in : \A q \in DOMAIN in : last[in[q]] <= last[in[r]]})
          IN IF \/ d = 0 \/ last[t] <= d
                \/ insn[d].uses = 1 /\ NextLive(insn, d) = last[t]
             THEN acc
             ELSE IF Free # {}
                  THEN [in |-> [in EXCEPT ![Low1(Free)] = t], assign |-> [acc.assign EXCEPT ![t] = Low1(Free)]]
             ELSE IF last[in[Far]] <= last[t] THEN [acc EXCEPT !.in = in]
             ELSE [in |-> [in EXCEPT ![Far] = t],
                   assign |-> [acc.assign EXCEPT ![in[Far]] = NoReg, ![t] = Far]]
    IN IF nregs = 0 \/ blk.overflow THEN [t \in 0 .. MaxTemps - 1 |-> NoReg]
       ELSE
       Loop(Step, [in |-> [r \in 0 .. nregs - 1 |-> NoTemp],
                      assign |-> [t \in 0 .. MaxTemps - 1 |-> NoReg]], blk.next).assign

------------------------------------------------------------------------------
(* How a front end writes a block: the code of one guest instruction is a  *)
(* list of forms, whose operands are positions in the list (0 for none).   *)
Form(op, aux, a, b, imm) == [op |-> op, aux |-> aux, a |-> a, b |-> b, c |-> 0, imm |-> imm, defs |-> {}]
GetF(r)            == Form("GET", "none", 0, 0, r)
PutF(r, x)         == Form("PUT", "none", x, 0, r)
ConstF(k)          == Form("CONST", "none", 0, 0, k)
Op1(op, x)         == Form(op, "none", x, 0, 0)
Op2(op, x, y)      == Form(op, "none", x, y, 0)
OpI(op, x, k)      == Form(op, "none", x, 0, k)
SetccF(cond, x, y) == Form("SETCC", cond, x, y, 0)
LoadF(spec, x, k)  == Form("LOAD", spec, x, 0, k)
StoreF(spec, x, k, y) == Form("STORE", spec, x, y, k)
SetPcF(k)          == Form("SETPC", "none", 0, 0, k)
ExitF(k)           == Form("EXIT", "none", 0, 0, k)
ExitTF(x)          == Form("EXIT", "none", x, 0, 0)
ExitIfF(cond, x, y, k) == Form("EXIT_IF", cond, x, y, k)
RetireF            == Form("RETIRE", "none", 0, 0, 0)
SetfF(src, x, y, defs) == [Form("SETF", src, x, y, 0) EXCEPT !.defs = defs]
CondF(cond)        == Form("GETCOND", cond, 0, 0, 0)
SelectF(cond, x, y) == Form("SELECT", cond, x, y, 0)
IfF(form, p)       == [form EXCEPT !.c = p]     \* emu_ir_mem_if
FGetF(aux, r)      == Form("FGET", aux, 0, 0, r)
FPutF(aux, r, x)   == Form("FPUT", aux, x, 0, r)
\* A helper is called with a constant that stands for the instruction; the
\* two are one name here.
HelperF(name, in, x, y) == Form("HELPER", "none", x, y, <<name, in>>)
TrapF(name, in)    == Form("HELPER_TRAP", "none", 0, 0, <<name, in>>)
MemSpec(size, signed) == [size |-> size, signed |-> signed]
\* emu_ir_fastmem_t: a window of guest RAM a block may use without a call
\* (size 0 for none), and the guard in front of an access (emit_window_guard).
NoWindow == [base |-> 0, size |-> 0]
WindowHit(win, addr, size) == win.size >= size /\ Sub(addr, win.base) <= win.size - size /\ addr % size = 0

EmitAll(block, forms) ==
    LET Step(acc, i) ==
          LET f == forms[i]
              Of(k) == IF k = 0 THEN NoTemp ELSE acc.at[k]
              new == Emit(acc.block, f.op, f.aux, Of(f.a), Of(f.b), Of(f.c), f.imm, f.defs)
          IN [block |-> new, at |-> Append(acc.at, IF OpWrites(f.op) THEN new.next - 1 ELSE NoTemp)]
    IN Loop(Step, [block |-> block, at |-> <<>>], Len(forms)).block

\* What lowering one instruction answers: its forms; whether the block ends
\* there; whether the forms already count it as retired.
Declined      == [ok |-> FALSE, forms |-> <<>>, ends |-> FALSE, counted |-> FALSE]
Lowered(fs)   == [ok |-> TRUE, forms |-> fs, ends |-> FALSE, counted |-> FALSE]
Counted(fs)   == [ok |-> TRUE, forms |-> fs, ends |-> FALSE, counted |-> TRUE]
Ending(fs)    == [ok |-> TRUE, forms |-> fs, ends |-> TRUE, counted |-> TRUE]

-----------------------------------------------------------------------------
(* The same code written as expressions.  A value a front end names and    *)
(* uses twice is one expression here, and one temp: placing an expression  *)
(* whose form is in the list already refers to that.                       *)
Tree(op, aux, args, imm, defs) == [op |-> op, aux |-> aux, args |-> args, imm |-> imm, defs |-> defs]
NoTree          == Tree("NONE", "none", <<>>, 0, {})
KX(k)           == Tree("CONST", "none", <<>>, k, {})
GX(r)           == Tree("GET", "none", <<>>, r, {})
PX(r, x)        == Tree("PUT", "none", <<x>>, r, {})
UX(op, x)       == Tree(op, "none", <<x>>, 0, {})
BX(op, x, y)    == Tree(op, "none", <<x, y>>, 0, {})
IX(op, x, k)    == Tree(op, "none", <<x>>, k, {})
CX(cond, x, y)  == Tree("SETCC", cond, <<x, y>>, 0, {})
LdX(spec, x, k) == Tree("LOAD", spec, <<x>>, k, {})
StX(spec, x, k, y) == Tree("STORE", spec, <<x, y>>, k, {})
SetfX(src, x, y, defs) == Tree("SETF", src, <<x, y>>, 0, defs)
CondX(cond)     == Tree("GETCOND", cond, <<>>, 0, {})
SelX(cond, x, y) == Tree("SELECT", cond, <<x, y>>, 0, {})
RetireX         == Tree("RETIRE", "none", <<>>, 0, {})
SetPcX(k)       == Tree("SETPC", "none", <<>>, k, {})
ExitX(k)        == Tree("EXIT", "none", <<>>, k, {})
ExitToX(x)      == Tree("EXIT", "none", <<x>>, 0, {})
ExitIfX(cond, x, y, k) == Tree("EXIT_IF", cond, <<x, y>>, k, {})
HelperX(name, in, x, y) == Tree("HELPER", "none", <<x, y>>, <<name, in>>, {})
TrapX(name, in) == Tree("HELPER_TRAP", "none", <<>>, <<name, in>>, {})
WhenX(t, x)     == [t EXCEPT !.args = IF Len(@) = 1 THEN <<@[1], NoTree, x>> ELSE <<@[1], @[2], x>>]
\* Nothing is emitted for an operation that does nothing.
AndK(x, k) == IF k = AllOnes THEN x ELSE BX("AND", x, KX(k))
XorK(x, k) == BX("XOR", x, KX(k))
AddK(x, k) == IF k = 0 THEN x ELSE BX("ADD", x, KX(k))
ShlK(x, n) == IF n = 0 THEN x ELSE IX("SHLI", x, n)
ShrK(x, n) == IF n = 0 THEN x ELSE IX("SHRI", x, n)
Inv(x)     == UX("NOT", x)

RECURSIVE Place(_, _)
Place(fs, t) ==
    LET Arg(gs, i) == IF i > Len(t.args) THEN [fs |-> gs, at |-> 0] ELSE Place(gs, t.args[i])
        Put(a, b, c) ==
          LET form == [op |-> t.op, aux |-> t.aux, a |-> a.at, b |-> b.at, c |-> c.at, imm |-> t.imm, defs |-> t.defs]
              same == {i \in DOMAIN c.fs : c.fs[i].op = t.op /\ c.fs[i] = form}
          IN IF OpWrites(t.op) /\ same # {} THEN [fs |-> c.fs, at |-> CHOOSE i \in same : TRUE]
             ELSE [fs |-> Append(c.fs, form), at |-> Len(c.fs) + 1]
    IN IF t.op = "NONE" THEN [fs |-> fs, at |-> 0]
       ELSE Given(Arg(fs, 1), LAMBDA a : Given(Arg(a.fs, 2), LAMBDA b : Given(Arg(b.fs, 3), LAMBDA c : Put(a, b, c))))
Flat(ts) == LET One(acc, i) == Given(acc, LAMBDA fs : Place(fs, ts[i])).fs IN Loop(One, <<>>, Len(ts))
==============================================================================
