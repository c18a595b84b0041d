-------------------------------- MODULE PpcIr --------------------------------
(* The e200 translator (ppc_ir.c): the expressions of each instruction it  *)
(* lowers, the helpers, and the block it makes of a run of instructions.    *)
EXTENDS PpcExec, EmuIr

CONSTANTS PpcMaxBlock, PpcHeadroom    \* PPC_MAX_BLOCK_INSNS, PPC_IR_HEADROOM (and PPC_TEMP_HEADROOM)

\* ppc_ir_load, ppc_ir_store: words travel in the byte order of memory, and
\* a fault is raised before the block is left.
PpcIrLoad(c, addr, spec) ==
    LET r == PpcLoad(c, addr, spec.size, FALSE) IN
    IF r.exc # PpcNoFault THEN [trap |-> TRUE, cpu |-> PpcRaise(r.c, r.exc, c.pc, {}), val |-> 0]
    ELSE [trap |-> FALSE, cpu |-> r.c, val |-> SwapOf(r.val, spec.size)]
PpcIrStore(c, addr, spec, val) ==
    LET r == PpcStore(c, addr, spec.size, SwapOf(val, spec.size)) IN
    IF r.exc # PpcNoFault THEN [trap |-> TRUE, cpu |-> PpcRaise(r.c, r.exc, c.pc, {"ST"})]
    ELSE [trap |-> FALSE, cpu |-> r.c]
\* ppc_ir_step, ppc_ir_efs: 1 when the instruction trapped.
PpcHelper(name, c, d) ==
    LET r == IF name = "EFS" THEN PpcEfsStep(c, d) ELSE PpcExecute(c, d)
    IN [cpu |-> r.c, val |-> Bool(~r.ok)]

\* base_of.
PpcBaseX(d) == IF d.ra0 /\ d.ra = 0 THEN KX(0) ELSE GX(d.ra)

\* so01, ca01, put_ca, crbit, put_crf, cmp4, rc0.
PpcSoX == ShrK(GX(PpcXER), Bits - 1)
PpcCaX == AndK(ShrK(GX(PpcXER), Bits - 3), 1)
PpcPutCa(x) == PX(PpcXER, BX("OR", AndK(GX(PpcXER), Not(2^(Bits - 3))), ShlK(x, Bits - 3)))
PpcCrBitX(bi) == AndK(ShrK(GX(PpcCR), Bits - 1 - bi), 1)
PpcPutCrf(f, x) ==
    LET sh == 4 * (PpcFields - 1 - f)
    IN PX(PpcCR, BX("OR", AndK(GX(PpcCR), Not(15 * 2^sh)), ShlK(x, sh)))
PpcCmp4(x, y, sign) ==
    BX("OR", BX("OR", ShlK(CX(IF sign THEN "LT" ELSE "LTU", x, y), 3), ShlK(CX(IF sign THEN "GT" ELSE "GTU", x, y), 2)),
       BX("OR", ShlK(CX("EQ", x, y), 1), PpcSoX))
PpcRc0(d, x) == IF d.rc THEN <<PpcPutCrf(0, PpcCmp4(x, KX(0), TRUE))>> ELSE <<>>

\* add3: the sum and its carry.
PpcAdd3X(x, y, cin) ==
    LET t1 == BX("ADD", x, y)
        r  == BX("ADD", t1, cin)
    IN [res |-> r, ca |-> BX("OR", CX("LTU", t1, x), CX("LTU", r, t1))]
PpcRotlK(x, n) ==
    IF n % Bits = 0 THEN x
    ELSE IF CanLower("ROTLI", "none") THEN IX("ROTLI", x, n)
    ELSE BX("OR", ShlK(x, n), ShrK(x, Bits - n))

\* bo_cond: what it emits on the way, and the condition (NoTree for always).
PpcBoCond(bo, bi) ==
    LET ctr  == BX("SUB", GX(PpcCTR), KX(1))
        bit  == IF Bit(bo, 3) = 0 THEN XorK(PpcCrBitX(bi), 1) ELSE PpcCrBitX(bi)
        left == CX(IF Bit(bo, 1) = 1 THEN "EQ" ELSE "NE", ctr, KX(0))
        counts == Bit(bo, 2) = 0
        tests  == Bit(bo, 4) = 0
    IN [ts |-> IF counts THEN <<PX(PpcCTR, ctr)>> ELSE <<>>,
        cond |-> CASE counts /\ tests -> BX("AND", left, bit) [] counts -> left [] tests -> bit [] OTHER -> NoTree]

------------------------------------------------------------------------------
\* lower_arith; the division is made safe and its result masked.
PpcDivX_NoMask(sgn, n, m) == BX(IF sgn THEN "DIVS" ELSE "DIVU", n, m)
PpcDivX(sgn, n, m) ==
    LET zero == CX("EQ", m, KX(0))
        bad  == IF ~sgn THEN zero
                ELSE BX("OR", zero, BX("AND", CX("EQ", n, KX(SignBit)), CX("EQ", m, KX(AllOnes))))
        keep == BX("SUB", bad, KX(1))
    IN BX("AND", BX(IF sgn THEN "DIVS" ELSE "DIVU", n, BX("OR", BX("AND", m, keep), bad)), keep)
PpcArithX(d) ==
    LET x == GX(d.ra)
        y == GX(d.rb)
        k == KX(d.imm)
        Plain(r) == [res |-> r, ca |-> NoTree]
        Sum(a, b) == LET r == BX("ADD", a, b) IN [res |-> r, ca |-> CX("LTU", r, a)]
        Less(a, b) == [res |-> BX("SUB", a, b), ca |-> CX("GEU", a, b)]
    IN CASE d.sem = "ADD"    -> Plain(BX("ADD", x, y))
         [] d.sem = "ADDC"   -> Sum(x, y)
         [] d.sem = "ADDE"   -> PpcAdd3X(x, y, PpcCaX)
         [] d.sem = "ADDME"  -> PpcAdd3X(x, KX(AllOnes), PpcCaX)
         [] d.sem = "ADDZE"  -> Sum(x, PpcCaX)
         [] d.sem = "SUBF"   -> Plain(BX("SUB", y, x))
         [] d.sem = "SUBFC"  -> Less(y, x)
         [] d.sem = "SUBFE"  -> PpcAdd3X(Inv(x), y, PpcCaX)
         [] d.sem = "SUBFME" -> PpcAdd3X(Inv(x), KX(AllOnes), PpcCaX)
         [] d.sem = "SUBFZE" -> Sum(Inv(x), PpcCaX)
         [] d.sem = "NEG"    -> Plain(UX("NEG", x))
         [] d.sem \in {"MULLW", "MULLI"} -> Plain(BX("MUL", x, IF d.sem = "MULLI" THEN k ELSE y))
         [] d.sem = "MULHW"  -> Plain(BX("MULHS", x, y))
         [] d.sem = "MULHWU" -> Plain(BX("MULHU", x, y))
         [] d.sem \in {"DIVW", "DIVWU"} -> Plain(PpcDivX(d.sem = "DIVW", x, y))
         [] d.sem = "ADDI"   -> Plain(AddK(PpcBaseX(d), d.imm))
         [] d.sem = "ADDIC"  -> Sum(x, k)
         [] OTHER            -> Less(k, x)
PpcArithNeeds == [s \in {"MULHW", "MULHWU", "DIVW", "DIVWU"} |->
                 CASE s = "MULHW" -> "MULHS" [] s = "MULHWU" -> "MULHU" [] s = "DIVW" -> "DIVS" [] OTHER -> "DIVU"]
PpcLowerArith(d) ==
    LET r == PpcArithX(d) IN
    IF d.oe \/ (d.sem \in DOMAIN PpcArithNeeds /\ ~CanLower(PpcArithNeeds[d.sem], "none")) THEN Declined
    ELSE Lowered(Flat((IF r.ca = NoTree THEN <<>> ELSE <<PpcPutCa(r.ca)>>) \o <<PX(d.rd, r.res)>> \o PpcRc0(d, r.res)))

\* lower_logic.
PpcLogicX(d) ==
    LET s == GX(d.rd)
        b == GX(d.rb)
        either == IF d.rd = d.rb THEN s ELSE BX("OR", s, b)
    IN CASE d.sem = "AND"   -> BX("AND", s, b)
         [] d.sem = "ANDC"  -> BX("AND", s, Inv(b))
         [] d.sem = "OR"    -> either
         [] d.sem = "ORC"   -> BX("OR", s, Inv(b))
         [] d.sem = "XOR"   -> BX("XOR", s, b)
         [] d.sem = "NAND"  -> Inv(BX("AND", s, b))
         [] d.sem = "NOR"   -> Inv(either)
         [] d.sem = "EQV"   -> Inv(BX("XOR", s, b))
         [] d.sem = "ANDI"  -> AndK(s, d.imm)
         [] d.sem = "ORI"   -> IF d.imm = 0 THEN s ELSE BX("OR", s, KX(d.imm))
         [] d.sem = "XORI"  -> IF d.imm = 0 THEN s ELSE XorK(s, d.imm)
         [] d.sem = "EXTSB" -> UX("SEXT8", s)
         [] d.sem = "EXTSH" -> UX("SEXT16", s)
         [] d.sem = "EXTZB" -> AndK(s, 2^ByteBits - 1)
         [] d.sem = "EXTZH" -> AndK(s, 2^HalfBits - 1)
         [] OTHER           -> UX("CLZ", s)
PpcLowerLogic(d) ==
    IF d.sem = "CNTLZW" /\ ~CanLower("CLZ", "none") THEN Declined
    ELSE Lowered(Flat(<<PX(d.ra, PpcLogicX(d))>> \o PpcRc0(d, PpcLogicX(d))))

\* lower_shift: [ca, res], ca the expressions that set the carry.
PpcShiftX(d) ==
    LET s == GX(d.rd)
        n == AndK(GX(d.rb), 2 * Bits - 1)
        fits == BX("SUB", KX(0), CX("LTU", n, KX(Bits)))
        big  == Inv(fits)
        amt  == BX("OR", BX("AND", n, fits), AndK(big, Bits - 1))
        lost == BX("OR", Inv(BX("SHL", KX(AllOnes), AndK(n, Bits - 1))), big)
        m    == PpcRlMask(d.mb, d.me)
        rn   == AndK(GX(d.rb), Bits - 1)
        rot  == IF CanLower("ROTL", "none") THEN BX("ROTL", s, rn)
                ELSE BX("OR", BX("SHL", s, rn), BX("SHR", s, AndK(BX("SUB", KX(Bits), rn), Bits - 1)))
        Neg(x) == <<PpcPutCa(BX("AND", ShrK(s, Bits - 1), CX("NE", x, KX(0))))>>
        Only(r) == [ca |-> <<>>, res |-> r]
    IN CASE d.sem \in {"SLW", "SRW"} ->
              Only(BX("AND", BX(IF d.sem = "SLW" THEN "SHL" ELSE "SHR", s, AndK(n, Bits - 1)), fits))
         [] d.sem = "SRAWI" -> IF d.sh = 0 THEN [ca |-> <<PpcPutCa(KX(0))>>, res |-> s]
                               ELSE [ca |-> Neg(AndK(s, 2^d.sh - 1)), res |-> IX("SARI", s, d.sh)]
         [] d.sem = "SRAW"  -> [ca |-> Neg(BX("AND", s, lost)), res |-> BX("SAR", s, amt)]
         [] d.sem = "RLWINM" ->
              Only(IF d.sh # 0 /\ d.mb = 0 /\ d.me = Bits - 1 - d.sh THEN ShlK(s, d.sh)
                   ELSE IF d.sh # 0 /\ d.me = Bits - 1 /\ d.mb = Bits - d.sh THEN ShrK(s, Bits - d.sh)
                   ELSE AndK(PpcRotlK(s, d.sh), m))
         [] d.sem = "RLWIMI" -> Only(BX("OR", AndK(PpcRotlK(s, d.sh), m), AndK(GX(d.ra), Not(m))))
         [] OTHER -> Only(AndK(rot, m))
PpcLowerShift(d) ==
    LET r == PpcShiftX(d) IN Lowered(Flat(r.ca \o <<PX(d.ra, r.res)>> \o PpcRc0(d, r.res)))

\* lower_cr.
PpcCrOpX(d) ==
    LET x == PpcCrBitX(d.ra)
        y == PpcCrBitX(d.rb)
    IN CASE d.ra = d.rb /\ d.sem \in {"CRXOR", "CRANDC"} -> KX(0)
         [] d.ra = d.rb /\ d.sem \in {"CREQV", "CRORC"}  -> KX(1)
         [] d.sem = "CRAND"  -> BX("AND", x, y)
         [] d.sem = "CRANDC" -> BX("AND", x, XorK(y, 1))
         [] d.sem = "CREQV"  -> XorK(BX("XOR", x, y), 1)
         [] d.sem = "CRNAND" -> XorK(BX("AND", x, y), 1)
         [] d.sem = "CRNOR"  -> XorK(BX("OR", x, y), 1)
         [] d.sem = "CROR"   -> BX("OR", x, y)
         [] d.sem = "CRORC"  -> BX("OR", x, XorK(y, 1))
         [] OTHER            -> BX("XOR", x, y)
PpcLowerCmp(d) ==
    LET a == GX(d.ra)
        b == GX(d.rb)
        Other(x) == IF d.immop THEN KX(d.imm) ELSE x
        half == 2^HalfBits - 1
        v == CX("NE", AndK(a, d.imm), KX(0))
    IN Lowered(Flat(<<
         CASE d.sem = "CMP"   -> PpcPutCrf(d.crf, PpcCmp4(a, Other(b), TRUE))
           [] d.sem = "CMPL"  -> PpcPutCrf(d.crf, PpcCmp4(a, Other(b), FALSE))
           [] d.sem = "CMPH"  -> PpcPutCrf(d.crf, PpcCmp4(UX("SEXT16", a), Other(UX("SEXT16", b)), TRUE))
           [] d.sem = "CMPHL" -> PpcPutCrf(d.crf, PpcCmp4(AndK(a, half), Other(AndK(b, half)), FALSE))
           [] OTHER -> PpcPutCrf(0, BX("OR", BX("OR", ShlK(v, 2), ShlK(XorK(v, 1), 1)), PpcSoX))>>))
PpcLowerCr(d) ==
    LET sh == Bits - 1 - d.rd
        m  == PpcCrMask(d.imm)
        cr == GX(PpcCR)
        x  == PpcBaseX(d)
        y  == GX(d.rb)
    IN CASE d.sem \in PpcCrOps ->
              Lowered(Flat(<<PX(PpcCR, BX("OR", AndK(cr, Not(2^sh)), ShlK(PpcCrOpX(d), sh)))>>))
         [] d.sem = "MCRF"  -> Lowered(Flat(<<PpcPutCrf(d.crf, AndK(ShrK(cr, 4 * (PpcFields - 1 - d.crs)), 15))>>))
         [] d.sem = "MFCR"  -> Lowered(Flat(<<PX(d.rd, cr)>>))
         [] d.sem = "MTCRF" -> Lowered(Flat(<<PX(PpcCR, IF m = AllOnes THEN GX(d.rd)
                                                        ELSE BX("OR", AndK(cr, Not(m)), AndK(GX(d.rd), m)))>>))
         [] d.sem = "ISEL"  -> LET mask == BX("SUB", KX(0), PpcCrBitX(d.bi))
                               IN Lowered(Flat(<<PX(d.rd, BX("XOR", y, BX("AND", BX("XOR", x, y), mask)))>>))
         [] OTHER -> Declined

\* lower_mem: swapped in the block, so that the fast path may touch memory.
PpcLowerMem(d) ==
    LET sw   == IF d.size = 4 THEN "BSWAP32" ELSE "BSWAP16"
        spec == MemSpec(d.size, FALSE)
        swaps == d.size # 1 /\ ~d.rev
        addr == IF d.idx THEN BX("ADD", PpcBaseX(d), GX(d.rb)) ELSE PpcBaseX(d)
        disp == IF d.idx THEN 0 ELSE d.imm
        raw  == LdX(spec, addr, disp)
        in   == IF swaps THEN UX(sw, raw) ELSE raw
        v    == IF d.sext THEN UX("SEXT16", in) ELSE in
        out  == IF swaps THEN UX(sw, GX(d.rd)) ELSE GX(d.rd)
        upd  == IF d.upd THEN <<PX(d.ra, AddK(addr, disp))>> ELSE <<>>
    IN IF swaps /\ ~CanLower(sw, "none") THEN Declined
       ELSE IF d.sem = "LOAD" THEN Lowered(Flat(<<v>> \o upd \o <<PX(d.rd, v)>>))
       ELSE Lowered(Flat(<<StX(spec, addr, disp, out)>> \o upd))

\* lower_branch.
PpcLowerBranch(c, d, pc) ==
    LET next == Add(pc, d.len)
        tgt  == Add(IF d.aa THEN 0 ELSE pc, d.imm)
        mask == Not(IF c.vle \/ c.mmu_on THEN 1 ELSE 3)
        bo   == PpcBoCond(d.bo, d.bi)
        lk   == IF d.lk THEN <<PX(PpcLR, KX(next))>> ELSE <<>>
        to   == AndK(GX(IF d.sem = "BCLR" THEN PpcLR ELSE PpcCTR), mask)
        If(x, k) == <<RetireX, ExitIfX("NE", x, KX(0), k)>>
        always == bo.cond = NoTree
    IN CASE d.sem = "B" -> Ending(Flat(lk \o <<RetireX, ExitX(tgt)>>))
         [] d.sem = "BC" -> IF always THEN Ending(Flat(bo.ts \o lk \o <<RetireX, ExitX(tgt)>>))
                            ELSE Counted(Flat(bo.ts \o <<bo.cond>> \o lk \o If(bo.cond, tgt)))
         [] OTHER -> IF always THEN Ending(Flat(<<to>> \o bo.ts \o lk \o <<RetireX, ExitToX(to)>>))
                     ELSE Ending(Flat(<<to>> \o bo.ts \o <<bo.cond>> \o lk \o If(XorK(bo.cond, 1), next) \o <<ExitToX(to)>>))

\* lower_native.
PpcMoves == [LR |-> PpcLR, CTR |-> PpcCTR, XER |-> PpcXER]
PpcLowerNative(c, d, pc) ==
    CASE d.sem \in PpcAdds \cup PpcSubs \cup PpcMulDivs \cup {"ADDI", "ADDIC", "SUBFIC", "MULLI"} -> PpcLowerArith(d)
      [] d.sem = "LI" -> Lowered(Flat(<<PX(d.rd, KX(d.imm))>>))
      [] d.sem = "MR" -> Lowered(Flat(<<PX(d.rd, GX(d.ra))>>))
      [] d.sem \in PpcLogics -> PpcLowerLogic(d)
      [] d.sem \in PpcShifts -> PpcLowerShift(d)
      [] d.sem \in PpcCmps   -> PpcLowerCmp(d)
      [] d.sem \in PpcCrOps \cup PpcCrMoves -> PpcLowerCr(d)
      [] d.sem \in {"LOAD", "STORE"} -> PpcLowerMem(d)
      [] d.sem \in PpcBranches -> PpcLowerBranch(c, d, pc)
      [] d.sem = "MFSPR" /\ d.spr \in DOMAIN PpcMoves -> Lowered(Flat(<<PX(d.rd, GX(PpcMoves[d.spr]))>>))
      [] d.sem = "MTSPR" /\ d.spr \in DOMAIN PpcMoves ->
           Lowered(Flat(<<PX(PpcMoves[d.spr], IF d.spr = "XER" THEN AndK(GX(d.rd), PpcXerImpl) ELSE GX(d.rd))>>))
      [] d.sem = "NOP" -> Lowered(<<>>)
      [] OTHER -> Declined

\* must_decline: what the run loop has to see.
PpcMustDecline(d) ==
    \/ d.sem \in {"SC", "WAIT", "MFMSR", "MTMSR", "WRTEE", "PRIV_NOP", "ILLEGAL", "PRIV_ILLEGAL",
                  "TLBRE", "TLBWE", "TLBSX", "TLBIVAX"} \cup PpcReturns
    \/ d.sem \in {"MFSPR", "MTSPR"} /\ d.spr \notin DOMAIN PpcMoves
    \/ d.sem = "NOP" /\ d.icbi

\* ppc_ir_translate; what lower_native declines becomes a call of a helper.
PpcTranslate(c, prog, pc) ==
    LET One(acc, i) ==
          LET d   == prog[i]
              nat == PpcLowerNative(c, d, acc.cur)
              low == IF nat.ok THEN nat ELSE Lowered(<<TrapF(IF d.sem = "EFS" THEN "EFS" ELSE "STEP", d)>>)
              one == EmitAll(acc.block, low.forms \o (IF low.counted THEN <<>> ELSE <<RetireF>>))
              next == Add(acc.cur, d.len)
              room == /\ acc.count < PpcMaxBlock
                      /\ Len(acc.block.insn) + PpcHeadroom <= MaxInsns
                      /\ acc.block.next + PpcHeadroom <= MaxTemps
          IN IF acc.stop THEN acc
             ELSE IF acc.block.overflow \/ ~room \/ PpcMustDecline(d) THEN [acc EXCEPT !.stop = TRUE]
             ELSE [block |-> IF low.ends THEN one ELSE EmitAll(one, <<SetPcF(next)>>),
                   cur |-> next, count |-> acc.count + 1, stop |-> low.ends]
    IN Loop(One, [block |-> EmptyBlock(pc), cur |-> pc, count |-> 0, stop |-> FALSE], Len(prog))
=============================================================================
