-------------------------------- MODULE ArmIr --------------------------------
(* The ARMv7-M translator: armv7m_decode.c, then armv7m_ir.c, which makes  *)
(* IR blocks of what it decoded.                                           *)
(*                                                                         *)
(* armv7m_decode.c: from the fields of an encoding (ArmExec) to the record *)
(* the translator reads.                                                   *)
EXTENDS ArmExec, EmuIr

\* What armv7m_decode starts from; imm_carry (cy) 2 is "the carry there is".
ArmInsn == [op |-> "UNDEF", len |-> 2, rd |-> ArmNoReg, rn |-> ArmNoReg, rm |-> ArmNoReg, ra |-> ArmNoReg, cond |-> 14,
            sf |-> "NO", opnd |-> "NONE", addr |-> "NONE", sht |-> "LSL", shn |-> 0, index |-> FALSE, add |-> FALSE,
            wback |-> FALSE, size |-> 4, sext |-> FALSE, wide |-> FALSE, cy |-> 2, imm |-> 0, imm2 |-> 0, list |-> {}]

\* k_dp and dp_finish.
ArmDps == <<"AND", "BIC", "ORR", "ORN", "EOR", "UNDEF", "UNDEF", "UNDEF", "ADD", "UNDEF", "ADC", "SBC", "UNDEF", "SUB",
            "RSB", "UNDEF">>
ArmDpFinish(d, sel, rd, rn, s) ==
    LET k == [d EXCEPT !.rd = rd, !.rn = rn, !.sf = IF s THEN "YES" ELSE "NO"] IN
    CASE s /\ rd = ArmPC -> [k EXCEPT !.rd = ArmNoReg,
                                      !.op = CASE sel = 0 -> "TST" [] sel = 4 -> "TEQ" [] sel = 8 -> "CMN" [] sel = 13 -> "CMP"
                                               [] OTHER -> "UNDEF"]
      [] rn = ArmPC /\ sel \in {2, 3} -> [k EXCEPT !.rn = ArmNoReg, !.op = IF sel = 2 THEN "MOV" ELSE "MVN"]
      [] OTHER -> [k EXCEPT !.op = ArmDps[sel + 1]]

-----------------------------------------------------------------------------
(* d16. *)

ArmD16ShiftAdd(d, w) ==
    LET sh == ArmImmShift(w.op \div 4, w.imm)
        k == [d EXCEPT !.sf = "NOT_IN_IT", !.rd = w.rd]
        sel == (w.op \div 4) % 4
    IN CASE w.op < 12 /\ sh = [t |-> "LSL", n |-> 0] -> [k EXCEPT !.op = "MOV", !.rm = w.rm, !.opnd = "REG"]
         [] w.op < 12 -> [k EXCEPT !.op = sh.t, !.rn = w.rm, !.opnd = "IMM", !.imm = sh.n]
         [] w.op < 16 ->
              LET a == [k EXCEPT !.op = IF w.op % 2 = 1 THEN "SUB" ELSE "ADD", !.rn = w.rm] IN
              IF w.op >= 14 THEN [a EXCEPT !.opnd = "IMM", !.imm = w.imm] ELSE [a EXCEPT !.opnd = "REG", !.rm = w.imm]
         [] OTHER ->
              LET a == [k EXCEPT !.op = <<"MOV", "CMP", "ADD", "SUB">>[sel + 1], !.opnd = "IMM", !.imm = w.imm] IN
              CASE sel = 0 -> a
                [] sel = 1 -> [a EXCEPT !.rd = ArmNoReg, !.rn = w.rd, !.sf = "YES"]
                [] OTHER -> [a EXCEPT !.rn = w.rd]
ArmD16Dps == <<"AND", "EOR", "LSL", "LSR", "ASR", "ADC", "SBC", "ROR", "TST", "RSB", "CMP", "CMN", "ORR", "MUL", "BIC", "MVN">>
ArmD16Dp(d, w) ==
    LET k == [d EXCEPT !.op = ArmD16Dps[w.op + 1], !.sf = "NOT_IN_IT", !.rd = w.rd, !.rn = w.rd, !.rm = w.rm, !.opnd = "REG"] IN
    CASE w.op \in {2, 3, 4, 7} -> [k EXCEPT !.opnd = "REGSHIFT"]
      [] w.op \in {8, 10, 11} -> [k EXCEPT !.rd = ArmNoReg, !.sf = "YES"]
      [] w.op = 9 -> [k EXCEPT !.rn = w.rm, !.rm = ArmNoReg, !.opnd = "IMM"]
      [] w.op = 13 -> [k EXCEPT !.rn = w.rm, !.rm = w.rd]
      [] w.op = 15 -> [k EXCEPT !.rn = ArmNoReg]
      [] OTHER -> k
ArmD16Special(d, w) ==
    LET k == [d EXCEPT !.rm = w.rm, !.opnd = "REG"] IN
    CASE w.op \div 4 = 0 -> [k EXCEPT !.op = "ADD", !.rd = w.rd, !.rn = w.rd]
      [] w.op \div 4 = 1 -> IF ArmPC \in {w.rd, w.rm} THEN k ELSE [k EXCEPT !.op = "CMP", !.rn = w.rd, !.sf = "YES"]
      [] w.op \div 4 = 2 -> [k EXCEPT !.op = "MOV", !.rd = w.rd]
      [] OTHER -> IF w.rd % 8 # 0 \/ (Bit(w.op, 1) = 1 /\ w.rm = ArmPC) THEN k
                  ELSE [k EXCEPT !.op = IF Bit(w.op, 1) = 1 THEN "BLX" ELSE "BX", !.opnd = "NONE"]
ArmD16Mem(d, w) ==
    LET k == [d EXCEPT !.rd = w.rd, !.index = TRUE, !.add = TRUE]
        size == CASE w.op = 6 -> 4 [] w.op = 7 -> 1 [] OTHER -> 2
        ld == CASE size = 4 -> "LDR" [] size = 1 -> "LDRB" [] OTHER -> "LDRH"
        st == CASE size = 4 -> "STR" [] size = 1 -> "STRB" [] OTHER -> "STRH"
    IN CASE w.enc = "LIT" -> [k EXCEPT !.op = "LDR", !.rn = ArmPC, !.addr = "LITERAL", !.imm = 4 * w.imm]
         [] w.op = 5 ->
              [k EXCEPT !.op = <<"STR", "STRH", "STRB", "LDRSB", "LDR", "LDRH", "LDRB", "LDRSH">>[w.op2 + 1], !.rn = w.rn,
                        !.rm = w.rm, !.addr = "REG", !.size = ArmT16Sizes[w.op2 + 1], !.sext = w.op2 \in {3, 7}]
         [] w.op \in 6 .. 8 -> [k EXCEPT !.op = IF w.load THEN ld ELSE st, !.rn = w.rn, !.addr = "IMM", !.imm = w.imm * size,
                                         !.size = size]
         [] OTHER -> [k EXCEPT !.op = IF w.load THEN "LDR" ELSE "STR", !.rn = ArmSP, !.addr = "IMM", !.imm = 4 * w.imm]
ArmHints == <<"NOP", "YIELD", "WFE", "WFI", "SEV">>
ArmD16Misc(d, w) ==
    CASE w.enc = "CPS" -> [d EXCEPT !.op = IF w.op = 1 THEN "CPSID" ELSE "CPSIE", !.imm = w.imm]
      [] w.enc = "SPADJ" -> [d EXCEPT !.op = IF w.op = 1 THEN "SUB" ELSE "ADD", !.rd = ArmSP, !.rn = ArmSP, !.opnd = "IMM",
                                      !.imm = 4 * w.imm]
      [] w.enc = "CBZ" -> [d EXCEPT !.op = IF w.op = 1 THEN "CBNZ" ELSE "CBZ", !.rn = w.rn, !.imm = w.imm]
      [] w.enc = "EXT" -> [d EXCEPT !.op = <<"SXTH", "SXTB", "UXTH", "UXTB">>[w.op + 1], !.rd = w.rd, !.rm = w.rm]
      [] w.enc = "REV" -> [d EXCEPT !.op = <<"REV", "REV16", "UNDEF", "REVSH">>[w.op + 1], !.rd = w.rd, !.rm = w.rm]
      [] w.enc = "PUSHPOP" -> IF w.list = {} THEN d
                              ELSE [d EXCEPT !.op = IF w.load THEN "POP" ELSE "PUSH", !.list = w.list, !.rn = ArmSP, !.wback = TRUE]
      [] w.enc = "BKPT" -> [d EXCEPT !.op = "BKPT"]
      [] w.imm # 0 -> [d EXCEPT !.op = "IT", !.cond = w.cond, !.imm = w.imm]
      [] OTHER -> [d EXCEPT !.op = ArmHints[w.op + 1]]
ArmD16(w) ==
    LET d == ArmInsn IN
    CASE w.enc = "SHIFTADD" -> ArmD16ShiftAdd(d, w)
      [] w.enc = "DP" -> ArmD16Dp(d, w)
      [] w.enc = "SPECIAL" -> ArmD16Special(d, w)
      [] w.enc \in {"LIT", "LDST"} -> ArmD16Mem(d, w)
      [] w.enc = "ADR" -> [d EXCEPT !.op = "ADR", !.rd = w.rd, !.imm = 4 * w.imm, !.add = TRUE]
      [] w.enc = "ADDSP" -> [d EXCEPT !.op = "ADD", !.rd = w.rd, !.rn = ArmSP, !.opnd = "IMM", !.imm = 4 * w.imm]
      [] w.enc = "LDM" -> IF w.list = {} THEN d
                          ELSE [d EXCEPT !.op = IF w.load THEN "LDM" ELSE "STM", !.rn = w.rn, !.list = w.list,
                                         !.wback = ~w.load \/ w.rn \notin w.list]
      [] w.enc = "BCC" -> CASE w.cond = 15 -> [d EXCEPT !.op = "SVC"]
                            [] w.cond = 14 -> [d EXCEPT !.op = "UDF"]
                            [] OTHER -> [d EXCEPT !.op = "BCC", !.cond = w.cond, !.imm = w.imm]
      [] w.enc = "B" -> [d EXCEPT !.op = "B", !.imm = w.imm]
      [] OTHER -> ArmD16Misc(d, w)

-----------------------------------------------------------------------------
(* d32. *)

ArmD32DpImm(d, w) ==
    LET x == ArmExpandImm(w.imm, w.imm2, 2) IN
    IF ~ArmDpRegsOk(w.op, w.rd, w.rn, FALSE, 0, 0, w.s) THEN d
    ELSE ArmDpFinish([d EXCEPT !.imm = x.v, !.cy = x.c, !.opnd = "IMM", !.wide = TRUE], w.op, w.rd, w.rn, w.s)
ArmD32DpPlain(d, w) ==
    LET k == [d EXCEPT !.rd = w.rd, !.rn = w.rn]
        uns == w.op >= 24
        asr == w.op % 4 = 2
    IN CASE ~ArmPlainRegsOk(w.op, w.rd, w.rn) -> d
         [] w.op \in {0, 10} ->
              IF w.rn = ArmPC THEN [k EXCEPT !.op = "ADR", !.rn = ArmNoReg, !.add = w.op = 0, !.imm = w.imm, !.wide = TRUE]
              ELSE [k EXCEPT !.op = IF w.op = 0 THEN "ADD" ELSE "SUB", !.opnd = "IMM", !.imm = w.imm, !.imm2 = 1]
         [] w.op \in {4, 12} -> [k EXCEPT !.op = IF w.op = 4 THEN "MOVW" ELSE "MOVT", !.rn = ArmNoReg, !.imm = w.imm]
         [] w.op \in {16, 18, 24, 26} ->
              CASE asr /\ w.imm = 0 /\ w.imm2 >= HalfBits -> d
                [] asr /\ w.imm = 0 -> [k EXCEPT !.op = IF uns THEN "USAT16" ELSE "SSAT16", !.imm = w.imm2 + 1 - Bool(uns)]
                [] OTHER -> [k EXCEPT !.op = IF uns THEN "USAT" ELSE "SSAT", !.imm = w.imm2 + 1 - Bool(uns),
                                      !.sht = IF asr THEN "ASR" ELSE "LSL", !.shn = w.imm]
         [] w.op \in {20, 28} -> IF w.imm + w.imm2 + 1 > Bits THEN d
                                 ELSE [k EXCEPT !.op = IF w.op = 20 THEN "SBFX" ELSE "UBFX", !.imm = w.imm, !.imm2 = w.imm2 + 1]
         [] w.op = 22 -> IF w.imm2 < w.imm THEN d
                         ELSE [k EXCEPT !.op = IF w.rn = ArmPC THEN "BFC" ELSE "BFI", !.imm = w.imm, !.imm2 = w.imm2 - w.imm + 1,
                                        !.rn = IF w.rn = ArmPC THEN ArmNoReg ELSE @]
         [] OTHER -> d
\* A MOV with a shift is the shift.
ArmD32DpReg(d, w) ==
    LET tb == w.op2 >= 2
        sh == ArmImmShift(w.op2, w.imm)
        k == ArmDpFinish([d EXCEPT !.rm = w.rm, !.opnd = "REG", !.sht = sh.t, !.shn = sh.n, !.wide = TRUE],
                         w.op, w.rd, w.rn, w.s)
    IN CASE w.op = 6 -> IF w.s \/ w.op2 % 2 = 1 \/ ~ArmDnmOk(w.rd, w.rn, w.rm) THEN d
                        ELSE [d EXCEPT !.op = IF tb THEN "PKHTB" ELSE "PKHBT", !.rd = w.rd, !.rn = w.rn, !.rm = w.rm,
                                       !.sht = IF tb THEN "ASR" ELSE "LSL", !.shn = IF tb /\ w.imm = 0 THEN Bits ELSE w.imm]
         [] ~ArmDpRegsOk(w.op, w.rd, w.rn, TRUE, w.rm, sh, w.s) -> d
         [] k.op = "MOV" /\ sh # [t |-> "LSL", n |-> 0] ->
              [k EXCEPT !.op = sh.t, !.rn = w.rm, !.rm = ArmNoReg, !.opnd = IF sh.t = "RRX" THEN "NONE" ELSE "IMM", !.imm = sh.n]
         [] OTHER -> k
ArmExtends == <<"SXTAH", "UXTAH", "SXTAB16", "UXTAB16", "SXTAB", "UXTAB">>
ArmExtendsPlain == <<"SXTH", "UXTH", "SXTB16", "UXTB16", "SXTB", "UXTB">>
ArmD32Misc == <<"QADD", "QDADD", "QSUB", "QDSUB", "REV", "REV16", "RBIT", "REVSH", "SEL", "UNDEF", "UNDEF", "UNDEF", "CLZ",
                "UNDEF", "UNDEF", "UNDEF">>
ArmD32DpRegister(d, w) ==
    LET k == [d EXCEPT !.rd = w.rd, !.rn = w.rn, !.rm = w.rm]
        sel == 4 * (w.op % 4) + (w.op2 % 4)
        three == ArmDnmOk(w.rd, w.rn, w.rm)
    IN CASE w.op < 8 /\ w.op2 = 0 ->
              IF ~three THEN d ELSE [k EXCEPT !.op = ArmShifts[w.op \div 2 + 1], !.opnd = "REGSHIFT",
                                              !.sf = IF w.op % 2 = 1 THEN "YES" ELSE "NO", !.wide = TRUE]
         [] w.op < 8 /\ w.op2 >= 8 ->
              IF w.op > 5 \/ w.op2 >= 12 \/ ArmSpPc(w.rd) \/ ArmSpPc(w.rm) \/ w.rn = ArmSP THEN d
              ELSE [k EXCEPT !.op = (IF w.rn = ArmPC THEN ArmExtendsPlain ELSE ArmExtends)[w.op + 1],
                             !.rn = IF w.rn = ArmPC THEN ArmNoReg ELSE @, !.imm = (w.op2 % 4) * ByteBits]
         [] w.op >= 8 /\ w.op2 < 8 -> IF w.op2 % 4 = 3 \/ w.op % 4 = 3 \/ ~three THEN d ELSE [k EXCEPT !.op = "PARALLEL"]
         [] w.op \div 4 = 2 /\ w.op2 \div 4 = 2 ->
              IF (IF sel <= 3 \/ sel = 8 THEN ~three ELSE ArmSpPc(w.rd) \/ ArmSpPc(w.rm)) THEN d
              ELSE [k EXCEPT !.op = ArmD32Misc[sel + 1], !.rn = IF sel >= 4 /\ sel # 8 THEN ArmNoReg ELSE @]
         [] OTHER -> d
\* With no accumulator the op of the second list.
ArmD32Mul(d, w) ==
    LET acc == w.ra # ArmPC
        k == [d EXCEPT !.rd = w.rd, !.rn = w.rn, !.rm = w.rm, !.ra = IF acc THEN w.ra ELSE ArmNoReg]
        Is(with, without) == [k EXCEPT !.op = (IF acc THEN with ELSE without)[w.op2 + 1]]
    IN CASE ~ArmDnmOk(w.rd, w.rn, w.rm) \/ w.ra = ArmSP -> d
         [] w.op = 0 -> CASE w.op2 = 0 -> Is(<<"MLA">>, <<"MUL">>) [] w.op2 = 1 /\ acc -> [k EXCEPT !.op = "MLS"] [] OTHER -> d
         [] w.op = 1 -> Is(<<"SMLABB", "SMLABT", "SMLATB", "SMLATT">>, <<"SMULBB", "SMULBT", "SMULTB", "SMULTT">>)
         [] w.op2 > 1 -> d
         [] w.op = 2 -> Is(<<"SMLAD", "SMLADX">>, <<"SMUAD", "SMUADX">>)
         [] w.op = 3 -> Is(<<"SMLAWB", "SMLAWT">>, <<"SMULWB", "SMULWT">>)
         [] w.op = 4 -> Is(<<"SMLSD", "SMLSDX">>, <<"SMUSD", "SMUSDX">>)
         [] w.op = 5 -> Is(<<"SMMLA", "SMMLAR">>, <<"SMMUL", "SMMULR">>)
         [] w.op = 6 -> Is(<<"SMMLS", "SMMLSR">>, <<"UNDEF", "UNDEF">>)
         [] OTHER -> IF w.op2 = 0 THEN Is(<<"USADA8">>, <<"USAD8">>) ELSE d
ArmD32Mull(d, w) ==
    LET k == [d EXCEPT !.rd = w.rd, !.ra = w.ra, !.rn = w.rn, !.rm = w.rm]
        divides == w.op \in {1, 3}
        Is(op) == [k EXCEPT !.op = op]
    IN CASE (~divides /\ (w.rd = w.ra \/ ArmSpPc(w.rd))) \/ ~ArmDnmOk(w.ra, w.rn, w.rm) -> d
         [] divides -> IF w.op2 = 15 /\ w.rd = ArmPC
                       THEN [k EXCEPT !.op = IF w.op = 1 THEN "SDIV" ELSE "UDIV", !.rd = w.ra, !.ra = ArmNoReg] ELSE d
         [] w.op2 = 0 /\ w.op \in {0, 2, 4, 6} -> Is(<<"SMULL", "", "UMULL", "", "SMLAL", "", "UMLAL">>[w.op + 1])
         [] w.op = 4 /\ w.op2 \in 8 .. 13 ->
              Is(<<"SMLALBB", "SMLALBT", "SMLALTB", "SMLALTT", "SMLALD", "SMLALDX">>[w.op2 - 7])
         [] w.op = 5 /\ w.op2 \in {12, 13} -> Is(<<"SMLSLD", "SMLSLDX">>[w.op2 - 11])
         [] w.op = 6 /\ w.op2 = 6 -> Is("UMAAL")
         [] OTHER -> d
ArmD32Ldst(d, w) ==
    LET size == 2 ^ w.sz
        lit == w.rn = ArmPC
        imm8 == ~lit /\ w.form = "imm8"
        byReg == ~lit /\ w.form = "reg"
        wback == imm8 /\ w.wb
        unpriv == imm8 /\ w.p /\ w.u /\ ~w.wb
        k == [d EXCEPT !.rd = w.rd, !.rn = w.rn, !.size = size, !.sext = w.sext, !.index = ~imm8 \/ w.p,
                       !.add = IF lit \/ imm8 THEN w.u ELSE TRUE, !.wback = wback, !.wide = TRUE,
                       !.addr = IF lit THEN "LITERAL" ELSE IF byReg THEN "REG" ELSE "IMM",
                       !.rm = IF byReg THEN w.rm ELSE ArmNoReg, !.shn = IF byReg THEN w.imm ELSE 0,
                       !.imm = IF byReg THEN 0 ELSE w.imm]
        Names(ld) == IF unpriv THEN <<"LDRBT", "LDRHT", "LDRT", "LDRSBT", "LDRSHT", "STRBT", "STRHT", "STRT">>[ld]
                     ELSE <<"LDRB", "LDRH", "LDR", "LDRSB", "LDRSH", "STRB", "STRH", "STR">>[ld]
    IN CASE \/ w.sz = 3 \/ (w.sext /\ (~w.load \/ w.sz = 2)) \/ (lit /\ ~w.load)
            \/ (~lit /\ w.form = "none") \/ (imm8 /\ ~w.p /\ ~w.wb) -> d
         [] ~ArmLdstRegsOk(w.load, size, w.rd, w.rn, k.rm, wback, unpriv) -> d
         [] w.load /\ w.rd = ArmPC /\ w.sz < 2 -> [k EXCEPT !.op = IF w.sext THEN "PLI" ELSE "PLD", !.rd = ArmNoReg]
         [] OTHER -> [k EXCEPT !.op = Names(w.sz + 1 + (CASE ~w.load -> 5 [] w.sext -> 3 [] OTHER -> 0))]
ArmD32DualExcl(d, w) ==
    LET k == [d EXCEPT !.rn = w.rn, !.rd = w.rd, !.imm = 4 * w.imm]
        names == CASE w.form = "EX" -> <<"LDREX", "STREX">> [] w.form = "EXB" -> <<"LDREXB", "STREXB">>
                   [] OTHER -> <<"LDREXH", "STREXH">>
        ex == [k EXCEPT !.size = CASE w.form = "EX" -> 4 [] w.form = "EXB" -> 1 [] OTHER -> 2,
                        !.imm = IF w.form = "EX" THEN @ ELSE 0]
    IN CASE w.form = "DUAL" ->
              IF (w.load /\ w.rd = w.ra) \/ ~ArmDualRegsOk(w.load, w.rd, w.ra, w.rn, w.wb) THEN d
              ELSE [k EXCEPT !.op = IF w.load THEN "LDRD" ELSE "STRD", !.ra = w.ra, !.index = w.p, !.add = w.u, !.wback = w.wb,
                             !.addr = IF w.rn = ArmPC THEN "LITERAL" ELSE "IMM"]
         [] w.form \in {"TBB", "TBH"} -> IF w.rn = ArmSP \/ ArmSpPc(w.rm) THEN d
                                         ELSE [k EXCEPT !.op = w.form, !.rm = w.rm, !.rd = ArmNoReg, !.imm = 0]
         [] w.load -> IF ~ArmLdrexRegsOk(w.rd, w.rn) THEN d ELSE [ex EXCEPT !.op = names[1]]
         [] OTHER -> IF ~ArmStrexRegsOk(w.ra, w.rd, w.rn) THEN d ELSE [ex EXCEPT !.op = names[2], !.rm = w.rd, !.rd = w.ra]
ArmD32BranchMisc(d, w) ==
    CASE w.form \in {"BCC", "B", "BL"} -> [d EXCEPT !.op = w.form, !.cond = w.cond, !.imm = w.imm, !.wide = TRUE]
      [] w.form = "MSR" -> IF w.imm = 0 \/ w.imm2 \notin ArmSysm \/ ArmSpPc(w.rn) THEN d
                           ELSE [d EXCEPT !.op = "MSR", !.rn = w.rn, !.imm = w.imm, !.imm2 = w.imm2]
      [] w.form = "MRS" -> IF w.imm2 \notin ArmSysm \/ ArmSpPc(w.rd) THEN d
                           ELSE [d EXCEPT !.op = "MRS", !.rd = w.rd, !.imm2 = w.imm2]
      [] w.form = "HINT" -> [d EXCEPT !.op = ArmHints[w.op + 1], !.wide = TRUE]
      [] w.form \in {"CLREX", "DSB", "DMB", "ISB", "UDF"} -> [d EXCEPT !.op = w.form]
      [] OTHER -> d
ArmD32Multi(d, w) ==
    LET k == [d EXCEPT !.rn = w.rn, !.list = w.list, !.wback = w.wb, !.wide = TRUE] IN
    CASE \/ w.op \notin {1, 2} \/ ArmSP \in w.list \/ (~w.load /\ ArmPC \in w.list) \/ w.rn = ArmPC
         \/ (~w.load /\ w.wb /\ w.rn \in w.list) -> d
      [] w.rn = ArmSP /\ w.wb /\ ((w.op = 1) = w.load) -> [k EXCEPT !.op = IF w.load THEN "POP" ELSE "PUSH"]
      [] w.op = 2 -> [k EXCEPT !.op = IF w.load THEN "LDMDB" ELSE "STMDB"]
      [] OTHER -> [k EXCEPT !.op = IF w.load THEN "LDM" ELSE "STM"]
\* d32_fp.  The operations the translator does not tell apart share a name.
ArmFpOps == {"VSEL", "VMAXNM", "VRINT", "VCVT", "VDP", "VDIV", "VMOVI", "VOTHER", "VMOV_CORE", "VMRS", "VMSR",
             "VMOV_SCALAR", "VMOV_CORE2", "VLDR", "VSTR", "VLDM", "VSTM"}
ArmD32FpDp(d, w) ==
    LET op == w.op3 % 2 = 1
        r == [d EXCEPT !.rd = w.rd, !.rn = w.rn, !.rm = w.rm]
        Set(name) == [r EXCEPT !.op = name]
    IN CASE w.sz = 3 -> r
         [] w.s -> CASE w.op < 4 -> IF op THEN r ELSE Set("VSEL")
                     [] w.op = 4 -> Set("VMAXNM")
                     [] w.op = 7 /\ w.op2 \div 4 = 2 /\ op -> Set("VRINT")
                     [] w.op = 7 /\ w.op2 \div 4 = 3 /\ op -> Set("VCVT")
                     [] OTHER -> r
         [] w.op = 4 -> IF op THEN r ELSE Set("VDIV")
         [] w.op < 7 -> Set("VDP")
         [] ArmFpOtherBad(w) -> r
         [] OTHER -> Set(IF op THEN "VOTHER" ELSE "VMOVI")
ArmD32FpXfer(d, w) ==
    LET r == [d EXCEPT !.rd = w.rd, !.rn = ArmNoReg, !.rm = ArmNoReg, !.imm = Bool(w.load)] IN
    CASE w.s \/ w.imm # 0 -> r
      [] w.sz = 2 /\ w.op = 0 -> IF ArmSpPc(w.rd) THEN r ELSE [r EXCEPT !.op = "VMOV_CORE"]
      [] w.sz = 2 /\ w.op = 7 /\ w.rn = 2 ->
            IF w.rd = ArmSP \/ (~w.load /\ w.rd = ArmPC) THEN r ELSE [r EXCEPT !.op = IF w.load THEN "VMRS" ELSE "VMSR"]
      [] w.sz = 3 /\ w.op < 2 /\ 2 * w.rn < ArmFpBank /\ ~ArmSpPc(w.rd) -> [r EXCEPT !.op = "VMOV_SCALAR"]
      [] OTHER -> r
ArmD32FpLdst(d, w) ==
    LET r == [d EXCEPT !.rd = w.rd, !.rn = w.rn, !.wback = w.wb] IN
    CASE (~w.p /\ ~w.u /\ ~w.wb) \/ (w.sz = 3 /\ w.rd >= ArmFpBank) -> d
      [] w.p /\ ~w.wb -> IF ~w.load /\ w.rn = ArmPC THEN r ELSE [r EXCEPT !.op = IF w.load THEN "VLDR" ELSE "VSTR"]
      [] (w.p = w.u /\ w.wb) \/ w.rn = ArmPC \/ ArmFpWords(w) = 0 \/ w.rd + ArmFpWords(w) > ArmFpBank -> r
      [] OTHER -> [r EXCEPT !.op = IF w.load THEN "VLDM" ELSE "VSTM"]
ArmD32Fp(d, w) ==
    CASE w.form = "SIMD" -> d
      [] w.form = "OTHER" -> [d EXCEPT !.op = "NOCP"]
      [] w.form = "DP" -> ArmD32FpDp(d, w)
      [] w.form = "XFER32" -> ArmD32FpXfer(d, w)
      [] w.form = "XFER64" ->
            IF w.imm # 0 \/ w.rm > ArmFpBank - 2 \/ (w.load /\ w.rd = w.rn) \/ ArmSpPc(w.rd) \/ ArmSpPc(w.rn) THEN d
            ELSE [d EXCEPT !.op = "VMOV_CORE2", !.rd = w.rd, !.ra = w.rn, !.rm = w.rm, !.imm = Bool(w.load)]
      [] OTHER -> ArmD32FpLdst(d, w)
ArmD32(w) ==
    LET d == [ArmInsn EXCEPT !.len = 4] IN
    CASE w.enc = "LDM32" -> ArmD32Multi(d, w)
      [] w.enc = "DUALEXCL" -> ArmD32DualExcl(d, w)
      [] w.enc = "DPREG" -> ArmD32DpReg(d, w)
      [] w.enc = "BRANCHMISC" -> ArmD32BranchMisc(d, w)
      [] w.enc = "DPIMM" -> ArmD32DpImm(d, w)
      [] w.enc = "DPPLAIN" -> ArmD32DpPlain(d, w)
      [] w.enc = "LDST32" -> ArmD32Ldst(d, w)
      [] w.enc = "DPREGISTER" -> ArmD32DpRegister(d, w)
      [] w.enc = "MUL" -> ArmD32Mul(d, w)
      [] w.enc = "MULL" -> ArmD32Mull(d, w)
      [] w.enc = "FP" -> ArmD32Fp(d, w)
      [] OTHER -> d
\* armv7m_decode.
ArmDecoded(w) == IF ArmLen(w) = 4 THEN ArmD32(w) ELSE ArmD16(w)

------------------------------------------------------------------------------
(* The ARMv7-M translator (armv7m_ir.c): the expressions of each           *)
(* instruction it lowers, inside an IT block and outside one, the accesses *)
(* and the helper a block calls, and the block made of a run of            *)
(* instructions.                                                           *)

CONSTANTS ArmMaxBlock, ArmHeadroom    \* A7_MAX_BLOCK_INSNS, A7_IR_HEADROOM (and A7_TEMP_HEADROOM)

\* ir_fault: the exception is raised where the instruction is, before the
\* block is left.
ArmRebind(c) == LET u == ArmUnpack(c) IN [u EXCEPT !.reg[ArmCTX] = ArmCtx(u), !.irq_maybe = TRUE]
ArmIrFault(c, x) == [trap |-> TRUE, cpu |-> ArmRebind(ArmRaise(ArmPack([c EXCEPT !.fault_pc = c.pc]), x, c.pc)), val |-> 0]
\* An access inside the window is made in place; any other by a7_ir_load.
\* spec.aligned is A7_MEM_ALIGNED.
ArmSigned(spec, v) == IF spec.signed THEN Sext(v, ByteBits * spec.size) ELSE v
ArmIrLoad(c, addr, spec) ==
    LET r == IF spec.aligned /\ addr % spec.size # 0 THEN ArmRes(c, "UNALIGNED", 0) ELSE ArmRdU(c, addr, spec.size, FALSE)
    IN CASE WindowHit(spec.win, addr, spec.size) ->
              [trap |-> FALSE, cpu |-> c, val |-> ArmSigned(spec, LoadLe(c.mem, addr, spec.size))]
         [] r.x # "NONE" -> ArmIrFault(r.cpu, r.x)
         [] OTHER -> [trap |-> FALSE, cpu |-> r.cpu, val |-> ArmSigned(spec, r.val)]
\* a7_ir_finish_imprecise: the whole instruction again, in the interpreter;
\* spec.w stands for what it fetches at pc.
ArmFinishImprecise(c, w) ==
    LET d == [c EXCEPT !.imprecise = FALSE]
        r == ArmStepped(ArmPack(d), w)
        e == [ArmRebind(r.cpu) EXCEPT !.imprecise = FALSE]
    IN IF ~ArmFetchProbe(c, c.pc) THEN [trap |-> FALSE, cpu |-> d]
       ELSE [trap |-> TRUE, cpu |-> IF r.ok THEN ArmCount(e, 1) ELSE e]
\* In place when no translated code can be written over, or a7_ir_store.
ArmIrStore(c, addr, spec, val) ==
    LET d == [c EXCEPT !.imprecise = FALSE]
        r == IF spec.aligned /\ addr % spec.size # 0 THEN ArmRes(d, "UNALIGNED", 0) ELSE ArmWrU(d, addr, spec.size, FALSE, val)
    IN CASE ~c.smc.watch /\ WindowHit(spec.win, addr, spec.size) ->
              [trap |-> FALSE, cpu |-> [c EXCEPT !.mem = StoreLe(@, addr, spec.size, val)]]
         [] r.x # "NONE" -> ArmIrFault(r.cpu, r.x)
         [] r.cpu.imprecise -> ArmFinishImprecise(r.cpu, spec.w)
         [] OTHER -> [trap |-> FALSE, cpu |-> r.cpu]
\* a7_ir_step, the helper: one instruction in the interpreter.
ArmHelper(c, in) ==
    LET r == ArmStepped([ArmPack(c) EXCEPT !.imprecise = FALSE, !.pc = in.pc], in.w)
        u == ArmRebind(r.cpu)
    IN IF r.ok /\ u.imprecise THEN [cpu |-> ArmCount([u EXCEPT !.imprecise = FALSE], 1), val |-> 1]
       ELSE [cpu |-> u, val |-> Bool(~r.ok)]

------------------------------------------------------------------------------
(* T is where the instruction is: its address, whether it is in an IT      *)
(* block, under which condition, with which ITSTATE.                       *)

ArmNo == [ok |-> FALSE, ts |-> <<>>, ends |-> FALSE, counted |-> FALSE]
ArmLow(ts) == [ok |-> TRUE, ts |-> ts, ends |-> FALSE, counted |-> FALSE]
ArmCounted(ts) == [ok |-> TRUE, ts |-> ts, ends |-> FALSE, counted |-> TRUE]
ArmEnds(ts) == [ok |-> TRUE, ts |-> ts, ends |-> TRUE, counted |-> TRUE]

\* rreg, sel, wreg and wflag.
ArmRX(t, n) == IF n = ArmPC THEN KX(Add(t.pc, 4)) ELSE GX(n)
ArmSelX(t, nv, ov) == BX("XOR", ov, BX("AND", BX("XOR", nv, ov), BX("SUB", KX(0), t.cond)))
ArmWX(t, n, v) == PX(n, IF t.in_it THEN ArmSelX(t, v, GX(n)) ELSE v)
\* flags_nz, flags_logical, flags_arith.
ArmNzX(t, r) == <<ArmWX(t, ArmNF, r), ArmWX(t, ArmZF, r)>>
ArmLogicalX(t, r, cout) == ArmNzX(t, r) \o (IF cout = NoTree THEN <<>> ELSE <<ArmWX(t, ArmCF, cout)>>)
ArmArithX(t, r, cy, v) == ArmNzX(t, r) \o <<ArmWX(t, ArmCF, cy), ArmWX(t, ArmVF, v)>>
\* sets_flags.
ArmSetsFlags(t, d) == d.sf = "YES" \/ (d.sf = "NOT_IN_IT" /\ ~t.in_it)
\* it_access and it_access_done, around accesses that are predicated.
ArmItAccess(t, accs) ==
    IF ~t.in_it THEN accs
    ELSE <<PX(ArmXPSR, BX("OR", GX(ArmXPSR), KX(t.it)))>> \o accs \o <<PX(ArmXPSR, GX(ArmXPSR))>>
ArmIf(t, acc) == IF t.in_it THEN WhenX(acc, t.cond) ELSE acc

\* cond01.
ArmCondX(cond) ==
    LET inv == cond % 2 = 1
        Set(cc, inverse, v) == CX(IF inv THEN inverse ELSE cc, v, KX(0))
        Not01(v) == IF inv THEN XorK(v, 1) ELSE v
        same == BX("XOR", GX(ArmNF), GX(ArmVF))
        nz == CX("NE", GX(ArmZF), KX(0))
    IN CASE cond \div 2 = 0 -> Set("EQ", "NE", GX(ArmZF))
         [] cond \div 2 = 1 -> Not01(GX(ArmCF))
         [] cond \div 2 = 2 -> Set("LT", "GE", GX(ArmNF))
         [] cond \div 2 = 3 -> Set("LT", "GE", GX(ArmVF))
         [] cond \div 2 = 4 -> Not01(BX("AND", GX(ArmCF), nz))
         [] cond \div 2 = 5 -> Set("GE", "LT", same)
         [] cond \div 2 = 6 -> Not01(BX("AND", nz, CX("GE", same, KX(0))))
         [] OTHER -> KX(1)

\* shift_imm: the result and the carry out, NoTree when there is none.
ArmSarK(x, n) == IF n = 0 THEN x ELSE IX("SARI", x, n)
ArmShiftX(v, type, n, want) ==
    LET Res(r, c) == [r |-> r, c |-> IF want THEN c ELSE NoTree]
        ror == BX("OR", ShrK(v, n % Bits), ShlK(v, (Bits - n) % Bits))
        top == ShrK(v, Bits - 1)
        out == AndK(ShrK(v, n - 1), 1)
    IN CASE type = "LSL" /\ n = 0 -> Res(v, NoTree)
         [] type = "LSL" -> Res(ShlK(v, n), AndK(ShrK(v, Bits - n), 1))
         [] type = "LSR" /\ n >= Bits -> Res(KX(0), top)
         [] type = "LSR" -> Res(ShrK(v, n), out)
         [] type = "ASR" /\ n >= Bits -> Res(ArmSarK(v, Bits - 1), top)
         [] type = "ASR" -> Res(ArmSarK(v, n), out)
         [] type = "ROR" -> Res(ror, ShrK(ror, Bits - 1))
         [] OTHER -> Res(BX("OR", ShlK(GX(ArmCF), Bits - 1), ShrK(v, 1)), AndK(v, 1))
\* operand2.
ArmOperand2X(t, d, want) ==
    IF d.opnd = "IMM" THEN [r |-> KX(d.imm), c |-> IF want /\ d.cy # 2 THEN KX(d.cy) ELSE NoTree]
    ELSE ArmShiftX(ArmRX(t, d.rm), d.sht, d.shn, want)

\* adder: the sum or difference, its carry and a word whose sign is its
\* overflow; cin is NoTree for none.
ArmAdderX(a, m, sub, cin) ==
    LET mm == IF sub THEN XorK(m, AllOnes) ELSE m
        part == BX("ADD", a, mm)
        diff == BX("SUB", a, m)
        sum == IF cin = NoTree THEN BX("ADD", a, m) ELSE BX("ADD", part, cin)
        Over(x, r) == BX("AND", BX("XOR", a, r), BX("XOR", x, r))
    IN CASE cin # NoTree -> [r |-> sum, c |-> BX("OR", CX("LTU", part, a), CX("LTU", sum, part)), v |-> Over(mm, sum)]
         [] sub -> [r |-> diff, c |-> CX("GEU", a, m), v |-> BX("AND", BX("XOR", a, m), BX("XOR", a, diff))]
         [] OTHER -> [r |-> sum, c |-> CX("LTU", sum, a), v |-> Over(m, sum)]

------------------------------------------------------------------------------
(* Leaving a block. *)

\* exit_const, exit_if, exit_cond.
ArmExitConst(ts, k) == ArmEnds(ts \o <<RetireX, ExitX(k)>>)
ArmExitCond(cond, k) ==
    LET inv == cond % 2 = 1
        Leave(cc, inverse, v) == ArmCounted(<<v, RetireX, ExitIfX(IF inv THEN inverse ELSE cc, v, KX(0), k)>>)
    IN CASE cond \div 2 = 0 -> Leave("EQ", "NE", GX(ArmZF))
         [] cond \div 2 = 1 -> Leave("NE", "EQ", GX(ArmCF))
         [] cond \div 2 = 2 -> Leave("LT", "GE", GX(ArmNF))
         [] cond \div 2 = 3 -> Leave("LT", "GE", GX(ArmVF))
         [] cond \div 2 = 5 -> Leave("GE", "LT", BX("XOR", GX(ArmNF), GX(ArmVF)))
         [] OTHER -> ArmCounted(<<RetireX, ExitIfX("NE", ArmCondX(cond), KX(0), k)>>)
\* exit_interwork: bit 0 of the target is the T bit, of xpsr and of the
\* context the dispatcher looks a block up under.
ArmInterwork(t, v) ==
    LET tbit == AndK(v, 1) IN
    <<PX(ArmXPSR, BX("OR", AndK(GX(ArmXPSR), Not(ArmT)), ShlK(tbit, 2))),
      PX(ArmCTX, BX("OR", KX(t.ctx - (t.ctx % 2)), tbit)),
      RetireX, ExitToX(AndK(v, Not(1)))>>
\* thread_mode, from the context.
ArmThreadX(t) == Bit(t.ctx, 2) = 0

------------------------------------------------------------------------------
(* One instruction.  The flags are written before the register.            *)

\* lower_dp.
ArmLowerDp(t, d) ==
    LET sf == ArmSetsFlags(t, d)
        a == ArmRX(t, d.rn)
        m == ArmOperand2X(t, d, sf)
        plain == ArmOperand2X(t, d, FALSE).r
        op == CASE d.op \in {"AND", "BIC", "TST"} -> "AND" [] d.op \in {"ORR", "ORN"} -> "OR" [] OTHER -> "XOR"
        Inverted(x) == IF d.op \in {"BIC", "ORN", "MVN"} THEN XorK(x, AllOnes) ELSE x
        Writes(r) == IF d.op \in {"TST", "TEQ", "CMN", "CMP"} THEN <<>> ELSE <<ArmWX(t, d.rd, r)>>
        Logical(r) == ArmLow((IF sf THEN ArmLogicalX(t, r, m.c) ELSE <<>>) \o Writes(r))
        Arith(s) == ArmLow((IF sf THEN ArmArithX(t, s.r, s.c, s.v) ELSE <<>>) \o Writes(s.r))
    IN CASE d.rd = ArmPC \/ d.opnd \notin {"IMM", "REG"} -> ArmNo
         [] d.op \in {"MOV", "MVN"} -> Logical(Inverted(m.r))
         [] d.op \in {"ADD", "CMN"} -> Arith(ArmAdderX(a, plain, FALSE, NoTree))
         [] d.op \in {"SUB", "CMP"} -> Arith(ArmAdderX(a, plain, TRUE, NoTree))
         [] d.op = "RSB" -> Arith(ArmAdderX(plain, a, TRUE, NoTree))
         [] d.op \in {"ADC", "SBC"} -> Arith(ArmAdderX(a, plain, d.op = "SBC", GX(ArmCF)))
         [] OTHER -> Logical(BX(op, a, Inverted(m.r)))

\* lower_shift_reg: counts run past the width of a word, and a count of 0
\* leaves the carry alone.
ArmShiftRegX(n, amt, op) ==
    LET low == Bits - 1
        m32 == BX("SUB", KX(0), CX("LTU", amt, KX(Bits)))
        within == CX("LEU", amt, KX(Bits))
        less == BX("SUB", amt, KX(1))
        hi == AndK(XorK(m32, AllOnes), low)
        r == AndK(amt, low)
        ror == BX("OR", BX("SHR", n, r), BX("SHL", n, AndK(BX("SUB", KX(Bits), r), low)))
    IN CASE op = "LSL" -> [r |-> BX("AND", BX("SHL", n, amt), m32),
                           c |-> BX("AND", AndK(BX("SHR", n, AndK(BX("SUB", KX(Bits), amt), low)), 1), within)]
         [] op = "LSR" -> [r |-> BX("AND", BX("SHR", n, amt), m32),
                           c |-> BX("AND", AndK(BX("SHR", n, AndK(less, low)), 1), within)]
         [] op = "ASR" -> [r |-> BX("SAR", n, BX("OR", BX("AND", amt, m32), hi)),
                           c |-> AndK(BX("SHR", n, AndK(BX("OR", BX("AND", less, m32), hi), low)), 1)]
         [] OTHER -> [r |-> ror, c |-> ShrK(ror, Bits - 1)]
ArmLowerShiftReg(t, d) ==
    LET amt == AndK(GX(d.rm), 63)
        s == ArmShiftRegX(GX(d.rn), amt, d.op)
        keep == BX("SUB", KX(0), CX("EQ", amt, KX(0)))
        cy == BX("XOR", s.c, BX("AND", BX("XOR", s.c, GX(ArmCF)), keep))
    IN IF d.rn >= 15 \/ d.rm >= 15 \/ d.op = "RRX" THEN ArmNo
       ELSE ArmLow((IF ArmSetsFlags(t, d) THEN ArmLogicalX(t, s.r, cy) ELSE <<>>) \o <<ArmWX(t, d.rd, s.r)>>)
\* lower_shift.
ArmLowerShift(t, d) ==
    LET sf == ArmSetsFlags(t, d)
        s == ArmShiftX(ArmRX(t, d.rn), d.op, d.imm, sf)
    IN CASE d.rd = ArmPC -> ArmNo
         [] d.opnd = "REGSHIFT" -> ArmLowerShiftReg(t, d)
         [] OTHER -> ArmLow((IF sf THEN ArmLogicalX(t, s.r, s.c) ELSE <<>>) \o <<ArmWX(t, d.rd, s.r)>>)

\* half16, set_q.
ArmHalfX(v, top) == IF top THEN ArmSarK(v, HalfBits) ELSE UX("SEXT16", v)
ArmSetQX(t, v) == LET x == GX(ArmXPSR) IN ArmWX(t, ArmXPSR, BX("OR", x, AndK(ShrK(v, 4), ArmQ)))
\* lower_mul.
ArmTops == [SMULBB |-> <<FALSE, FALSE>>, SMULBT |-> <<FALSE, TRUE>>, SMULTB |-> <<TRUE, FALSE>>, SMULTT |-> <<TRUE, TRUE>>,
            SMLABB |-> <<FALSE, FALSE>>, SMLABT |-> <<FALSE, TRUE>>, SMLATB |-> <<TRUE, FALSE>>, SMLATT |-> <<TRUE, TRUE>>]
ArmLowerHalves(t, d) ==
    LET tops == ArmTops[d.op]
        p == BX("MUL", ArmHalfX(GX(d.rn), tops[1]), ArmHalfX(GX(d.rm), tops[2]))
        a == GX(d.ra)
        r == BX("ADD", p, a)
    IN CASE d.op \in {"SMULBB", "SMULBT", "SMULTB", "SMULTT"} -> ArmLow(<<ArmWX(t, d.rd, p)>>)
         [] d.ra >= 15 -> ArmNo
         [] OTHER -> ArmLow(<<ArmSetQX(t, BX("AND", BX("XOR", p, r), BX("XOR", a, r))), ArmWX(t, d.rd, r)>>)
ArmLowerDiv(t, d) ==
    LET sgn == d.op = "SDIV"
        op == IF sgn THEN "DIVS" ELSE "DIVU"
        n == GX(d.rn)
        m == GX(d.rm)
        z == CX("EQ", m, KX(0))
        bad == IF sgn THEN BX("OR", z, BX("AND", CX("EQ", n, KX(SignBit)), CX("EQ", m, KX(AllOnes)))) ELSE z
        safe == BX("OR", BX("AND", m, BX("SUB", bad, KX(1))), bad)
    IN IF "DIV_0_TRP" \in t.c.ccr \/ ~CanLower(op, "none") THEN ArmNo
       ELSE ArmLow(<<ArmWX(t, d.rd, BX("AND", BX(op, n, safe), BX("SUB", z, KX(1))))>>)
ArmLowerLong(t, d) ==
    LET n == GX(d.rn)
        m == GX(d.rm)
        lo == BX("MUL", n, m)
        hi == BX(IF d.op \in {"SMULL", "SMLAL"} THEN "MULHS" ELSE "MULHU", n, m)
        sum == BX("ADD", lo, GX(d.rd))
        top == BX("ADD", BX("ADD", hi, GX(d.ra)), CX("LTU", sum, lo))
    IN CASE d.ra >= 15 \/ d.rd = d.ra -> ArmNo
         [] d.op \in {"UMLAL", "SMLAL"} -> ArmLow(<<top, ArmWX(t, d.rd, sum), ArmWX(t, d.ra, top)>>)
         [] OTHER -> ArmLow(<<hi, ArmWX(t, d.rd, lo), ArmWX(t, d.ra, hi)>>)
ArmLowerMul(t, d) ==
    LET p == BX("MUL", GX(d.rn), GX(d.rm)) IN
    CASE ArmPC \in {d.rd, d.rn, d.rm} -> ArmNo
      [] d.op \in {"UDIV", "SDIV"} -> ArmLowerDiv(t, d)
      [] d.op = "MUL" -> ArmLow((IF ArmSetsFlags(t, d) THEN ArmNzX(t, p) ELSE <<>>) \o <<ArmWX(t, d.rd, p)>>)
      [] d.op \in {"MLA", "MLS"} ->
            IF d.ra >= 15 THEN ArmNo ELSE ArmLow(<<ArmWX(t, d.rd, BX(IF d.op = "MLA" THEN "ADD" ELSE "SUB", GX(d.ra), p))>>)
      [] d.op \in {"UMULL", "SMULL", "UMLAL", "SMLAL"} -> ArmLowerLong(t, d)
      [] OTHER -> ArmLowerHalves(t, d)

\* lower_misc.
ArmExtOps == [SXTB |-> "SEXT8", SXTH |-> "SEXT16", UXTB |-> "ZEXT8", UXTH |-> "ZEXT16",
              SXTAB |-> "SEXT8", SXTAH |-> "SEXT16", UXTAB |-> "ZEXT8", UXTAH |-> "ZEXT16"]
ArmExtendX(d) ==
    LET v == GX(d.rm)
        r == IF d.imm = 0 THEN v ELSE BX("OR", ShrK(v, d.imm), ShlK(v, Bits - d.imm))
        e == UX(ArmExtOps[d.op], r)
    IN IF d.rn = ArmNoReg THEN e ELSE BX("ADD", GX(d.rn), e)
ArmRevX(d) ==
    LET v == GX(d.rm)
        byte1 == 2 ^ (2 * ByteBits) - 2 ^ ByteBits                     \* 0xFF00
        lows == (2 ^ ByteBits - 1) * (1 + 2 ^ HalfBits)                \* 0x00FF00FF
        far == Bits - ByteBits
        pairs == BX("OR", ShlK(AndK(v, lows), ByteBits), AndK(ShrK(v, ByteBits), lows))
    IN CASE d.op = "REV" -> BX("OR", BX("OR", ShlK(v, far), ShlK(AndK(v, byte1), ByteBits)),
                                     BX("OR", AndK(ShrK(v, ByteBits), byte1), ShrK(v, far)))
         [] d.op = "REV16" -> pairs
         [] OTHER -> UX("SEXT16", pairs)
ArmFieldX(d) ==
    LET v == GX(d.rn)
        mask == Shl(2 ^ d.imm2 - 1, d.imm)
        cleared == AndK(GX(d.rd), Not(mask))
    IN CASE d.op = "UBFX" -> AndK(ShrK(v, d.imm), 2 ^ d.imm2 - 1)
         [] d.op = "SBFX" -> ArmSarK(ShlK(v, Bits - d.imm - d.imm2), Bits - d.imm2)
         [] d.op = "BFC" -> cleared
         [] OTHER -> BX("OR", cleared, AndK(ShlK(v, d.imm), mask))
ArmAlign(x) == x - (x % 4)
ArmLowerMisc(t, d) ==
    LET base == ArmAlign(Add(t.pc, 4))
        W(v) == ArmLow(<<ArmWX(t, d.rd, v)>>)
    IN CASE d.rd = ArmPC -> ArmNo
         [] d.op = "MOVW" -> W(KX(d.imm))
         [] d.op = "MOVT" -> W(BX("OR", AndK(GX(d.rd), 2 ^ HalfBits - 1), KX(Shl(d.imm, HalfBits))))
         [] d.op = "ADR" -> W(KX(IF d.add THEN Add(base, d.imm) ELSE Sub(base, d.imm)))
         [] d.op \in DOMAIN ArmExtOps -> IF ArmPC \in {d.rm, d.rn} THEN ArmNo ELSE W(ArmExtendX(d))
         [] d.op \in {"REV", "REV16", "REVSH"} -> IF d.rm = ArmPC THEN ArmNo ELSE W(ArmRevX(d))
         [] d.op = "CLZ" -> IF d.rm >= 15 \/ ~CanLower("CLZ", "none") THEN ArmNo ELSE W(UX("CLZ", GX(d.rm)))
         [] OTHER -> IF d.rn = ArmPC \/ d.imm2 = 0 \/ d.imm + d.imm2 > Bits THEN ArmNo ELSE W(ArmFieldX(d))

------------------------------------------------------------------------------
(* Accesses. *)

\* a7_fast_mem, decided when the block is made.
ArmFastMem(c) ==
    LET r == Find(ArmMap, Sub(c.reg[ArmSP], 4)) IN
    IF "ENABLE" \in c.mpu_ctrl \/ "UNALIGN_TRP" \in c.ccr \/ r = NoRegion \/ r.kind # "RAM" \/ r.base < 16
       \/ ~({"R", "W"} \subseteq r.perm) THEN NoWindow
    ELSE [base |-> r.base, size |-> r.size]
ArmSpec(t, size, signed, aligned) ==
    [size |-> size, signed |-> signed, aligned |-> aligned, win |-> t.win, w |-> t.w]
\* aligned_base: a misaligned address is taken out of the window.
ArmAlignedX(t, base) ==
    IF t.win = NoWindow THEN base
    ELSE BX("OR", base, AndK(BX("SUB", KX(0), AndK(base, 3)), 240))
\* literal_const: what cannot be written is a constant.
ArmLiteralConst(c, at, size) ==
    LET r == Find(ArmMap, at) IN
    /\ "ENABLE" \notin c.mpu_ctrl /\ r # NoRegion
    /\ r.kind = "ROM" /\ "W" \notin r.perm /\ Sub(at, r.base) + size <= r.size /\ at % size = 0
ArmDisp(d) == IF d.add THEN d.imm ELSE Sub(0, d.imm)

\* lower_ldst.
ArmLoads == {"LDR", "LDRB", "LDRH", "LDRSB", "LDRSH"}
ArmLowerAccess(t, d, addr, disp, wb) ==
    LET spec == ArmSpec(t, d.size, d.sext, FALSE)
        v == ArmIf(t, LdX(spec, addr, disp))
        back == IF wb = NoTree THEN <<>> ELSE <<ArmWX(t, d.rn, wb)>>
        val == GX(d.rd)
    IN CASE d.op \notin ArmLoads ->
              ArmLow(<<addr, wb, val>> \o ArmItAccess(t, <<ArmIf(t, StX([spec EXCEPT !.signed = FALSE], addr, disp, val))>>) \o back)
         [] d.rd = ArmPC -> ArmEnds(<<addr, wb, v>> \o back \o ArmInterwork(t, v))
         [] OTHER -> ArmLow(<<addr, wb>> \o ArmItAccess(t, <<v>>) \o back \o <<ArmWX(t, d.rd, v)>>)
ArmLowerLdst(t, d) ==
    LET base == ArmAlign(Add(t.pc, 4))
        at == Add(base, ArmDisp(d))
        raw == LoadLe(t.c.mem, at, d.size)
        k == KX(IF d.sext THEN Sext(raw, ByteBits * d.size) ELSE raw)
        addr == GX(d.rn)
    IN CASE d.rd = ArmPC /\ (t.in_it \/ d.op \notin ArmLoads \/ d.size # 4 \/ ~ArmThreadX(t)) -> ArmNo
         [] d.addr = "LITERAL" ->
              CASE ~ArmLiteralConst(t.c, at, d.size) -> ArmLowerAccess(t, d, KX(at), 0, NoTree)
                [] d.rd = ArmPC -> ArmEnds(ArmInterwork(t, k))
                [] OTHER -> ArmLow(<<ArmWX(t, d.rd, k)>>)
         [] d.addr = "IMM" ->
              IF d.rn = ArmPC \/ (d.wback /\ d.rn = d.rd) THEN ArmNo
              ELSE ArmLowerAccess(t, d, addr, IF d.index THEN ArmDisp(d) ELSE 0, IF d.wback THEN AddK(addr, ArmDisp(d)) ELSE NoTree)
         [] OTHER -> IF ArmPC \in {d.rn, d.rm} THEN ArmNo
                     ELSE ArmLowerAccess(t, d, BX("ADD", addr, ShlK(GX(d.rm), d.shn)), 0, NoTree)

\* lower_dual.
ArmLowerDual(t, d) ==
    LET off == ArmDisp(d)
        lit == d.addr = "LITERAL"
        addr == IF lit THEN KX(Add(ArmAlign(Add(t.pc, 4)), off)) ELSE GX(d.rn)
        disp == IF lit \/ ~d.index THEN 0 ELSE off
        acc == ArmAlignedX(t, addr)
        spec == ArmSpec(t, 4, FALSE, TRUE)
        v1 == ArmIf(t, LdX(spec, acc, disp))
        v2 == ArmIf(t, LdX(spec, acc, Add(disp, 4)))
        St(k, r) == ArmIf(t, StX(spec, acc, Add(disp, k), GX(r)))
        back == IF d.wback THEN <<ArmWX(t, d.rn, AddK(addr, off))>> ELSE <<>>
    IN CASE d.rd >= 15 \/ d.ra >= 15 -> ArmNo
         [] lit /\ (d.wback \/ ~d.index) -> ArmNo
         [] ~lit /\ (d.rn = ArmPC \/ (d.wback /\ d.rn \in {d.rd, d.ra})) -> ArmNo
         [] d.op = "LDRD" -> ArmLow(<<acc>> \o ArmItAccess(t, <<v1, v2>>) \o back \o <<ArmWX(t, d.rd, v1), ArmWX(t, d.ra, v2)>>)
         [] OTHER -> ArmLow(<<acc, GX(d.rd), GX(d.ra)>> \o ArmItAccess(t, <<St(0, d.rd), St(4, d.ra)>>) \o back)

\* lower_multi: every load before any register is written.
ArmLowerMulti(t, d) ==
    LET load == d.op \in {"LDM", "LDMDB", "POP"}
        count == Cardinality(d.list)
        down == Sub(0, 4 * count)
        first == IF d.op \in {"LDMDB", "STMDB", "PUSH"} THEN down ELSE 0
        final == IF d.op \in {"LDMDB", "STMDB", "PUSH"} THEN down ELSE 4 * count
        base == GX(d.rn)
        acc == ArmAlignedX(t, base)
        spec == ArmSpec(t, 4, FALSE, TRUE)
        regs == SetToSortSeq(d.list, <)
        At(i) == Add(first, 4 * (i - 1))
        V(i) == ArmIf(t, LdX(spec, acc, At(i)))
        S(i) == ArmIf(t, StX(spec, acc, At(i), GX(regs[i])))
        back == IF d.wback THEN <<ArmWX(t, d.rn, AddK(base, final))>> ELSE <<>>
        low == SelectSeq(regs, LAMBDA r : r # ArmPC)
        writes == [i \in 1 .. Len(low) |-> ArmWX(t, low[i], V(i))]
        loads == <<acc>> \o ArmItAccess(t, [i \in 1 .. count |-> V(i)]) \o back \o writes
    IN CASE d.rn >= 15 \/ count = 0 \/ ArmSP \in d.list -> ArmNo
         [] ArmPC \in d.list /\ (t.in_it \/ ~load \/ ~ArmThreadX(t)) -> ArmNo
         [] ~load -> ArmLow(<<acc>> \o [i \in 1 .. count |-> GX(regs[i])]
                            \o ArmItAccess(t, [i \in 1 .. count |-> S(i)]) \o back)
         [] ArmPC \in d.list -> ArmEnds(loads \o ArmInterwork(t, V(count)))
         [] OTHER -> ArmLow(loads)

\* lower_branch.
ArmLowerBranch(t, d) ==
    LET target == Add(t.pc, 4 + d.imm)
        half == d.op = "TBH"
        idx == GX(d.rm)
        e == LdX(ArmSpec(t, IF half THEN 2 ELSE 1, FALSE, FALSE), BX("ADD", ArmRX(t, d.rn), IF half THEN ShlK(idx, 1) ELSE idx), 0)
        v == ArmRX(t, d.rm)
        link == IF d.op = "BLX" THEN <<v, PX(ArmLR, KX(Or(Add(t.pc, t.len), 1)))>> ELSE <<v>>
    IN CASE d.op = "B" /\ t.in_it -> IF t.last THEN ArmCounted(<<RetireX, ExitIfX("NE", t.cond, KX(0), target)>>) ELSE ArmNo
         [] t.in_it -> ArmNo
         [] d.op = "B" -> ArmExitConst(<<>>, target)
         [] d.op = "BCC" -> ArmExitCond(d.cond, target)
         [] d.op \in {"CBZ", "CBNZ"} ->
              IF d.rn >= 8 THEN ArmNo
              ELSE ArmCounted(<<RetireX, ExitIfX(IF d.op = "CBZ" THEN "EQ" ELSE "NE", GX(d.rn), KX(0), target)>>)
         [] d.op = "BL" -> ArmExitConst(<<PX(ArmLR, KX(Or(Add(t.pc, 4), 1)))>>, target)
         [] d.op \in {"TBB", "TBH"} ->
              IF d.rm >= 15 \/ d.rn = ArmSP THEN ArmNo
              ELSE ArmEnds(<<e, RetireX, ExitToX(BX("ADD", KX(Add(t.pc, 4)), ShlK(e, 1)))>>)
         [] OTHER -> IF ~ArmThreadX(t) THEN ArmNo ELSE ArmEnds(link \o ArmInterwork(t, v))

------------------------------------------------------------------------------
(* Blocks. *)

ArmDpOps == {"AND", "BIC", "ORR", "ORN", "EOR", "ADD", "ADC", "SBC", "SUB", "RSB", "MOV", "MVN", "TST", "TEQ", "CMN", "CMP"}
ArmMulOps == {"MUL", "MLA", "MLS", "UMULL", "SMULL", "UMLAL", "SMLAL", "UDIV", "SDIV"} \cup DOMAIN ArmTops
ArmMiscOps == {"MOVW", "MOVT", "ADR", "REV", "REV16", "REVSH", "CLZ", "UBFX", "SBFX", "BFI", "BFC"} \cup DOMAIN ArmExtOps
\* lower_native.
ArmLowerNative(t, d) ==
    CASE d.op \in ArmDpOps -> ArmLowerDp(t, d)
      [] d.op \in {"LSL", "LSR", "ASR", "ROR", "RRX"} -> ArmLowerShift(t, d)
      [] d.op \in ArmMulOps -> ArmLowerMul(t, d)
      [] d.op \in ArmMiscOps -> ArmLowerMisc(t, d)
      [] d.op \in ArmLoads \cup {"STR", "STRB", "STRH"} -> ArmLowerLdst(t, d)
      [] d.op \in {"LDRD", "STRD"} -> ArmLowerDual(t, d)
      [] d.op \in {"LDM", "LDMDB", "STM", "STMDB", "PUSH", "POP"} -> ArmLowerMulti(t, d)
      [] d.op \in {"B", "BCC", "BL", "BX", "BLX", "CBZ", "CBNZ", "TBB", "TBH"} -> ArmLowerBranch(t, d)
      [] d.op \in {"NOP", "YIELD", "SEV", "DSB", "DMB", "PLD", "PLI"} -> ArmLow(<<>>)
      [] d.op = "ISB" -> IF t.in_it THEN ArmNo ELSE ArmEnds(<<RetireX, ExitToX(KX(Add(t.pc, t.len)))>>)
      [] OTHER -> ArmNo
\* must_decline.
ArmMustDecline(d) ==
    d.op \in {"UNDEF", "UNPRED", "NOCP", "SVC", "BKPT", "UDF", "CPSIE", "CPSID", "MSR", "MRS", "WFI", "WFE", "IT"}
\* helper_falls_through: it cannot have written pc.
ArmFallsThrough(d) ==
    CASE d.wback /\ d.rn = ArmPC -> FALSE
      [] d.op \in ArmFpOps ->
            ~(d.op \in {"VMOV_CORE", "VMOV_CORE2", "VMOV_SCALAR"} /\ d.imm # 0 /\ (d.rd = ArmPC \/ d.ra = ArmPC))
      [] d.op \in {"CLREX", "TST", "TEQ", "CMN", "CMP", "STR", "STRB", "STRH", "STRT", "STRBT", "STRHT", "STRD", "STM", "STMDB",
                   "PUSH"} -> TRUE
      [] d.op \in {"LDM", "LDMDB", "POP"} -> ArmPC \notin d.list
      [] d.op \in {"TBB", "TBH", "B", "BCC", "BL", "BX", "BLX", "CBZ", "CBNZ", "ISB", "NOP", "PLD", "PLI"} -> FALSE
      [] OTHER -> d.rd # ArmPC /\ d.ra # ArmPC
\* lower_helper.
ArmLowerHelper(t, d) ==
    LET call == TrapX("ARM", [w |-> t.w, pc |-> t.pc]) IN
    IF ArmFallsThrough(d) THEN ArmLow(<<call>>) ELSE ArmEnds(<<call, RetireX, ExitToX(GX(ArmPC))>>)

\* How one lowered instruction ends: counted once, then pc.
ArmFinish(block, low, next) ==
    LET one == EmitAll(block, Flat(low.ts) \o (IF low.counted THEN <<>> ELSE <<RetireF>>))
    IN IF low.ends THEN one ELSE EmitAll(one, <<SetPcF(next)>>)

\* lower_it: the instructions of an IT block, each under its condition, or
\* nothing at all.  The condition of the members is that of c.it.
ArmMembers(d) == IF d.imm = 1 THEN 1 ELSE 2
ArmLowerIt(t, d, prog, i, block, room) ==
    LET n == ArmMembers(d)
        Code(k) == IF k < n THEN 3 ELSE IF n = 1 \/ t.c.it.same THEN 1 ELSE 2
        Cond(k) == IF Code(k) = 2 THEN t.c.it.cond + 1 - 2 * (t.c.it.cond % 2) ELSE t.c.it.cond
        Member(acc, k) ==
          LET w == prog[i + k]
              m == [t EXCEPT !.w = w, !.pc = acc.cur, !.len = ArmLen(w), !.in_it = TRUE, !.last = k = n, !.it = Code(k),
                             !.cond = ArmCondX(Cond(k))]
              dd == ArmDecoded(w)
              low == ArmLowerNative(m, dd)
              next == Add(acc.cur, m.len)
          IN IF ~acc.ok \/ ArmMustDecline(dd) \/ ~low.ok \/ low.ends THEN [acc EXCEPT !.ok = FALSE]
             ELSE [ok |-> TRUE, cur |-> next, block |-> ArmFinish(acc.block, [low EXCEPT !.ts = <<m.cond>> \o @], next)]
        start == [ok |-> TRUE, cur |-> Add(t.pc, 2), block |-> EmitAll(block, <<RetireF, SetPcF(Add(t.pc, 2))>>)]
        out == Loop(Member, start, n)
        none == [ok |-> FALSE, cur |-> t.pc, block |-> block]
    IN IF 1 + n > room \/ i + n > Len(prog) THEN none ELSE IF ~out.ok \/ out.block.overflow THEN none ELSE out

\* smc_mark: pages of writable memory that code has been made of.
ArmSmcMark_FirstPage(c, from, to) ==
    LET r == Find(ArmMap, from)
        lo == from - (from % ArmPage)
        hi == ((to + ArmPage - 1) \div ArmPage) * ArmPage
        window == ArmPage * ArmPages
        fresh == c.smc.span = 0
        base == IF fresh THEN lo - (lo % window) ELSE c.smc.base
        newLo == IF fresh THEN lo ELSE Min({lo, c.smc.lo})
        newHi == IF fresh THEN hi ELSE Max({hi, c.smc.lo + c.smc.span})
        out == newLo < base \/ newHi > base + window
        bits == IF fresh THEN {} ELSE c.smc.bits
        pages == {(a - base) \div ArmPage : a \in {x \in lo .. to - ArmPage : x % ArmPage = 0}}
    IN IF r = NoRegion \/ "W" \notin r.perm THEN c
       ELSE [c EXCEPT !.smc = [lo |-> newLo, span |-> newHi - newLo, base |-> base, watch |-> TRUE,
                               wide |-> out \/ (~fresh /\ c.smc.wide), bits |-> IF out THEN bits ELSE bits \cup pages]]
ArmSmcMark(c, from, to) ==
    LET r == Find(ArmMap, from)
        lo == from - (from % ArmPage)
        hi == ((to + ArmPage - 1) \div ArmPage) * ArmPage
        window == ArmPage * ArmPages
        fresh == c.smc.span = 0
        base == IF fresh THEN lo - (lo % window) ELSE c.smc.base
        newLo == IF fresh THEN lo ELSE Min({lo, c.smc.lo})
        newHi == IF fresh THEN hi ELSE Max({hi, c.smc.lo + c.smc.span})
        out == newLo < base \/ newHi > base + window
        bits == IF fresh THEN {} ELSE c.smc.bits
        pages == {(a - base) \div ArmPage : a \in {x \in lo .. hi - 1 : x % ArmPage = 0}}
    IN IF r = NoRegion \/ "W" \notin r.perm THEN c
       ELSE [c EXCEPT !.smc = [lo |-> newLo, span |-> newHi - newLo, base |-> base, watch |-> TRUE,
                               wide |-> out \/ (~fresh /\ c.smc.wide), bits |-> IF out THEN bits ELSE bits \cup pages]]

\* armv7m_ir_translate.
ArmTranslate(c, prog, pc) ==
    LET win == ArmFastMem(c)
        ctx == c.reg[ArmCTX]
        One(acc, i) ==
          LET w == prog[i]
              d == ArmDecoded(w)
              t == [c |-> c, w |-> w, pc |-> acc.cur, len |-> ArmLen(w), ctx |-> ctx, win |-> win,
                    in_it |-> FALSE, last |-> FALSE, cond |-> NoTree, it |-> 0]
              it == ArmLowerIt(t, d, prog, i, acc.block, ArmMaxBlock - acc.count)
              nat == ArmLowerNative(t, d)
              low == IF nat.ok THEN nat ELSE ArmLowerHelper(t, d)
              next == Add(acc.cur, t.len)
              room == /\ acc.count < ArmMaxBlock /\ ~acc.block.overflow
                      /\ Len(acc.block.insn) + ArmHeadroom <= MaxInsns
                      /\ acc.block.next + ArmHeadroom <= MaxTemps
          IN CASE acc.stop -> acc
               [] acc.skip > 0 -> [acc EXCEPT !.skip = @ - 1]
               [] ~room \/ ~ArmFetchProbe(c, acc.cur) -> [acc EXCEPT !.stop = TRUE]
               [] d.op = "IT" -> IF it.ok THEN [acc EXCEPT !.block = it.block, !.cur = it.cur, !.skip = ArmMembers(d),
                                                           !.count = @ + 1 + ArmMembers(d)]
                                 ELSE [acc EXCEPT !.stop = TRUE]
               [] ArmMustDecline(d) -> [acc EXCEPT !.stop = TRUE]
               [] OTHER -> [acc EXCEPT !.block = ArmFinish(@, low, next), !.cur = next, !.count = @ + 1, !.stop = low.ends]
        none == [block |-> EmptyBlock(pc), cur |-> pc, count |-> 0, stop |-> FALSE, skip |-> 0]
    IN IF Bit(ctx, 0) = 0 \/ Bit(ctx, 1) = 1 \/ (Bit(ctx, 2) = 1 /\ ArmIsReturn(pc)) THEN none ELSE Loop(One, none, Len(prog))

\* a7_bind and a7_after_interp; a7_interp_run packs.
ArmBind(c) == ArmRebind(c)
\* a7_take_irq: the mark is cleared before the look, in a step of its own.
ArmClear(c) == [c EXCEPT !.irq_maybe = FALSE]
ArmLook(c) == IF ArmPreempts(c) THEN ArmRebind(ArmTake(ArmPack(c), ArmPendingExc(c), c.pc)) ELSE c
==============================================================================
