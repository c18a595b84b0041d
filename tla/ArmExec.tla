------------------------------ MODULE ArmExec ------------------------------
(* The instructions of an ARMv7-M core as they are interpreted, and after  *)
(* them those of its floating-point unit (armv7m_fpu.c).                   *)
(*                                                                         *)
(* The ARMv7-M interpreter (armv7m_interp.c) on the fields of an encoding  *)
(* (the "w" below): enc names the group of encodings, the other fields are *)
(* the bits the group's function reads.  A word has 8 bits, so a shift     *)
(* count has 3, an immediate byte 2, a half 4.                             *)
EXTENDS ArmCpu

------------------------------------------------------------------------------
(* The coprocessor space of the ARMv7-M core (armv7m_fpu.c): a             *)
(* single-precision unit, the rules of the architecture around an          *)
(* arithmetic library.  A single has Bits bits, a half HalfBits.  FPSCR is  *)
(* a record of its fields: as a word of a core register it shows NZCV, the *)
(* rounding mode, FZ and DN.                                               *)
ArmUndef(c) == ArmRes(c, "UNDEF", 0)
ArmOk(c) == ArmRes(c, "NONE", 0)
ArmAligned(pc) == LET x == Add(pc, 4) IN x - (x % 4)
ArmFpscrWord(f) == 16 * f.nzcv + 4 * f.rm + 2 * Bool("FZ" \in f.bits) + Bool("DN" \in f.bits)
ArmFpscrOf(x) ==
    [nzcv |-> x \div 16, rm |-> (x \div 4) % 4, cum |-> {},
     bits |-> (IF Bit(x, 1) = 1 THEN {"FZ"} ELSE {}) \cup (IF Bit(x, 0) = 1 THEN {"DN"} ELSE {})]

\* is_denorm; the others are those of Floats.
ArmIsDenorm(x) == Mag(x) \in 1 .. 2 ^ HalfBits - 1
ArmFraction == 2 ^ HalfBits
ArmBias == 2 ^ (HalfBits - 2) - 1

\* What the library gives for an operation: a value and what it raised.
ArmLib(op, rm, x, y, z) ==
    LET r == Some(op, rm, x, y, z) IN
    [val |-> IF IsNaN(r) THEN CanonicalNaN ELSE r,
     flags |-> CASE IsNaN(r) -> {"IOC"}
                 [] op = "FDIV" /\ IsZero(y) -> {"DZC"}
                 [] IsInf(r) -> {"OFC", "IXC"}
                 [] r % 8 \in {3, 5} -> {"IXC"} \cup (IF ArmIsDenorm(r) THEN {"UFC"} ELSE {})
                 [] OTHER -> {}]

ArmGives(f, flags, v) == [f |-> [f EXCEPT !.cum = @ \cup flags], val |-> v]
\* unpack, of all the operands.
ArmFlushed(f, x) == "FZ" \in f.bits /\ ArmIsDenorm(x)
ArmUnpacked(f, in) ==
    [f |-> IF \E i \in DOMAIN in : ArmFlushed(f, in[i]) THEN [f EXCEPT !.cum = @ \cup {"IDC"}] ELSE f,
     in |-> [i \in DOMAIN in |-> IF ArmFlushed(f, in[i]) THEN And(in[i], SignBit) ELSE in[i]]]
\* process_nan; process_nans and process_nans3: signalling before quiet,
\* then the order of the operands.
ArmSomeNaN(in) == \E i \in DOMAIN in : IsNaN(in[i])
ArmNaNs(f, in) ==
    LET s == {i \in DOMAIN in : IsSNaN(in[i])}
        q == {i \in DOMAIN in : IsNaN(in[i])}
        x == in[Min(IF s # {} THEN s ELSE q)]
    IN ArmGives(f, IF IsSNaN(x) THEN {"IOC"} ELSE {}, IF "DN" \in f.bits THEN CanonicalNaN ELSE Or(x, QuietBit))
\* sf_end: a result too small is a zero under FZ, with UFC and without IXC.
ArmSfEnd(f, r) ==
    IF "FZ" \in f.bits /\ (ArmIsDenorm(r.val) \/ "UFC" \in r.flags)
    THEN ArmGives(f, (r.flags \ {"IXC"}) \cup {"UFC"}, And(r.val, SignBit))
    ELSE ArmGives(f, r.flags, r.val)

\* fp_binop, fp_sqrt and fp_muladd (addend, x, y).
ArmFpArith(f, op, in) ==
    LET u == ArmUnpacked(f, in)
        Arg(i) == IF i \in DOMAIN in THEN u.in[i] ELSE 0
    IN IF ArmSomeNaN(u.in) THEN ArmNaNs(u.f, u.in) ELSE ArmSfEnd(u.f, ArmLib(op, f.rm, Arg(1), Arg(2), Arg(3)))
ArmFpMulAdd(f, in) ==
    LET u == ArmUnpacked(f, in)
        x == u.in[2]
        y == u.in[3]
        zeroInf == (IsInf(x) /\ IsZero(y)) \/ (IsZero(x) /\ IsInf(y))
    IN IF IsNaN(u.in[1]) /\ ~IsSNaN(u.in[1]) /\ zeroInf THEN ArmGives(u.f, {"IOC"}, CanonicalNaN) ELSE ArmFpArith(f, "FMA", in)

\* fp_cmp: the flags it leaves in FPSCR.
ArmFpCmp(f, x, y, e) ==
    LET u == ArmUnpacked(f, <<x, y>>)
        a == FOrd(u.in[1])
        b == FOrd(u.in[2])
        bad == e \/ IsSNaN(x) \/ IsSNaN(y)
    IN IF ArmSomeNaN(u.in) THEN [u.f EXCEPT !.nzcv = 3, !.cum = IF bad THEN @ \cup {"IOC"} ELSE @]
       ELSE [u.f EXCEPT !.nzcv = CASE a = b -> 6 [] a < b -> 8 [] OTHER -> 2]
\* fp_maxmin: a quiet NaN loses to a number.
ArmFpMaxMin(f, x, y, max) ==
    LET u == ArmUnpacked(f, <<x, y>>)
        Quiet(v) == IsNaN(v) /\ ~IsSNaN(v)
        lose == ExpMask + (IF max THEN SignBit ELSE 0)
        a == IF Quiet(u.in[1]) /\ ~IsNaN(u.in[2]) THEN lose ELSE u.in[1]
        b == IF Quiet(u.in[2]) /\ ~IsNaN(u.in[1]) THEN lose ELSE u.in[2]
    IN CASE ArmSomeNaN(<<a, b>>) -> ArmNaNs(u.f, <<a, b>>)
         [] IsZero(a) /\ IsZero(b) -> ArmGives(u.f, {}, IF max THEN And(a, b) ELSE Or(a, b))
         [] OTHER -> ArmGives(u.f, {}, IF (FOrd(a) > FOrd(b)) = max THEN a ELSE b)
\* fp_round_int.
ArmFpRoundInt(f, x, rm, exact) ==
    LET u == ArmUnpacked(f, <<x>>)
        a == u.in[1]
        r == ArmLib("CVT", rm, a, 0, 0)
    IN CASE IsNaN(a) -> ArmNaNs(u.f, u.in)
         [] IsInf(a) \/ IsZero(a) -> ArmGives(u.f, {}, a)
         [] OTHER -> ArmGives(u.f, IF exact THEN r.flags \cap {"IXC"} ELSE {}, r.val)

\* fp_to_fixed, exactly: the value over 2^-fbits, rounded, saturated to size
\* bits; IOC when it saturates, and then not IXC.
ArmRoundUp(rm, neg, odd, half) ==
    CASE rm = 0 -> half > 0 \/ (half = 0 /\ odd)
      [] rm = 1 -> ~neg
      [] rm = 2 -> neg
      [] rm = 4 -> half >= 0
      [] OTHER -> FALSE
ArmFpToFixed(f, x, size, fbits, uns, rm) ==
    LET u == ArmUnpacked(f, <<x>>)
        a == u.in[1]
        neg == SignOf(x)
        hi == IF uns THEN 2 ^ size - 1 ELSE 2 ^ (size - 1) - 1
        lo == IF uns THEN 0 ELSE -(2 ^ (size - 1))
        exp == Mag(x) \div ArmFraction
        mant == (x % ArmFraction) + (IF exp # 0 THEN ArmFraction ELSE 0)
        e == (IF exp # 0 THEN exp ELSE 1) - ArmBias - HalfBits + fbits
        den == IF e < 0 THEN 2 ^ (-e) ELSE 1
        num == IF e < 0 THEN mant ELSE mant * 2 ^ e
        frac == num % den
        half == CASE 2 * frac < den -> -1 [] 2 * frac = den -> 0 [] OTHER -> 1
        ip == (num \div den) + Bool(frac # 0 /\ ArmRoundUp(rm, neg, (num \div den) % 2 = 1, half))
        v == IF neg THEN -ip ELSE ip
    IN CASE IsNaN(a) -> ArmGives(u.f, {"IOC"}, 0)
         [] IsZero(a) -> ArmGives(u.f, {}, 0)
         [] IsInf(a) -> ArmGives(u.f, {"IOC"}, Wrap(IF neg THEN lo ELSE hi))
         [] v > hi \/ v < lo -> ArmGives(u.f, {"IOC"}, Wrap(IF v > hi THEN hi ELSE lo))
         [] OTHER -> ArmGives(u.f, IF frac # 0 THEN {"IXC"} ELSE {}, Wrap(v))
\* fixed_to_fp.
ArmFixedToFp(f, x, size, fbits, uns, rm) ==
    LET low == x % 2 ^ size
        v == IF ~uns /\ low >= 2 ^ (size - 1) THEN Wrap(low - 2 ^ size) ELSE low
        r == ArmLib(IF uns THEN "U2F" ELSE "I2F", rm, v, 0, 0)
    IN IF v = 0 THEN ArmGives(f, {}, 0) ELSE ArmGives(f, r.flags \cap {"IXC"}, Sub(r.val, fbits * ArmFraction))

\* half_to_single and single_to_half: a half is a sign, an exponent of
\* HalfBits - 2 bits and the quiet bit.
ArmHalfToSingle(f, h) ==
    LET sign == IF h >= 8 THEN SignBit ELSE 0
        exp == (h \div 2) % 4
        frac == h % 2
    IN CASE exp = 3 /\ "AHP" \notin f.bits ->
                ArmGives(f, {}, CASE frac = 0 -> sign + ExpMask
                                  [] "DN" \in f.bits -> CanonicalNaN
                                  [] OTHER -> sign + CanonicalNaN)
         [] exp = 0 -> ArmGives(f, {}, IF frac = 0 THEN sign ELSE sign + (ArmBias - 1) * ArmFraction)
         [] OTHER -> ArmGives(f, {}, sign + (exp - 1 + ArmBias) * ArmFraction + frac * QuietBit)
ArmSingleToHalf(f, x) ==
    LET sign == IF SignOf(x) THEN 8 ELSE 0
        ahp == "AHP" \in f.bits
        u == ArmUnpacked(f, <<x>>)
        a == u.in[1]
        big == ahp /\ Mag(a) >= (ArmBias + 1) * ArmFraction
        r == ArmLib("CVT", f.rm, IF big THEN a - ArmFraction ELSE a, 1, 0)
        h == r.val % 16
    IN CASE IsNaN(a) /\ ahp -> ArmGives(u.f, {"IOC"}, sign)
         [] IsNaN(a) -> ArmGives(u.f, IF IsSNaN(a) THEN {"IOC"} ELSE {}, IF "DN" \in f.bits THEN 7 ELSE sign + 7)
         [] IsInf(a) /\ ahp -> ArmGives(u.f, {"IOC"}, sign + 7)
         [] IsInf(a) -> ArmGives(u.f, {}, sign + 6)
         [] IsZero(a) -> ArmGives(u.f, {}, sign)
         [] big /\ (h % 8 >= 6 \/ "OFC" \in r.flags) -> ArmGives(u.f, {"IOC"}, sign + 7)
         [] big -> ArmGives(u.f, r.flags \cap {"IXC"}, sign + (h % 8) + 2)
         [] OTHER -> ArmGives(u.f, r.flags \ {"DZC"}, h)

-----------------------------------------------------------------------------
(* Enablement and the lazy save. *)

ArmFpuEnabled(c) == c.cpacr = 3 \/ (c.cpacr = 1 /\ ArmPriv(c))
\* fp_check: on; the deferred save finished; FPSCR's modes from FPDSCR at the
\* first instruction of a new context.
ArmFpCheck(c) ==
    LET saved == IF "LSPACT" \in c.fpccr THEN ArmFpLazySave(c) ELSE ArmOk(c)
        d == saved.cpu
        new == "ASPEN" \in d.fpccr /\ "FPCA" \notin d.control
    IN CASE ~ArmFpuEnabled(c) -> ArmRes(c, "NOCP", 0)
         [] saved.x # "NONE" -> saved
         [] new -> ArmOk([d EXCEPT !.control = @ \cup {"FPCA"},
                                   !.fpscr = [@ EXCEPT !.bits = d.fpdscr.bits, !.rm = d.fpdscr.rm]])
         [] OTHER -> ArmOk(d)
\* Op on the core after a check that passed.
ArmChecked(c, Op(_)) == LET r == ArmFpCheck(c) IN IF r.x # "NONE" THEN r ELSE Op(r.cpu)

-----------------------------------------------------------------------------
(* The instructions.  rd, rn and rm are S registers (d, n, m); op is o1,    *)
(* op2 opc2, op3 opc3, s the T bit, sz = 3 the double-precision bit.       *)

\* r in S register d, with its FPSCR.
ArmPutS(c, d, r) == ArmOk([c EXCEPT !.s[d] = r.val, !.fpscr = r.f])
ArmRms == <<4, 0, 1, 2>>        \* k_rm: A, N, P, M
\* fp_dp, the FPv5 group (T set).
ArmFpDpT(c, w) ==
    LET op == w.op3 % 2 = 1
        x == c.reg[ArmXPSR]
        z == Bit(x, 6) = 1
        ge == Bit(x, 7) = Bit(x, 4)
        cond == CASE w.op % 4 = 0 -> z [] w.op % 4 = 1 -> Bit(x, 4) = 1 [] w.op % 4 = 2 -> ge [] OTHER -> ~z /\ ge
        rm == ArmRms[(w.op2 % 4) + 1]
        Sel(d) == ArmOk([d EXCEPT !.s[w.rd] = d.s[IF cond THEN w.rn ELSE w.rm]])
        MaxMin(d) == ArmPutS(d, w.rd, ArmFpMaxMin(d.fpscr, d.s[w.rn], d.s[w.rm], ~op))
        Rint(d) == ArmPutS(d, w.rd, ArmFpRoundInt(d.fpscr, d.s[w.rm], rm, FALSE))
        Cvt(d) == ArmPutS(d, w.rd, ArmFpToFixed(d.fpscr, d.s[w.rm], Bits, 0, w.op3 < 2, rm))
    IN CASE w.op < 4 /\ op -> ArmUndef(c)
         [] w.op < 4 -> ArmChecked(c, Sel)
         [] w.op = 4 -> ArmChecked(c, MaxMin)
         [] w.op = 7 /\ w.op2 \div 4 = 2 /\ op -> ArmChecked(c, Rint)
         [] w.op = 7 /\ w.op2 \div 4 = 3 /\ op -> ArmChecked(c, Cvt)
         [] OTHER -> ArmUndef(c)

\* fp_dp, the group with two operands (o1 below 7): [f, val].
ArmFpTwo(c, w) ==
    LET op == w.op3 % 2 = 1
        x == c.s[w.rd]
        n == c.s[w.rn]
        m == c.s[w.rm]
        p == ArmFpArith(c.fpscr, "FMUL", <<n, m>>)
        pv == IF op THEN Negate(p.val) ELSE p.val
        fn == IF op THEN Negate(n) ELSE n
    IN CASE w.op = 0 -> ArmFpArith(p.f, "FADD", <<x, pv>>)
         [] w.op = 1 -> ArmFpArith(p.f, "FADD", <<Negate(x), pv>>)
         [] w.op = 2 -> [p EXCEPT !.val = pv]
         [] w.op = 3 -> ArmFpArith(c.fpscr, IF op THEN "FSUB" ELSE "FADD", <<n, m>>)
         [] w.op = 4 -> ArmFpArith(c.fpscr, "FDIV", <<n, m>>)
         [] w.op = 5 -> ArmFpMulAdd(c.fpscr, <<Negate(x), fn, m>>)
         [] OTHER -> ArmFpMulAdd(c.fpscr, <<x, fn, m>>)
\* The "other" group: what opc2 and opc3 leave undefined, and what it gives.
ArmFixSize(w) == IF w.op3 >= 2 THEN Bits ELSE HalfBits
ArmFpOtherBad(w) ==
    IF w.op3 % 2 = 0 THEN w.op3 >= 2 \/ w.rm % 2 = 1
    ELSE \/ w.op2 = 5 /\ w.rm # 0
         \/ w.op2 = 7 /\ w.op3 # 1
         \/ w.op2 \in {10, 11, 14, 15} /\ w.rm > ArmFixSize(w)
         \/ w.op2 = 9
ArmFpOther(c, w) ==
    LET f == c.fpscr
        x == c.s[w.rd]
        m == c.s[w.rm]
        top == w.op3 = 3
        Plain(v) == [f |-> f, val |-> v]
        h == ArmSingleToHalf(f, m)
        size == ArmFixSize(w)
        uns == w.op2 % 2 = 1
        fixed == ArmFpToFixed(f, x, size, size - w.rm, uns, 3)
    IN CASE w.op3 % 2 = 0 -> Plain(Xor(w.imm, SignBit \div 2))
         [] w.op2 = 0 -> Plain(IF top THEN Mag(m) ELSE m)
         [] w.op2 = 1 -> IF top THEN ArmFpArith(f, "FSQRT", <<m>>) ELSE Plain(Negate(m))
         [] w.op2 = 2 -> ArmHalfToSingle(f, IF top THEN m \div 16 ELSE m % 16)
         [] w.op2 = 3 -> [h EXCEPT !.val = IF top THEN (x % 16) + 16 * @ ELSE x - (x % 16) + @]
         [] w.op2 \in {4, 5} -> [f |-> ArmFpCmp(f, x, IF w.op2 = 4 THEN m ELSE 0, top), val |-> x]
         [] w.op2 = 6 -> ArmFpRoundInt(f, m, IF top THEN 3 ELSE f.rm, FALSE)
         [] w.op2 = 7 -> ArmFpRoundInt(f, m, f.rm, TRUE)
         [] w.op2 = 8 -> ArmFixedToFp(f, m, Bits, 0, ~top, f.rm)
         [] w.op2 \in {10, 11} -> ArmFixedToFp(f, x, size, size - w.rm, uns, 0)
         [] w.op2 \in {14, 15} ->
                IF size = HalfBits THEN [fixed EXCEPT !.val = IF uns THEN @ % 16 ELSE Sext(@, HalfBits)] ELSE fixed
         [] OTHER -> ArmFpToFixed(f, m, Bits, 0, ~uns, IF top THEN 3 ELSE f.rm)
ArmFpDp(c, w) ==
    LET Do(d) ==
          CASE w.op < 7 -> IF w.op = 4 /\ w.op3 % 2 = 1 THEN ArmUndef(d) ELSE ArmPutS(d, w.rd, ArmFpTwo(d, w))
            [] ArmFpOtherBad(w) -> ArmUndef(d)
            [] OTHER -> ArmPutS(d, w.rd, ArmFpOther(d, w))
    IN CASE w.sz = 3 -> ArmUndef(c)
         [] w.s -> ArmFpDpT(c, w)
         [] OTHER -> ArmChecked(c, Do)

\* fp_ldst: VLDR and VSTR of one or two registers, each written as it is
\* read; VLDM and VSTM of imm words, written once all are read.
ArmFpBank == 2 * ArmSRegs        \* 32 registers: a frame holds half of them
ArmFpAccess(c, load, addr, i) ==
    IF load THEN ArmMemRead(c, addr, 4, FALSE) ELSE ArmMemWrite(c, addr, 4, FALSE, c.s[i])
ArmFpOne(c, w, pc) ==
    LET n == IF w.sz = 3 THEN 2 ELSE 1
        base == IF w.rn = ArmPC THEN ArmAligned(pc) ELSE c.reg[w.rn]
        addr == IF w.u THEN Add(base, 4 * w.imm) ELSE Sub(base, 4 * w.imm)
        Go(acc, i) ==
          LET e == ArmFpAccess(acc.cpu, w.load, Add(addr, 4 * (i - 1)), w.rd + i - 1) IN
          CASE acc.x # "NONE" -> acc
            [] e.x = "NONE" /\ w.load -> ArmOk([e.cpu EXCEPT !.s[w.rd + i - 1] = e.val])
            [] OTHER -> e
    IN CASE w.rd + n > ArmFpBank \/ (~w.load /\ w.rn = ArmPC) -> ArmUndef(c)
         [] addr % 4 # 0 -> ArmRes(c, "UNALIGNED", 0)
         [] OTHER -> Loop(Go, ArmOk(c), n)
ArmFpWords(w) == IF w.sz = 3 THEN w.imm - (w.imm % 2) ELSE w.imm
ArmFpMany(c, w) ==
    LET n == ArmFpWords(w)
        base == c.reg[w.rn]
        end == IF w.u THEN Add(base, 4 * w.imm) ELSE Sub(base, 4 * w.imm)
        addr == IF w.p /\ ~w.u THEN Sub(base, 4 * w.imm) ELSE base
        Go(acc, i) ==
          LET e == ArmFpAccess(acc.res.cpu, w.load, Add(addr, 4 * (i - 1)), w.rd + i - 1) IN
          IF acc.res.x # "NONE" THEN acc ELSE [res |-> e, vals |-> Append(acc.vals, e.val)]
        out == Loop(Go, [res |-> ArmOk(c), vals |-> <<>>], n)
        k == out.res.cpu
        moved == IF w.wb THEN [k EXCEPT !.reg[w.rn] = end] ELSE k
    IN CASE (w.p = w.u /\ w.wb) \/ n = 0 \/ w.rd + n > ArmFpBank \/ w.rn = ArmPC -> ArmUndef(c)
         [] addr % 4 # 0 -> ArmRes(c, "UNALIGNED", 0)
         [] out.res.x # "NONE" -> out.res
         [] ~w.load -> ArmOk(moved)
         [] OTHER -> ArmOk([moved EXCEPT !.s = [i \in DOMAIN @ |-> IF i \in w.rd .. w.rd + n - 1
                                                                   THEN out.vals[i - w.rd + 1] ELSE @[i]]])

\* fp_xfer32 and fp_xfer64.  In the first op is A, rd Rt, rn the S register
\* (Vn:N), or N:Vn for a scalar; imm holds the bits that must be zero.
ArmFpSpPc(r) == r \in {ArmSP, ArmPC}
ArmFpMove(c, toCore, r, i) ==
    ArmOk(IF toCore THEN [c EXCEPT !.reg[r] = c.s[i]] ELSE [c EXCEPT !.s[i] = c.reg[r]])
ArmFpXfer32(c, w) ==
    LET idx == 2 * w.rn + (w.op % 2) IN
    CASE w.imm # 0 -> ArmUndef(c)
      [] w.sz = 2 /\ w.op = 0 -> IF ArmFpSpPc(w.rd) THEN ArmUndef(c) ELSE ArmFpMove(c, w.load, w.rd, w.rn)
      [] w.sz = 2 /\ w.op = 7 ->
            CASE w.rn # 2 \/ w.rd = ArmSP \/ (~w.load /\ w.rd = ArmPC) -> ArmUndef(c)
              [] w.load /\ w.rd = ArmPC -> ArmOk([c EXCEPT !.reg[ArmXPSR] = (@ % 16) + 16 * c.fpscr.nzcv])
              [] w.load -> ArmOk([c EXCEPT !.reg[w.rd] = ArmFpscrWord(c.fpscr)])
              [] OTHER -> ArmOk([c EXCEPT !.fpscr = ArmFpscrOf(c.reg[w.rd])])
      [] w.sz = 3 /\ w.op < 2 /\ idx < ArmFpBank /\ ~ArmFpSpPc(w.rd) -> ArmFpMove(c, w.load, w.rd, idx)
      [] OTHER -> ArmUndef(c)
ArmFpXfer64(c, w) ==
    LET r == ArmFpMove(c, w.load, w.rd, w.rm) IN
    IF w.imm # 0 \/ w.rm > ArmFpBank - 2 \/ (w.load /\ w.rd = w.rn) \/ ArmFpSpPc(w.rd) \/ ArmFpSpPc(w.rn)
    THEN ArmUndef(c)
    ELSE ArmFpMove(r.cpu, w.load, w.rn, w.rm + 1)

\* armv7m_fpu_exec: form SIMD is the empty space, OTHER another coprocessor.
ArmFpuExec(c, w, pc) ==
    LET Ldst(d) == IF w.p /\ ~w.wb THEN ArmFpOne(d, w, pc) ELSE ArmFpMany(d, w)
        X32(d) == ArmFpXfer32(d, w)
        X64(d) == ArmFpXfer64(d, w)
    IN CASE w.form = "SIMD" -> ArmUndef(c)
         [] w.form = "OTHER" -> ArmRes(c, "NOCP", 0)
         [] w.form = "DP" -> ArmFpDp(c, w)
         [] w.form = "XFER32" -> IF w.s THEN ArmUndef(c) ELSE ArmChecked(c, X32)
         [] w.form = "XFER64" -> ArmChecked(c, X64)
         [] OTHER -> IF ~w.p /\ ~w.u /\ ~w.wb THEN ArmUndef(c) ELSE ArmChecked(c, Ldst)

------------------------------------------------------------------------------
(* The interpreter. *)
ArmNoReg == 99
ArmAny == [enc |-> "NONE", op |-> 0, op2 |-> 0, op3 |-> 0, rd |-> 0, rn |-> 0, rm |-> 0, ra |-> ArmPC, imm |-> 0,
           imm2 |-> 0, s |-> FALSE, load |-> FALSE, sext |-> FALSE, u |-> TRUE, p |-> TRUE, wb |-> FALSE, sz |-> 2,
           form |-> "none", list |-> {}, cond |-> 14]
Arm16s == {"SHIFTADD", "DP", "SPECIAL", "LIT", "LDST", "ADR", "ADDSP", "CPS", "SPADJ", "CBZ", "EXT", "REV", "PUSHPOP",
           "BKPT", "HINT", "LDM", "BCC", "B"}
\* armv7m_insn_len.
ArmLen(w) == IF w.enc \in Arm16s THEN 2 ELSE 4

ArmR(c, n) == IF n = ArmPC THEN c.pc ELSE c.reg[n]
ArmPut(c, n, v) == [c EXCEPT !.reg[n] = v]
ArmRegPc(c, n, pc) == IF n = ArmPC THEN Add(pc, 4) ELSE c.reg[n]

-----------------------------------------------------------------------------
(* Flags, conditions, shifts, saturation. *)

ArmCarry(c) == Bit(c.reg[ArmXPSR], 5)
\* set_nz, set_nzc.
ArmSetNz(c, v) == [c EXCEPT !.reg[ArmXPSR] = Low(@, 6) + And(v, SignBit) + 64 * Bool(v = 0)]
ArmSetNzc(c, v, cy) == [ArmSetNz(c, v) EXCEPT !.reg[ArmXPSR] = And(@, Not(32)) + 32 * cy]
\* add_c: the sum in val.
ArmAddC(c, a, b, ci, set) ==
    LET u == a + b + ci
        res == Wrap(u)
        v == SignOf(And(Xor(a, res), Xor(b, res)))
        d == ArmSetNz([c EXCEPT !.reg[ArmXPSR] = And(@, Not(48)) + 32 * (u \div Size) + 16 * Bool(v)], res)
    IN ArmRes(IF set THEN d ELSE c, "NONE", res)
ArmSum(c, rd, r) == ArmOk(ArmPut(r.cpu, rd, r.val))
ArmSetQ(c, sat) == IF sat THEN [c EXCEPT !.reg[ArmXPSR] = Or(@, ArmQ)] ELSE c

\* it_advance.  The four ITSTATEs a run meets: none, the last of a block on
\* its condition or on the inverse, the first of two.
ArmItNext(c) == [c EXCEPT !.reg[ArmXPSR] =
                    ArmItPut(@, IF ArmItBits(@) = 3 THEN (IF c.it.same THEN 1 ELSE 2) ELSE 0)]
ArmItCond(c) == IF ArmItBits(c.reg[ArmXPSR]) = 2 THEN c.it.cond + 1 - 2 * (c.it.cond % 2) ELSE c.it.cond
\* cond_holds.
ArmCondHolds(c, cond) ==
    LET x == c.reg[ArmXPSR]
        n == Bit(x, 7) = 1    z == Bit(x, 6) = 1    cy == Bit(x, 5) = 1    v == Bit(x, 4) = 1
        is == CASE cond \div 2 = 0 -> z [] cond \div 2 = 1 -> cy [] cond \div 2 = 2 -> n [] cond \div 2 = 3 -> v
                [] cond \div 2 = 4 -> cy /\ ~z [] cond \div 2 = 5 -> n = v [] OTHER -> ~z /\ n = v
    IN cond \div 2 = 7 \/ is = (cond % 2 = 0)

\* armv7m_decode_imm_shift: [t, n].
ArmImmShift(type, imm) ==
    CASE type = 0 -> [t |-> "LSL", n |-> imm]
      [] type \in {1, 2} -> [t |-> <<"LSR", "ASR">>[type], n |-> IF imm = 0 THEN Bits ELSE imm]
      [] imm = 0 -> [t |-> "RRX", n |-> 1]
      [] OTHER -> [t |-> "ROR", n |-> imm]
\* armv7m_shift_c: [v, c].
ArmShiftC(v, t, n, cin) ==
    LET m == Count(n)
        ror == IF m = 0 THEN v ELSE Rotl(v, Bits - m)
        Out(x, cy) == [v |-> x, c |-> cy]
    IN CASE t = "RRX" -> Out(cin * SignBit + Shr(v, 1), v % 2)
         [] n = 0 -> Out(v, cin)
         [] t = "LSL" -> IF n < Bits THEN Out(Shl(v, n), Bit(v, Bits - n)) ELSE Out(0, IF n = Bits THEN v % 2 ELSE 0)
         [] t = "LSR" -> IF n < Bits THEN Out(Shr(v, n), Bit(v, n - 1)) ELSE Out(0, IF n = Bits THEN Bit(v, Bits - 1) ELSE 0)
         [] t = "ASR" -> IF n < Bits THEN Out(Sar(v, n), Bit(v, n - 1)) ELSE Out(Sar(v, Bits - 1), Bit(v, Bits - 1))
         [] OTHER -> Out(ror, Bit(ror, Bits - 1))
ArmShifts == <<"LSL", "LSR", "ASR", "ROR">>
ArmAmount(x) == x % 64          \* "& 0xFF", beyond any count
\* armv7m_expand_imm_c: a byte replicated, or with its top bit set and rotated.
ArmExpandImm(imm, code, cin) ==
    LET v == 2 + (imm % 2)
        res == Rotl(v, Bits - (code - 2))
    IN CASE code = 0 -> [v |-> imm, c |-> cin]
         [] code = 1 -> [v |-> Bytes(imm, 0, imm, 0), c |-> cin]
         [] code = 2 -> [v |-> Bytes(0, imm, 0, imm), c |-> cin]
         [] code = 3 -> [v |-> Bytes(imm, imm, imm, imm), c |-> cin]
         [] OTHER -> [v |-> res, c |-> Bit(res, Bits - 1)]

\* ssat, usat: [v, sat].
ArmClamp(v, lo, hi) == [v |-> IF v > hi THEN hi ELSE IF v < lo THEN lo ELSE v, sat |-> v > hi \/ v < lo]
ArmSsat(v, n) == ArmClamp(v, -(2 ^ (n - 1)), 2 ^ (n - 1) - 1)
ArmUsat(v, n) == ArmClamp(v, 0, 2 ^ n - 1)

-----------------------------------------------------------------------------
(* Writing pc, and memory. *)

\* alu_write_pc, blx_write_pc: in a handler the address is never an EXC_RETURN.
ArmAluWritePc(c, a) ==
    LET to == a - (a % 2) IN
    [c EXCEPT !.pc = to, !.pc_not_exc_return = @ \/ (ArmHandler(c) /\ ArmIsReturn(to))]
ArmBlxWritePc(c, a) == ArmAluWritePc(ArmSetT(c, a % 2 = 1), a)
\* bx_write_pc.
ArmBxWritePc(c, a) ==
    IF ArmHandler(c) /\ ArmIsReturn(a) THEN [c EXCEPT !.pc = a]
    ELSE [ArmSetT(c, a % 2 = 1) EXCEPT !.pc = a - (a % 2)]

\* rd_u, wr_u: unaligned accesses byte by byte, unless they trap.
ArmRdU(c, addr, size, unpriv) ==
    LET One(acc, i) ==
          LET r == ArmMemRead(acc.cpu, Add(addr, i - 1), 1, unpriv) IN
          IF acc.x # "NONE" THEN acc ELSE [r EXCEPT !.val = acc.val + Shl(@, (i - 1) * ByteBits)]
    IN CASE addr % size = 0 -> ArmMemRead(c, addr, size, unpriv)
         [] "UNALIGN_TRP" \in c.ccr -> ArmRes(c, "UNALIGNED", 0)
         [] OTHER -> Loop(One, ArmOk(c), size)
ArmWrU(c, addr, size, unpriv, v) ==
    LET One(acc, i) == IF acc.x # "NONE" THEN acc
                       ELSE ArmMemWrite(acc.cpu, Add(addr, i - 1), 1, unpriv, ByteOf(v, i - 1))
    IN CASE addr % size = 0 -> ArmMemWrite(c, addr, size, unpriv, v)
         [] "UNALIGN_TRP" \in c.ccr -> ArmRes(c, "UNALIGNED", 0)
         [] OTHER -> Loop(One, ArmOk(c), size)
\* rd_a, wr_a.
ArmRdA(c, addr, size) == IF addr % size # 0 THEN ArmRes(c, "UNALIGNED", 0) ELSE ArmMemRead(c, addr, size, FALSE)
ArmWrA(c, addr, size, v) == IF addr % size # 0 THEN ArmRes(c, "UNALIGNED", 0) ELSE ArmMemWrite(c, addr, size, FALSE, v)
ArmExtend(v, size, sext) == IF sext THEN Sext(v, size * ByteBits) ELSE v
\* A load into rd, a store from it.
ArmLoadTo(c, rd, addr, size, sext) ==
    LET r == ArmRdU(c, addr, size, FALSE) IN
    IF r.x # "NONE" THEN r ELSE ArmOk(ArmPut(r.cpu, rd, ArmExtend(r.val, size, sext)))
ArmStoreOf(c, rd, addr, size) == ArmWrU(c, addr, size, FALSE, c.reg[rd])

\* ldm_stm: nothing is written back or loaded unless every access was made.
ArmLdmStm(c, rn, list, load, before, wback) ==
    LET size == 4 * Cardinality(list)
        base == c.reg[rn]
        start == IF before THEN Sub(base, size) ELSE base
        final == IF before THEN Sub(base, size) ELSE Add(base, size)
        At(r) == Add(start, 4 * Cardinality({q \in list : q < r}))
        One(acc, i) ==
          LET r == i - 1
              k == acc.res.cpu
              new == IF load THEN ArmRdA(k, At(r), 4) ELSE ArmWrA(k, At(r), 4, k.reg[r])
          IN IF r \notin list \/ acc.res.x # "NONE" THEN acc ELSE [res |-> new, vals |-> acc.vals @@ (r :> new.val)]
        out == Loop(One, [res |-> ArmOk(c), vals |-> << >>], 16)
        done == IF wback THEN ArmPut(out.res.cpu, rn, final) ELSE out.res.cpu
        got == [done EXCEPT !.reg = [r \in DOMAIN @ |-> IF r \in list THEN out.vals[r] ELSE @[r]]]
    IN CASE out.res.x # "NONE" -> out.res
         [] ~load -> ArmOk(done)
         [] ArmPC \in list -> ArmOk(ArmBxWritePc(got, out.vals[ArmPC]))
         [] OTHER -> ArmOk(got)

-----------------------------------------------------------------------------
(* MRS and MSR, by the number of the special register. *)

ArmSysm == (0 .. 3) \cup (5 .. 9) \cup (16 .. 20)        \* armv7m_sysm_valid
ArmControls(v) == {k \in {"NPRIV", "SPSEL", "FPCA"} :
                     Bit(v, CASE k = "NPRIV" -> 0 [] k = "SPSEL" -> 1 [] OTHER -> 2) = 1}
ArmMrs(c, sysm) ==
    LET priv == ArmPriv(c)
        If(v) == IF priv THEN v ELSE 0
    IN CASE sysm < 8 -> Or(IF sysm % 2 = 1 THEN c.ipsr ELSE 0, IF sysm < 4 THEN And(c.reg[ArmXPSR], 248) ELSE 0)
         [] sysm \in {8, 9} -> If(ArmGetSp(c, sysm = 9))
         [] sysm = 16 -> If(Bool(c.primask))
         [] sysm \in {17, 18} -> If(c.basepri)
         [] sysm = 19 -> If(Bool(c.faultmask))
         [] OTHER -> Bool("NPRIV" \in c.control) + 2 * Bool("SPSEL" \in c.control) + 4 * Bool("FPCA" \in c.control)
\* The mask's bit 1 chooses the flags, bit 0 GE (which the words have no
\* room for: MSR of GE clears it).
ArmMsr(c, sysm, mask, v) ==
    CASE sysm < 4 ->
            LET d == IF mask % 2 = 1 THEN [c EXCEPT !.ge = {}] ELSE c
            IN IF mask >= 2 THEN [d EXCEPT !.reg[ArmXPSR] = Low(@, 3) + And(v, 248)] ELSE d
      [] sysm < 8 \/ ~ArmPriv(c) -> c
      [] sysm \in {8, 9} -> ArmSetSp(c, sysm = 9, v)
      [] sysm = 16 -> [c EXCEPT !.primask = v % 2 = 1]
      [] sysm = 17 -> [c EXCEPT !.basepri = v]
      [] sysm = 18 -> IF v # 0 /\ (v < c.basepri \/ c.basepri = 0) THEN [c EXCEPT !.basepri = v] ELSE c
      [] sysm = 19 -> IF ArmExecPriority(c) > -1 THEN [c EXCEPT !.faultmask = v % 2 = 1] ELSE c
      [] OTHER -> ArmWriteControl(c, ArmControls(v))

-----------------------------------------------------------------------------
(* The 16-bit encodings. *)

\* t16_shift_add.
ArmT16ShiftAdd(c, w, setf) ==
    LET sh == ArmImmShift(w.op \div 4, w.imm)
        r == ArmShiftC(c.reg[w.rm], sh.t, sh.n, ArmCarry(c))
        d == ArmPut(c, w.rd, r.v)
        m == IF w.op >= 14 THEN w.imm ELSE c.reg[w.imm]
        sub == w.op % 2 = 1
        a == c.reg[w.rd]
    IN CASE w.op < 12 -> ArmOk(IF setf THEN ArmSetNzc(d, r.v, r.c) ELSE d)
         [] w.op < 16 -> ArmSum(c, w.rd, ArmAddC(c, c.reg[w.rm], IF sub THEN Not(m) ELSE m, Bool(sub), setf))
         [] w.op \div 4 = 4 -> LET k == ArmPut(c, w.rd, w.imm) IN ArmOk(IF setf THEN ArmSetNz(k, w.imm) ELSE k)
         [] w.op \div 4 = 5 -> ArmOk(ArmAddC(c, a, Not(w.imm), 1, TRUE).cpu)
         [] w.op \div 4 = 6 -> ArmSum(c, w.rd, ArmAddC(c, a, w.imm, 0, setf))
         [] OTHER -> ArmSum(c, w.rd, ArmAddC(c, a, Not(w.imm), 1, setf))

\* t16_dp.
ArmT16Dp(c, w, setf) ==
    LET a == c.reg[w.rd]
        b == c.reg[w.rm]
        cy == ArmCarry(c)
        Set(r) == LET d == ArmPut(c, w.rd, r.v) IN ArmOk(IF setf THEN ArmSetNzc(d, r.v, r.c) ELSE d)
        Res(v) == Set([v |-> v, c |-> cy])
        Sh(t) == Set(ArmShiftC(a, t, ArmAmount(b), cy))
        p == ArmPut(c, w.rd, Wrap(a * b))
    IN CASE w.op = 0 -> Res(And(a, b))          [] w.op = 1 -> Res(Xor(a, b))
         [] w.op = 2 -> Sh("LSL")               [] w.op = 3 -> Sh("LSR")
         [] w.op = 4 -> Sh("ASR")               [] w.op = 7 -> Sh("ROR")
         [] w.op = 5 -> ArmSum(c, w.rd, ArmAddC(c, a, b, cy, setf))
         [] w.op = 6 -> ArmSum(c, w.rd, ArmAddC(c, a, Not(b), cy, setf))
         [] w.op = 8 -> ArmOk(ArmSetNzc(c, And(a, b), cy))
         [] w.op = 9 -> ArmSum(c, w.rd, ArmAddC(c, Not(b), 0, 1, setf))
         [] w.op = 10 -> ArmOk(ArmAddC(c, a, Not(b), 1, TRUE).cpu)
         [] w.op = 11 -> ArmOk(ArmAddC(c, a, b, 0, TRUE).cpu)
         [] w.op = 12 -> Res(Or(a, b))
         [] w.op = 13 -> ArmOk(IF setf THEN ArmSetNz(p, Wrap(a * b)) ELSE p)
         [] w.op = 14 -> Res(And(a, Not(b)))
         [] OTHER -> Res(Not(b))

\* t16_special: op's bit 1 is the top bit of rd.
ArmT16Special(c, w, pc) ==
    LET x == ArmRegPc(c, w.rm, pc)
        To(v) == ArmOk(IF w.rd = ArmPC THEN ArmAluWritePc(c, v) ELSE ArmPut(c, w.rd, v))
    IN CASE w.op \div 4 = 0 -> To(Add(ArmRegPc(c, w.rd, pc), x))
         [] w.op \div 4 = 1 -> IF w.rd = ArmPC \/ w.rm = ArmPC THEN ArmUndef(c)
                               ELSE ArmOk(ArmAddC(c, c.reg[w.rd], Not(x), 1, TRUE).cpu)
         [] w.op \div 4 = 2 -> To(x)
         [] w.rd % 8 # 0 \/ (Bit(w.op, 1) = 1 /\ w.rm = ArmPC) -> ArmUndef(c)
         [] Bit(w.op, 1) = 1 -> ArmOk(ArmBlxWritePc(ArmPut(c, ArmLR, Or(Add(pc, 2), 1)), x))
         [] OTHER -> ArmOk(ArmBxWritePc(c, x))

\* t16_ldst: register offset (op2 of eight), immediate offset, from sp.
ArmT16Sizes == <<4, 2, 1, 1, 4, 2, 1, 2>>
ArmT16Ldst(c, w) ==
    LET size == CASE w.op = 5 -> ArmT16Sizes[w.op2 + 1] [] w.op = 6 -> 4 [] w.op = 7 -> 1 [] w.op = 8 -> 2 [] OTHER -> 4
        addr == CASE w.op = 5 -> Add(c.reg[w.rn], c.reg[w.rm])
                  [] w.op \in 6 .. 8 -> Add(c.reg[w.rn], w.imm * size)
                  [] OTHER -> Add(c.reg[ArmSP], w.imm * 4)
        load == IF w.op = 5 THEN w.op2 >= 3 ELSE w.load
    IN IF load THEN ArmLoadTo(c, w.rd, addr, size, w.op = 5 /\ w.op2 \in {3, 7}) ELSE ArmStoreOf(c, w.rd, addr, size)

\* t16_misc.
ArmCps(c, w) ==
    LET off == w.op = 1
        p == [c EXCEPT !.primask = IF Bit(w.imm, 1) = 1 THEN off ELSE @]
    IN IF ~ArmPriv(c) THEN c
       ELSE [p EXCEPT !.faultmask = IF w.imm % 2 = 1 THEN off /\ (@ \/ ArmExecPriority(p) > -1) ELSE @]
ArmRevs(v, k) ==
    CASE k = 0 -> SwapBytes(v) [] k = 1 -> SwapInHalves(v) [] OTHER -> Sext(SwapInHalves(v), HalfBits)
ArmT16Misc(c, w, pc) ==
    LET v == ArmR(c, w.rm) IN
    CASE w.enc = "CPS" -> ArmOk(ArmCps(c, w))
      [] w.enc = "SPADJ" -> ArmOk(ArmPut(c, ArmSP, IF w.op = 1 THEN Sub(c.reg[ArmSP], 4 * w.imm) ELSE Add(c.reg[ArmSP], 4 * w.imm)))
      [] w.enc = "CBZ" -> ArmOk(IF (c.reg[w.rn] # 0) = (w.op = 1) THEN [c EXCEPT !.pc = Add(pc, 4 + w.imm)] ELSE c)
      [] w.enc = "EXT" -> ArmOk(ArmPut(c, w.rd, CASE w.op = 0 -> Sext(v, HalfBits) [] w.op = 1 -> Sext(v, ByteBits)
                                                  [] w.op = 2 -> Low(v, HalfBits) [] OTHER -> Low(v, ByteBits)))
      [] w.enc = "REV" -> IF w.op = 2 THEN ArmUndef(c) ELSE ArmOk(ArmPut(c, w.rd, ArmRevs(v, w.op)))
      [] w.enc = "PUSHPOP" -> IF w.list = {} THEN ArmUndef(c)
                              ELSE ArmLdmStm(c, ArmSP, w.list, w.load, ~w.load, TRUE)
      [] w.enc = "BKPT" -> ArmRes(c, "BKPT", 0)
      [] OTHER -> ArmOk(IF w.imm # 0 THEN [c EXCEPT !.reg[ArmXPSR] = ArmItPut(@, w.imm)] ELSE c)

\* exec16.
ArmExec16(c, w, pc) ==
    LET setf == ~ArmInIt(c) IN
    CASE w.enc = "SHIFTADD" -> ArmT16ShiftAdd(c, w, setf)
      [] w.enc = "DP" -> ArmT16Dp(c, w, setf)
      [] w.enc = "SPECIAL" -> ArmT16Special(c, w, pc)
      [] w.enc = "LIT" -> ArmLoadTo(c, w.rd, Add(ArmAligned(pc), 4 * w.imm), 4, FALSE)
      [] w.enc = "LDST" -> ArmT16Ldst(c, w)
      [] w.enc = "ADR" -> ArmOk(ArmPut(c, w.rd, Add(ArmAligned(pc), 4 * w.imm)))
      [] w.enc = "ADDSP" -> ArmOk(ArmPut(c, w.rd, Add(c.reg[ArmSP], 4 * w.imm)))
      [] w.enc = "LDM" -> IF w.list = {} THEN ArmUndef(c)
                          ELSE ArmLdmStm(c, w.rn, w.list, w.load, FALSE, ~w.load \/ w.rn \notin w.list)
      [] w.enc = "BCC" /\ w.cond = 15 -> ArmRes(c, "SVC", 0)
      [] w.enc = "BCC" /\ w.cond = 14 -> ArmUndef(c)
      [] w.enc = "BCC" -> ArmOk(IF ArmCondHolds(c, w.cond) THEN [c EXCEPT !.pc = Add(pc, 4 + w.imm)] ELSE c)
      [] w.enc = "B" -> ArmOk([c EXCEPT !.pc = Add(pc, 4 + w.imm)])
      [] OTHER -> ArmT16Misc(c, w, pc)

-----------------------------------------------------------------------------
(* Which registers the 32-bit encodings take (the armv7m_*_regs_ok). *)

ArmSpPc(r) == r \in {ArmSP, ArmPC}
ArmDpRegsOk(sel, d, n, reg, m, sh, s) ==
    LET badM == reg /\ ArmSpPc(m) IN
    \/ ~ArmSpPc(d) /\ ~ArmSpPc(n) /\ ~badM
    \/ CASE sel \in {0, 4} -> ~ArmSpPc(n) /\ ~badM /\ ((s /\ d = ArmPC) \/ ~ArmSpPc(d))
         [] sel \in {1, 10, 11, 14} -> FALSE
         [] sel = 2 -> IF n # ArmPC THEN ~ArmSpPc(d) /\ n # ArmSP /\ ~badM
                       ELSE IF reg /\ sh = [t |-> "LSL", n |-> 0] /\ ~s THEN d # ArmPC /\ m # ArmPC /\ ~(d = ArmSP /\ m = ArmSP)
                       ELSE ~ArmSpPc(d) /\ ~badM
         [] sel = 3 -> ~ArmSpPc(d) /\ n # ArmSP /\ ~badM
         [] sel \in {8, 13} ->
              IF s /\ d = ArmPC THEN n # ArmPC /\ ~badM
              ELSE IF n = ArmSP THEN d # ArmPC /\ ~badM /\ ~(reg /\ d = ArmSP /\ (sh.t # "LSL" \/ sh.n > 3))
              ELSE ~ArmSpPc(d) /\ n # ArmPC /\ ~badM
         [] OTHER -> TRUE
ArmPlainRegsOk(op, d, n) ==
    CASE op \in {0, 10} -> IF n = ArmSP THEN d # ArmPC ELSE ~ArmSpPc(d)
      [] op \in {4, 12} -> ~ArmSpPc(d)
      [] op = 22 -> ~ArmSpPc(d) /\ n # ArmSP
      [] OTHER -> ~ArmSpPc(d) /\ ~ArmSpPc(n)
ArmDnmOk(d, n, m) == ~ArmSpPc(d) /\ ~ArmSpPc(n) /\ ~ArmSpPc(m)
ArmLdstRegsOk(load, size, t, n, m, wback, unpriv) ==
    /\ ~ArmSpPc(m) /\ ~(wback /\ n = t)
    /\ CASE unpriv -> ~ArmSpPc(t)
         [] load -> size = 4 \/ (t # ArmSP /\ ~(t = ArmPC /\ wback))
         [] OTHER -> IF size = 4 THEN t # ArmPC ELSE ~ArmSpPc(t)
ArmDualRegsOk(load, t, t2, n, wback) ==
    /\ ~ArmSpPc(t) /\ ~ArmSpPc(t2) /\ ~(wback /\ n \in {t, t2})
    /\ n # ArmPC \/ (load /\ ~wback)
ArmLdrexRegsOk(t, n) == ~ArmSpPc(t) /\ n # ArmPC
ArmStrexRegsOk(d, t, n) == ~ArmSpPc(d) /\ ~ArmSpPc(t) /\ n # ArmPC /\ d \notin {n, t}

-----------------------------------------------------------------------------
(* The 32-bit encodings. *)

\* dp_op; with S and rd = pc only the flags are wanted.
ArmDpOp(c, op, rd, rn, b, cy, s) ==
    LET a == ArmR(c, rn)
        Logic(v) == LET d == ArmPut(c, rd, v) IN ArmOk(IF s THEN ArmSetNzc(d, v, cy) ELSE d)
        Sum(x, y, ci) == ArmSum(c, rd, ArmAddC(c, x, y, ci, s))
    IN IF s /\ rd = ArmPC
       THEN CASE op = 0 -> ArmOk(ArmSetNzc(c, And(a, b), cy))
              [] op = 4 -> ArmOk(ArmSetNzc(c, Xor(a, b), cy))
              [] op = 8 -> ArmOk(ArmAddC(c, a, b, 0, TRUE).cpu)
              [] op = 13 -> ArmOk(ArmAddC(c, a, Not(b), 1, TRUE).cpu)
              [] OTHER -> ArmUndef(c)
       ELSE CASE op = 0 -> Logic(And(a, b))
              [] op = 1 -> Logic(And(a, Not(b)))
              [] op = 2 -> Logic(IF rn = ArmPC THEN b ELSE Or(a, b))
              [] op = 3 -> Logic(IF rn = ArmPC THEN Not(b) ELSE Or(a, Not(b)))
              [] op = 4 -> Logic(Xor(a, b))
              [] op = 8 -> Sum(a, b, 0)             [] op = 10 -> Sum(a, b, ArmCarry(c))
              [] op = 11 -> Sum(a, Not(b), ArmCarry(c))
              [] op = 13 -> Sum(a, Not(b), 1)       [] op = 14 -> Sum(Not(a), b, 1)
              [] OTHER -> ArmUndef(c)
\* t32_dp_imm.
ArmT32DpImm(c, w) ==
    LET b == ArmExpandImm(w.imm, w.imm2, ArmCarry(c)) IN
    IF ~ArmDpRegsOk(w.op, w.rd, w.rn, FALSE, 0, 0, w.s) THEN ArmUndef(c)
    ELSE ArmDpOp(c, w.op, w.rd, w.rn, b.v, b.c, w.s)
\* t32_dp_reg, with PKHBT and PKHTB as op 6 (op2 the shift's type).
ArmT32DpReg(c, w) ==
    LET tb == w.op2 >= 2
        pk == ArmShiftC(ArmR(c, w.rm), IF tb THEN "ASR" ELSE "LSL", IF tb /\ w.imm = 0 THEN Bits ELSE w.imm, 0).v
        sh == ArmImmShift(w.op2, w.imm)
        b == ArmShiftC(ArmR(c, w.rm), sh.t, sh.n, ArmCarry(c))
        Mix(top, low) == top - Low(top, HalfBits) + Low(low, HalfBits)
    IN CASE w.op = 6 -> IF w.s \/ w.op2 % 2 = 1 \/ ~ArmDnmOk(w.rd, w.rn, w.rm) THEN ArmUndef(c)
                        ELSE ArmOk(ArmPut(c, w.rd, IF tb THEN Mix(c.reg[w.rn], pk) ELSE Mix(pk, c.reg[w.rn])))
         [] ~ArmDpRegsOk(w.op, w.rd, w.rn, TRUE, w.rm, sh, w.s) -> ArmUndef(c)
         [] OTHER -> ArmDpOp(c, w.op, w.rd, w.rn, b.v, b.c, w.s)

\* t32_dp_plain: imm is the immediate, or the least bit of a field whose
\* width or last bit imm2 gives.
ArmSat(c, w, unsigned) ==
    LET x == c.reg[w.rn]
        Sat(v, n) == IF unsigned THEN ArmUsat(v, n) ELSE ArmSsat(v, n + 1)
        Half(v) == IF Low(v, HalfBits) >= 2 ^ (HalfBits - 1) THEN Low(v, HalfBits) - 2 ^ HalfBits ELSE Low(v, HalfBits)
        lo == Sat(Half(x), w.imm2 % HalfBits)
        hi == Sat(Half(Shr(x, HalfBits)), w.imm2 % HalfBits)
        one == Sat(Signed(ArmShiftC(x, IF w.op % 4 = 2 THEN "ASR" ELSE "LSL", w.imm, 0).v), w.imm2)
        both == w.op % 4 = 2 /\ w.imm = 0
    IN CASE both /\ w.imm2 >= HalfBits -> ArmUndef(c)
         [] both -> ArmOk(ArmSetQ(ArmPut(c, w.rd, (lo.v % 2 ^ HalfBits) + (hi.v % 2 ^ HalfBits) * 2 ^ HalfBits), lo.sat \/ hi.sat))
         [] OTHER -> ArmOk(ArmSetQ(ArmPut(c, w.rd, Wrap(one.v)), one.sat))
ArmT32DpPlain(c, w, pc) ==
    LET base == IF w.rn = ArmPC THEN ArmAligned(pc) ELSE c.reg[w.rn]
        x == ArmR(c, w.rn)
        old == c.reg[w.rd]
        width == w.imm2 + 1
        sh == Bits - width
        mask == Shl(2 ^ (w.imm2 - w.imm + 1) - 1, w.imm)
        ins == IF w.rn = ArmPC THEN 0 ELSE And(Shl(x, w.imm), mask)
        Set(v) == ArmOk(ArmPut(c, w.rd, v))
    IN CASE ~ArmPlainRegsOk(w.op, w.rd, w.rn) -> ArmUndef(c)
         [] w.op = 0 -> Set(Add(base, w.imm))
         [] w.op = 4 -> Set(w.imm)
         [] w.op = 10 -> Set(Sub(base, w.imm))
         [] w.op = 12 -> Set(Low(old, HalfBits) + Shl(w.imm, HalfBits))
         [] w.op \in {16, 18} -> ArmSat(c, w, FALSE)
         [] w.op \in {24, 26} -> ArmSat(c, w, TRUE)
         [] w.op \in {20, 28} -> IF w.imm + width > Bits THEN ArmUndef(c)
                                 ELSE IF w.op = 28 THEN Set(IF width = Bits THEN x ELSE Low(Shr(x, w.imm), width))
                                 ELSE Set(Sar(Shl(x, sh - w.imm), sh))
         [] w.op = 22 -> IF w.imm2 < w.imm THEN ArmUndef(c) ELSE Set(And(old, Not(mask)) + ins)
         [] OTHER -> ArmUndef(c)

\* t32_parallel: lanes added or subtracted, then flagged, saturated or halved.
ArmLane(x, i, n, u) == LET v == Low(Shr(x, i * n), n) IN IF ~u /\ v >= 2 ^ (n - 1) THEN v - 2 ^ n ELSE v
ArmT32Parallel(c, op1, op2, u, rd, a, b) ==
    LET bytes == op1 \in {0, 4}
        n == IF bytes THEN ByteBits ELSE HalfBits
        lanes == IF bytes THEN 0 .. 3 ELSE 0 .. 1
        adds(i) == op1 \in {0, 1} \/ (op1 = 2 /\ i = 1) \/ (op1 = 6 /\ i = 0)
        y(i) == ArmLane(b, IF op1 \in {2, 6} THEN 1 - i ELSE i, n, u)
        r(i) == ArmLane(a, i, n, u) + (IF adds(i) THEN y(i) ELSE -y(i))
        v(i) == CASE op2 = 0 -> r(i) [] op2 = 1 -> (IF u THEN ArmUsat(r(i), n) ELSE ArmSsat(r(i), n)).v [] OTHER -> r(i) \div 2
        g == {i \in lanes : r(i) >= IF u /\ adds(i) THEN 2 ^ n ELSE 0}
        ge == {k \in 0 .. 3 : (IF bytes THEN k ELSE k \div 2) \in g}
    IN IF op2 = 3 \/ op1 \in {3, 7} THEN ArmUndef(c)
       ELSE ArmOk([ArmPut(c, rd, MapThenSumSet(LAMBDA i : (v(i) % 2 ^ n) * 2 ^ (n * i), lanes))
                      EXCEPT !.ge = IF op2 = 0 THEN ge ELSE @])

\* t32_dp_register: shifts by register, extensions, the rest.
ArmRor8(v, k) == IF k = 0 THEN v ELSE Rotl(v, Bits - k)
ArmExtendAdd(c, w) ==
    LET v == ArmRor8(c.reg[w.rm], (w.op2 % 4) * ByteBits)
        n == IF w.rn = ArmPC THEN 0 ELSE c.reg[w.rn]
        Two(Ext(_)) == Low(Low(n, HalfBits) + Ext(v), HalfBits) + Shl(Shr(n, HalfBits) + Ext(Shr(v, HalfBits)), HalfBits)
        SByte(x) == Sext(x, ByteBits)
        UByte(x) == Low(x, ByteBits)
    IN CASE w.op = 0 -> Add(n, Sext(v, HalfBits))      [] w.op = 1 -> Add(n, Low(v, HalfBits))
         [] w.op = 2 -> Two(SByte)                     [] w.op = 3 -> Two(UByte)
         [] w.op = 4 -> Add(n, SByte(v))               [] OTHER -> Add(n, UByte(v))
ArmQadd(c, w, sel) ==
    LET n == Signed(c.reg[w.rn])
        dbl == ArmSsat(2 * n, Bits)
        k == IF sel % 2 = 1 THEN dbl ELSE [v |-> n, sat |-> FALSE]
        m == Signed(c.reg[w.rm])
        r == ArmSsat(IF sel >= 2 THEN m - k.v ELSE m + k.v, Bits)
    IN ArmSetQ(ArmPut(c, w.rd, Wrap(r.v)), k.sat \/ r.sat)
ArmRbit(v) == MapThenSumSet(LAMBDA k : Bit(v, k) * 2 ^ (Bits - 1 - k), 0 .. Bits - 1)
ArmSelect(c, n, m) ==
    LET Of(k) == ByteOf(IF k \in c.ge THEN n ELSE m, k) IN Bytes(Of(0), Of(1), Of(2), Of(3))
ArmT32DpRegister(c, w) ==
    LET r == ArmShiftC(c.reg[w.rn], ArmShifts[w.op \div 2 + 1], ArmAmount(c.reg[w.rm]), ArmCarry(c))
        d == ArmPut(c, w.rd, r.v)
        m == c.reg[w.rm]
        sel == (w.op % 4) * 4 + (w.op2 % 4)
        regs == IF sel <= 3 \/ sel = 8 THEN ArmDnmOk(w.rd, w.rn, w.rm) ELSE ~ArmSpPc(w.rd) /\ ~ArmSpPc(w.rm)
        Set(v) == ArmOk(ArmPut(c, w.rd, v))
    IN CASE w.op < 8 /\ w.op2 = 0 ->
              IF ~ArmDnmOk(w.rd, w.rn, w.rm) THEN ArmUndef(c) ELSE ArmOk(IF w.op % 2 = 1 THEN ArmSetNzc(d, r.v, r.c) ELSE d)
         [] w.op < 8 /\ w.op2 >= 8 ->
              IF w.op2 >= 12 \/ ArmSpPc(w.rd) \/ w.rn = ArmSP \/ ArmSpPc(w.rm) \/ w.op > 5 THEN ArmUndef(c)
              ELSE Set(ArmExtendAdd(c, w))
         [] w.op >= 8 /\ w.op2 < 8 ->
              IF ~ArmDnmOk(w.rd, w.rn, w.rm) THEN ArmUndef(c)
              ELSE ArmT32Parallel(c, w.op % 8, w.op2 % 4, w.op2 >= 4, w.rd, c.reg[w.rn], c.reg[w.rm])
         [] w.op \in 8 .. 11 /\ w.op2 \in 8 .. 11 ->
              (CASE ~regs -> ArmUndef(c)
                 [] sel <= 3 -> ArmOk(ArmQadd(c, w, sel))
                 [] sel \in {4, 5, 7} -> Set(ArmRevs(m, sel - 4))
                 [] sel = 6 -> Set(ArmRbit(m))
                 [] sel = 8 -> Set(ArmSelect(c, c.reg[w.rn], m))
                 [] sel = 12 -> Set(Clz(m))
                 [] OTHER -> ArmUndef(c))
         [] OTHER -> ArmUndef(c)

\* t32_mul.
ArmHalf(v, top) == LET h == Low(Shr(v, IF top THEN HalfBits ELSE 0), HalfBits) IN IF h >= 2 ^ (HalfBits - 1) THEN h - 2 ^ HalfBits ELSE h
ArmFits(v) == v = Signed(Wrap(v))
ArmAbsDiffs(n, m) == MapThenSumSet(LAMBDA k : LET d == ByteOf(n, k) - ByteOf(m, k) IN IF d < 0 THEN -d ELSE d, 0 .. 3)
ArmT32Mul(c, w) ==
    LET n == c.reg[w.rn]
        m == c.reg[w.rm]
        acc == w.ra # ArmPC
        a == IF acc THEN c.reg[w.ra] ELSE 0
        mm == IF w.op2 % 2 = 1 THEN ArmRor8(m, HalfBits) ELSE m
        p1 == ArmHalf(n, FALSE) * ArmHalf(mm, FALSE)
        p2 == ArmHalf(n, TRUE) * ArmHalf(mm, TRUE)
        xy == ArmHalf(n, w.op2 >= 2) * ArmHalf(m, w.op2 % 2 = 1) + Signed(a)
        wy == ((Signed(n) * ArmHalf(m, w.op2 % 2 = 1)) \div 2 ^ HalfBits) + Signed(a)
        dual == (IF w.op = 2 THEN p1 + p2 ELSE p1 - p2) + Signed(a)
        p == Signed(n) * Signed(m)
        most == Signed(a) * Size + (IF w.op = 5 THEN p ELSE -p) + (IF w.op2 = 1 THEN SignBit ELSE 0)
        Set(v) == ArmOk(ArmPut(c, w.rd, Wrap(v)))
        SetQ(v, q) == ArmOk(ArmSetQ(ArmPut(c, w.rd, Wrap(v)), q))
    IN CASE ~ArmDnmOk(w.rd, w.rn, w.rm) \/ w.ra = ArmSP -> ArmUndef(c)
         [] w.op = 0 /\ w.op2 = 0 -> Set(n * m + a)
         [] w.op = 0 /\ w.op2 = 1 /\ acc -> Set(a - n * m)
         [] w.op = 1 -> SetQ(xy, acc /\ ~ArmFits(xy))
         [] w.op \in {2, 4} /\ w.op2 <= 1 -> SetQ(dual, ~ArmFits(dual))
         [] w.op = 3 /\ w.op2 <= 1 -> SetQ(wy, acc /\ ~ArmFits(wy))
         [] (w.op = 5 \/ (w.op = 6 /\ acc)) /\ w.op2 <= 1 -> Set(most \div Size)
         [] w.op = 7 /\ w.op2 = 0 -> Set(ArmAbsDiffs(n, m) + a)
         [] OTHER -> ArmUndef(c)

\* t32_mull: rd is the low word, ra the high one, or the quotient.
ArmT32Mull(c, w) ==
    LET n == c.reg[w.rn]
        m == c.reg[w.rm]
        lo == c.reg[w.rd]
        hi == c.reg[w.ra]
        acc == hi * Size + lo
        mm == IF w.op2 % 2 = 1 THEN ArmRor8(m, HalfBits) ELSE m
        p1 == ArmHalf(n, FALSE) * ArmHalf(mm, FALSE)
        p2 == ArmHalf(n, TRUE) * ArmHalf(mm, TRUE)
        Long(v) == LET x == v % Size ^ 2 IN ArmOk(ArmPut(ArmPut(c, w.rd, x % Size), w.ra, x \div Size))
        divides == w.op \in {1, 3}
        q == IF w.op = 3 THEN n \div m ELSE Wrap(Quotient(Signed(n), Signed(m)))
    IN CASE (~divides /\ (w.rd = w.ra \/ ArmSpPc(w.rd))) \/ ~ArmDnmOk(w.ra, w.rn, w.rm) -> ArmUndef(c)
         [] divides -> (CASE w.op2 # 15 \/ w.rd # ArmPC -> ArmUndef(c)
                          [] m = 0 -> IF "DIV_0_TRP" \in c.ccr THEN ArmRes(c, "DIVBYZERO", 0) ELSE ArmOk(ArmPut(c, w.ra, 0))
                          [] OTHER -> ArmOk(ArmPut(c, w.ra, q)))
         [] w.op = 0 /\ w.op2 = 0 -> Long(Signed(n) * Signed(m))
         [] w.op = 2 /\ w.op2 = 0 -> Long(n * m)
         [] w.op = 4 /\ w.op2 = 0 -> Long(acc + Signed(n) * Signed(m))
         [] w.op = 4 /\ w.op2 \in 8 .. 11 -> Long(acc + ArmHalf(n, w.op2 >= 10) * ArmHalf(m, w.op2 % 2 = 1))
         [] w.op = 4 /\ w.op2 \in {12, 13} -> Long(acc + p1 + p2)
         [] w.op = 5 /\ w.op2 \in {12, 13} -> Long(acc + p1 - p2)
         [] w.op = 6 /\ w.op2 = 0 -> Long(acc + n * m)
         [] w.op = 6 /\ w.op2 = 6 -> Long(n * m + lo + hi)
         [] OTHER -> ArmUndef(c)

\* t32_ldst: form "imm12", "imm8" (p, u and wb its three bits), "reg" or
\* another encoding; from pc it is a literal.
ArmT32Ldst(c, w, pc) ==
    LET size == 2 ^ w.sz
        lit == w.rn = ArmPC
        imm8 == ~lit /\ w.form = "imm8"
        byReg == ~lit /\ w.form = "reg"
        add == IF lit \/ imm8 THEN w.u ELSE TRUE
        index == ~imm8 \/ w.p
        wback == imm8 /\ w.wb
        unpriv == imm8 /\ w.p /\ w.u /\ ~w.wb
        off == IF byReg THEN Shl(c.reg[w.rm], w.imm) ELSE w.imm
        base == IF lit THEN ArmAligned(pc) ELSE c.reg[w.rn]
        there == IF add THEN Add(base, off) ELSE Sub(base, off)
        addr == IF index THEN there ELSE base
        r == ArmRdU(c, addr, size, unpriv)
        s == ArmWrU(c, addr, size, unpriv, c.reg[w.rd])
        Back(k) == IF wback THEN ArmPut(k, w.rn, there) ELSE k
    IN CASE \/ w.sz = 3 \/ (w.sext /\ (~w.load \/ w.sz = 2)) \/ (lit /\ ~w.load)
            \/ (~lit /\ w.form = "none") \/ (~index /\ ~wback)
            \/ (byReg /\ ArmSpPc(w.rm))
            \/ ~ArmLdstRegsOk(w.load, size, w.rd, w.rn, 0, wback, unpriv) -> ArmUndef(c)
         [] w.load /\ w.rd = ArmPC /\ size < 4 -> ArmOk(c)
         [] w.load -> IF r.x # "NONE" THEN r
                      ELSE IF w.rd = ArmPC THEN ArmOk(ArmBxWritePc(Back(r.cpu), r.val))
                      ELSE ArmOk(ArmPut(Back(r.cpu), w.rd, ArmExtend(r.val, size, w.sext)))
         [] OTHER -> IF s.x # "NONE" THEN s ELSE ArmOk(Back(s.cpu))

\* t32_dual.
ArmT32Dual(c, w, pc) ==
    LET base == IF w.rn = ArmPC THEN ArmAligned(pc) ELSE c.reg[w.rn]
        there == IF w.u THEN Add(base, 4 * w.imm) ELSE Sub(base, 4 * w.imm)
        addr == IF w.p THEN there ELSE base
        r1 == ArmRdA(c, addr, 4)
        r2 == ArmRdA(r1.cpu, Add(addr, 4), 4)
        s1 == ArmWrA(c, addr, 4, c.reg[w.rd])
        s2 == ArmWrA(s1.cpu, Add(addr, 4), 4, s1.cpu.reg[w.ra])
        Back(k) == IF w.wb THEN ArmPut(k, w.rn, there) ELSE k
    IN CASE ~ArmDualRegsOk(w.load, w.rd, w.ra, w.rn, w.wb) \/ (w.load /\ w.rd = w.ra) -> ArmUndef(c)
         [] w.load -> (CASE r1.x # "NONE" -> r1
                         [] r2.x # "NONE" -> r2
                         [] OTHER -> ArmOk(ArmPut(ArmPut(Back(r2.cpu), w.rd, r1.val), w.ra, r2.val)))
         [] s1.x # "NONE" -> s1
         [] s2.x # "NONE" -> s2
         [] OTHER -> ArmOk(Back(s2.cpu))

\* t32_dual_excl: op "DUAL", "EX" (with an offset), "EXB", "EXH", "TBB", "TBH".
ArmLdrex(c, rt, addr, size) ==
    LET r == ArmRdA(c, addr, size) IN
    IF r.x # "NONE" THEN r ELSE ArmOk([ArmPut(r.cpu, rt, r.val) EXCEPT !.excl_open = TRUE, !.excl_addr = addr])
ArmStrex(c, rd, rt, addr, size) ==
    LET r == ArmWrA(c, addr, size, c.reg[rt]) IN
    CASE addr % size # 0 -> ArmRes(c, "UNALIGNED", 0)
      [] ~c.excl_open -> ArmOk(ArmPut(c, rd, 1))
      [] r.x # "NONE" -> r
      [] OTHER -> ArmOk([ArmPut(r.cpu, rd, 0) EXCEPT !.excl_open = FALSE])
ArmT32DualExcl(c, w, pc) ==
    LET size == CASE w.form = "EX" -> 4 [] w.form = "EXH" -> 2 [] OTHER -> 1
        addr == IF w.form = "EX" THEN Add(c.reg[w.rn], 4 * w.imm) ELSE c.reg[w.rn]
        wide == w.form = "TBH"
        e == ArmRdU(c, Add(ArmRegPc(c, w.rn, pc), Shl(c.reg[w.rm], Bool(wide))), IF wide THEN 2 ELSE 1, FALSE)
    IN CASE w.form = "DUAL" -> ArmT32Dual(c, w, pc)
         [] w.form \in {"TBB", "TBH"} -> IF w.rn = ArmSP \/ ArmSpPc(w.rm) THEN ArmUndef(c)
                                         ELSE IF e.x # "NONE" THEN e
                                         ELSE ArmOk([e.cpu EXCEPT !.pc = Add(pc, 4 + 2 * e.val)])
         [] w.load -> IF ~ArmLdrexRegsOk(w.rd, w.rn) THEN ArmUndef(c) ELSE ArmLdrex(c, w.rd, addr, size)
         [] OTHER -> IF ~ArmStrexRegsOk(w.ra, w.rd, w.rn) THEN ArmUndef(c) ELSE ArmStrex(c, w.ra, w.rd, addr, size)

\* t32_branch_misc.
ArmT32BranchMisc(c, w, pc) ==
    CASE w.form = "BCC" -> ArmOk(IF ArmCondHolds(c, w.cond) THEN [c EXCEPT !.pc = Add(pc, 4 + w.imm)] ELSE c)
      [] w.form = "MSR" -> IF w.imm = 0 \/ w.imm2 \notin ArmSysm \/ ArmSpPc(w.rn) THEN ArmUndef(c)
                           ELSE ArmOk(ArmMsr(c, w.imm2, w.imm, c.reg[w.rn]))
      [] w.form = "MRS" -> IF w.imm2 \notin ArmSysm \/ ArmSpPc(w.rd) THEN ArmUndef(c)
                           ELSE ArmOk(ArmPut(c, w.rd, ArmMrs(c, w.imm2)))
      [] w.form = "HINT" -> ArmOk(c)
      [] w.form = "CLREX" -> ArmOk([c EXCEPT !.excl_open = FALSE])
      [] w.form \in {"DSB", "DMB", "ISB"} -> ArmOk(c)
      [] w.form = "B" -> ArmOk([c EXCEPT !.pc = Add(pc, 4 + w.imm)])
      [] w.form = "BL" -> ArmOk([ArmPut(c, ArmLR, Or(Add(pc, 4), 1)) EXCEPT !.pc = Add(pc, 4 + w.imm)])
      [] OTHER -> ArmUndef(c)

\* exec32.
ArmExec32(c, w, pc) ==
    CASE w.enc = "LDM32" ->
            IF \/ w.op \notin {1, 2} \/ ArmSP \in w.list \/ (~w.load /\ ArmPC \in w.list) \/ w.rn = ArmPC
               \/ (~w.load /\ w.wb /\ w.rn \in w.list) THEN ArmUndef(c)
            ELSE ArmLdmStm(c, w.rn, w.list, w.load, w.op = 2, w.wb)
      [] w.enc = "DUALEXCL" -> ArmT32DualExcl(c, w, pc)
      [] w.enc = "DPREG" -> ArmT32DpReg(c, w)
      [] w.enc = "BRANCHMISC" -> ArmT32BranchMisc(c, w, pc)
      [] w.enc = "DPIMM" -> ArmT32DpImm(c, w)
      [] w.enc = "DPPLAIN" -> ArmT32DpPlain(c, w, pc)
      [] w.enc = "LDST32" -> ArmT32Ldst(c, w, pc)
      [] w.enc = "DPREGISTER" -> ArmT32DpRegister(c, w)
      [] w.enc = "MUL" -> ArmT32Mul(c, w)
      [] w.enc = "MULL" -> ArmT32Mull(c, w)
      [] w.enc = "FP" -> ArmFpuExec(c, w, pc)
      [] OTHER -> ArmUndef(c)

-----------------------------------------------------------------------------
(* One instruction, in or out of an IT block. *)

\* it_ignores_condition, it_writes_pc.
ArmCondBranch(w) == (w.enc = "BCC" /\ w.cond < 14) \/ w.enc = "CBZ" \/ (w.enc = "BRANCHMISC" /\ w.form = "BCC")
ArmItWritesPc(w) ==
    \/ ArmCondBranch(w) \/ w.enc = "B"
    \/ w.enc = "SPECIAL" /\ (w.op \div 4 = 3 \/ (w.op \div 4 \in {0, 2} /\ w.rd = ArmPC))
    \/ w.enc = "PUSHPOP" /\ w.load /\ ArmPC \in w.list
    \/ w.enc = "BRANCHMISC" /\ w.form \in {"B", "BL"}
    \/ w.enc = "LDST32" /\ w.load /\ w.sz = 2 /\ ~w.sext /\ w.rd = ArmPC
    \/ w.enc = "LDM32" /\ w.load /\ w.op \in {1, 2} /\ ArmPC \in w.list
    \/ w.enc = "DUALEXCL" /\ w.form \in {"TBB", "TBH"}
\* it_after.
ArmItAfter(c, w, ran, next) ==
    CASE c.pc # next \/ ArmItWritesPc(w) -> [c EXCEPT !.reg[ArmXPSR] = ArmItPut(@, 0)]
      [] ran /\ w.enc = "HINT" /\ w.imm # 0 -> c
      [] OTHER -> ArmItNext(c)
\* step: the result, pc put back when it faulted.
ArmStepInsn(c, w) ==
    LET pc == c.pc
        next == Add(pc, ArmLen(w))
        it == ArmInIt(c)
        runs == ~it \/ ArmCondHolds(c, ArmItCond(c)) \/ ArmCondBranch(w)
        at == [c EXCEPT !.pc = next]
        r == IF ~runs THEN ArmOk(at) ELSE IF ArmLen(w) = 4 THEN ArmExec32(at, w, pc) ELSE ArmExec16(at, w, pc)
    IN CASE r.x \in {"NONE", "SVC"} -> IF it THEN [r EXCEPT !.cpu = ArmItAfter(@, w, runs, next)] ELSE r
         [] r.x = "BKPT" -> [r EXCEPT !.cpu.pc = pc]
         [] OTHER -> [r EXCEPT !.cpu = [@ EXCEPT !.pc = pc, !.fault_pc = pc]]

\* armv7m_step_insn: TRUE in ok when it completed.
ArmStepped(c, w) ==
    LET r == ArmStepInsn(c, w)
        pc == c.pc
    IN CASE r.x = "NONE" -> [ok |-> TRUE, cpu |-> r.cpu]
         [] r.x = "BKPT" -> [ok |-> FALSE, cpu |-> [r.cpu EXCEPT !.state = "HALTED"]]
         [] OTHER -> [ok |-> FALSE, cpu |-> ArmRaise(r.cpu, r.x, IF r.x = "SVC" THEN Add(pc, ArmLen(w)) ELSE pc)]
\* A turn of armv7m_run with the instruction w at pc.
ArmRunTurn(c, w) ==
    LET t == ArmTurn(c, ArmLen(w))
        r == ArmStepInsn(t.cpu, w)
        Counts(k) == [k EXCEPT !.retired = @ + 1]
    IN CASE ~t.go -> t.cpu
         [] r.x = "BKPT" -> Counts([r.cpu EXCEPT !.state = "HALTED"])
         [] r.x = "SVC" -> ArmRaise(Counts(r.cpu), "SVC", Add(c.pc, ArmLen(w)))
         [] r.x # "NONE" -> ArmRaise(r.cpu, r.x, c.pc)
         [] OTHER -> ArmSystick(Counts(r.cpu))
============================================================================
