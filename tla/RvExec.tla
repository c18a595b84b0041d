------------------------------- MODULE RvExec --------------------------------
(* The instructions of an RV32 hart: the compressed ones, its floating-     *)
(* point unit (rv_fpu.c), the interpreter (rv_interp.c) and the translator  *)
(* (rv_ir.c).                                                               *)
(*                                                                          *)
(* The 16-bit instructions and what each expands to (rv_decode.c).  A       *)
(* compressed instruction is its quadrant, funct3, register fields, the     *)
(* bits 12 (hi), 11:10 (sel) and 6:5 (sub) and the immediate of its format, *)
(* put together and sign-extended.  Registers are few, so the three-bit     *)
(* fields name the same ones as the five-bit fields.                        *)
EXTENDS RvCsr, EmuIr

CONSTANT Sp          \* the stack pointer, x2

NoInsn == [op |-> "none"]
Encoded(op, f3, f7, rd, rs1, rs2, imm) ==
    [op |-> op, f3 |-> f3, f7 |-> f7, rd |-> rd, rs1 |-> rs1, rs2 |-> rs2, imm |-> imm, len |-> 2,
     rs3 |-> 0, fmt |-> 0, f5 |-> 0, sys |-> "EBREAK"]
EncI(op, f3, rd, rs1, imm) == Encoded(op, f3, 0, rd, rs1, 0, imm)
EncS(op, f3, rs1, rs2, imm) == Encoded(op, f3, 0, 0, rs1, rs2, imm)
EncR(f3, f7, rd, rs1, rs2) == Encoded("OP", f3, f7, rd, rs1, rs2, 0)
Shift(f3, f7, rd, sh) == Encoded("OP_IMM", f3, f7, rd, rd, sh, 0)

\* expand_q0, with the byte and half accesses of Zcb.
ExpandQ0(c) ==
    CASE c.f3 = 0 -> IF c.imm = 0 THEN NoInsn ELSE EncI("OP_IMM", 0, c.rs2, Sp, c.imm)
      [] c.f3 = 2 -> EncI("LOAD", 2, c.rs2, c.rd, c.imm)
      [] c.f3 = 6 -> EncS("STORE", 2, c.rd, c.rs2, c.imm)
      [] c.f3 \in {1, 3} -> EncI("LOAD_FP", IF c.f3 = 1 THEN 3 ELSE 2, c.rs2, c.rd, c.imm)
      [] c.f3 \in {5, 7} -> EncS("STORE_FP", IF c.f3 = 5 THEN 3 ELSE 2, c.rd, c.rs2, c.imm)
      [] OTHER ->
           LET b5 == c.sub % 2  b6 == c.sub \div 2  off == 2 * b5 + b6 IN
           CASE c.sel = 0 /\ c.hi = 0 -> EncI("LOAD", 4, c.rs2, c.rd, off)
             [] c.sel = 1 /\ c.hi = 0 -> EncI("LOAD", IF b6 = 1 THEN 1 ELSE 5, c.rs2, c.rd, 2 * b5)
             [] c.sel = 2 /\ c.hi = 0 -> EncS("STORE", 0, c.rd, c.rs2, off)
             [] c.sel = 3 /\ c.hi = 0 /\ b6 = 0 -> EncS("STORE", 1, c.rd, c.rs2, 2 * b5)
             [] OTHER -> NoInsn

\* expand_q1; shifts by 32 and more are not RV32's.
ExpandZcb(c) ==
    CASE c.sub = 2 -> EncR(0, 1, c.rd, c.rd, c.rs2)
      [] c.sub = 3 /\ c.rs2 = 0 -> EncI("OP_IMM", 7, c.rd, c.rd, 2 ^ ByteBits - 1)
      [] c.sub = 3 /\ c.rs2 = 1 -> Shift(1, 48, c.rd, 4)
      [] c.sub = 3 /\ c.rs2 = 2 -> EncR(4, 4, c.rd, c.rd, 0)
      [] c.sub = 3 /\ c.rs2 = 3 -> Shift(1, 48, c.rd, 5)
      [] c.sub = 3 /\ c.rs2 = 5 -> EncI("OP_IMM", 4, c.rd, c.rd, AllOnes)
      [] OTHER -> NoInsn
ExpandQ1(c) ==
    CASE c.f3 = 0 -> EncI("OP_IMM", 0, c.rd, c.rd, c.imm)
      [] c.f3 \in {1, 5} -> Encoded("JAL", 0, 0, IF c.f3 = 1 THEN 1 ELSE 0, 0, 0, c.imm)
      [] c.f3 = 2 -> EncI("OP_IMM", 0, c.rd, 0, c.imm)
      [] c.f3 = 3 -> IF c.imm = 0 THEN NoInsn
                     ELSE IF c.rd = Sp THEN EncI("OP_IMM", 0, Sp, Sp, c.imm)
                     ELSE Encoded("LUI", 0, 0, c.rd, 0, 0, c.imm)
      [] c.f3 \in {6, 7} -> Encoded("BRANCH", c.f3 - 6, 0, 0, c.rd, 0, c.imm)
      [] OTHER ->
           CASE c.sel \in {0, 1} -> IF c.hi = 1 THEN NoInsn ELSE Shift(5, IF c.sel = 1 THEN 32 ELSE 0, c.rd, c.imm)
             [] c.sel = 2 -> EncI("OP_IMM", 7, c.rd, c.rd, c.imm)
             [] c.hi = 1 -> ExpandZcb(c)
             [] OTHER -> EncR(<<0, 4, 6, 7>>[c.sub + 1], IF c.sub = 0 THEN 32 ELSE 0, c.rd, c.rd, c.rs2)

\* expand_q2.
ExpandQ2(c) ==
    CASE c.f3 = 0 -> IF c.hi = 1 THEN NoInsn ELSE Shift(1, 0, c.rd, c.imm)
      [] c.f3 = 2 -> IF c.rd = 0 THEN NoInsn ELSE EncI("LOAD", 2, c.rd, Sp, c.imm)
      [] c.f3 = 6 -> EncS("STORE", 2, Sp, c.rs2, c.imm)
      [] c.f3 \in {1, 3} -> EncI("LOAD_FP", IF c.f3 = 1 THEN 3 ELSE 2, c.rd, Sp, c.imm)
      [] c.f3 \in {5, 7} -> EncS("STORE_FP", IF c.f3 = 5 THEN 3 ELSE 2, Sp, c.rs2, c.imm)
      [] OTHER ->
           CASE c.rs2 # 0 -> EncR(0, 0, c.rd, IF c.hi = 0 THEN 0 ELSE c.rd, c.rs2)
             [] c.rd # 0 -> EncI("JALR", 0, IF c.hi = 0 THEN 0 ELSE 1, c.rd, 0)
             [] c.hi = 1 -> Encoded("SYSTEM", 0, 0, 0, 0, 0, 1)
             [] OTHER -> NoInsn

\* rv_decode_expand_c.
ExpandC(c) == CASE c.q = 0 -> ExpandQ0(c) [] c.q = 1 -> ExpandQ1(c) [] c.q = 2 -> ExpandQ2(c) [] OTHER -> NoInsn

------------------------------------------------------------------------------
(* The floating-point instructions of the hart (rv_fpu.c): F, D and Zfhmin. *)
(* A register is two words; a single or a half in it is boxed in ones.  The *)
(* accrued flags are left out.                                              *)

FsDirty == 3
FDirty(h) == [h EXCEPT !.reg[32] = FsDirty]

\* fr32, fw32, fr16, fw16, fr64, fw64: a value not boxed reads as a NaN.
HalfOnes == AllOnes - (2 ^ HalfBits - 1)
Fr32(h, r) == IF h.freg[r].hi = AllOnes THEN h.freg[r].lo ELSE CanonicalNaN
Fw32(h, r, v) == FDirty([h EXCEPT !.freg[r] = [lo |-> v, hi |-> AllOnes]])
HNaN == 2 ^ HalfBits - 2
Fr16(h, r) == LET f == h.freg[r] IN
    IF f.hi = AllOnes /\ And(f.lo, HalfOnes) = HalfOnes THEN Low(f.lo, HalfBits) ELSE HNaN
Fw16(h, r, v) == Fw32(h, r, HalfOnes + Low(v, HalfBits))
Fw64(h, r, d) == FDirty([h EXCEPT !.freg[r] = d])

\* h_is_nan, and the classification of doubles: sign and exponent are in the
\* high word.
HIsNaN(x) == x % 2 ^ (HalfBits - 1) > 2 ^ (HalfBits - 2)
DIsNaN(d) == IsNaN(d.hi) \/ (IsInf(d.hi) /\ d.lo # 0)
DIsZero(d) == IsZero(d.hi) /\ d.lo = 0
DIsInf(d) == IsInf(d.hi) /\ d.lo = 0
DNaN == [lo |-> 0, hi |-> CanonicalNaN]
DOrd(d) == IF SignOf(d.hi) THEN -(Mag(d.hi) * Size + d.lo) ELSE Mag(d.hi) * Size + d.lo
DZero == [lo |-> 0, hi |-> 0]
DArith(op, rm, x, y, z) ==
    LET r == [hi |-> Some(op, rm, x.hi, y.hi, z.hi), lo |-> Some(op, rm, x.lo, y.lo, z.lo)] IN
    IF DIsNaN(x) \/ DIsNaN(y) \/ DIsNaN(z) \/ DIsNaN(r) THEN DNaN ELSE r

FRm(h, rm) == IF rm = 7 THEN h.frm ELSE rm
FRmValid(rm) == rm <= 4
FNo(h, in) == Raise(h, Illegal, <<in, "insn">>)
ArithOps == <<"FADD", "FSUB", "FMUL", "FDIV">>

-----------------------------------------------------------------------------
\* Loads and stores of a half, a single or a double.
FpMemory(h, in) ==
    LET va == Add(h.reg[in.rs1], in.imm)
        size == IF in.f3 = 1 THEN 2 ELSE 4
        ld == Load(h, va, size, FALSE)
        st == Store(h, va, size, IF in.f3 = 1 THEN Low(h.freg[in.rs2].lo, HalfBits) ELSE h.freg[in.rs2].lo)
        ld2 == Access64(h, va, "LOAD", <<0, 0>>)
        st2 == Access64(h, va, "STORE", <<h.freg[in.rs2].lo, h.freg[in.rs2].hi>>)
    IN IF in.f3 \notin {1, 2, 3} THEN FNo(h, in)
       ELSE IF in.op = "LOAD_FP" THEN
            IF in.f3 = 3 THEN
                 IF ld2.exc # NoExc THEN Raise(ld2.h, ld2.exc, <<ld2.at>>)
                 ELSE Done(Fw64(ld2.h, in.rd, [lo |-> ld2.val[1], hi |-> ld2.val[2]]))
            ELSE IF ld.exc # NoExc THEN Raise(ld.h, ld.exc, <<va>>)
            ELSE Done(IF in.f3 = 1 THEN Fw16(ld.h, in.rd, ld.val) ELSE Fw32(ld.h, in.rd, ld.val))
       ELSE IF in.f3 = 3 THEN IF st2.exc # NoExc THEN Raise(st2.h, st2.exc, <<st2.at>>) ELSE Done(st2.h)
       ELSE IF st.exc # NoExc THEN Raise(st.h, st.exc, <<va>>) ELSE Done(st.h)

\* The four fused multiply-adds; the product and the addend are negated
\* before the operation.  Only the doubles look at the rounding mode.
NegMul(op) == op \in {"NMSUB", "NMADD"}
NegAdd(op) == op \in {"MSUB", "NMADD"}
FmaSingle(op, rm, a, b, c) ==
    IF (IsZero(a) /\ IsInf(b)) \/ (IsInf(a) /\ IsZero(b)) THEN CanonicalNaN
    ELSE FpArith("FMA", rm, IF NegMul(op) THEN Negate(a) ELSE a, b, IF NegAdd(op) THEN Negate(c) ELSE c)
FpFma(h, in) ==
    LET rm == FRm(h, in.f3)
        a == h.freg[in.rs1]  b == h.freg[in.rs2]  c == h.freg[in.rs3]
        Flip(p, d) == IF p THEN [d EXCEPT !.hi = Negate(@)] ELSE d
        wide == IF (DIsZero(a) /\ DIsInf(b)) \/ (DIsInf(a) /\ DIsZero(b)) THEN DNaN
                ELSE DArith("FMA", rm, Flip(NegMul(in.op), a), b, Flip(NegAdd(in.op), c))
    IN IF in.fmt > 1 THEN FNo(h, in)
       ELSE IF in.fmt = 1 THEN IF FRmValid(rm) THEN Done(Fw64(h, in.rd, wide)) ELSE FNo(h, in)
       ELSE Done(Fw32(h, in.rd, FmaSingle(in.op, rm, Fr32(h, in.rs1), Fr32(h, in.rs2), Fr32(h, in.rs3))))

\* fp_op_h: conversions to half, and moves.
FpOpH(h, in) ==
    LET rm == FRm(h, in.f3)
        s == Fr32(h, in.rs1)
        d == h.freg[in.rs1]
        Cvt(nan, x) == Fw16(h, in.rd, IF nan THEN HNaN ELSE Some("CVT", rm, x, 0, 0))
    IN CASE in.f5 = 8 /\ FRmValid(rm) /\ in.rs2 = 0 -> Done(Cvt(IsNaN(s), s))
         [] in.f5 = 8 /\ FRmValid(rm) /\ in.rs2 = 1 -> Done(Cvt(DIsNaN(d), Add(d.hi, d.lo)))
         [] in.f5 = 28 /\ in.rs2 = 0 /\ in.f3 = 0 -> Done(SetReg(h, in.rd, Sext(d.lo, HalfBits)))
         [] in.f5 = 30 /\ in.rs2 = 0 /\ in.f3 = 0 -> Done(Fw16(h, in.rd, h.reg[in.rs1]))
         [] OTHER -> FNo(h, in)

\* fp_op_d.
DMin(x, y, min) ==
    CASE DIsNaN(x) /\ DIsNaN(y) -> DNaN [] DIsNaN(x) -> y [] DIsNaN(y) -> x
      [] DIsZero(x) /\ DIsZero(y) -> IF SignOf(x.hi) = min THEN x ELSE y
      [] OTHER -> IF min = (DOrd(x) < DOrd(y)) THEN x ELSE y
FpConvertD(h, in) ==
    LET rm == FRm(h, in.f3)
        a == h.freg[in.rs1]  b == h.freg[in.rs2]
        cmp == ~DIsNaN(a) /\ ~DIsNaN(b) /\ (CASE in.f3 = 0 -> DOrd(a) <= DOrd(b)
                 [] in.f3 = 1 -> DOrd(a) < DOrd(b) [] OTHER -> DOrd(a) = DOrd(b) \/ (DIsZero(a) /\ DIsZero(b)))
        ordered == ~DIsNaN(a) /\ ~DIsNaN(b)
        From(nan, x) == Fw64(h, in.rd, IF nan THEN DNaN ELSE [hi |-> Low(x, HalfBits), lo |-> Some("CVT", rm, x, 0, 0)])
    IN CASE in.f5 = 20 /\ (~ordered \/ in.f3 \in 0..2) -> Done(SetReg(h, in.rd, Bool(cmp)))
         [] in.f5 = 24 /\ in.rs2 <= 1 -> Done(SetReg(h, in.rd, Some(<<"F2I", "F2U">>[in.rs2 + 1], rm, a.hi, a.lo, 0)))
         [] in.f5 = 28 /\ in.rs2 = 0 /\ in.f3 = 1 -> Done(SetReg(h, in.rd, IF DIsNaN(a) THEN 9 ELSE FClass(a.hi)))
         [] in.f5 = 26 /\ in.rs2 <= 1 -> Done(From(FALSE, h.reg[in.rs1]))
         [] in.f5 = 8 /\ in.rs2 = 2 /\ FRmValid(rm) -> Done(From(HIsNaN(Fr16(h, in.rs1)), Fr16(h, in.rs1)))
         [] in.f5 = 8 /\ in.rs2 = 0 -> Done(From(IsNaN(Fr32(h, in.rs1)), Fr32(h, in.rs1)))
         [] OTHER -> FNo(h, in)
FpOpD(h, in) ==
    LET rm == FRm(h, in.f3)
        a == h.freg[in.rs1]  b == h.freg[in.rs2]
    IN CASE in.f5 \in 0..3 /\ FRmValid(rm) -> Done(Fw64(h, in.rd, DArith(ArithOps[in.f5 + 1], rm, a, b, DZero)))
         [] in.f5 = 11 /\ in.rs2 = 0 -> Done(Fw64(h, in.rd, DArith("FSQRT", rm, a, DZero, DZero)))
         [] in.f5 = 4 /\ in.f3 \in 0..2 -> Done(Fw64(h, in.rd, [a EXCEPT !.hi = FSgnj(<<"J", "N", "X">>[in.f3 + 1], a.hi, b.hi)]))
         [] in.f5 = 5 /\ in.f3 <= 1 -> Done(Fw64(h, in.rd, DMin(a, b, in.f3 = 0)))
         [] OTHER -> FpConvertD(h, in)

\* The single operations of rv_hart_fp.
FMinMax(x, y, min) ==
    LET Pick(p, q) == IF IsZero(p) /\ IsZero(q) THEN IF SignOf(p) = min THEN p ELSE q
                      ELSE IF (IF min THEN FOrd(p) < FOrd(q) ELSE FOrd(p) > FOrd(q)) THEN p ELSE q
    IN NaNOr(Pick, x, y)
FpToX(h, in) ==
    LET a == Fr32(h, in.rs1)  b == Fr32(h, in.rs2)
        X(v) == Done(SetReg(h, in.rd, v))
    IN CASE in.f5 = 20 /\ (in.f3 \in 0..2 \/ IsNaN(a) \/ IsNaN(b)) ->
              X(Bool(FpCompare(CASE in.f3 = 0 -> "LE" [] in.f3 = 1 -> "LT" [] OTHER -> "EQ", a, b)))
         [] in.f5 = 24 /\ in.rs2 <= 1 -> X(FpToInt(in.rs2 = 0, FRm(h, in.f3), a))
         [] in.f5 = 28 /\ in.rs2 = 0 /\ in.f3 <= 1 -> X(IF in.f3 = 0 THEN h.freg[in.rs1].lo ELSE FClass(a))
         [] OTHER -> FNo(h, in)
FpOpS(h, in) ==
    LET rm == FRm(h, in.f3)
        a == Fr32(h, in.rs1)  b == Fr32(h, in.rs2)  d == h.freg[in.rs1]
        half == Fr16(h, in.rs1)
        W(v) == Done(Fw32(h, in.rd, v))
        Cvt(nan, x) == W(IF nan THEN CanonicalNaN ELSE Some("CVT", rm, x, 0, 0))
    IN CASE in.f5 \in 0..3 /\ FRmValid(rm) -> W(FpArith(ArithOps[in.f5 + 1], rm, a, b, 0))
         [] in.f5 = 11 -> W(FpArith("FSQRT", rm, a, 0, 0))
         [] in.f5 = 8 /\ in.rs2 = 2 /\ FRmValid(rm) -> Cvt(HIsNaN(half), half)
         [] in.f5 = 8 /\ in.rs2 = 1 -> Cvt(DIsNaN(d), Add(d.hi, d.lo))
         [] in.f5 = 4 /\ in.f3 \in 0..2 -> W(FSgnj(<<"J", "N", "X">>[in.f3 + 1], a, b))
         [] in.f5 = 5 /\ in.f3 <= 1 -> W(FMinMax(a, b, in.f3 = 0))
         [] in.f5 = 26 /\ in.rs2 <= 1 -> W(FpFromInt(in.rs2 = 0, rm, h.reg[in.rs1]))
         [] in.f5 = 30 /\ in.rs2 = 0 /\ in.f3 = 0 -> W(h.reg[in.rs1])
         [] OTHER -> FpToX(h, in)

\* rv_hart_fp.
HartFp(h, in) ==
    CASE h.reg[32] = 0 -> FNo(h, in)
      [] in.op \in {"LOAD_FP", "STORE_FP"} -> FpMemory(h, in)
      [] in.op \in {"MADD", "MSUB", "NMSUB", "NMADD"} -> FpFma(h, in)
      [] in.fmt = 3 -> FNo(h, in)
      [] in.fmt = 2 -> FpOpH(h, in)
      [] in.fmt = 1 -> FpOpD(h, in)
      [] OTHER -> FpOpS(h, in)

------------------------------------------------------------------------------
(* What an RV32 instruction does: interpreted (rv_interp.c, rv_bitmanip.h), *)
(* and as the block the translator writes for it (rv_ir.c).  Instructions   *)
(* are the fields of their encoding; a 16-bit one is expanded first         *)
(* (rv_decode.c).                                                           *)

NoValue == -1

-----------------------------------------------------------------------------
(* Values. *)

\* zbc_clmul, zbc_clmulh, zbc_clmulr; zbb_orcb.
XorAll(f, n) == LET g[i \in 0 .. n] == IF i = 0 THEN 0 ELSE Xor(g[i - 1], f[i]) IN g[n]
Clmul(a, b)  == XorAll([i \in 1 .. Bits |-> IF Bit(b, i - 1) = 1 THEN Shl(a, i - 1) ELSE 0], Bits)
Clmulh(a, b) == XorAll([i \in 1 .. Bits - 1 |-> IF Bit(b, i) = 1 THEN Shr(a, Bits - i) ELSE 0], Bits - 1)
Clmulr(a, b) == XorAll([i \in 1 .. Bits |-> IF Bit(b, i - 1) = 1 THEN Shr(a, Bits - i) ELSE 0], Bits)
Orcb(a) == LET B(k) == IF ByteOf(a, k) # 0 THEN 2 ^ ByteBits - 1 ELSE 0 IN Bytes(B(0), B(1), B(2), B(3))
Ror(a, k) == Rotl(a, (Bits - k) % Bits)

\* rv_div_s, rv_div_u, rv_rem_s, rv_rem_u.
RvDivS(a, b) == CASE b = 0 -> AllOnes [] a = SignBit /\ b = AllOnes -> a [] OTHER -> Wrap(Quotient(Signed(a), Signed(b)))
RvRemS(a, b) == CASE b = 0 -> a [] a = SignBit /\ b = AllOnes -> 0 [] OTHER -> Wrap(Remainder(Signed(a), Signed(b)))
RvDivU(a, b) == IF b = 0 THEN AllOnes ELSE a \div b
RvRemU(a, b) == IF b = 0 THEN a ELSE a % b
Mulhsu(a, b) == Wrap((Signed(a) * b) \div Size)

\* The shift count of rev8.
RevCount == Bits - ByteBits

\* OP_IMM; sh is the rs2 field.
ImmValue(f3, f7, sh, a, imm) ==
    CASE f3 = 0 -> Add(a, imm)                       [] f3 = 4 -> Xor(a, imm)
      [] f3 = 2 -> Bool(Signed(a) < Signed(imm))     [] f3 = 6 -> Or(a, imm)
      [] f3 = 3 -> Bool(a < imm)                     [] f3 = 7 -> And(a, imm)
      [] f3 = 1 /\ f7 = 0  -> Shl(a, sh)             [] f3 = 5 /\ f7 = 0  -> Shr(a, sh)
      [] f3 = 1 /\ f7 = 20 -> Or(a, 2 ^ sh)          [] f3 = 5 /\ f7 = 32 -> Sar(a, sh)
      [] f3 = 1 /\ f7 = 36 -> And(a, Not(2 ^ sh))    [] f3 = 5 /\ f7 = 48 -> Ror(a, sh)
      [] f3 = 1 /\ f7 = 52 -> Xor(a, 2 ^ sh)         [] f3 = 5 /\ f7 = 36 -> Bit(a, sh)
      [] f3 = 1 /\ f7 = 48 -> (CASE sh = 0 -> Clz(a) [] sh = 1 -> Ctz(a) [] sh = 2 -> Popcnt(a)
                                 [] sh = 4 -> Sext(a, ByteBits) [] sh = 5 -> Sext(a, HalfBits) [] OTHER -> NoValue)
      [] f3 = 5 /\ f7 = 20 /\ sh = 7 -> Orcb(a)      [] f3 = 5 /\ f7 = 52 /\ sh = RevCount -> SwapBytes(a)
      [] OTHER -> NoValue

\* OP, by funct7.
BaseValue(f3, a, b) ==
    CASE f3 = 0 -> Add(a, b)                      [] f3 = 1 -> Shl(a, Count(b))
      [] f3 = 2 -> Bool(Signed(a) < Signed(b))    [] f3 = 3 -> Bool(a < b)
      [] f3 = 4 -> Xor(a, b)                      [] f3 = 5 -> Shr(a, Count(b))
      [] f3 = 6 -> Or(a, b)                       [] f3 = 7 -> And(a, b)
AltValue(f3, a, b) ==
    CASE f3 = 0 -> Sub(a, b)       [] f3 = 5 -> Sar(a, Count(b))
      [] f3 = 4 -> Not(Xor(a, b))  [] f3 = 6 -> Or(a, Not(b))  [] f3 = 7 -> And(a, Not(b))
      [] OTHER -> NoValue
MinMaxValue(f3, a, b) ==
    CASE f3 = 1 -> Clmul(a, b) [] f3 = 2 -> Clmulr(a, b) [] f3 = 3 -> Clmulh(a, b)
      [] f3 = 4 -> IF Signed(a) < Signed(b) THEN a ELSE b  [] f3 = 5 -> IF a < b THEN a ELSE b
      [] f3 = 6 -> IF Signed(a) > Signed(b) THEN a ELSE b  [] f3 = 7 -> IF a > b THEN a ELSE b
      [] OTHER -> NoValue
MulValue(f3, a, b) ==
    CASE f3 = 0 -> Wrap(a * b)   [] f3 = 1 -> Wrap((Signed(a) * Signed(b)) \div Size)
      [] f3 = 2 -> Mulhsu(a, b)  [] f3 = 3 -> (a * b) \div Size
      [] f3 = 4 -> RvDivS(a, b)  [] f3 = 5 -> RvDivU(a, b)
      [] f3 = 6 -> RvRemS(a, b)  [] f3 = 7 -> RvRemU(a, b)
OpValue(f3, f7, rs2, a, b) ==
    CASE f7 = 0  -> BaseValue(f3, a, b)     [] f7 = 32 -> AltValue(f3, a, b)
      [] f7 = 5  -> MinMaxValue(f3, a, b)   [] f7 = 1  -> MulValue(f3, a, b)
      [] f7 = 48 /\ f3 = 1 -> Rotl(a, Count(b))      [] f7 = 48 /\ f3 = 5 -> Ror(a, Count(b))
      [] f7 = 4 /\ f3 = 4 /\ rs2 = 0 -> Low(a, HalfBits)
      [] f7 = 16 /\ f3 \in {2, 4, 6} -> Add(Shl(a, f3 \div 2), b)
      [] f7 = 20 /\ f3 = 1 -> Or(a, 2 ^ Count(b))    [] f7 = 52 /\ f3 = 1 -> Xor(a, 2 ^ Count(b))
      [] f7 = 36 /\ f3 = 1 -> And(a, Not(2 ^ Count(b)))  [] f7 = 36 /\ f3 = 5 -> Bit(a, Count(b))
      [] f7 = 7 /\ f3 \in {5, 7} -> IF (b = 0) = (f3 = 5) THEN 0 ELSE a
      [] OTHER -> NoValue

\* Branch conditions, by funct3; 2 and 3 are not branches.
BranchCond == [f \in {0, 1, 4, 5, 6, 7} |->
    CASE f = 0 -> "EQ" [] f = 1 -> "NE" [] f = 4 -> "LT" [] f = 5 -> "GE" [] f = 6 -> "LTU" [] OTHER -> "GEU"]

-----------------------------------------------------------------------------
(* The interpreter: [exc, h, tval], with the pc where it goes on. *)

RvSize(f3) == 2 ^ (f3 % 4)
To(r, pc) == IF r.exc = NoExc THEN [r EXCEPT !.h.pc = pc] ELSE r
JumpTo(h, in, target, rd, next) ==
    IF target % 2 # 0 THEN Raise(h, Fault("FETCH", "MISALIGNED"), <<target>>)
    ELSE Done([SetReg(h, rd, next) EXCEPT !.pc = target])
RvMemory(h, in) ==
    LET va == Add(h.reg[in.rs1], in.imm)
        ld == Load(h, va, RvSize(in.f3), in.f3 < 4)
        st == Store(h, va, RvSize(in.f3), h.reg[in.rs2])
    IN IF in.op = "LOAD"
       THEN IF in.f3 \notin {0, 1, 2, 4, 5} THEN Raise(h, Illegal, <<in, "insn">>)
            ELSE IF ld.exc # NoExc THEN Raise(ld.h, ld.exc, <<va>>) ELSE Done(SetReg(ld.h, in.rd, ld.val))
       ELSE IF in.f3 > 2 THEN Raise(h, Illegal, <<in, "insn">>)
       ELSE IF st.exc # NoExc THEN Raise(st.h, st.exc, <<va>>) ELSE Done(st.h)
RvWrite(h, in, v) == IF v = NoValue THEN Raise(h, Illegal, <<in, "insn">>) ELSE Done(SetReg(h, in.rd, v))
\* The value of time is the platform's.
TimeNow == 5
RvTime(h, in) == IF CsrReadOk(h, "TIME") THEN Done(SetReg(h, in.rd, TimeNow)) ELSE Raise(h, Illegal, <<in, "insn">>)
\* A CSR is only written here (rd is 0), with a value it can hold.
RvSystem(h, in) ==
    CASE in.sys = "CSR"    -> CsrInsn(h, in.csr, in.v, FALSE, in)
      [] in.sys = "TIME" /\ in.rs1 = 0  -> RvTime(h, in)
      [] in.sys = "SFENCE" /\ in.rd = 0 -> Sfence(h, in, h.reg[in.rs1])
      [] in.rd # 0 \/ in.rs1 # 0 -> Raise(h, Illegal, <<in, "insn">>)
      [] in.sys = "ECALL"  -> Raise(h, <<"ECALL", h.priv>>, <<0>>)
      [] in.sys = "EBREAK" -> Raise(h, Breakpoint, <<h.pc>>)
      [] in.sys = "WFI"  -> Wfi(h, in)
      [] in.sys = "MRET" -> Mret(h, in)
      [] in.sys = "SRET" -> Sret(h, in)
      [] in.sys = "WRS"  -> WrsNto(h, in)
      [] in.sys = "WRS_STO" -> Done(h)
      [] OTHER -> Raise(h, Illegal, <<in, "insn">>)

RvEffect(h, in) ==
    LET next == Add(h.pc, in.len)
        a == h.reg[in.rs1]
        b == h.reg[in.rs2]
        target == Add(h.pc, in.imm)
        jump == Add(a, in.imm)
    IN CASE in.op = "LUI"    -> To(Done(SetReg(h, in.rd, in.imm)), next)
         [] in.op = "AUIPC"  -> To(Done(SetReg(h, in.rd, target)), next)
         [] in.op = "JAL"    -> JumpTo(h, in, target, in.rd, next)
         [] in.op = "JALR"   -> IF in.f3 # 0 THEN Raise(h, Illegal, <<in, "insn">>)
                                ELSE JumpTo(h, in, jump - (jump % 2), in.rd, next)
         [] in.op = "BRANCH" -> IF in.f3 \notin DOMAIN BranchCond THEN Raise(h, Illegal, <<in, "insn">>)
                                ELSE IF ValueCond(a, b, BranchCond[in.f3]) THEN JumpTo(h, in, target, 0, next)
                                ELSE To(Done(h), next)
         [] in.op \in {"LOAD", "STORE"} -> To(RvMemory(h, in), next)
         [] in.op = "OP_IMM" -> To(RvWrite(h, in, ImmValue(in.f3, in.f7, in.rs2, a, in.imm)), next)
         [] in.op = "OP"     -> To(RvWrite(h, in, OpValue(in.f3, in.f7, in.rs2, a, b)), next)
         [] in.op = "FENCE"  -> To(Done(h), next)
         [] in.op = "CBO"    -> To(IF in.rd # 0 THEN Raise(h, Illegal, <<in, "insn">>) ELSE Cbo(h, in.cbo, a, in), next)
         [] in.op = "AMO"    -> To(Atomic(h, in), next)
         [] in.op = "SYSTEM" -> IF in.sys \in {"MRET", "SRET"} THEN RvSystem(h, in) ELSE To(RvSystem(h, in), next)
         [] in.op \in {"LOAD_FP", "STORE_FP", "MADD", "MSUB", "NMSUB", "NMADD", "OP_FP"} -> To(HartFp(h, in), next)
         [] OTHER -> Raise(h, Illegal, <<in, "insn">>)

Decoded(in) == IF in.op = "C" THEN ExpandC(in) ELSE in
RvStep(h, in) ==
    LET d == Decoded(in)
        r == IF d = NoInsn THEN Raise(h, Illegal, <<in, "insn">>) ELSE RvEffect(h, d)
    IN IF r.exc = NoExc THEN r.h ELSE Trap(r.h, r.exc, r.tval)

------------------------------------------------------------------------------
(* The RV32 translator (rv_ir.c): the forms of each instruction it lowers,  *)
(* the helpers those call, and the block it makes of a run of them.         *)

\* rv_ir_load, rv_ir_store: a trap is taken before the block is left.
RvIrLoad(h, addr, spec) ==
    LET r == Load(h, addr, spec.size, spec.signed) IN
    IF r.exc # NoExc THEN [trap |-> TRUE, cpu |-> Trap(r.h, r.exc, <<addr>>), val |-> 0]
    ELSE [trap |-> FALSE, cpu |-> r.h, val |-> r.val]
RvIrStore(h, addr, spec, val) ==
    LET r == Store(h, addr, spec.size, val) IN
    IF r.exc # NoExc THEN [trap |-> TRUE, cpu |-> Trap(r.h, r.exc, <<addr>>)] ELSE [trap |-> FALSE, cpu |-> r.h]

\* The helpers; 1 when they trapped.
Trapping(r) == IF r.exc = NoExc THEN [cpu |-> r.h, val |-> 0] ELSE [cpu |-> Trap(r.h, r.exc, r.tval), val |-> 1]
BitopHelper(h, in) ==
    LET a == h.reg[in.rs1]  b == h.reg[in.rs2] IN
    CASE in.op = "OP_IMM" -> IF in.f3 = 1 THEN Popcnt(a) ELSE Orcb(a)
      [] in.f7 = 48 -> IF in.f3 = 1 THEN Rotl(a, Count(b)) ELSE Ror(a, Count(b))
      [] OTHER -> MinMaxValue(in.f3, a, b)
MuldivHelper(h, in) ==
    LET a == h.reg[in.rs1]  b == h.reg[in.rs2] IN
    CASE in.f3 = 2 -> Mulhsu(a, b) [] in.f3 = 4 -> RvDivS(a, b) [] in.f3 = 5 -> RvDivU(a, b)
      [] in.f3 = 6 -> RvRemS(a, b) [] OTHER -> RvRemU(a, b)
RvHelper(name, h, in) ==
    CASE name = "FP"  -> Trapping(HartFp(h, in))
      [] name = "AMO" -> Trapping(Atomic(h, in))
      [] name = "CSR" -> Trapping(RvTime(h, in))
      [] name = "MULDIV" -> [cpu |-> SetReg(h, in.rd, MuldivHelper(h, in)), val |-> 0]
      [] OTHER -> [cpu |-> SetReg(h, in.rd, BitopHelper(h, in)), val |-> 0]

-----------------------------------------------------------------------------
(* lower_one, by opcode. *)

Unary(in, form) == Lowered(<<GetF(in.rs1), form, PutF(in.rd, 2)>>)
WithConst(in, k, form) == Lowered(<<GetF(in.rs1), ConstF(k), form, PutF(in.rd, 3)>>)
Binary(in, form) == Lowered(<<GetF(in.rs1), GetF(in.rs2), form, PutF(in.rd, 3)>>)
ImmOps == [f \in {0, 4, 6, 7} |-> CASE f = 0 -> "ADD" [] f = 4 -> "XOR" [] f = 6 -> "OR" [] OTHER -> "AND"]
LowerImm(in) ==
    LET sh == in.rs2
        f  == <<in.f3, in.f7>>
        bit == 2 ^ sh
    IN CASE in.f3 \in DOMAIN ImmOps -> WithConst(in, in.imm, Op2(ImmOps[in.f3], 1, 2))
         [] in.f3 = 2 -> WithConst(in, in.imm, SetccF("LT", 1, 2))
         [] in.f3 = 3 -> WithConst(in, in.imm, SetccF("LTU", 1, 2))
         [] f = <<1, 0>> -> Unary(in, OpI("SHLI", 1, sh))
         [] f = <<1, 48>> ->
              (CASE sh = 0 /\ CanLower("CLZ", "none") -> Unary(in, Op1("CLZ", 1))
                 [] sh = 1 /\ CanLower("CTZ", "none") -> Unary(in, Op1("CTZ", 1))
                 [] sh = 2 -> Lowered(<<HelperF("BITOP", in, 0, 0)>>)
                 [] sh = 4 -> Unary(in, Op1("SEXT8", 1))
                 [] sh = 5 -> Unary(in, Op1("SEXT16", 1))
                 [] OTHER -> Declined)
         [] f = <<1, 20>> -> WithConst(in, bit, Op2("OR", 1, 2))
         [] f = <<1, 36>> -> WithConst(in, Not(bit), Op2("AND", 1, 2))
         [] f = <<1, 52>> -> WithConst(in, bit, Op2("XOR", 1, 2))
         [] f = <<5, 0>>  -> Unary(in, OpI("SHRI", 1, sh))
         [] f = <<5, 32>> -> Unary(in, OpI("SARI", 1, sh))
         [] f = <<5, 48>> -> Unary(in, OpI("ROTLI", 1, (Bits - sh) % Bits))
         [] f = <<5, 36>> -> Lowered(<<GetF(in.rs1), OpI("SHRI", 1, sh), ConstF(1), Op2("AND", 2, 3), PutF(in.rd, 4)>>)
         [] f = <<5, 20>> /\ sh = 7 -> Lowered(<<HelperF("BITOP", in, 0, 0)>>)
         [] f = <<5, 52>> /\ sh = RevCount -> Unary(in, Op1("BSWAP32", 1))
         [] OTHER -> Declined

\* lower_divrem: the divisor is made 1 where the division would not be
\* defined, and the result put right afterwards without a branch.
DivRemForms(in, signed, rem) ==
    LET zero == <<GetF(in.rs1), GetF(in.rs2), ConstF(0), SetccF("EQ", 2, 3)>>
        over == <<ConstF(SignBit), SetccF("EQ", 1, 5), ConstF(AllOnes), SetccF("EQ", 2, 7), Op2("AND", 6, 8), Op2("OR", 4, 9)>>
        head == IF signed THEN zero \o over ELSE zero
        sel  == Len(head)
        op   == IF rem THEN (IF signed THEN "REMS" ELSE "REMU") ELSE IF signed THEN "DIVS" ELSE "DIVU"
        safe == <<Op2("SUB", 3, sel), Op1("NOT", sel + 1), Op2("AND", 2, sel + 2), Op2("OR", sel + 3, sel),
                  Op2(op, 1, sel + 4), Op2("SUB", 3, 4)>>
        q == sel + 5
        zmask == sel + 6
        tail == IF ~rem THEN <<Op2("OR", q, zmask), PutF(in.rd, zmask + 1)>>
                ELSE <<Op2("AND", 1, zmask), Op1("NOT", zmask), Op2("AND", q, zmask + 2), Op2("OR", zmask + 1, zmask + 3),
                       PutF(in.rd, zmask + 4)>>
    IN head \o safe \o tail

LowerMul(in) ==
    CASE in.f3 = 0 -> Binary(in, Op2("MUL", 1, 2))
      [] in.f3 = 1 -> Binary(in, Op2("MULHS", 1, 2))
      [] in.f3 = 3 -> Binary(in, Op2("MULHU", 1, 2))
      [] in.f3 = 2 -> Lowered(<<HelperF("MULDIV", in, 0, 0)>>)
      [] OTHER -> Lowered(DivRemForms(in, in.f3 \in {4, 6}, in.f3 \in {6, 7}))

BaseOps == <<"ADD", "SHL", "LT", "LTU", "XOR", "SHR", "OR", "AND">>
LowerOp(in) ==
    LET x == GetF(in.rs1)
        y == GetF(in.rs2)
        Then(fs) == Lowered(<<x, y>> \o fs \o <<PutF(in.rd, 2 + Len(fs))>>)
        SetBit(fs) == Then(<<ConstF(1), Op2("SHL", 3, 2)>> \o fs)
        helper == Lowered(<<HelperF("BITOP", in, 0, 0)>>)
        f == <<in.f7, in.f3>>
    IN CASE in.f7 = 1 -> LowerMul(in)
         [] in.f7 = 0 -> IF in.f3 \in {2, 3} THEN Binary(in, SetccF(BaseOps[in.f3 + 1], 1, 2))
                         ELSE Binary(in, Op2(BaseOps[in.f3 + 1], 1, 2))
         [] f = <<32, 0>> -> Binary(in, Op2("SUB", 1, 2))
         [] f = <<32, 5>> -> Binary(in, Op2("SAR", 1, 2))
         [] f = <<32, 4>> -> Then(<<Op2("XOR", 1, 2), Op1("NOT", 3)>>)
         [] f = <<32, 6>> -> Then(<<Op1("NOT", 2), Op2("OR", 1, 3)>>)
         [] f = <<32, 7>> -> Then(<<Op1("NOT", 2), Op2("AND", 1, 3)>>)
         [] in.f7 = 7 /\ in.f3 \in {5, 7} ->
              Then(<<ConstF(0), SetccF(IF in.f3 = 5 THEN "NE" ELSE "EQ", 2, 3), Op1("NEG", 4), Op2("AND", 1, 5)>>)
         [] in.f7 = 16 /\ in.f3 \in {2, 4, 6} -> Then(<<OpI("SHLI", 1, in.f3 \div 2), Op2("ADD", 3, 2)>>)
         [] in.f7 = 5 /\ in.f3 # 0 -> helper
         [] in.f7 = 48 /\ in.f3 \in {1, 5} -> helper
         [] f = <<4, 4>> /\ in.rs2 = 0 -> Unary(in, Op1("ZEXT16", 1))
         [] f = <<36, 5>> -> Then(<<Op2("SHR", 1, 2), ConstF(1), Op2("AND", 3, 4)>>)
         [] f = <<20, 1>> -> SetBit(<<Op2("OR", 1, 4)>>)
         [] f = <<52, 1>> -> SetBit(<<Op2("XOR", 1, 4)>>)
         [] f = <<36, 1>> -> SetBit(<<Op1("NOT", 4), Op2("AND", 1, 5)>>)
         [] OTHER -> Declined

\* fput marks the state of the unit dirty, once in a block.
FPutForms(in, n, marked) ==
    <<FPutF("BOX", in.rd, n)>> \o
    (IF marked THEN <<>> ELSE <<GetF(32), OpI("ORI", n + 2, FsDirty), PutF(32, n + 3)>>)
Fallback(in, pc) == Lowered(<<SetPcF(pc), TrapF("FP", in)>>)
LowerFpOp(h, in, pc, marked) ==
    LET rm == FRm(h, in.f3)
        Into(fs) == Lowered(fs \o FPutForms(in, Len(fs), marked))
        Can(op) == FRmValid(rm) /\ CanLower(op, rm)
        box(r) == FGetF("BOX", r)
    IN CASE in.fmt # 0 -> Fallback(in, pc)
         [] in.f5 = 28 /\ in.f3 = 0 /\ in.rs2 = 0 -> Lowered(<<FGetF("none", in.rs1), PutF(in.rd, 1)>>)
         [] in.f5 = 30 /\ in.f3 = 0 /\ in.rs2 = 0 -> Into(<<GetF(in.rs1)>>)
         [] in.f5 \in 0..3 /\ Can(ArithOps[(in.f5 % 4) + 1]) ->
              Into(<<box(in.rs1), box(in.rs2), Form(ArithOps[in.f5 + 1], rm, 1, 2, 0)>>)
         [] in.f5 = 11 /\ in.rs2 = 0 /\ Can("FSQRT") -> Into(<<box(in.rs1), Form("FSQRT", rm, 1, 0, 0)>>)
         [] OTHER -> Fallback(in, pc)
LowerFp(h, in, pc, marked) ==
    LET rm == FRm(h, in.f3)
        Into(fs) == Lowered(fs \o FPutForms(in, Len(fs), marked))
        word == MemSpec(4, FALSE)
        box(r) == FGetF("BOX", r)
    IN CASE h.reg[32] = 0 -> Declined
         [] in.op = "LOAD_FP" /\ in.f3 = 2 -> Into(<<SetPcF(pc), GetF(in.rs1), LoadF(word, 2, in.imm)>>)
         [] in.op = "STORE_FP" /\ in.f3 = 2 ->
              Lowered(<<SetPcF(pc), GetF(in.rs1), FGetF("none", in.rs2), StoreF(word, 2, in.imm, 3)>>)
         [] in.op \in {"MADD", "MSUB", "NMSUB", "NMADD"} /\ CanLower("FMA", rm) ->
              Into(<<box(in.rs1), box(in.rs2), box(in.rs3),
                     [Form("FMA", [op |-> in.op, rm |-> rm], 1, 2, 0) EXCEPT !.c = 3]>>)
         [] in.op = "OP_FP" -> LowerFpOp(h, in, pc, marked)
         [] OTHER -> Fallback(in, pc)

LowerMemory(in, pc) ==
    IF in.op = "LOAD"
    THEN IF in.f3 = 3 \/ in.f3 >= 6 THEN Declined
         ELSE Lowered(<<SetPcF(pc), GetF(in.rs1), LoadF(MemSpec(RvSize(in.f3), in.f3 < 4), 2, in.imm), PutF(in.rd, 3)>>)
    ELSE IF in.f3 > 2 THEN Declined
    ELSE Lowered(<<SetPcF(pc), GetF(in.rs1), GetF(in.rs2), StoreF(MemSpec(RvSize(in.f3), FALSE), 2, in.imm, 3)>>)
LowerJump(in, pc) ==
    LET next == Add(pc, in.len) IN
    CASE in.op = "BRANCH" -> IF in.f3 \notin DOMAIN BranchCond THEN Declined
                             ELSE Counted(<<GetF(in.rs1), GetF(in.rs2), RetireF, ExitIfF(BranchCond[in.f3], 1, 2, Add(pc, in.imm))>>)
      [] in.op = "JAL"    -> Ending(<<ConstF(next), PutF(in.rd, 1), RetireF, ExitF(Add(pc, in.imm))>>)
      [] OTHER            -> IF in.f3 # 0 THEN Declined
                             ELSE Ending(<<GetF(in.rs1), OpI("ADDI", 1, in.imm), ConstF(AllOnes - 1), Op2("AND", 2, 3),
                                           ConstF(next), PutF(in.rd, 5), RetireF, ExitTF(4)>>)
LowerSystem(in, pc) ==
    CASE in.op = "AMO" -> Lowered(<<SetPcF(pc), TrapF("AMO", in)>>)
      [] in.sys = "TIME" /\ in.rs1 = 0 -> Lowered(<<SetPcF(pc), TrapF("CSR", in)>>)
      [] OTHER -> Declined
LowerOne(h, in, pc, marked) ==
    CASE in.op = "LUI"    -> Lowered(<<ConstF(in.imm), PutF(in.rd, 1)>>)
      [] in.op = "AUIPC"  -> Lowered(<<ConstF(Add(pc, in.imm)), PutF(in.rd, 1)>>)
      [] in.op = "FENCE"  -> Lowered(<<>>)
      [] in.op = "OP_IMM" -> LowerImm(in)
      [] in.op = "OP"     -> LowerOp(in)
      [] in.op \in {"LOAD", "STORE"} -> LowerMemory(in, pc)
      [] in.op \in {"BRANCH", "JAL", "JALR"} -> LowerJump(in, pc)
      [] in.op \in {"AMO", "SYSTEM"} -> LowerSystem(in, pc)
      [] in.op \in {"LOAD_FP", "STORE_FP", "MADD", "MSUB", "NMSUB", "NMADD", "OP_FP"} -> LowerFp(h, in, pc, marked)
      [] OTHER -> Declined

\* rv_ir_translate over the instructions at pc: the block and how many of
\* them it holds; what one that is declined has emitted is dropped.
WritesF(fs) == \E i \in DOMAIN fs : fs[i].op = "FPUT"
RvTranslate(h, prog, pc) ==
    LET Step(acc, i) ==
          LET in  == Decoded(prog[i])
              low == IF in = NoInsn THEN Declined ELSE LowerOne(h, in, acc.cur, acc.marked)
              one == EmitAll(acc.block, low.forms \o (IF low.counted THEN <<>> ELSE <<RetireF>>))
              next == Add(acc.cur, prog[i].len)
          IN IF acc.stop \/ acc.block.overflow THEN acc
             ELSE IF ~low.ok THEN [acc EXCEPT !.stop = TRUE]
             ELSE [block |-> IF low.ends THEN one ELSE EmitAll(one, <<SetPcF(next)>>),
                   cur |-> next, count |-> acc.count + 1, stop |-> low.ends, marked |-> acc.marked \/ WritesF(low.forms)]
    IN Loop(Step, [block |-> EmptyBlock(pc), cur |-> pc, count |-> 0, stop |-> FALSE, marked |-> FALSE], Len(prog))
==============================================================================
