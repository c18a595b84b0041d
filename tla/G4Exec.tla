------------------------------- MODULE G4Exec --------------------------------
(* The instructions of a G4MH core: its floating-point unit, after it the  *)
(* interpreter (g4mh_interp.c) and the translator (g4mh_ir.c).             *)
(*                                                                         *)
(* The floating-point unit of a G4MH core (g4mh_fp.c, g4mh_fpu.c): the     *)
(* rules of the product around an arithmetic library.  A number is an      *)
(* integer of w bits with a fraction of mb: halves, singles and doubles of *)
(* 4, 8 and 16 bits.  What the library computes is some value, and some    *)
(* flags, that depend on the operation, its rounding and its operands.     *)
EXTENDS G4Cpu, EmuIr

G4F16 == [w |-> 4, mb |-> 1]
G4F32 == [w |-> 8, mb |-> 4]
G4F64 == [w |-> 16, mb |-> 11]

\* sign_of, mant_of, exp_of, is_nan, is_snan, is_sub, is_zero.
G4Top(f) == 2 ^ (f.w - 1)
G4Neg(f, x) == x >= G4Top(f)
G4MagOf(f, x) == x % G4Top(f)
G4InfOf(f) == G4Top(f) - 2 ^ f.mb
G4IsNaN(f, x) == G4MagOf(f, x) > G4InfOf(f)
G4IsSNaN(f, x) == G4IsNaN(f, x) /\ (x \div 2 ^ (f.mb - 1)) % 2 = 0
G4IsSub(f, x) == G4MagOf(f, x) \in 1 .. 2 ^ f.mb - 1
G4IsZero(f, x) == G4MagOf(f, x) = 0
G4SignIn(f, x) == IF G4Neg(f, x) THEN G4Top(f) ELSE 0
G4DNaN(f) == G4Top(f) - 1
G4Ord(f, x) == IF G4Neg(f, x) THEN -G4MagOf(f, x) ELSE G4MagOf(f, x)

\* sf_op, narrow_sf and the library's conversions, from sf_begin to sf_end.
G4FpOps == <<"ADD", "SUB", "MUL", "DIV", "SQRT", "RECIP", "RSQRT", "FMA", "FMS", "FNMA", "FNMS", "NARROW", "INT", "UINT", "FINT",
             "FUINT">>
G4FpNo == [op \in {G4FpOps[i] : i \in DOMAIN G4FpOps} |-> CHOOSE i \in DOMAIN G4FpOps : G4FpOps[i] = op]
G4Sf(f, op, rm, x, y, z) ==
    LET r == (3 * x + 5 * y + 9 * z + 7 * rm + 11 * G4FpNo[op]) % 2 ^ f.w IN
    [val |-> r,
     flags |-> CASE G4IsNaN(f, r) -> {"V"}
                 [] op \in {"DIV", "RECIP"} /\ y = 0 -> {"Z"}
                 [] r % 8 \in {3, 5} -> {"I"} \cup (IF G4IsSub(f, r) THEN {"U"} ELSE {})
                 [] OTHER -> {}]

\* g4mh_fp_begin: the settings, what was raised, whether an operand was flushed.
G4FpBegin(fpsr) == [rm |-> fpsr.rm, fs |-> fpsr.fs, fn |-> fpsr.fn, flags |-> {}, flushed |-> FALSE]
G4Gives(e, flags, v) == [e |-> [e EXCEPT !.flags = @ \cup flags], val |-> v]

\* flush_result: what a result too small becomes.
G4FlushResult(e, f, neg, half) ==
    LET s == IF neg THEN G4Top(f) ELSE 0 IN
    CASE e.rm = 1 -> s
      [] e.rm = 2 -> IF neg THEN s ELSE 2 ^ f.mb
      [] e.rm = 3 -> IF neg THEN s + 2 ^ f.mb ELSE 0
      [] OTHER    -> IF e.fn /\ half THEN s + 2 ^ f.mb ELSE s
\* finish: rz is the result rounded to zero.
G4Finish(e, f, r, rz) ==
    CASE "V" \in r.flags -> [ok |-> TRUE, val |-> G4DNaN(f), flags |-> r.flags]
      [] "U" \notin r.flags /\ ~G4IsSub(f, r.val) -> [ok |-> TRUE, val |-> r.val, flags |-> r.flags]
      [] ~e.fs -> [ok |-> FALSE, val |-> 0, flags |-> {"E"}]
      [] OTHER -> [ok |-> TRUE, val |-> G4FlushResult(e, f, G4Neg(f, r.val), G4MagOf(f, rz) >= 2 ^ (f.mb - 1)),
                   flags |-> r.flags \cup {"U", "I"}]
\* flushed_in.
G4FlushedIn(e, flags) ==
    IF flags \cap {"V", "Z"} = {} THEN [e EXCEPT !.flushed = TRUE, !.flags = @ \cup {"I"}] ELSE [e EXCEPT !.flushed = TRUE]

\* arith; in holds the operands the operation has (operands).
G4FpArith(e, f, op, in) ==
    LET snan == \E i \in DOMAIN in : G4IsSNaN(f, in[i])
        nans == {i \in DOMAIN in : G4IsNaN(f, in[i])}
        subs == {i \in DOMAIN in : G4IsSub(f, in[i])}
        src == [i \in DOMAIN in |-> IF i \in subs THEN G4SignIn(f, in[i]) ELSE in[i]]
        Arg(i) == IF i \in DOMAIN src THEN src[i] ELSE 0
        Lib(rm) == G4Sf(f, op, rm, Arg(1), Arg(2), Arg(3))
        r == G4Finish(e, f, Lib(e.rm), Lib(1).val)
        v == IF op \in {"FNMA", "FNMS"} /\ ~G4IsNaN(f, r.val) THEN (r.val + G4Top(f)) % 2 ^ f.w ELSE r.val
        in1 == IF subs # {} THEN G4FlushedIn(e, r.flags) ELSE e
    IN CASE snan -> G4Gives(e, {"V"}, G4DNaN(f))
         [] nans # {} -> G4Gives(e, {}, in[Min(nans)])
         [] subs # {} /\ ~e.fs -> G4Gives(e, {"E"}, 0)
         [] ~r.ok -> G4Gives(e, r.flags, 0)
         [] OTHER -> G4Gives(in1, r.flags, v)

\* maxmin.
G4MaxMin(e, f, max, a, b) ==
    CASE G4IsSNaN(f, a) \/ G4IsSNaN(f, b) -> G4Gives(e, {"V"}, G4DNaN(f))
      [] G4IsNaN(f, a) -> G4Gives(e, {}, IF G4IsNaN(f, b) THEN a ELSE b)
      [] G4IsNaN(f, b) -> G4Gives(e, {}, a)
      [] G4IsZero(f, a) /\ G4IsZero(f, b) -> G4Gives(e, {}, IF max THEN a ELSE b)
      [] OTHER -> G4Gives(e, {}, IF (G4Ord(f, a) < G4Ord(f, b)) = max THEN b ELSE a)

\* cmp, num_lt and num_eq.
G4FpCmp(e, f, fcond, x, y) ==
    LET un == G4IsNaN(f, x) \/ G4IsNaN(f, y)
        bad == G4IsSNaN(f, x) \/ G4IsSNaN(f, y) \/ (un /\ fcond >= 8)
        yes == \/ Bit(fcond, 2) = 1 /\ ~un /\ G4Ord(f, x) < G4Ord(f, y)
               \/ Bit(fcond, 1) = 1 /\ ~un /\ G4Ord(f, x) = G4Ord(f, y)
               \/ Bit(fcond, 0) = 1 /\ un
    IN G4Gives(e, IF bad THEN {"V"} ELSE {}, Bool(yes))

\* to_int; n is how many bits the integer has.
G4FpToInt(e, f, x, mode, uns, n) ==
    LET sub == G4IsSub(f, x)
        v == IF sub THEN G4SignIn(f, x) ELSE x
        lib == G4Sf([w |-> n, mb |-> n - 2], IF uns THEN "FUINT" ELSE "FINT", IF mode > 3 THEN e.rm ELSE mode, v, 0, 0)
        in1 == IF sub THEN G4FlushedIn(e, lib.flags) ELSE e
    IN CASE G4IsNaN(f, x) -> G4Gives(e, {"V"}, IF uns THEN 0 ELSE 2 ^ (n - 1))
         [] sub /\ ~e.fs -> G4Gives(e, {"E"}, 0)
         [] uns /\ G4Neg(f, v) /\ ~G4IsZero(f, v) -> G4Gives(e, {"V"}, 0)
         [] OTHER -> G4Gives(in1, lib.flags, lib.val)
\* g4mh_int_to_fp32 and g4mh_int_to_fp64.
G4IntToFp(e, f, v, uns) ==
    LET lib == G4Sf(f, IF uns THEN "UINT" ELSE "INT", e.rm, v, 0, 0) IN G4Gives(e, lib.flags \ {"V"}, lib.val)

\* nan_convert: a NaN keeps its sign and what fits of its fraction.
G4NaNOf(e, from, to, x) ==
    LET m == x % 2 ^ from.mb
        n == IF to.mb > from.mb THEN m * 2 ^ (to.mb - from.mb) ELSE m \div 2 ^ (from.mb - to.mb)
    IN IF G4IsSNaN(from, x) THEN G4Gives(e, {"V"}, G4DNaN(to))
       ELSE G4Gives(e, {}, (IF G4Neg(from, x) THEN G4Top(to) ELSE 0) + G4InfOf(to) + n)
\* narrow (flush_conv_in first), and the two conversions to a wider format;
\* a half is never flushed.
G4Narrow(e, from, to, x) ==
    LET sub == G4IsSub(from, x)
        v == IF sub THEN G4SignIn(from, x) ELSE x
        Lib(rm) == G4Sf(to, "NARROW", rm, v, 0, 0)
        r == G4Finish(e, to, Lib(e.rm), Lib(1).val)
        in1 == IF sub THEN G4FlushedIn(e, r.flags) ELSE e
    IN CASE G4IsNaN(from, x) -> G4NaNOf(e, from, to, x)
         [] sub /\ ~e.fs -> G4Gives(e, {"E"}, 0)
         [] ~r.ok -> G4Gives(e, r.flags, 0)
         [] OTHER -> G4Gives(in1, r.flags, r.val)
G4Widen(e, from, to, x) ==
    LET sub == G4IsSub(from, x) /\ from # G4F16
        v == IF sub THEN G4SignIn(from, x) ELSE x
    IN CASE G4IsNaN(from, x) -> G4NaNOf(e, from, to, x)
         [] sub /\ ~e.fs -> G4Gives(e, {"E"}, 0)
         [] OTHER -> G4Gives(IF sub THEN G4FlushedIn(e, {}) ELSE e, {},
                             G4Sf(to, "NARROW", 0, v, 1, 0).val % G4InfOf(to))

-----------------------------------------------------------------------------
(* Instructions: w.fop, with w.wide for the forms on register pairs. *)

\* d_get, d_set and w_set.
G4DGet(c, r) == LET n == r - (r % 2) IN c.reg[n] + Size * c.reg[n + 1]
G4FSet(c, r, v, wide) ==
    LET n == r - (r % 2) IN
    IF wide THEN [G4Wr(c, n, v % Size) EXCEPT !.reg[n + 1] = v \div Size] ELSE G4Wr(c, r, v % Size)

\* fpsr_commit: an exception that is enabled, or E, leaves its cause; what is
\* raised otherwise stays in XP.
G4Commit(c, e) ==
    LET on == IF e.flushed THEN [c EXCEPT !.sr.FPSR.if = {"IF"}] ELSE c
        trap == "E" \in e.flags \/ e.flags \cap c.sr.FPSR.xe # {}
    IN [trap |-> trap,
        cpu |-> IF trap THEN [on EXCEPT !.sr.FPSR.xc = e.flags] ELSE [on EXCEPT !.sr.FPSR.xp = @ \cup e.flags]]

\* g4mh_fpu_exec from its switch on: the operation and where its result goes.
\* A conversion names its formats in w.imm, as reg1 does in the code.
G4FpuResult(c, w) ==
    LET f == IF w.wide THEN G4F64 ELSE G4F32
        a == IF w.wide THEN G4DGet(c, w.r1) ELSE c.reg[w.r1]
        b == IF w.wide THEN G4DGet(c, w.r2) ELSE c.reg[w.r2]
        e == G4FpBegin(c.sr.FPSR)
        int == IF w.imm % 2 = 1 THEN G4DGet(c, w.r2) ELSE c.reg[w.r2]
    IN CASE w.fop \in {"SQRT", "RECIP", "RSQRT"} -> G4FpArith(e, f, w.fop, <<b>>)
         [] w.fop \in {"ADD", "SUB", "MUL", "DIV"} -> G4FpArith(e, f, w.fop, <<b, a>>)
         [] w.fop \in {"MAX", "MIN"} -> G4MaxMin(e, f, w.fop = "MAX", b, a)
         [] w.fop \in {"FMA", "FMS", "FNMA", "FNMS"} -> G4FpArith(e, G4F32, w.fop, <<b, a, c.reg[w.r3]>>)
         [] w.fop = "TOINT" -> G4FpToInt(e, f, b, w.imm % 16, w.imm >= 16, IF w.signed THEN 16 ELSE 8)
         [] w.fop = "FROMINT" -> G4IntToFp(e, f, int, w.imm >= 16)
         [] w.fop = "HTOS" -> G4Widen(e, G4F16, G4F32, Low(c.reg[w.r2], HalfBits))
         [] w.fop = "STOH" -> G4Narrow(e, G4F32, G4F16, c.reg[w.r2])
         [] w.fop = "STOD" -> G4Widen(e, G4F32, G4F64, c.reg[w.r2])
         [] w.fop = "DTOS" -> G4Narrow(e, G4F64, G4F32, G4DGet(c, w.r2))
\* Whether that result is a pair: the wide form, or the format converted to.
G4FpuWide(w) ==
    CASE w.fop = "TOINT" -> w.signed [] w.fop = "STOD" -> TRUE [] w.fop \in {"DTOS", "HTOS", "STOH"} -> FALSE [] OTHER -> w.wide

\* g4mh_fpu_exec: answers as an access does.
G4FpuExec(c, w) ==
    LET Bad(code) == [exc |-> G4Raise(code), cpu |-> c, val |-> 0]
        f == IF w.wide THEN G4F64 ELSE G4F32
        a == IF w.wide THEN G4DGet(c, w.r1) ELSE c.reg[w.r1]
        b == IF w.wide THEN G4DGet(c, w.r2) ELSE c.reg[w.r2]
        cmp == G4FpCmp(G4FpBegin(c.sr.FPSR), f, w.cond, b, a)
        Done(r, Put(_)) ==
          LET k == G4Commit(c, r.e) IN
          IF k.trap THEN [exc |-> G4Raise(G4Exc.FPP), cpu |-> k.cpu, val |-> 0] ELSE G4Good(Put(k.cpu), 0)
    IN CASE "CU0" \notin c.fw -> Bad(G4Exc.UCPOP)
         [] w.fop = "TRFSR" -> G4Good([c EXCEPT !.fw = IF w.imm \in c.sr.FPSR.cc THEN @ \cup {"Z"} ELSE @ \ {"Z"}], 0)
         [] w.fop = "RIE" -> Bad(G4Exc.RIE)
         [] w.fop = "ABS" -> G4Good(G4FSet(c, w.r3, G4MagOf(f, b), w.wide), 0)
         [] w.fop = "NEG" -> G4Good(G4FSet(c, w.r3, (b + G4Top(f)) % 2 ^ f.w, w.wide), 0)
         [] w.fop = "CMOVF" -> G4Good(G4FSet(c, w.r3, IF w.imm \in c.sr.FPSR.cc THEN a ELSE b, w.wide), 0)
         [] w.fop = "CMPF" -> Done(cmp, LAMBDA k : [k EXCEPT !.sr.FPSR.cc = IF cmp.val = 1 THEN @ \cup {w.imm} ELSE @ \ {w.imm}])
         [] OTHER -> LET r == G4FpuResult(c, w) IN Done(r, LAMBDA k : G4FSet(k, w.r3, r.val, G4FpuWide(w)))

------------------------------------------------------------------------------
(* The G4MH interpreter (g4mh_interp.c).  An instruction is a record: op,  *)
(* registers r1, r2, r3, an immediate already extended (kind "imm" when it *)
(* is the first operand), cond, list, size, signed, the system register sr *)
(* and its length.  What it does answers the cause of an exception, the    *)
(* core, where it goes (G4Next for the instruction after it) and how.      *)

CONSTANT G4BankRegs      \* the registers of a bank, in the order they are kept

G4Next == -1
G4Any == [op |-> "NOP", r1 |-> 1, r2 |-> 2, r3 |-> 3, imm |-> 0, imm2 |-> 0, kind |-> "reg", cond |-> 5, list |-> {}, len |-> 4,
          size |-> 4, signed |-> FALSE, wide |-> FALSE, fop |-> "RIE", sr |-> <<"PSW", 0>>]
G4On(c)       == [exc |-> G4None, cpu |-> c, to |-> G4Next, how |-> "next"]
G4To(c, pc)   == [G4On(c) EXCEPT !.to = pc]
G4Bad(c, code) == [G4On(c) EXCEPT !.exc = G4Raise(code)]
G4Via(r, Op(_)) == IF r.exc = G4None THEN Op(r) ELSE [G4On(r.cpu) EXCEPT !.exc = r.exc]
G4Even(x) == x - (x % 2)

\* set_zs, set_logic, do_add, do_sub and the flags of a shift.
G4Fl(c, mask, on) == [c EXCEPT !.fw = (@ \ mask) \cup on]
G4ZS(res) == (IF res = 0 THEN {"Z"} ELSE {}) \cup (IF SignOf(res) THEN {"S"} ELSE {})
G4Logic(c, res) == G4Fl(c, {"Z", "S", "V"}, G4ZS(res))
G4AddFl(c, a, b) ==
    LET res == Add(a, b) IN
    G4Fl(c, G4Arith, G4ZS(res) \cup (IF res < a THEN {"C"} ELSE {})
                               \cup (IF SignOf(And(Not(Xor(a, b)), Xor(a, res))) THEN {"V"} ELSE {}))
G4SubFl(c, a, b) ==
    LET res == Sub(a, b) IN
    G4Fl(c, G4Arith, G4ZS(res) \cup (IF a < b THEN {"C"} ELSE {})
                               \cup (IF SignOf(And(Xor(a, b), Xor(a, res))) THEN {"V"} ELSE {}))
G4CarryFl(c, res, cy) == G4Fl(c, G4Arith, G4ZS(res) \cup (IF cy THEN {"C"} ELSE {}))

\* do_satadd and do_satsub.
G4Saturate(c, d, a, res) ==
    IF "V" \in c.fw THEN G4Wr([c EXCEPT !.fw = @ \cup {"SAT"}], d, IF SignOf(a) THEN SignBit ELSE SignBit - 1)
    ELSE G4Wr(c, d, res)

\* do_shl, do_shr and do_sar.
G4Shift(c, op, d, v, by) ==
    LET n == Count(by)
        res == CASE op = "SHL" -> Shl(v, n) [] op = "SHR" -> Shr(v, n) [] OTHER -> Sar(v, n)
        cy == n # 0 /\ Bit(v, IF op = "SHL" THEN Bits - n ELSE n - 1) = 1
    IN G4Wr(G4CarryFl(c, res, cy), d, res)

\* MOV and NOP, NOT, the logic and arithmetic of two registers or of one and
\* an immediate, shifts by either, extensions, MULH.
G4Arithmetic(c, w) ==
    LET a == c.reg[w.r2]
        b == IF w.kind = "imm" THEN w.imm ELSE c.reg[w.r1]
        res == CASE w.op = "OR" -> Or(a, b) [] w.op = "XOR" -> Xor(a, b) [] w.op \in {"AND", "TST"} -> And(a, b)
                 [] w.op = "NOT" -> Not(b) [] OTHER -> 0
    IN CASE w.op = "MOV" -> G4Wr(c, w.r2, b)
         [] w.op \in {"OR", "XOR", "AND", "NOT"} -> G4Wr(G4Logic(c, res), w.r2, res)
         [] w.op = "TST" -> G4Logic(c, res)
         [] w.op = "SUBR" -> G4Wr(G4SubFl(c, b, a), w.r2, Sub(b, a))
         [] w.op = "SUB" -> G4Wr(G4SubFl(c, a, b), w.r2, Sub(a, b))
         [] w.op = "ADD" -> G4Wr(G4AddFl(c, a, b), w.r2, Add(a, b))
         [] w.op = "CMP" -> G4SubFl(c, a, b)
         [] w.op = "SATADD" -> G4Saturate(G4AddFl(c, a, b), w.r2, a, Add(a, b))
         [] w.op = "SATSUB" -> G4Saturate(G4SubFl(c, a, b), w.r2, a, Sub(a, b))
         [] w.op = "SATSUBR" -> G4Saturate(G4SubFl(c, b, a), w.r2, b, Sub(b, a))
         [] w.op = "MULH" -> G4Wr(c, w.r2, Wrap(Signed(Sext(a, HalfBits)) * Signed(IF w.kind = "imm" THEN b ELSE Sext(b, HalfBits))))
         [] w.op \in {"SHL", "SHR", "SAR"} -> G4Shift(c, w.op, w.r2, a, b)
         [] w.op = "ZX" -> G4Wr(c, w.r1, Low(b, w.size * ByteBits))
         [] w.op = "SX" -> G4Wr(c, w.r1, Sext(b, w.size * ByteBits))

\* A register and a 16-bit immediate into another (ADDI, MOVEA, MOVHI,
\* SATSUBI, ORI, XORI, ANDI, MULHI; MOVHI's immediate is the upper half).
G4Immediate(c, w) ==
    LET a == c.reg[w.r1]
        res == CASE w.op = "ORI" -> Or(a, w.imm) [] w.op = "XORI" -> Xor(a, w.imm) [] OTHER -> And(a, w.imm)
    IN CASE w.op = "ADDI" -> G4Wr(G4AddFl(c, a, w.imm), w.r2, Add(a, w.imm))
         [] w.op \in {"MOVEA", "MOVHI"} -> G4Wr(c, w.r2, Add(a, w.imm))
         [] w.op = "SATSUBI" -> G4Saturate(G4SubFl(c, a, w.imm), w.r2, a, Sub(a, w.imm))
         [] w.op \in {"ORI", "XORI", "ANDI"} -> G4Wr(G4Logic(c, res), w.r2, res)
         [] w.op = "MULHI" -> G4Wr(c, w.r2, Wrap(Signed(Sext(a, HalfBits)) * Signed(w.imm)))
         [] w.op = "MOV32" -> G4Wr(c, w.r1, w.imm)

\* SYNCI's slot, FETRAP, SWITCH, JMP, CALLT: what a zero register makes of
\* the first opcodes.
G4Slots(c, w) ==
    LET next == Add(c.pc, w.len) IN
    CASE w.op = "NOP" -> G4On(c)
      [] w.op = "SYNCI" -> G4On(G4Bump(c))
      [] w.op = "RIE" -> G4Bad(c, G4Exc.RIE)
      [] w.op = "FETRAP" -> LET k == G4Exception(c, G4Raise(G4Exc.FETRAP + w.imm), next, w) IN G4To(k, k.pc)
      [] w.op = "SWITCH" -> G4Via(G4Load(c, Add(next, 2 * c.reg[w.r1]), 2, TRUE), LAMBDA r : G4To(r.cpu, Add(next, 2 * r.val)))
      [] w.op = "CALLT" -> G4Via(G4Load(c, Add(c.sr.CTBP, w.imm), 2, FALSE),
                                 LAMBDA r : G4To([r.cpu EXCEPT !.sr.CTPC = next, !.sr.CTPSW = c.fw \cap (G4Arith \cup {"SAT"})],
                                                 Add(c.sr.CTBP, r.val)))
\* DIVH of two registers, and the quotients with a remainder (DIV, DIVU,
\* DIVH, DIVHU): nothing but V when there is no quotient.
G4Divide(c, w) ==
    LET a == c.reg[w.r2]
        half == w.op \in {"DIVH", "DIVH3"}
        d == CASE half /\ w.signed -> Sext(c.reg[w.r1], HalfBits) [] half -> Low(c.reg[w.r1], HalfBits) [] OTHER -> c.reg[w.r1]
        none == d = 0 \/ (w.signed /\ a = SignBit /\ d = AllOnes)
        q == IF w.signed THEN Wrap(Quotient(Signed(a), Signed(d))) ELSE a \div d
        rem == IF w.signed THEN Wrap(Remainder(Signed(a), Signed(d))) ELSE a % d
        put == G4Wr(G4Logic(c, q), w.r2, q)
    IN CASE none -> [c EXCEPT !.fw = @ \cup {"V"}]
         [] w.op = "DIVH" -> put
         [] OTHER -> G4Wr(put, w.r3, rem)

\* Jumps: JARL and JR in three widths (r2 is the link), JMP with and without
\* a displacement, JARL through a register, Bcond, LOOP.
G4Jumps(c, w) ==
    LET next == Add(c.pc, w.len)
        there == Add(c.pc, w.imm)
        v == Sub(c.reg[w.r1], 1)
    IN CASE w.op = "JMP" -> G4To(c, G4Even(Add(c.reg[w.r1], w.imm)))
         [] w.op = "JARL" -> G4To(G4Wr(c, w.r2, next), there)
         [] w.op = "JARLR" -> G4To(G4Wr(c, w.r3, next), G4Even(c.reg[w.r1]))
         [] w.op = "BCOND" -> IF G4Cond(w.cond, c.fw) THEN G4To(c, there) ELSE G4On(c)
         [] w.op = "LOOP" -> LET k == G4Wr(G4AddFl(c, c.reg[w.r1], AllOnes), w.r1, v) IN
                             IF v # 0 THEN G4To(k, Sub(c.pc, w.imm)) ELSE G4On(k)

\* SLD and SST, LD and ST: r2 is the register moved, addr where.
G4Single(c, w, addr) ==
    IF w.op = "LD" THEN G4Via(G4Load(c, addr, w.size, w.signed), LAMBDA r : G4On(G4Wr(r.cpu, w.r2, r.val)))
    ELSE G4Via(G4Store(c, addr, w.size, c.reg[w.r2]), LAMBDA r : G4On(r.cpu))
\* The double words, of a pair of registers.
G4Double(c, w, addr) ==
    LET pair == w.r2 - (w.r2 % 2) IN
    IF w.op = "LDDW" THEN G4Via(G4LoadDw(c, addr), LAMBDA r : G4On(G4Wr(G4Wr(r.cpu, pair, r.val[1]), pair + 1, r.val[2])))
    ELSE G4Via(G4StoreDw(c, addr, c.reg[pair], c.reg[pair + 1]), LAMBDA r : G4On(r.cpu))
\* The displacement, of 16 or 23 bits, is from r1.
G4Access(c, w) ==
    LET addr == Add(c.reg[w.r1], w.imm) IN
    IF w.op \in {"LD", "ST"} THEN G4Single(c, w, addr) ELSE G4Double(c, w, addr)
\* DISPOSE and PREPARE (w.imm2 is what ep becomes: none, sp, or a value).
G4Frames(c, w) ==
    IF w.op = "DISPOSE"
    THEN G4Via(G4Dispose(c, w.list, w.imm, w.r1), LAMBDA r : IF w.r1 # 0 THEN G4To(r.cpu, r.val) ELSE G4On(r.cpu))
    ELSE G4Via(G4Prepare(c, w.list, w.imm),
               LAMBDA r : G4On(CASE w.kind = "none" -> r.cpu [] w.kind = "sp" -> [r.cpu EXCEPT !.reg[G4EP] = r.val]
                                 [] OTHER -> [r.cpu EXCEPT !.reg[G4EP] = w.imm2]))

-----------------------------------------------------------------------------
(* The extended group. *)

\* SETF, SASF, CMOV, ADF and SBF; CLIP.
G4Conditional(c, w) ==
    LET yes == G4Cond(w.cond, c.fw)
        a == c.reg[w.r1]  b == c.reg[w.r2]
        res == Sub(b, a + Bool(yes))
        on == G4ZS(res) \cup (IF b < a + Bool(yes) THEN {"C"} ELSE {})
                        \cup (IF SignOf(And(Xor(a, b), Xor(b, res))) THEN {"V"} ELSE {})
    IN CASE w.op = "SETF" -> G4Wr(c, w.r2, Bool(yes))
         [] w.op = "SASF" -> G4Wr(c, w.r2, Or(Shl(b, 1), Bool(yes)))
         [] w.op = "CMOV" -> G4Wr(c, w.r3, IF yes THEN (IF w.kind = "imm" THEN w.imm ELSE a) ELSE b)
         [] w.op = "ADF" -> G4Adf(c, w.r1, w.r2, w.r3, w.cond)
         [] w.op = "SBF" -> G4Wr(G4Fl(c, G4Arith, on), w.r3, res)
\* do_clip.
G4Clip(c, w) ==
    LET v == c.reg[w.r1]
        n == w.size * ByteBits
        hi == IF w.signed THEN 2 ^ (n - 1) - 1 ELSE 2 ^ n - 1
        lo == IF w.signed THEN -(2 ^ (n - 1)) ELSE 0
        x == IF w.signed THEN Signed(v) ELSE v
        res == Wrap(CASE x < lo -> lo [] x > hi -> hi [] OTHER -> x)
        on == (IF res = 0 THEN {"Z"} ELSE {}) \cup (IF w.signed /\ SignOf(res) THEN {"S"} ELSE {})
              \cup (IF x \notin lo .. hi THEN {"V", "SAT"} ELSE {})
    IN IF w.r3 # 0 THEN G4Bad(c, G4Exc.RIE) ELSE G4On(G4Wr(G4Fl(c, G4Arith, on), w.r2, res))

\* ROTL, by a register or an immediate.
G4Rotate(c, w) ==
    LET res == Rotl(c.reg[w.r2], Count(IF w.kind = "imm" THEN w.imm ELSE c.reg[w.r1])) IN
    G4On(G4Wr(G4CarryFl(c, res, res % 2 = 1), w.r3, res))
\* set_swap_flags and has_zero_byte: C says that some part came out zero, of
\* the word or of its lower half.
G4SwapFlags(c, w, res) ==
    LET low == Low(res, HalfBits) = 0
        cy == CASE w.op = "BSW" -> \E k \in 0 .. 3 : ByteOf(res, k) = 0
                [] w.op = "BSH" -> \E k \in 0 .. 1 : ByteOf(res, k) = 0
                [] w.op = "HSW" -> low \/ Shr(res, HalfBits) = 0
                [] OTHER -> low
        zero == IF w.op \in {"BSH", "HSH"} THEN low ELSE res = 0
    IN G4Fl(c, G4Arith, (IF cy THEN {"C"} ELSE {}) \cup (IF zero THEN {"Z"} ELSE {}) \cup (IF SignOf(res) THEN {"S"} ELSE {}))
\* BSW, BSH, HSW and HSH.
G4Swap(c, w) ==
    LET v == c.reg[w.r2]
        res == CASE w.op = "BSW" -> SwapBytes(v) [] w.op = "BSH" -> SwapInHalves(v) [] w.op = "HSW" -> SwapHalves(v) [] OTHER -> v
    IN IF w.r1 # 0 THEN G4Bad(c, G4Exc.RIE) ELSE G4On(G4Wr(G4SwapFlags(c, w, res), w.r3, res))
\* do_sch: where the first one is, from the left or the right; 0 for none.
G4Sch(v, left) == CASE v = 0 -> 0 [] left -> Clz(v) + 1 [] OTHER -> Ctz(v) + 1
\* SCH0R, SCH1R, SCH0L and SCH1L; signed asks for a one.
G4Search(c, w) ==
    LET n == G4Sch(IF w.signed THEN c.reg[w.r2] ELSE Not(c.reg[w.r2]), w.wide) IN
    IF w.r1 # 0 THEN G4Bad(c, G4Exc.RIE)
    ELSE G4On(G4Wr(G4Fl(c, G4Arith, CASE n = 0 -> {"Z"} [] n = Bits -> {"C"} [] OTHER -> {}), w.r3, n))
\* BINS: bits imm2 .. imm of r2 are the low ones of r1.
G4Bins(c, w) ==
    LET width == w.imm - w.imm2 + 1
        mask == Wrap((2 ^ width - 1) * 2 ^ w.imm2)
        res == Or(And(c.reg[w.r2], Not(mask)), And(Shl(c.reg[w.r1], w.imm2), mask))
    IN IF w.imm < w.imm2 THEN G4Bad(c, G4Exc.RIE) ELSE G4On(G4Wr(G4Logic(c, res), w.r2, res))
\* MUL, MULU and their immediate forms; MAC and MACU of register pairs.
G4Product(c, w) ==
    LET Num(x) == IF w.signed THEN Signed(x) ELSE x IN
    Num(c.reg[w.r2]) * Num(IF w.kind = "imm" THEN w.imm ELSE c.reg[w.r1])
G4Multiply(c, w) == LET p == G4Product(c, w) IN G4Wr(G4Wr(c, w.r2, Wrap(p)), w.r3, Wrap(p \div Size))
G4Mac(c, w) ==
    LET low == w.r3 - (w.r3 % 2)
        sum == (G4Product(c, w) + c.reg[low] + Size * c.reg[low + 1]) % (Size * Size)
    IN G4Wr(G4Wr(c, w.imm2, Wrap(sum)), w.imm2 + 1, sum \div Size)

\* CAXI: compare, and store what is there or the new value; yields when they
\* differ.
G4Caxi(c, w) ==
    LET adr == c.reg[w.r1]
        Put(r) ==
          LET match == c.reg[w.r2] = r.val IN
          G4Via(G4Store(r.cpu, adr, 4, IF match THEN c.reg[w.r3] ELSE r.val),
                LAMBDA s : [G4On(G4Wr(G4SubFl(s.cpu, c.reg[w.r2], r.val), w.r3, r.val)) EXCEPT
                            !.how = IF match THEN "next" ELSE "yield"])
        Read(r) == G4Via(G4Load(r.cpu, adr, 4, FALSE), Put)
    IN IF G4MpuOn(c) THEN G4Via(G4RmwRefused(c, adr, 4, TRUE), Read) ELSE Read(G4Good(c, 0))
\* LDL and STC, and the loads and stores that move their address (w.imm: 0
\* linked, 1 up, 2 down).
G4Moved(c, w, adr) == G4Wr(c, w.r1, IF w.imm = 1 THEN Add(adr, w.size) ELSE Sub(adr, w.size))
G4Linked(c, w) ==
    LET adr == c.reg[w.r1] IN
    IF w.imm > 2 THEN G4Bad(c, G4Exc.RIE)
    ELSE G4Via(G4Load(c, adr, w.size, w.imm # 0 /\ w.signed),
               LAMBDA r : LET k == G4Wr(r.cpu, w.r3, r.val) IN G4On(IF w.imm = 0 THEN G4Take(k, adr) ELSE G4Moved(k, w, adr)))
G4StoreLinked(c, w) ==
    LET adr == c.reg[w.r1]
        held == c.ll_valid /\ c.ll_addr = adr - (adr % 4)
        Put(Op(_)) == G4Via(G4Store(c, adr, w.size, c.reg[w.r3]), Op)
        Out(k) == G4On(G4Wr(G4Drop(k), w.r3, Bool(held)))
    IN CASE w.imm > 2 -> G4Bad(c, G4Exc.RIE)
         [] w.imm # 0 -> Put(LAMBDA r : G4On(G4Moved(r.cpu, w, adr)))
         [] held -> Put(LAMBDA r : Out(r.cpu))
         [] OTHER -> [Out(c) EXCEPT !.how = "yield"]

\* STM.MP and LDM.MP: entries imm .. imm2 of the protection unit, three words
\* each; a load that faults leaves what it has written.
G4MpuMove(c, w) ==
    LET n == 3 * (w.imm2 - w.imm + 1)
        load == w.op = "LDMMP"
        One(acc, i) ==
          LET cur == w.imm + (i - 1) \div 3
              reg == <<<<"MPLA", 0>>, <<"MPUA", 0>>, <<"MPAT", 0>>>>[1 + ((i - 1) % 3)]
              at == Add(c.reg[w.r1] - (c.reg[w.r1] % 4), 4 * (i - 1))
              Wrote(r) == IF c.sr.SVLOCK = 1 THEN G4Good(r.cpu, 0)
                          ELSE G4Good(G4Bump([r.cpu EXCEPT !.mpu = G4EntryWrite(@, cur, reg, r.val)]), 0)
              word == G4MpuRead([acc.cpu.mpu EXCEPT !.mpidx = cur], reg)
          IN CASE acc.exc # G4None -> acc
               [] load -> G4Then(G4Load(acc.cpu, at, 4, FALSE), Wrote)
               [] OTHER -> G4Store(acc.cpu, at, 4, word)
    IN CASE G4User(c) -> G4Bad(c, G4Exc.PIE)
         [] w.imm <= w.imm2 /\ w.imm2 < G4Entries -> G4Via(Loop(One, G4Good(c, 0), n), LAMBDA r : G4On(r.cpu))
         [] OTHER -> G4On(c)

\* PUSHSP and POPSP of registers r1 .. r3; POPSP reads a word for sp and
\* drops it.
G4Stack(c, w) ==
    LET regs == {n \in w.r1 .. w.r3 : n \in DOMAIN c.reg}
        push == G4Rising(regs)
        pop == G4Falling(regs)
        Push(acc, i) ==
          IF acc.exc # G4None THEN acc
          ELSE LET at == Sub(acc.val, 4)
                   r == G4Store(acc.cpu, at - (at % 4), 4, c.reg[push[i]])
               IN IF r.exc # G4None THEN G4Block(r, push[i]) ELSE [r EXCEPT !.val = at]
        Pop(acc, i) ==
          IF acc.exc # G4None THEN acc
          ELSE LET r == G4Load(acc.cpu, acc.val - (acc.val % 4), 4, FALSE) IN
               IF r.exc # G4None THEN G4Block(r, IF pop[i] = G4SP THEN 0 ELSE pop[i])
               ELSE G4Good(IF pop[i] = G4SP THEN r.cpu ELSE G4Wr(r.cpu, pop[i], r.val), Add(acc.val, 4))
        all == IF w.op = "PUSHSP" THEN Loop(Push, G4Good(c, c.reg[G4SP]), Len(push))
               ELSE Loop(Pop, G4Good(c, c.reg[G4SP]), Len(pop))
    IN G4Via(all, LAMBDA r : G4On([r.cpu EXCEPT !.reg[G4SP] = r.val]))

-----------------------------------------------------------------------------
(* The instructions that change what the core is. *)

\* Writing PSW as g4mh_sr_write does.
G4PutPsw(c, fw) == [c EXCEPT !.fw = fw, !.irq_dirty = TRUE]
\* g4mh_cpu_eiret_priority: INTCFG's two bits stop it; ISPR loses its
\* highest priority, the lowest bit.
G4EiretPriority(c) ==
    IF c.sr.INTCFG # 0 \/ "EP" \in c.fw \/ c.sr.ISPR = 0 THEN c
    ELSE [c EXCEPT !.sr.ISPR = And(@, @ - 1)]
\* As if FERET were a user's too.
G4Return_Any(c, w) ==
    CASE w.op = "FERET" -> G4To(G4PutPsw(c, c.sr.FEPSW), G4Even(c.sr.FEPC))
      [] w.op = "CTRET" -> G4To(c, G4Even(c.sr.CTPC))
      [] OTHER -> G4Bad(c, G4Exc.PIE)
\* CTRET, EIRET and FERET.
G4Return(c, w) ==
    LET low == G4Arith \cup {"SAT"} IN
    CASE w.op = "CTRET" -> G4To(G4PutPsw(c, (c.fw \ low) \cup (c.sr.CTPSW \cap low)), G4Even(c.sr.CTPC))
      [] G4User(c) -> G4Bad(c, G4Exc.PIE)
      [] w.op = "EIRET" -> G4To(G4PutPsw(G4EiretPriority(c), c.sr.EIPSW), G4Even(c.sr.EIPC))
      [] w.op = "FERET" -> G4To(G4PutPsw(c, c.sr.FEPSW), G4Even(c.sr.FEPC))

\* bank_layout, bank_reg and g4mh_resbank: every word is read before any
\* register is written.
G4Resbank(c) ==
    LET words == 4 + Len(G4BankRegs)
        top == Sub(c.sr.RBIP - (c.sr.RBIP % 16), (c.sr.RBNR - 1) * 4 * words)
        One(acc, i) ==
          IF acc.exc # G4None THEN acc
          ELSE LET r == G4Load(acc.cpu, Sub(top, 4 * (words + 1 - i)), 4, FALSE)
               IN [r EXCEPT !.val = IF r.exc = G4None THEN <<r.val>> \o acc.val ELSE <<>>]
        Put(r) ==
          LET s == G4SrWrite([r.cpu EXCEPT !.sr.EIPC = r.val[1], !.sr.EIIC = G4Raise(r.val[3])], <<"EIPSW", 0>>, r.val[2])
              f == G4SrWrite(s, <<"FPSR", 0>>, r.val[4])
              Reg(n) == CHOOSE i \in DOMAIN G4BankRegs : G4BankRegs[i] = n
          IN G4On([f EXCEPT !.reg = [n \in DOMAIN @ |-> IF \E i \in DOMAIN G4BankRegs : G4BankRegs[i] = n
                                                        THEN r.val[4 + Reg(n)] ELSE @[n]],
                            !.sr.RBNR = @ - 1])
    IN IF c.sr.RBNR = 0 THEN G4Bad(c, G4Exc.SYSERR + 13) ELSE G4Via(Loop(One, [G4Good(c, 0) EXCEPT !.val = <<>>], words), Put)

\* cache_op: imm is the operation.
G4Cache(c, w) ==
    LET line == c.reg[w.r1] - (c.reg[w.r1] % 32) IN
    CASE w.fop = "CLL" -> G4On(G4Drop(c))
      [] w.fop \in {"CIBII", "CFALI", "CISTI", "CILDI"} /\ G4User(c) -> G4Bad(c, G4Exc.PIE)
      [] w.fop \in {"CHBII", "CFALI"} /\ G4Refused(c, line, 32, "READ") ->
             [G4On([c EXCEPT !.sr.MEA = line]) EXCEPT !.exc = G4Mdp(c, TRUE, FALSE, {})]
      [] w.fop \in {"CHBII", "CIBII"} -> G4On(G4Bump(c))
      [] OTHER -> G4On(c)

\* DI, EI, RESBANK, CACHE, PREF and SYSCALL.
G4System(c, w) ==
    LET next == Add(c.pc, w.len)
        locked == c.sr.MCTL % 2 = 0 /\ G4User(c)
        at == IF w.imm <= c.sr.SCCFG THEN Add(c.sr.SCBP, 4 * w.imm) ELSE c.sr.SCBP
    IN CASE w.op \in {"DI", "EI"} /\ w.r3 # 0 -> G4Bad(c, G4Exc.RIE)
         [] w.op \in {"DI", "EI"} /\ locked -> G4Bad(c, G4Exc.PIE)
         [] w.op = "DI" -> G4On([c EXCEPT !.fw = @ \cup {"ID"}])
         [] w.op = "EI" -> G4On([c EXCEPT !.fw = @ \ {"ID"}, !.irq_dirty = TRUE])
         [] w.op = "RESBANK" -> IF G4User(c) THEN G4Bad(c, G4Exc.PIE) ELSE G4Resbank(c)
         [] w.op = "CACHE" -> G4Cache(c, w)
         [] w.op = "SYSCALL" ->
                G4Via(G4LoadSv(c, at),
                      LAMBDA r : G4To([r.cpu EXCEPT !.sr.EIPC = next, !.sr.EIPSW = c.fw, !.sr.EIIC = G4Raise(G4Exc.SYSCALL + w.imm),
                                                    !.fw = (@ \ {"UM"}) \cup {"EP", "ID"}], Add(c.sr.SCBP, r.val)))
\* TRAP, whose exception is after it, HALT and SNOOZE.
G4Trap(c, w) ==
    CASE w.op = "TRAP" -> [G4Bad(c, (IF w.imm < 16 THEN G4Exc.TRAP0 ELSE G4Exc.TRAP1) + (w.imm % 16)) EXCEPT !.how = "after"]
      [] w.op = "SNOOZE" -> [G4On(c) EXCEPT !.how = "yield"]
      [] w.op = "HALT" -> IF G4User(c) THEN G4Bad(c, G4Exc.PIE) ELSE [G4On([c EXCEPT !.state = "WFI"]) EXCEPT !.how = "halt"]
\* LDSR and STSR, the bit operations and the floating-point unit.
G4Through(c, w) ==
    CASE w.op = "LDSR" -> G4Via(G4Ldsr(c, w.sr, c.reg[w.r1]), LAMBDA r : G4On(r.cpu))
      [] w.op = "STSR" -> G4Via(G4Stsr(c, w.sr), LAMBDA r : G4On(G4Wr(r.cpu, w.r2, r.val)))
      [] w.op = "BITOP" -> G4Via(G4Bitop(c, w.fop, Add(c.reg[w.r1], w.imm), IF w.kind = "imm" THEN w.imm2 ELSE c.reg[w.r2]),
                                 LAMBDA r : G4On(r.cpu))
      [] w.op = "FPU" -> G4Via(G4FpuExec(c, w), LAMBDA r : G4On(r.cpu))

\* The switch of interp_run.
G4Exec(c, w) ==
    CASE w.op \in {"MOV", "OR", "XOR", "AND", "NOT", "TST", "SUBR", "SUB", "ADD", "CMP", "SATADD", "SATSUB", "SATSUBR", "MULH",
                   "SHL", "SHR", "SAR", "ZX", "SX"} -> G4On(G4Arithmetic(c, w))
      [] w.op \in {"SHL3", "SHR3", "SAR3"} ->
             G4On(G4Shift(c, CASE w.op = "SHL3" -> "SHL" [] w.op = "SHR3" -> "SHR" [] OTHER -> "SAR", w.r3, c.reg[w.r2], c.reg[w.r1]))
      [] w.op \in {"ADDI", "MOVEA", "MOVHI", "SATSUBI", "ORI", "XORI", "ANDI", "MULHI", "MOV32"} -> G4On(G4Immediate(c, w))
      [] w.op \in {"NOP", "SYNCI", "RIE", "FETRAP", "SWITCH", "CALLT"} -> G4Slots(c, w)
      [] w.op \in {"DIVH", "DIV", "DIVH3"} -> G4On(G4Divide(c, w))
      [] w.op \in {"JMP", "JARL", "JARLR", "BCOND", "LOOP"} -> G4Jumps(c, w)
      [] w.op \in {"LD", "ST", "LDDW", "STDW"} -> G4Access(c, w)
      [] w.op \in {"DISPOSE", "PREPARE"} -> G4Frames(c, w)
      [] w.op \in {"SETF", "SASF", "CMOV", "ADF", "SBF"} -> G4On(G4Conditional(c, w))
      [] w.op = "CLIP" -> G4Clip(c, w)
      [] w.op = "ROTL" -> G4Rotate(c, w)
      [] w.op \in {"BSW", "BSH", "HSW", "HSH"} -> G4Swap(c, w)
      [] w.op = "SCH" -> G4Search(c, w)
      [] w.op = "BINS" -> G4Bins(c, w)
      [] w.op = "MUL" -> G4On(G4Multiply(c, w))
      [] w.op = "MAC" -> G4On(G4Mac(c, w))
      [] w.op = "CAXI" -> G4Caxi(c, w)
      [] w.op = "LDL" -> G4Linked(c, w)
      [] w.op = "STC" -> G4StoreLinked(c, w)
      [] w.op \in {"STMMP", "LDMMP"} -> G4MpuMove(c, w)
      [] w.op \in {"PUSHSP", "POPSP"} -> G4Stack(c, w)
      [] w.op \in {"CTRET", "EIRET", "FERET"} -> G4Return(c, w)
      [] w.op \in {"LDSR", "STSR", "BITOP", "FPU"} -> G4Through(c, w)
      [] w.op \in {"TRAP", "HALT", "SNOOZE"} -> G4Trap(c, w)
      [] OTHER -> G4System(c, w)

\* g4mh_fetch_permitted and the fetches of interp_run: every halfword of an
\* instruction must be allowed and mapped.
G4FetchPermitted(c, pc, len, user) ==
    G4MpuOn(c) => \A k \in {k \in 0 .. len - 1 : k % 2 = 0} : G4Permits(c.mpu, Add(pc, k), 2, "FETCH", user, c.spid)
G4Fetched(pc, len) == \A k \in {k \in 0 .. len - 1 : k % 2 = 0} : Fetchable(G4Map, Add(pc, k))

\* One turn of interp_run on the instruction at pc.
G4Turn(c, w) ==
    LET user == G4User(c)
        barred == [code |-> G4Exc.MIP, det |-> {IF user THEN "UX" ELSE "SX"}]
        next == Add(c.pc, w.len)
        r == G4Exec(c, w)
    IN CASE ~G4FetchPermitted(c, c.pc, w.len, user) -> G4Exception([c EXCEPT !.sr.MEA = c.pc], barred, c.pc, w)
         [] ~G4Fetched(c.pc, w.len) -> G4Exception(c, G4Raise(G4Exc.MIP), c.pc, w)
         [] r.exc # G4None -> G4Exception(r.cpu, r.exc, IF r.how = "after" THEN next ELSE c.pc, w)
         [] OTHER -> [r.cpu EXCEPT !.pc = IF r.to = G4Next THEN next ELSE r.to, !.retired = @ + Bool(r.how # "halt")]
\* g4mh_jit_after_interp.
G4AfterInterp(c) == G4CtxRefresh(c)

------------------------------------------------------------------------------
(* The G4MH translator (g4mh_ir.c): the expressions of each instruction it *)
(* lowers, the accesses and helpers a block calls, and the block made of a *)
(* run of instructions.  One core: EMU_SMP is off.                         *)

CONSTANT G4MaxBlock      \* G4MH_IR_MAX_BLOCK_INSNS

\* An exception raised from a block, at the pc SETPC has left; w is the
\* instruction there.
G4IrFault(r, w) == [trap |-> TRUE, cpu |-> G4Exception(r.cpu, r.exc, r.cpu.pc, w), val |-> 0]
\* The bit operations ask for a byte and say nothing of the instruction.
G4SpecInsn(spec) == IF "w" \in DOMAIN spec THEN spec.w ELSE [G4Any EXCEPT !.op = "BITOP"]
G4SpecWin(spec) == IF "win" \in DOMAIN spec THEN spec.win ELSE NoWindow
\* An access inside the window is made in place, a store only while there is
\* no reservation to break; any other by g4mh_ir_load or g4mh_ir_store.
G4IrLoad(c, addr, spec) ==
    LET hit == WindowHit(G4SpecWin(spec), addr, spec.size)
        v == LoadLe(c.mem, addr, spec.size)
        r == G4Load(c, addr, spec.size, spec.signed)
    IN CASE hit -> [trap |-> FALSE, cpu |-> c, val |-> IF spec.signed THEN Sext(v, spec.size * ByteBits) ELSE v]
         [] r.exc # G4None -> G4IrFault(r, G4SpecInsn(spec))
         [] OTHER -> [trap |-> FALSE, cpu |-> r.cpu, val |-> r.val]
G4IrStore(c, addr, spec, val) ==
    LET r == G4Store(c, addr, spec.size, val) IN
    CASE ~c.ll_valid /\ WindowHit(G4SpecWin(spec), addr, spec.size) ->
             [trap |-> FALSE, cpu |-> [c EXCEPT !.mem = StoreLe(@, addr, spec.size, val)]]
      [] r.exc # G4None -> G4IrFault(r, G4SpecInsn(spec))
      [] OTHER -> [trap |-> FALSE, cpu |-> r.cpu]

\* As if the protection unit had nothing to say of the window.
G4FastMem_UnderMpu(c) ==
    LET r == Find(G4Map, Sub(c.reg[G4SP], 4)) IN
    IF r.kind # "RAM" \/ ~({"R", "W"} \subseteq r.perm) THEN NoWindow ELSE [base |-> r.base, size |-> r.size]
\* g4mh_fast_mem: the region the stack is in.
G4FastMem(c) ==
    LET r == Find(G4Map, Sub(c.reg[G4SP], 4)) IN
    IF G4MpuOn(c) \/ r.kind # "RAM" \/ ~({"R", "W"} \subseteq r.perm) THEN NoWindow ELSE [base |-> r.base, size |-> r.size]

-----------------------------------------------------------------------------
(* The helpers: the instruction is a constant, or the operands say it. *)

G4Sels == <<"SET", "INV", "CLR", "TST">>
\* The cause a helper's work ended with is raised where the block is.
G4HelperEnd(r, w) ==
    IF r.exc = G4None THEN [cpu |-> r.cpu, val |-> 0] ELSE [cpu |-> G4Exception(r.cpu, r.exc, r.cpu.pc, w), val |-> 1]
\* g4mh_ir_dw_helper and g4mh_ir_diei_helper.
G4DwHelper(c, w, addr, rdst) ==
    LET rd == And(rdst, 30) IN
    G4HelperEnd(IF Bit(rdst, 5) = 1 THEN G4StoreDw(c, addr, c.reg[rd], c.reg[rd + 1])
                ELSE G4Then(G4LoadDw(c, addr), LAMBDA r : G4Good(G4Wr([r.cpu EXCEPT !.reg[rd + 1] = r.val[2]], rd, r.val[1]), 0)), w)
G4DiEiHelper(c, w, ei) ==
    CASE c.sr.MCTL % 2 = 0 /\ G4User(c) -> [cpu |-> G4Exception(c, G4Raise(G4Exc.PIE), c.pc, w), val |-> 1]
      [] ei # 0 -> [cpu |-> [c EXCEPT !.fw = @ \ {"ID"}, !.irq_dirty = TRUE], val |-> 0]
      [] OTHER -> [cpu |-> [c EXCEPT !.fw = @ \cup {"ID"}], val |-> 0]
\* g4mh_ir_helpers, but the fixed-point unit's.
G4Helper(n, c, a, b) ==
    LET w == n[2] IN
    CASE n[1] = "DISPOSE" -> G4HelperEnd(G4Dispose(c, w.list, w.imm, w.r1), w)
      [] n[1] = "ADF" -> [cpu |-> G4Adf(c, w.r1, w.r2, w.r3, w.cond), val |-> 0]
      [] n[1] = "PREPARE" -> G4HelperEnd(G4Prepare(c, w.list, w.imm), w)
      [] n[1] = "FPU" -> G4HelperEnd(G4FpuExec(c, w), w)
      [] n[1] = "BITOP" -> G4HelperEnd(G4Bitop(c, G4Sels[1 + (b \div ByteBits)], a, b % ByteBits), w)
      [] n[1] = "DW" -> G4DwHelper(c, w, a, b)
      [] n[1] = "DIEI" -> G4DiEiHelper(c, w, a)

-----------------------------------------------------------------------------
(* T is what is lowered: the instruction w, its address, the window, and   *)
(* whether the protection unit was on (g_xl_mpu).                          *)

G4No == [ok |-> FALSE, ts |-> <<>>, ends |-> FALSE, counted |-> FALSE]
G4Low(ts) == [ok |-> TRUE, ts |-> ts, ends |-> FALSE, counted |-> FALSE]
G4Counted(ts) == [ok |-> TRUE, ts |-> ts, ends |-> FALSE, counted |-> TRUE]
G4Ends(ts) == [ok |-> TRUE, ts |-> ts, ends |-> TRUE, counted |-> TRUE]
\* k_g4mh_cond: "SA" has no condition over the four flags.
G4CondName == <<"VS", "LTU", "EQ", "LEU", "MI", "ALWAYS", "LT", "LE", "VC", "GEU", "NE", "GTU", "PL", "SA", "GE", "GT">>
G4NameOf(w) == G4CondName[w.cond + 1]
G4EvenX(x) == BX("AND", x, KX(AllOnes - 1))
G4CallX(t, name, ops) == <<SetPcX(t.pc), Tree("HELPER_TRAP", "none", ops, <<name, t.w>>, {})>>

\* lower_bitop; bit is the number of the bit, as an expression.
G4LowerBitop(t, bit) ==
    LET w == t.w
        sel == CHOOSE k \in 1 .. 4 : G4Sels[k] = w.fop
        op == <<"BITOP_SET", "BITOP_INV", "BITOP_CLR", "BITOP_TST">>[sel]
    IN G4Low(IF t.mpu \/ ~CanLower("BITOP_SET", "none")
             THEN G4CallX(t, "BITOP", <<AddK(GX(w.r1), w.imm), BX("OR", BX("AND", bit, KX(ByteBits - 1)), KX((sel - 1) * ByteBits))>>)
             ELSE <<SetPcX(t.pc), Tree(op, "none", <<GX(w.r1), bit>>, w.imm, {})>>)

\* The moves, the arithmetic and the logic of two registers and of one with a
\* short immediate; MULH; the extensions.
G4LowerShort(t) ==
    LET w == t.w
        imm == w.kind = "imm"
        x == GX(w.r2)
        y == IF imm THEN KX(w.imm) ELSE GX(w.r1)
        Set(src, a, b, v) == G4Low(<<PX(w.r2, v), SetfX(src, a, b, G4Arith)>>)
        log == BX(IF w.op = "TST" THEN "AND" ELSE w.op, x, y)
    IN CASE w.op = "MOV" -> IF w.r2 = 0 \/ (~imm /\ w.r1 = 0) THEN G4No ELSE G4Low(<<PX(w.r2, y)>>)
         [] w.op \in {"ZX", "SX"} ->
                G4Low(<<PX(w.r1, UX(CASE w.op = "ZX" -> IF w.size = 1 THEN "ZEXT8" ELSE "ZEXT16"
                                      [] OTHER -> IF w.size = 1 THEN "SEXT8" ELSE "SEXT16", GX(w.r1)))>>)
         [] w.op = "MULH" -> IF w.r2 = 0 THEN G4No
                             ELSE G4Low(<<PX(w.r2, BX("MUL", UX("SEXT16", x), IF imm THEN y ELSE UX("SEXT16", y)))>>)
         [] w.op = "SUBR" -> Set("SUB", y, x, BX("SUB", y, x))
         [] w.op \in {"OR", "XOR", "AND"} -> G4Low(<<PX(w.r2, log), SetfX("LOGIC", log, NoTree, {"Z", "S", "V"})>>)
         [] w.op = "TST" -> G4Low(<<SetfX("LOGIC", log, NoTree, {"Z", "S", "V"})>>)
         [] w.op \in {"SUB", "ADD"} -> Set(w.op, x, y, BX(w.op, x, y))
         [] w.op = "CMP" -> G4Low(<<SetfX("SUB", x, y, G4Arith)>>)
         [] OTHER -> G4No

\* Shifts: the bit that goes out last is a constant's with an immediate, and
\* computed with a register.
G4ShiftName(w) == CASE w.op \in {"SHL", "SHL3"} -> "SHL" [] w.op \in {"SHR", "SHR3"} -> "SHR" [] OTHER -> "SAR"
G4LowerShiftImm(t) ==
    LET w == t.w
        op == G4ShiftName(w)
        k == Count(w.imm)
        v == GX(w.r2)
        res == IX(CASE op = "SHL" -> "SHLI" [] op = "SHR" -> "SHRI" [] OTHER -> "SARI", v, k)
    IN IF k = 0 THEN G4Low(<<PX(w.r2, v), SetfX("LOGIC", v, NoTree, G4Arith)>>)
       ELSE G4Low(<<PX(w.r2, res), SetfX("SHIFT", res, IX("SHRI", v, IF op = "SHL" THEN Bits - k ELSE k - 1), G4Arith)>>)
G4LowerShift(t) ==
    LET w == t.w
        op == G4ShiftName(w)
        v == GX(w.r2)
        n == IX("ANDI", GX(w.r1), Bits - 1)
        res == BX(op, v, n)
        pos == IF op = "SHL" THEN BX("SUB", KX(Bits), n) ELSE IX("ADDI", n, AllOnes)
        bit == IX("ANDI", BX("SHR", v, IX("ANDI", pos, Bits - 1)), 1)
        cy == BX("AND", bit, CX("NE", n, KX(0)))
        dst == IF w.op \in {"SHL3", "SHR3", "SAR3"} THEN w.r3 ELSE w.r2
    IN IF w.kind = "imm" THEN G4LowerShiftImm(t) ELSE G4Low(<<cy, PX(dst, res), SetfX("SHIFT", res, cy, G4Arith)>>)

\* The three-operand forms with a 16-bit immediate, MOV with 32.
G4LowerImm(t) ==
    LET w == t.w
        x == GX(w.r1)
        sum == BX("ADD", x, KX(w.imm))
    IN CASE w.op = "ADDI" -> G4Low(<<PX(w.r2, sum), SetfX("ADD", x, KX(w.imm), G4Arith)>>)
         [] w.op \in {"MOVEA", "MOVHI"} -> IF w.r2 = 0 THEN G4No ELSE G4Low(<<PX(w.r2, sum)>>)
         [] w.op = "MOV32" -> G4Low(<<PX(w.r1, KX(w.imm))>>)
G4LowerLogicImm(t) ==
    LET w == t.w
        log == BX(CASE w.op = "ORI" -> "OR" [] w.op = "XORI" -> "XOR" [] OTHER -> "AND", GX(w.r1), KX(w.imm))
    IN G4Low(<<PX(w.r2, log), SetfX("LOGIC", log, NoTree, {"Z", "S", "V"})>>)
\* MULHI and LOOP, which share an opcode.
G4LowerLoop(t) ==
    LET w == t.w
        x == GX(w.r1)
        less == BX("ADD", x, KX(AllOnes))
    IN IF w.op = "MULHI" THEN G4Low(<<PX(w.r2, BX("MUL", UX("SEXT16", x), KX(w.imm)))>>)
       ELSE G4Counted(<<PX(w.r1, less), SetfX("ADD", x, KX(AllOnes), G4Arith), RetireX,
                        ExitIfX("NE", less, KX(0), Sub(t.pc, w.imm))>>)

\* Conditional branches.
G4LowerBcond(t) ==
    LET cond == G4NameOf(t.w)
        there == Add(t.pc, t.w.imm)
    IN CASE cond = "SA" -> G4No
         [] cond = "ALWAYS" -> G4Ends(<<RetireX, ExitX(there)>>)
         [] OTHER -> G4Counted(<<RetireX, ExitIfX("NE", CondX(cond), KX(0), there)>>)
\* Jumps: JMP with no displacement or 32 bits of it, JARL and JR, JARL through
\* a register.
G4LowerJump(t) ==
    LET w == t.w
        next == KX(Add(t.pc, w.len))
    IN CASE w.op = "JMP" /\ w.len > 2 /\ w.r1 = 0 -> G4Ends(<<RetireX, ExitX(G4Even(w.imm))>>)
         [] w.op = "JMP" -> G4Ends(<<RetireX, ExitToX(G4EvenX(IF w.len = 2 THEN GX(w.r1) ELSE BX("ADD", GX(w.r1), KX(w.imm))))>>)
         [] w.op = "JARL" -> G4Ends(<<PX(w.r2, next), RetireX, ExitX(Add(t.pc, w.imm))>>)
         [] OTHER -> G4Ends(<<G4EvenX(GX(w.r1)), PX(w.r3, next), RetireX, ExitToX(G4EvenX(GX(w.r1)))>>)

\* SLD and SST, LD and ST.
G4LowerMem(t) ==
    LET w == t.w
        spec == [size |-> w.size, signed |-> w.op = "LD" /\ w.signed, win |-> t.win, w |-> w]
    IN CASE w.len = 2 /\ w.size = 4 -> G4No
         [] w.op = "LD" -> G4Low(<<SetPcX(t.pc), PX(w.r2, LdX(spec, GX(w.r1), w.imm))>>)
         [] OTHER -> G4Low(<<SetPcX(t.pc), StX(spec, GX(w.r1), w.imm, GX(w.r2))>>)
\* Double words: with the protection unit on they are a helper's, which asks
\* for all eight bytes first.
G4LowerDouble(t) ==
    LET w == t.w
        word == [size |-> 4, signed |-> FALSE, win |-> t.win, w |-> w]
        base == GX(w.r1)
        rd == w.r2 - (w.r2 % 2)
        lo == LdX(word, base, w.imm)
        hi == LdX(word, base, Add(w.imm, 4))
    IN CASE t.mpu -> G4Low(G4CallX(t, "DW", <<BX("ADD", base, KX(w.imm)), KX(rd + (IF w.op = "STDW" THEN 32 ELSE 0))>>))
         [] w.op = "STDW" -> G4Low(<<SetPcX(t.pc), StX(word, base, w.imm, GX(rd)), StX(word, base, Add(w.imm, 4), GX(rd + 1))>>)
         [] w.op = "LDDW" -> G4Low(<<SetPcX(t.pc), lo, hi, PX(rd, lo), PX(rd + 1, hi)>>)

\* SETF, ADF, MUL and CMOV.
G4LowerCond(t) ==
    LET w == t.w
        cond == G4NameOf(w)
        x == GX(w.r2)
        y == GX(w.r1)
        a == IF w.kind = "imm" THEN KX(w.imm) ELSE y
        lo == BX("MUL", x, y)
        hi == BX(IF w.signed THEN "MULHS" ELSE "MULHU", x, y)
    IN CASE w.op = "MUL" -> IF w.kind = "imm" THEN G4No ELSE G4Low(<<lo, hi, PX(w.r2, lo), PX(w.r3, hi)>>)
         [] cond = "SA" -> G4No
         [] w.op = "SETF" -> G4Low(<<PX(w.r2, CondX(cond))>>)
         [] w.op = "ADF" -> G4Low(<<Tree("HELPER", "none", <<>>, <<"ADF", w>>, {})>>)
         [] w.op = "CMOV" -> G4Low(<<PX(w.r3, BX("XOR", x, BX("AND", BX("XOR", a, x), UX("NEG", CondX(cond)))))>>)

\* DISPOSE, which may return.
G4LowerDispose(t) ==
    LET w == t.w IN
    CASE w.r1 = G4SP -> G4No
      [] w.r1 # 0 -> G4Ends(G4CallX(t, "DISPOSE", <<>>) \o <<RetireX, ExitToX(G4EvenX(GX(w.r1)))>>)
      [] OTHER -> G4Low(G4CallX(t, "DISPOSE", <<>>))
\* DI and EI; after EI the block is left, for an interrupt to be taken.
G4LowerDiEi(t) ==
    LET w == t.w IN
    CASE w.r3 # 0 -> G4No
      [] w.op = "DI" -> G4Low(G4CallX(t, "DIEI", <<KX(0)>>))
      [] OTHER -> G4Ends(G4CallX(t, "DIEI", <<KX(1)>>) \o <<RetireX, ExitToX(KX(Add(t.pc, w.len)))>>)
\* PREPARE without ep, the floating-point unit.
G4LowerCall(t) == IF t.w.op = "PREPARE" /\ t.w.kind # "none" THEN G4No ELSE G4Low(G4CallX(t, t.w.op, <<>>))

\* lower_one, lower_one32 and lower_one48.
G4Lower(t) ==
    LET op == t.w.op IN
    CASE op \in {"MOV", "OR", "XOR", "AND", "TST", "SUBR", "SUB", "ADD", "CMP", "MULH", "ZX", "SX"} -> G4LowerShort(t)
      [] op \in {"SHL", "SHR", "SAR", "SHL3", "SHR3", "SAR3"} -> G4LowerShift(t)
      [] op \in {"ADDI", "MOVEA", "MOVHI", "MOV32"} -> G4LowerImm(t)
      [] op \in {"ORI", "XORI", "ANDI"} -> G4LowerLogicImm(t)
      [] op \in {"MULHI", "LOOP"} -> G4LowerLoop(t)
      [] op = "BCOND" -> G4LowerBcond(t)
      [] op \in {"JMP", "JARL", "JARLR"} -> G4LowerJump(t)
      [] op \in {"LD", "ST"} -> G4LowerMem(t)
      [] op \in {"LDDW", "STDW"} -> G4LowerDouble(t)
      [] op \in {"SETF", "ADF", "MUL", "CMOV"} -> G4LowerCond(t)
      [] op = "DISPOSE" -> G4LowerDispose(t)
      [] op \in {"DI", "EI"} -> G4LowerDiEi(t)
      [] op \in {"PREPARE", "FPU"} -> G4LowerCall(t)
      [] op = "BITOP" -> G4LowerBitop(t, IF t.w.kind = "imm" THEN KX(t.w.imm2) ELSE GX(t.w.r2))
      [] OTHER -> G4No

\* g4mh_ir_translate, of the instructions prog at pc.
G4Translate(c, prog, pc) ==
    LET win == G4FastMem(c)
        One(acc, i) ==
          LET w == prog[i]
              low == G4Lower([w |-> w, pc |-> acc.cur, win |-> win, mpu |-> G4MpuOn(c)])
              next == Add(acc.cur, w.len)
              ts == low.ts \o (IF low.counted THEN <<>> ELSE <<RetireX>>) \o <<SetPcX(next)>>
              none == \/ acc.count >= G4MaxBlock \/ acc.block.overflow
                      \/ ~G4FetchPermitted(c, acc.cur, w.len, c.jit_ctx % 2 = 1) \/ ~G4Fetched(acc.cur, w.len)
          IN IF acc.stop \/ none \/ ~low.ok THEN [acc EXCEPT !.stop = TRUE]
             ELSE [acc EXCEPT !.block = Given(Flat(ts), LAMBDA fs : EmitAll(@, fs)), !.cur = next, !.count = @ + 1, !.stop = low.ends]
    IN Loop(One, [block |-> EmptyBlock(pc), cur |-> pc, count |-> 0, stop |-> FALSE], Len(prog))
\* g4mh_jit_bind.
G4Bind(c) == G4CtxRefresh(c)
==============================================================================
