------------------------------- MODULE PpcExec -------------------------------
(* The instructions of an e200 core: its floating point, and after it the  *)
(* interpreter (ppc_interp.c).                                             *)
(*                                                                         *)
(* The e200's embedded floating point (ppc_fpu.c): single precision in the *)
(* general registers, no denormal and no infinity in a result, and an      *)
(* exception that leaves the register alone when it is enabled.  An exact  *)
(* result is a sign, an integer significand and a power of two; what the   *)
(* code holds in a double is exact there too.                              *)
EXTENDS PpcDevices

EfsFrac == HalfBits
EfsBias == 2^(Bits - 2 - HalfBits) - 1

\* kind, max_of, zero_of, flush, sig_of, exp_of.
EfsKind(x) ==
    LET e == Mag(x) \div 2^EfsFrac
    IN IF e = 0 THEN (IF Mag(x) = 0 THEN "ZERO" ELSE "DENORM")
       ELSE IF Mag(x) >= ExpMask THEN "SPECIAL" ELSE "NORM"
EfsSign(x) == Bool(SignOf(x))
EfsMax(s) == (s * SignBit) + ExpMask - 1
EfsZero(s) == s * SignBit
EfsFlush(x) == IF EfsKind(x) = "DENORM" THEN EfsZero(EfsSign(x)) ELSE x
EfsSig(x) == (x % 2^EfsFrac) + 2^EfsFrac
EfsExp(x) == (Mag(x) \div 2^EfsFrac) - EfsBias - EfsFrac

\* res_t and set_default.
EfsRes == [val |-> 0, trunc |-> 0, inv |-> FALSE, dbz |-> FALSE, ovf |-> FALSE, unf |-> FALSE,
           inx |-> FALSE, fg |-> FALSE, fx |-> FALSE]
EfsDefault(r, v) == [r EXCEPT !.val = v, !.trunc = v]

\* The choice to round away, one for every conversion: RN, RZ, RP, RM.
EfsUp(rm, s, t, g, x) ==
    CASE rm = 0 -> g /\ (x \/ t % 2 = 1) [] rm = 2 -> (g \/ x) /\ s = 0
      [] rm = 3 -> (g \/ x) /\ s = 1     [] OTHER  -> FALSE

\* f64_trunc and round_f64: sig * 2^q, the part below sig in sticky.  An
\* underflow takes its sign from the result or from the mode.
EfsLead(n) == CHOOSE k \in 0..24 : 2^k <= n /\ n < 2^(k + 1)
EfsPack(s, e, t, frac, bias, top) == (s * top) + ((e + bias) * 2^frac) + (t % 2^frac)
EfsRound(r, s, q, sig, sticky, rm, mode) ==
    LET lead == EfsLead(sig)
        sh == lead - EfsFrac
        t0 == IF sh > 0 THEN sig \div 2^sh ELSE sig * 2^(-sh)
        g  == sh > 0 /\ (sig \div 2^(sh - 1)) % 2 = 1
        x  == sticky \/ (sh > 1 /\ sig % 2^(sh - 1) # 0)
        e0 == q + lead
        t1 == t0 + Bool(EfsUp(rm, s, t0, g, x))
        carry == t1 = 2^(EfsFrac + 1)
        t  == IF carry THEN t1 \div 2 ELSE t1
        e  == e0 + Bool(carry)
        n  == [r EXCEPT !.inx = g \/ x, !.fg = g, !.fx = x]
        Fit(f, u) == IF f > EfsBias THEN EfsMax(s) ELSE IF f < 1 - EfsBias THEN EfsZero(s)
                     ELSE EfsPack(s, f, u, EfsFrac, EfsBias, SignBit)
    IN IF e > EfsBias THEN EfsDefault([n EXCEPT !.ovf = TRUE], EfsMax(s))
       ELSE IF e < 1 - EfsBias
            THEN EfsDefault([n EXCEPT !.unf = TRUE], EfsZero(IF mode THEN Bool(rm = 3) ELSE s))
       ELSE [n EXCEPT !.val = Fit(e, t), !.trunc = Fit(e0, t0)]

\* finish_sum: the sum of two signed integers times 2^q.
EfsSum(r, q, x, y, rm, sa, sb) ==
    LET n == x + y
    IN IF n = 0 THEN EfsDefault(r, EfsZero(IF sa = sb THEN sa ELSE Bool(rm = 3)))
       ELSE EfsRound(r, Bool(n < 0), q, IF n < 0 THEN -n ELSE n, FALSE, rm, TRUE)

EfsOdd(x) == EfsKind(x) \in {"SPECIAL", "DENORM"}
EfsNil(x) == EfsKind(x) \in {"ZERO", "DENORM"}
EfsSigned(x) == IF EfsNil(x) THEN 0 ELSE IF SignOf(x) THEN -EfsSig(x) ELSE EfsSig(x)
EfsScale(n, k) == n * 2^k
EfsLeast(x, y) == IF x < y THEN x ELSE y

\* op_add.
EfsAdd(a, b0, neg, rm) ==
    LET r == [EfsRes EXCEPT !.inv = EfsOdd(a) \/ EfsOdd(b0)]
        b == Xor(EfsFlush(b0), IF neg THEN SignBit ELSE 0)
        q == IF EfsNil(a) THEN EfsExp(b) ELSE IF EfsNil(b) THEN EfsExp(a)
             ELSE EfsLeast(EfsExp(a), EfsExp(b))
        At(x) == IF EfsNil(x) THEN 0 ELSE EfsScale(EfsSigned(x), EfsExp(x) - q)
    IN IF EfsKind(a) = "SPECIAL" THEN EfsDefault(r, EfsMax(EfsSign(a)))
       ELSE IF EfsKind(b0) = "SPECIAL"
            THEN EfsDefault(r, EfsMax((EfsSign(b0) + Bool(neg)) % 2))
       ELSE EfsSum(r, q, At(a), At(b), rm, EfsSign(a), EfsSign(b))

\* op_mul, op_div.
EfsMul(a, b, rm) ==
    LET r == [EfsRes EXCEPT !.inv = EfsOdd(a) \/ EfsOdd(b)]
        s == (EfsSign(a) + EfsSign(b)) % 2
    IN IF EfsNil(a) \/ EfsNil(b) THEN EfsDefault(r, EfsZero(s))
       ELSE IF "SPECIAL" \in {EfsKind(a), EfsKind(b)} THEN EfsDefault(r, EfsMax(s))
       ELSE EfsRound(r, s, EfsExp(a) + EfsExp(b), EfsSig(a) * EfsSig(b), FALSE, rm, FALSE)
EfsDivBits == EfsFrac + EfsFrac + 2
EfsDiv(a, b, rm) ==
    LET r == [EfsRes EXCEPT !.inv = EfsOdd(a) \/ EfsOdd(b)]
        s == (EfsSign(a) + EfsSign(b)) % 2
        n == EfsSig(a) * 2^EfsDivBits
    IN IF EfsKind(b) = "SPECIAL" THEN EfsDefault(r, EfsZero(s))
       ELSE IF EfsNil(b)
            THEN EfsDefault([r EXCEPT !.inv = @ \/ EfsKind(a) = "ZERO",
                                      !.dbz = EfsKind(a) = "NORM" /\ EfsKind(b) = "ZERO"], EfsMax(s))
       ELSE IF EfsKind(a) = "SPECIAL" THEN EfsDefault(r, EfsMax(s))
       ELSE IF EfsNil(a) THEN EfsDefault(r, EfsZero(s))
       ELSE EfsRound(r, s, EfsExp(a) - EfsExp(b) - EfsDivBits, n \div EfsSig(b),
                     n % EfsSig(b) # 0, rm, FALSE)

\* op_madd.
EfsMadd(a, b, d, sub, neg, rm) ==
    LET r  == [EfsRes EXCEPT !.inv = EfsOdd(a) \/ EfsOdd(b) \/ EfsOdd(d)]
        sp == (EfsSign(a) + EfsSign(b)) % 2
        sd == (EfsSign(d) + Bool(sub)) % 2
        pzero == EfsNil(a) \/ EfsNil(b)
        qp == EfsExp(a) + EfsExp(b)
        q  == IF EfsNil(d) THEN qp ELSE EfsLeast(qp, EfsExp(d))
        p  == EfsScale(EfsSigned(a) * EfsSigned(b), qp - q)
        e  == IF EfsNil(d) THEN 0
              ELSE EfsScale(IF sd = 1 THEN -EfsSig(d) ELSE EfsSig(d), EfsExp(d) - q)
        v  == IF ~pzero /\ "SPECIAL" \in {EfsKind(a), EfsKind(b)} THEN EfsDefault(r, EfsMax(sp))
              ELSE IF EfsKind(d) = "SPECIAL" THEN EfsDefault(r, EfsMax(sd))
              ELSE IF pzero
                   THEN EfsDefault(r, IF EfsNil(d) THEN EfsZero(IF sp = sd THEN sp ELSE Bool(rm = 3))
                                      ELSE Mag(d) + EfsZero(sd))
              ELSE EfsSum(r, q, p, e, rm, sp, sd)
    IN IF neg THEN [v EXCEPT !.val = Negate(@), !.trunc = Negate(@)] ELSE v

\* op_sqrt: the root of sig * 2^exp, the exponent made even.
EfsRoot(n) == CHOOSE k \in 0..(2^(EfsFrac * 2 + 2)) : k * k <= n /\ n < (k + 1) * (k + 1)
EfsSqrt(a, rm) ==
    LET bad(v) == EfsDefault([EfsRes EXCEPT !.inv = TRUE], v)
        odd == EfsExp(a) % 2
        n   == EfsSig(a) * 2^(odd + (2 * EfsFrac) + 2)
        q   == (EfsExp(a) - odd - (2 * EfsFrac) - 2) \div 2
    IN CASE EfsKind(a) = "ZERO"    -> EfsDefault(EfsRes, a)
         [] EfsKind(a) = "DENORM"  -> bad(EfsZero(EfsSign(a)))
         [] EfsKind(a) \in {"NORM", "SPECIAL"} /\ SignOf(a) -> bad(SignBit)
         [] EfsKind(a) = "SPECIAL" /\ ~SignOf(a) -> bad(EfsMax(0))
         [] OTHER -> EfsRound(EfsRes, 0, q, EfsRoot(n), EfsRoot(n) * EfsRoot(n) # n, rm, TRUE)

\* order, op_minmax.
EfsOrder(x, zs) == IF Mag(x) = 0 /\ ~zs THEN 0 ELSE IF SignOf(x) THEN -Mag(x) - Bool(zs) ELSE Mag(x)
EfsMinMax(a, b, max) ==
    LET lt == EfsOrder(a, TRUE) < EfsOrder(b, TRUE)
        t0 == IF lt = max THEN b ELSE a
        t  == IF IsNaN(a) /\ ~IsNaN(b) THEN b ELSE IF IsNaN(b) /\ ~IsNaN(a) THEN a ELSE t0
    IN EfsDefault([EfsRes EXCEPT !.inv = EfsOdd(a) \/ EfsOdd(b)],
                  IF EfsKind(t) = "DENORM" THEN EfsZero(EfsSign(t))
                  ELSE IF EfsKind(t) = "SPECIAL" THEN EfsMax(EfsSign(t)) ELSE t)

\* cvt_from, cvt_to: integers and fractions.
EfsFrom(b, sign, scale, rm) ==
    LET v == IF sign THEN Signed(b) ELSE b
    IN IF b = 0 THEN EfsDefault(EfsRes, 0)
       ELSE EfsRound(EfsRes, Bool(v < 0), -scale, IF v < 0 THEN -v ELSE v, FALSE, rm, FALSE)
EfsTo(b, sign, scale, rm) ==
    LET s  == EfsSign(b)
        lp == IF sign THEN SignBit - 1 ELSE AllOnes
        lim == IF s = 1 THEN (IF sign THEN SignBit ELSE 0) ELSE lp
        bad(v) == EfsDefault([EfsRes EXCEPT !.inv = TRUE], v)
        over == bad(IF s = 1 THEN lim ELSE lp)
        e  == EfsExp(b) + EfsFrac + scale
        sh == EfsFrac - e
        ip == IF e >= EfsFrac THEN EfsSig(b) * 2^(-sh) ELSE IF e >= -1 THEN EfsSig(b) \div 2^sh ELSE 0
        g  == e < EfsFrac /\ e >= -1 /\ (EfsSig(b) \div 2^(sh - 1)) % 2 = 1
        x  == e < -1 \/ (e < EfsFrac /\ EfsSig(b) % 2^(sh - 1) # 0)
        mag == ip + Bool(EfsUp(rm, s, ip, g, x))
    IN CASE EfsKind(b) = "ZERO" -> EfsDefault(EfsRes, 0)
         [] EfsKind(b) = "DENORM" \/ IsNaN(b) -> bad(0)
         [] IsInf(b) -> over
         [] EfsKind(b) = "NORM" /\ ~sign /\ s = 1 -> bad(0)
         [] OTHER -> IF e >= Bits + 8 \/ mag > lim THEN over
                     ELSE [EfsRes EXCEPT !.val = Wrap(IF s = 1 THEN -mag ELSE mag),
                                         !.trunc = Wrap(IF s = 1 THEN -ip ELSE ip),
                                         !.inx = g \/ x, !.fg = g, !.fx = x]

\* cvt_from_half, cvt_to_half: a half has two bits of exponent here.
HalfFrac == HalfBits - 3
HalfTop == 2^(HalfBits - 1)
EfsFromHalf(h) ==
    LET s == h \div HalfTop
        e == (h % HalfTop) \div 2^HalfFrac
        f == h % 2^HalfFrac
        bad(v) == EfsDefault([EfsRes EXCEPT !.inv = TRUE], v)
    IN CASE h % HalfTop = 0 -> EfsDefault(EfsRes, EfsZero(s))
         [] e = 3 -> bad(EfsMax(s))
         [] e = 0 /\ f # 0 -> bad(EfsZero(s))
         [] OTHER -> EfsDefault(EfsRes, EfsPack(s, e - 1, f * 2^(EfsFrac - HalfFrac), EfsFrac, EfsBias, SignBit))
EfsToHalf(b, rm) ==
    LET s   == EfsSign(b)
        cut == EfsFrac - HalfFrac
        max == (s * HalfTop) + HalfTop - 2^HalfFrac - 1
        bad(v) == EfsDefault([EfsRes EXCEPT !.inv = TRUE], v)
        e0  == EfsExp(b) + EfsFrac
        t0  == EfsSig(b) \div 2^cut
        g   == (b \div 2^(cut - 1)) % 2 = 1
        x   == b % 2^(cut - 1) # 0
        t1  == t0 + Bool(EfsUp(rm, s, t0, g, x))
        carry == t1 = 2^(HalfFrac + 1)
        t   == IF carry THEN t1 \div 2 ELSE t1
        e   == e0 + Bool(carry)
        n   == [EfsRes EXCEPT !.inx = g \/ x, !.fg = g, !.fx = x]
        Half(f, u) == Low(Wrap(EfsPack(s, f, u, HalfFrac, 1, HalfTop)), HalfBits)
    IN CASE EfsKind(b) = "ZERO" \/ EfsKind(b) = "DENORM" ->
               EfsDefault([EfsRes EXCEPT !.inv = EfsKind(b) = "DENORM"], s * HalfTop)
         [] EfsKind(b) = "SPECIAL" -> bad(max)
         [] OTHER -> IF e > 1 THEN EfsDefault([n EXCEPT !.ovf = TRUE], max)
                     ELSE IF e < 0 THEN EfsDefault([n EXCEPT !.unf = TRUE], s * HalfTop)
                     ELSE [n EXCEPT !.val = Half(e, t), !.trunc = IF e0 > 1 THEN max ELSE Half(e0, t0)]

\* finish: the status bits, the sticky ones, and what is trapped: [c, exc].
EfsErrors == {"inv", "dbz", "unf", "ovf"}
EfsFinish(c, r, rd) ==
    LET errs == {e \in EfsErrors : r[e]}
        keep == {f \in c.spefscr.flags : f[1] \notin {"now", "guard"}}
        now  == {<<k, e>> : k \in {"now", "sticky"}, e \in errs}
                    \cup (IF errs = {} THEN {<<"guard", f>> : f \in {g \in {"fg", "fx"} : r[g]}} ELSE {})
        data == \E e \in errs : <<"enable", e>> \in keep
        inx  == (r.inx /\ ~r.inv /\ ~r.dbz) \/ r.ovf \/ r.unf
        f    == keep \cup now \cup (IF inx /\ ~data THEN {<<"sticky", "inx">>} ELSE {})
        d    == [c EXCEPT !.spefscr.flags = f]
    IN IF data THEN [c |-> d, exc |-> "FP_DATA"]
       ELSE IF inx /\ <<"enable", "inx">> \in f
            THEN [c |-> IF rd < 0 THEN d ELSE [d EXCEPT !.reg[rd] = r.trunc], exc |-> "FP_ROUND"]
       ELSE [c |-> IF rd < 0 THEN d ELSE [d EXCEPT !.reg[rd] = r.val], exc |-> PpcNoFault]

\* ppc_fpu_exec.
EfsCompares == {"CMPGT", "CMPLT", "CMPEQ", "TSTGT", "TSTLT", "TSTEQ"}
EfsResult(c, op, rd, a, b) ==
    LET rm == c.spefscr.rm
        frac == Bits - 1
    IN CASE op = "ADD" -> EfsAdd(a, b, FALSE, rm) [] op = "SUB" -> EfsAdd(a, b, TRUE, rm)
         [] op = "MUL" -> EfsMul(a, b, rm)        [] op = "DIV" -> EfsDiv(a, b, rm)
         [] op = "MADD"  -> EfsMadd(a, b, c.reg[rd], FALSE, FALSE, rm)
         [] op = "MSUB"  -> EfsMadd(a, b, c.reg[rd], TRUE, FALSE, rm)
         [] op = "NMADD" -> EfsMadd(a, b, c.reg[rd], FALSE, TRUE, rm)
         [] op = "NMSUB" -> EfsMadd(a, b, c.reg[rd], TRUE, TRUE, rm)
         [] op = "SQRT" -> EfsSqrt(a, rm)
         [] op = "MAX" -> EfsMinMax(a, b, TRUE) [] op = "MIN" -> EfsMinMax(a, b, FALSE)
         [] op \in {"ABS", "NABS", "NEG"} ->
               EfsDefault([EfsRes EXCEPT !.inv = EfsOdd(a)],
                          CASE op = "ABS" -> Mag(a) [] op = "NABS" -> Mag(a) + SignBit [] OTHER -> Negate(a))
         [] op = "CFSI" -> EfsFrom(b, TRUE, 0, rm)    [] op = "CFUI" -> EfsFrom(b, FALSE, 0, rm)
         [] op = "CFSF" -> EfsFrom(b, TRUE, frac, rm) [] op = "CFUF" -> EfsFrom(b, FALSE, Bits, rm)
         [] op = "CTSI" -> EfsTo(b, TRUE, 0, rm)      [] op = "CTUI" -> EfsTo(b, FALSE, 0, rm)
         [] op = "CTSIZ" -> EfsTo(b, TRUE, 0, 1)      [] op = "CTUIZ" -> EfsTo(b, FALSE, 0, 1)
         [] op = "CTSF" -> IF b = SignBit + (EfsBias * 2^EfsFrac) THEN EfsDefault(EfsRes, SignBit)
                           ELSE EfsTo(b, TRUE, frac, rm)
         [] op = "CTUF" -> EfsTo(b, FALSE, Bits, rm)
         [] op = "CFH"  -> EfsFromHalf(Low(b, HalfBits))
         [] op = "CTH"  -> EfsToHalf(b, rm)
PpcCrPut(c, f, v) ==
    LET sh == 2^(4 * ((Bits \div 4) - 1 - f))
        old == (c.reg[PpcCR] \div sh) % 16
    IN [c EXCEPT !.reg[PpcCR] = @ + ((v - old) * sh)]
EfsExec(c, op, rd, ra, rb, crf) ==
    LET a == c.reg[ra]
        b == c.reg[rb]
        oa == EfsOrder(a, FALSE)
        ob == EfsOrder(b, FALSE)
        cl == CASE op \in {"CMPGT", "TSTGT"} -> oa > ob [] op \in {"CMPLT", "TSTLT"} -> oa < ob
                [] OTHER -> oa = ob
        f  == IF op \in {"TSTGT", "TSTLT", "TSTEQ"} THEN [c |-> c, exc |-> PpcNoFault]
              ELSE EfsFinish(c, [EfsRes EXCEPT !.inv = EfsOdd(a) \/ EfsOdd(b)], -1)
    IN IF op \notin EfsCompares THEN EfsFinish(c, EfsResult(c, op, rd, a, b), rd)
       ELSE IF f.exc # PpcNoFault THEN [c |-> f.c, exc |-> "FP_DATA"]
       ELSE [c |-> PpcCrPut(f.c, crf, IF cl THEN 4 ELSE 0), exc |-> PpcNoFault]

------------------------------------------------------------------------------
(* What an e200 instruction does (ppc_interp.c).  An instruction is its     *)
(* decoded record (ppc_insn_t); sem names its meaning.  The condition       *)
(* register has a field of four bits for every four bits of the word, and   *)
(* the registers are numbered 0 .. PpcGprs - 1.                             *)

CONSTANTS
    PpcGprs,      \* PPC_NGPR
    PpcLine       \* the bytes dcbz clears

\* A decoded instruction with nothing set.
PpcInsn ==
    [sem |-> "ILLEGAL", rd |-> 0, ra |-> 0, rb |-> 0, crf |-> 0, crs |-> 0, bi |-> 0, bo |-> 20,
     mb |-> 0, me |-> 0, sh |-> 0, imm |-> 0, spr |-> "NONE", size |-> 4, sext |-> FALSE,
     rev |-> FALSE, upd |-> FALSE, idx |-> FALSE, ra0 |-> FALSE, lk |-> FALSE, aa |-> FALSE,
     oe |-> FALSE, rc |-> FALSE, immop |-> TRUE, icbi |-> FALSE, len |-> 4]

\* cr_set, cr_get, cr_bit, so.
PpcFields == Bits \div 4
PpcCrGet(c, f) == (c.reg[PpcCR] \div 2^(4 * (PpcFields - 1 - f))) % 16
PpcCrBit(c, bi) == Bit(c.reg[PpcCR], Bits - 1 - bi)
PpcSo(c) == Bit(c.reg[PpcXER], Bits - 1)
PpcCrLt == 8
PpcCrGt == 4
PpcCrEq == 2

\* cr_compare, cr0.
PpcCompare(c, f, a, b, sign) ==
    LET x == IF sign THEN Signed(a) ELSE a
        y == IF sign THEN Signed(b) ELSE b
    IN PpcCrPut(c, f, (IF x < y THEN PpcCrLt ELSE IF x > y THEN PpcCrGt ELSE PpcCrEq) + PpcSo(c))
PpcCr0(c, v) == PpcCompare(c, 0, v, 0, TRUE)

\* set_ca, get_ca, set_ov: SO stays once it is set.
PpcSetBit(w, k, on) == w + ((Bool(on) - Bit(w, k)) * 2^k)
PpcSetCa(c, on) == [c EXCEPT !.reg[PpcXER] = PpcSetBit(@, Bits - 3, on)]
PpcGetCa(c) == Bit(c.reg[PpcXER], Bits - 3)
PpcSetOv(c, on) ==
    [c EXCEPT !.reg[PpcXER] =
        IF on THEN PpcSetBit(PpcSetBit(@, Bits - 2, TRUE), Bits - 1, TRUE)
        ELSE PpcSetBit(@, Bits - 2, FALSE)]

\* add3: a sum of three, its carry and its signed overflow.
PpcAdd3(a, b, cin) ==
    LET r == Wrap(a + b + cin)
    IN [val |-> r, ca |-> a + b + cin >= Size,
        ov |-> SignOf(a) = SignOf(b) /\ SignOf(r) # SignOf(a)]

\* rl_mask, bits mb to me of a word numbered from the top, around the end.
PpcRlMask(mb, me) ==
    LET In(k) == IF mb <= me THEN mb <= k /\ k <= me ELSE mb <= k \/ k <= me
    IN FoldLeft(LAMBDA acc, k : acc + IF In(k - 1) THEN 2^(Bits - k) ELSE 0, 0, [k \in 1..Bits |-> k])

\* base_of, ea_of, target_mask, user.
PpcBase(c, d) == IF d.ra0 /\ d.ra = 0 THEN 0 ELSE c.reg[d.ra]
PpcEa(c, d) == Add(PpcBase(c, d), IF d.idx THEN c.reg[d.rb] ELSE d.imm)
PpcTarget(c, a) == PpcAlign(a, IF c.vle \/ c.mmu_on THEN 2 ELSE 4)
PpcUser(c) == "PR" \in c.msr

\* bo_taken: [c, taken].
PpcBoTaken(c, bo, bi) ==
    LET count == Bit(bo, 2) = 0
        d   == IF count THEN [c EXCEPT !.reg[PpcCTR] = Sub(@, 1)] ELSE c
        ctr == d.reg[PpcCTR]
        ok  == ~count \/ (IF Bit(bo, 1) = 1 THEN ctr = 0 ELSE ctr # 0)
    IN [c |-> d, taken |-> ok /\ (Bit(bo, 4) = 1 \/ PpcCrBit(c, bi) = Bit(bo, 3))]

\* How an instruction ends: [c, ok], ok when it retired.
PpcDone(c) == [c |-> c, ok |-> TRUE]
PpcTrapped(c) == [c |-> c, ok |-> FALSE]
\* program, data_fault, misaligned.
PpcProgram(c, esr) == PpcTrapped(PpcRaise(c, "PROGRAM", c.pc, {esr}))
PpcStFlag(store) == IF store THEN {"ST"} ELSE {}
PpcDataFault(c, store, x) == PpcTrapped(PpcRaise(c, x, c.pc, PpcStFlag(store)))
PpcMisaligned(c, ea, store) ==
    PpcTrapped(PpcRaise([c EXCEPT !.spr["DEAR"] = ea], "ALIGNMENT", c.pc, PpcStFlag(store)))
PpcNext(c, d) == [c EXCEPT !.pc = Add(@, d.len)]
PpcThen(c, d) == PpcDone(PpcNext(c, d))
PpcPutR(c, r, v, d) == LET e == [c EXCEPT !.reg[r] = v] IN IF d.rc THEN PpcCr0(e, v) ELSE e

------------------------------------------------------------------------------
\* Arithmetic.

PpcAdds == {"ADD", "ADDC", "ADDE", "ADDME", "ADDZE"}
PpcSubs == {"SUBF", "SUBFC", "SUBFE", "SUBFME", "SUBFZE", "NEG"}
PpcAddSub(c, d) ==
    LET s   == d.sem
        a   == IF s \in PpcSubs THEN Not(c.reg[d.ra]) ELSE c.reg[d.ra]
        b   == IF s \in {"ADDME", "SUBFME"} THEN AllOnes
               ELSE IF s \in {"ADDZE", "SUBFZE", "NEG"} THEN 0 ELSE c.reg[d.rb]
        cin == IF s \in {"SUBF", "SUBFC", "NEG"} THEN 1
               ELSE IF s \in {"ADD", "ADDC"} THEN 0 ELSE PpcGetCa(c)
        r   == PpcAdd3(a, b, cin)
        e   == IF s \in {"ADD", "SUBF", "NEG"} THEN c ELSE PpcSetCa(c, r.ca)
        f   == IF d.oe THEN PpcSetOv(e, r.ov) ELSE e
    IN PpcPutR(f, d.rd, r.val, d)

PpcMulDivs == {"MULLW", "MULHW", "MULHWU", "DIVW", "DIVWU"}
PpcMulDiv(c, d) ==
    LET a == c.reg[d.ra]
        b == c.reg[d.rb]
        p == Signed(a) * Signed(b)
        bad == b = 0 \/ (d.sem = "DIVW" /\ a = SignBit /\ b = AllOnes)
        v == CASE d.sem = "MULLW"  -> Wrap(p)
               [] d.sem = "MULHW"  -> Wrap(p \div Size)
               [] d.sem = "MULHWU" -> (a * b) \div Size
               [] d.sem = "DIVW"   -> IF bad THEN 0 ELSE Wrap(Quotient(Signed(a), Signed(b)))
               [] OTHER            -> IF bad THEN 0 ELSE a \div b
        ov == IF d.sem = "MULLW" THEN p # Signed(v) ELSE bad
        e == IF d.oe /\ d.sem \in {"MULLW", "DIVW", "DIVWU"} THEN PpcSetOv(c, ov) ELSE c
    IN PpcPutR(e, d.rd, v, d)

PpcImms == {"LI", "ADDI", "ADDIC", "SUBFIC", "MULLI", "MR"}
PpcImm(c, d) ==
    LET r == PpcAdd3(IF d.sem = "ADDIC" THEN c.reg[d.ra] ELSE Not(c.reg[d.ra]), d.imm,
                     Bool(d.sem = "SUBFIC"))
    IN CASE d.sem = "LI"    -> [c EXCEPT !.reg[d.rd] = d.imm]
         [] d.sem = "MR"    -> [c EXCEPT !.reg[d.rd] = c.reg[d.ra]]
         [] d.sem = "ADDI"  -> PpcPutR(c, d.rd, Add(PpcBase(c, d), d.imm), d)
         [] d.sem = "MULLI" -> PpcPutR(c, d.rd, Wrap(c.reg[d.ra] * d.imm), d)
         [] OTHER           -> PpcPutR(PpcSetCa(c, r.ca), d.rd, r.val, d)

------------------------------------------------------------------------------
\* Logic and shifts: from rd into ra.

PpcLogics == {"AND", "ANDC", "OR", "ORC", "XOR", "NAND", "NOR", "EQV", "ANDI", "ORI", "XORI",
              "EXTSB", "EXTSH", "EXTZB", "EXTZH", "CNTLZW"}
PpcLogicValue(sem, s, b) ==
    CASE sem \in {"AND", "ANDI"} -> And(s, b)   [] sem = "ANDC" -> And(s, Not(b))
      [] sem \in {"OR", "ORI"}   -> Or(s, b)    [] sem = "ORC"  -> Or(s, Not(b))
      [] sem \in {"XOR", "XORI"} -> Xor(s, b)   [] sem = "NAND" -> Not(And(s, b))
      [] sem = "NOR"   -> Not(Or(s, b))         [] sem = "EQV"  -> Not(Xor(s, b))
      [] sem = "EXTSB" -> Sext(s, ByteBits)     [] sem = "EXTSH" -> Sext(s, HalfBits)
      [] sem = "EXTZB" -> Low(s, ByteBits)      [] sem = "EXTZH" -> Low(s, HalfBits)
      [] OTHER -> Clz(s)
PpcLogic(c, d) ==
    PpcPutR(c, d.ra, PpcLogicValue(d.sem, c.reg[d.rd],
                                   IF d.sem \in {"ANDI", "ORI", "XORI"} THEN d.imm ELSE c.reg[d.rb]), d)

PpcShifts == {"SLW", "SRW", "SRAW", "SRAWI", "RLWINM", "RLWNM", "RLWIMI"}
PpcShift(c, d) ==
    LET s   == c.reg[d.rd]
        n   == IF d.sem \in {"SRAWI", "RLWINM", "RLWIMI"} THEN d.sh
               ELSE IF d.sem = "RLWNM" THEN c.reg[d.rb] % Bits ELSE c.reg[d.rb] % (2 * Bits)
        m   == PpcRlMask(d.mb, d.me)
        neg == SignOf(s)
        ca  == neg /\ (n >= Bits \/ s % 2^n # 0)
        v   == CASE d.sem = "SLW" -> IF n >= Bits THEN 0 ELSE Shl(s, n)
                 [] d.sem = "SRW" -> IF n >= Bits THEN 0 ELSE Shr(s, n)
                 [] d.sem \in {"SRAW", "SRAWI"} ->
                       IF n >= Bits THEN (IF neg THEN AllOnes ELSE 0) ELSE Sar(s, n)
                 [] d.sem = "RLWIMI" -> Or(And(Rotl(s, n), m), And(c.reg[d.ra], Not(m)))
                 [] OTHER -> And(Rotl(s, n), m)
    IN PpcPutR(IF d.sem \in {"SRAW", "SRAWI"} THEN PpcSetCa(c, ca) ELSE c, d.ra, v, d)

------------------------------------------------------------------------------
\* Comparisons and the condition register.

PpcCmps == {"CMP", "CMPL", "CMPH", "CMPHL", "BTST"}
PpcCmp(c, d) ==
    LET a == c.reg[d.ra]
        b == c.reg[d.rb]
        Other(x) == IF d.immop THEN d.imm ELSE x
    IN CASE d.sem = "CMP"  -> PpcCompare(c, d.crf, a, Other(b), TRUE)
         [] d.sem = "CMPL" -> PpcCompare(c, d.crf, a, Other(b), FALSE)
         [] d.sem = "CMPH" -> PpcCompare(c, d.crf, Sext(a, HalfBits), Other(Sext(b, HalfBits)), TRUE)
         [] d.sem = "CMPHL" -> PpcCompare(c, d.crf, Low(a, HalfBits), Other(Low(b, HalfBits)), FALSE)
         [] OTHER -> PpcCrPut(c, 0, (IF And(a, d.imm) # 0 THEN PpcCrGt ELSE PpcCrEq) + PpcSo(c))

PpcCrOps == {"CRAND", "CRANDC", "CREQV", "CRNAND", "CRNOR", "CROR", "CRORC", "CRXOR"}
PpcCrValue(sem, a, b) ==
    Bool(CASE sem = "CRAND"  -> a = 1 /\ b = 1      [] sem = "CRANDC" -> a = 1 /\ b = 0
           [] sem = "CREQV"  -> a = b               [] sem = "CRNAND" -> ~(a = 1 /\ b = 1)
           [] sem = "CRNOR"  -> a = 0 /\ b = 0      [] sem = "CROR"   -> a = 1 \/ b = 1
           [] sem = "CRORC"  -> a = 1 \/ b = 0      [] OTHER          -> a # b)
PpcCrMoves == {"MCRF", "MCRXR", "MFCR", "MTCRF", "ISEL"}
PpcCrMask(imm) == FoldLeft(LAMBDA acc, i : acc + IF Bit(imm, PpcFields - i) = 1 THEN 15 * 2^(4 * (PpcFields - i)) ELSE 0,
                           0, [i \in 1..PpcFields |-> i])
PpcCrStep(c, d) ==
    LET cr == c.reg[PpcCR]
        m  == PpcCrMask(d.imm)
    IN CASE d.sem \in PpcCrOps ->
               [c EXCEPT !.reg[PpcCR] =
                   PpcSetBit(cr, Bits - 1 - d.rd, PpcCrValue(d.sem, PpcCrBit(c, d.ra), PpcCrBit(c, d.rb)) = 1)]
         [] d.sem = "MCRF"  -> PpcCrPut(c, d.crf, PpcCrGet(c, d.crs))
         [] d.sem = "MCRXR" -> LET x == c.reg[PpcXER]
                               IN PpcCrPut([c EXCEPT !.reg[PpcXER] = x % 2^(Bits - 4)], d.crf, x \div 2^(Bits - 4))
         [] d.sem = "MFCR"  -> [c EXCEPT !.reg[d.rd] = cr]
         [] d.sem = "MTCRF" -> [c EXCEPT !.reg[PpcCR] = Or(And(cr, Not(m)), And(c.reg[d.rd], m))]
         [] OTHER -> [c EXCEPT !.reg[d.rd] = IF PpcCrBit(c, d.bi) = 1 THEN PpcBase(c, d) ELSE c.reg[d.rb]]

------------------------------------------------------------------------------
\* Memory.

\* bswap.
PpcLoadStep(c, d) ==
    LET ea == PpcEa(c, d)
        r  == PpcLoad(c, ea, d.size, d.sext)
        v  == IF d.rev THEN SwapOf(r.val, d.size) ELSE r.val
        e  == IF d.upd THEN [r.c EXCEPT !.reg[d.ra] = ea] ELSE r.c
    IN IF r.exc # PpcNoFault THEN PpcDataFault(r.c, FALSE, r.exc)
       ELSE PpcThen([e EXCEPT !.reg[d.rd] = v], d)
PpcStoreStep(c, d) ==
    LET ea == PpcEa(c, d)
        v  == c.reg[d.rd]
        r  == PpcStore(c, ea, d.size, IF d.rev THEN SwapOf(v, d.size) ELSE v)
    IN IF r.exc # PpcNoFault THEN PpcDataFault(r.c, TRUE, r.exc)
       ELSE PpcThen(IF d.upd THEN [r.c EXCEPT !.reg[d.ra] = ea] ELSE r.c, d)

\* lmv_reg and exec_multi: several words, one at a time, those before a
\* fault done.  A register is a number of reg or the name of a special one.
PpcMultis == {"LMW", "STMW", "LMV", "STMV"}
PpcPairs == <<<<"SRR0", "SRR1">>, <<"CSRR0", "CSRR1">>, <<"DSRR0", "DSRR1">>, <<"MCSRR0", "MCSRR1">>>>
PpcMultiRegs(d) ==
    IF d.sem \in {"LMW", "STMW"} THEN [k \in 1..(PpcGprs - d.rd) |-> <<"r", d.rd + k - 1>>]
    ELSE CASE d.crs = 0 -> [k \in 1..(PpcGprs - 2) |-> <<"r", IF k = 1 THEN 0 ELSE k + 1>>]
           [] d.crs = 1 -> <<<<"r", PpcCR>>, <<"r", PpcLR>>, <<"r", PpcCTR>>, <<"r", PpcXER>>>>
           [] OTHER     -> [k \in 1..2 |-> <<"s", PpcPairs[d.crs - 3][k]>>]
PpcMulti(c, d) ==
    LET store == d.sem \in {"STMW", "STMV"}
        vol   == d.sem \in {"LMV", "STMV"}
        ea    == PpcEa(c, d)
        regs  == PpcMultiRegs(d)
        Keep(w, v) == IF w[2] = PpcXER THEN And(v, PpcXerImpl) ELSE v
        One(acc, k) ==
            IF acc.exc # PpcNoFault THEN acc
            ELSE LET w == regs[k]
                     at == Add(ea, 4 * (k - 1))
                     now == IF w[1] = "r" THEN acc.c.reg[w[2]] ELSE acc.c.spr[w[2]]
                     l == PpcLoad(acc.c, at, 4, FALSE)
                 IN IF store THEN PpcStore(acc.c, at, 4, now)
                    ELSE IF l.exc # PpcNoFault THEN l
                    ELSE PpcGot(IF w[1] = "r" THEN [l.c EXCEPT !.reg[w[2]] = Keep(w, l.val)]
                                ELSE [l.c EXCEPT !.spr[w[2]] = l.val], PpcNoFault, 0)
        r == FoldLeft(One, PpcGot(c, PpcNoFault, 0), [k \in 1..Len(regs) |-> k])
    IN IF vol /\ d.crs >= 4 /\ PpcUser(c) THEN PpcProgram(c, "PPR")
       ELSE IF ea % 4 # 0 THEN PpcMisaligned(c, ea, store)
       ELSE IF r.exc # PpcNoFault THEN PpcDataFault(r.c, store, r.exc)
       ELSE PpcThen(r.c, d)

\* LARX, STCX, DCBZ.
PpcLarx(c, d) ==
    LET ea == PpcEa(c, d)
        r  == IF c.smp_live THEN PpcLarxSmp(c, ea, d.size) ELSE PpcLoad(c, ea, d.size, FALSE)
        e  == IF c.smp_live THEN r.c ELSE [r.c EXCEPT !.sh.resv[c.coreid].held = TRUE]
    IN IF ea % d.size # 0 THEN PpcMisaligned(c, ea, FALSE)
       ELSE IF r.exc # PpcNoFault THEN PpcDataFault(r.c, FALSE, r.exc)
       ELSE PpcThen([e EXCEPT !.reg[d.rd] = r.val], d)
\* As if the reservation were spent before the store is known to succeed.
PpcStcx_Spent(c, d) ==
    LET ea == PpcEa(c, d)
        gone == [c EXCEPT !.sh.resv[c.coreid].held = FALSE]
        r  == PpcStore(gone, ea, d.size, c.reg[d.rd])
    IN IF ~PpcReserve(c) THEN PpcThen(PpcCrPut(c, 0, PpcSo(c)), d)
       ELSE IF ea % d.size # 0 THEN PpcMisaligned(c, ea, TRUE)
       ELSE IF r.exc # PpcNoFault THEN PpcDataFault(r.c, TRUE, r.exc)
       ELSE PpcThen(PpcCrPut(r.c, 0, PpcCrEq + PpcSo(c)), d)
PpcStcx(c, d) ==
    LET ea == PpcEa(c, d)
        v  == c.reg[d.rd]
        r  == IF c.smp_live THEN PpcStcxSmp(c, ea, d.size, v) ELSE PpcStore(c, ea, d.size, v)
        e  == IF c.smp_live THEN r.c ELSE [r.c EXCEPT !.sh.resv[c.coreid].held = FALSE]
        eq == ~c.smp_live \/ r.val = 1
    IN IF ~PpcReserve(c) THEN PpcThen(PpcCrPut(c, 0, PpcSo(c)), d)
       ELSE IF ea % d.size # 0 THEN PpcMisaligned(c, ea, TRUE)
       ELSE IF r.exc # PpcNoFault THEN PpcDataFault(r.c, TRUE, r.exc)
       ELSE PpcThen(PpcCrPut(e, 0, (IF eq THEN PpcCrEq ELSE 0) + PpcSo(c)), d)
PpcDcbz(c, d) ==
    LET ea == PpcEa(c, d)
        Z(acc, k) == IF acc.exc # PpcNoFault THEN acc
                     ELSE PpcStore(acc.c, Add(PpcAlign(ea, PpcLine), 4 * k), 4, 0)
        r  == FoldLeft(Z, PpcGot(c, PpcNoFault, 0), [k \in 1..(PpcLine \div 4) |-> k - 1])
    IN IF "DCE" \notin c.l1csr0 THEN PpcMisaligned(c, ea, TRUE)
       ELSE IF r.exc # PpcNoFault THEN PpcDataFault(r.c, TRUE, r.exc)
       ELSE PpcThen(r.c, d)

------------------------------------------------------------------------------
\* Branches and the system.

PpcBranches == {"B", "BC", "BCLR", "BCCTR"}
PpcBranch(c, d) ==
    LET next == Add(c.pc, d.len)
        tgt  == CASE d.sem \in {"B", "BC"} -> Add(IF d.aa THEN 0 ELSE c.pc, d.imm)
                  [] d.sem = "BCLR" -> PpcTarget(c, c.reg[PpcLR])
                  [] OTHER          -> PpcTarget(c, c.reg[PpcCTR])
        t == IF d.sem = "B" THEN [c |-> c, taken |-> TRUE] ELSE PpcBoTaken(c, d.bo, d.bi)
        e == IF d.lk THEN [t.c EXCEPT !.reg[PpcLR] = next] ELSE t.c
    IN PpcDone([e EXCEPT !.pc = IF t.taken THEN tgt ELSE next])

\* The returns from interrupt.
PpcReturns == {"RFI", "RFCI", "RFDI", "RFMCI"}
PpcReturn(c, d) ==
    LET p == CASE d.sem = "RFI" -> PpcPairs[1] [] d.sem = "RFCI" -> PpcPairs[2]
               [] d.sem = "RFDI" -> PpcPairs[3] [] OTHER -> PpcPairs[4]
        e == PpcSetMsr(c, PpcFlagsOf(PpcMsrBits, c.spr[p[2]]))
    IN IF PpcUser(c) THEN PpcProgram(c, "PPR")
       ELSE PpcDone([e EXCEPT !.pc = PpcTarget(e, c.spr[p[1]])])

\* tw: any of the five comparisons its field names.
PpcTraps(to, a, b) ==
    LET holds == <<a > b, a < b, a = b, Signed(a) > Signed(b), Signed(a) < Signed(b)>>
    IN \E k \in 1..5 : Bit(to, k - 1) = 1 /\ holds[k]

PpcSystem == {"SC", "TW", "WAIT", "MFMSR", "MTMSR", "WRTEE", "MFSPR", "MTSPR", "NOP", "PRIV_NOP",
              "TLBRE", "TLBWE", "TLBSX", "TLBIVAX", "SPE", "PRIV_ILLEGAL", "ILLEGAL"}
PpcPrivileged == {"MFMSR", "MTMSR", "WRTEE", "PRIV_NOP", "TLBRE", "TLBWE", "TLBSX", "TLBIVAX"}
PpcSysStep(c, d) ==
    LET v  == c.reg[d.rd]
        rd == PpcSprRead(c, d.spr)
        wr == PpcSprWrite(c, d.spr, v)
        ee == IF d.immop THEN d.imm # 0 ELSE "EE" \in PpcFlagsOf(PpcMsrBits, v)
    IN IF d.sem \in PpcPrivileged /\ PpcUser(c) THEN PpcProgram(c, "PPR")
       ELSE CASE d.sem = "SC" -> PpcTrapped(PpcRaise(c, "SYSTEM_CALL", Add(c.pc, d.len), {}))
              [] d.sem = "TW" -> IF PpcTraps(d.rd, c.reg[d.ra], IF d.immop THEN d.imm ELSE c.reg[d.rb])
                                 THEN PpcProgram(c, "PTR") ELSE PpcThen(c, d)
              [] d.sem = "WAIT"  -> PpcThen([c EXCEPT !.state = "WFI"], d)
              [] d.sem = "MFMSR" -> PpcThen([c EXCEPT !.reg[d.rd] = PpcWordOf(PpcMsrBits, c.msr)], d)
              [] d.sem = "MTMSR" -> PpcThen(PpcSetMsr(c, PpcFlagsOf(PpcMsrBits, v)), d)
              [] d.sem = "WRTEE" -> PpcThen(PpcSetMsr(c, IF ee THEN c.msr \cup {"EE"} ELSE c.msr \ {"EE"}), d)
              [] d.sem = "MFSPR" -> IF rd.err # {} THEN PpcProgram(c, CHOOSE e \in rd.err : TRUE)
                                    ELSE PpcThen([rd.c EXCEPT !.reg[d.rd] = rd.val], d)
              [] d.sem = "MTSPR" -> IF wr.err # {} THEN PpcProgram(c, CHOOSE e \in wr.err : TRUE)
                                    ELSE PpcThen(wr.c, d)
              [] d.sem = "NOP"      -> PpcThen([c EXCEPT !.jit_flush = @ \/ d.icbi], d)
              [] d.sem = "PRIV_NOP" -> PpcThen(c, d)
              [] d.sem = "TLBRE"    -> PpcThen(PpcTlbre(c), d)
              [] d.sem = "TLBWE"    -> PpcThen(PpcTlbwe(c), d)
              [] d.sem = "TLBSX"    -> PpcThen(PpcTlbsx(c, PpcEa(c, d)), d)
              [] d.sem = "TLBIVAX"  -> PpcThen(PpcTlbivax(c, PpcEa(c, d), Bit(PpcEa(c, d), 2) = 1), d)
              [] d.sem = "SPE"      -> IF "SPE" \notin c.msr
                                       THEN PpcTrapped(PpcRaise(c, "SPE_UNAVAIL", c.pc, {"SPE"}))
                                       ELSE PpcProgram(c, "PIL")
              [] d.sem = "PRIV_ILLEGAL" -> PpcProgram(c, IF PpcUser(c) THEN "PPR" ELSE "PIL")
              [] OTHER -> PpcProgram(c, "PIL")

\* The floating-point group; sem is EFS and spr names the operation.
PpcEfsStep(c, d) ==
    LET f == EfsExec(c, d.spr, d.rd, d.ra, d.rb, d.crf)
    IN CASE f.exc = "FP_DATA"  -> PpcTrapped(PpcRaise(f.c, "FP_DATA", c.pc, {"SPE"}))
         [] f.exc = "FP_ROUND" -> PpcTrapped(PpcRaise(f.c, "FP_ROUND", Add(c.pc, d.len), {"SPE"}))
         [] OTHER -> PpcThen(f.c, d)

\* ppc_exec.
PpcExecute(c, d) ==
    CASE d.sem \in PpcAdds \cup PpcSubs -> PpcThen(PpcAddSub(c, d), d)
      [] d.sem \in PpcMulDivs -> PpcThen(PpcMulDiv(c, d), d)
      [] d.sem \in PpcImms    -> PpcThen(PpcImm(c, d), d)
      [] d.sem \in PpcLogics  -> PpcThen(PpcLogic(c, d), d)
      [] d.sem \in PpcShifts  -> PpcThen(PpcShift(c, d), d)
      [] d.sem \in PpcCmps    -> PpcThen(PpcCmp(c, d), d)
      [] d.sem \in PpcCrOps \cup PpcCrMoves -> PpcThen(PpcCrStep(c, d), d)
      [] d.sem = "LOAD"       -> PpcLoadStep(c, d)
      [] d.sem = "STORE"      -> PpcStoreStep(c, d)
      [] d.sem \in PpcMultis  -> PpcMulti(c, d)
      [] d.sem = "LARX"       -> PpcLarx(c, d)
      [] d.sem = "STCX"       -> PpcStcx(c, d)
      [] d.sem = "DCBZ"       -> PpcDcbz(c, d)
      [] d.sem \in PpcBranches -> PpcBranch(c, d)
      [] d.sem \in PpcReturns -> PpcReturn(c, d)
      [] d.sem = "EFS"        -> PpcEfsStep(c, d)
      [] OTHER                -> PpcSysStep(c, d)

\* One instruction of ppc_run.
PpcStep(c, d) == PpcExecute(c, d).c
==============================================================================
