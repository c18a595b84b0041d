-------------------------------- MODULE Words --------------------------------
(* The machine words of the emulator and the C operators on them.  The     *)
(* code works on uint32_t; every operator here is written for words of     *)
(* Bits bits, a multiple of four, so that a word still has four bytes and  *)
(* two halves, and every wrap, sign bit and shift count keeps its place.   *)
EXTENDS Integers, Sequences, FiniteSets

LOCAL B == INSTANCE Bitwise

CONSTANT Bits

Size     == 2 ^ Bits
Word     == 0 .. Size - 1
AllOnes  == Size - 1
SignBit  == Size \div 2
ByteBits == Bits \div 4
HalfBits == Bits \div 2
Byte     == 0 .. 2 ^ ByteBits - 1

Wrap(x)   == x % Size
Signed(x) == IF x >= SignBit THEN x - Size ELSE x
Bool(p)   == IF p THEN 1 ELSE 0
SignOf(x) == x >= SignBit

\* & | ^ ~ of C, tabulated once.
AndTable == [x \in Word |-> [y \in Word |-> B!&(x, y)]]
And(x, y) == AndTable[x][y]
Or(x, y)  == x + y - And(x, y)
Xor(x, y) == x + y - 2 * And(x, y)
Not(x)    == AllOnes - x

Add(x, y) == Wrap(x + y)
Sub(x, y) == Wrap(x - y)
Shl(x, k) == Wrap(x * 2 ^ k)
Shr(x, k) == x \div 2 ^ k
Sar(x, k) == Wrap(Signed(x) \div 2 ^ k)
Rotl(x, k) == Wrap(Shl(x, k) + Shr(x, Bits - k))
Count(x)  == x % Bits          \* the "& 31u" of a shift count

\* C division truncates towards zero.
Quotient(x, y) == LET q == (IF x < 0 THEN -x ELSE x) \div (IF y < 0 THEN -y ELSE y)
                  IN IF (x < 0) = (y < 0) THEN q ELSE -q
Remainder(x, y) == x - y * Quotient(x, y)

Bit(x, k)  == Shr(x, k) % 2
Clz(x)     == Cardinality({k \in 0 .. Bits - 1 : Shr(x, k) = 0})
Ctz(x)     == Cardinality({k \in 1 .. Bits : x % 2 ^ k = 0})
Popcnt(x)  == Cardinality({k \in 0 .. Bits - 1 : Bit(x, k) = 1})

\* The low n bits, as they are and sign-extended.
Low(x, n)  == x % 2 ^ n
Sext(x, n) == Wrap(IF Low(x, n) >= 2 ^ (n - 1) THEN Low(x, n) - 2 ^ n ELSE Low(x, n))

ByteOf(x, k)  == Low(Shr(x, k * ByteBits), ByteBits)
Bytes(b0, b1, b2, b3) ==
    b0 + b1 * 2 ^ ByteBits + b2 * 2 ^ (2 * ByteBits) + b3 * 2 ^ (3 * ByteBits)
SwapBytes(x)  == Bytes(ByteOf(x, 3), ByteOf(x, 2), ByteOf(x, 1), ByteOf(x, 0))
SwapInHalves(x) == Bytes(ByteOf(x, 1), ByteOf(x, 0), ByteOf(x, 3), ByteOf(x, 2))
SwapHalves(x) == Bytes(ByteOf(x, 2), ByteOf(x, 3), ByteOf(x, 0), ByteOf(x, 1))

-----------------------------------------------------------------------------
(* A loop of n steps over an accumulated value, in order and in reverse.   *)
(* The folds of the library choose each element from a set, too slow for   *)
(* whole blocks of code; LoopPart steps are made at a time, from a value   *)
(* already computed, so that the evaluation does not nest n deep.          *)
Given(x, Op(_)) == CHOOSE y \in {Op(z) : z \in {x}} : TRUE    \* Op(x), x computed first
LoopPart == 8
Loop(Op(_, _), base, n) ==
    LET Part(x, k) ==
          LET first == LoopPart * (k - 1)
              g[i \in 0 .. LoopPart] ==
                IF i = 0 THEN x ELSE IF first + i > n THEN g[i - 1] ELSE Op(g[i - 1], first + i)
          IN g[LoopPart]
        f[k \in 0 .. (n + LoopPart - 1) \div LoopPart] ==
          IF k = 0 THEN base ELSE LET Next(x) == Part(x, k) IN Given(f[k - 1], Next)
    IN f[(n + LoopPart - 1) \div LoopPart]
LoopDown(Op(_, _), base, n) == LET Rev(acc, i) == Op(acc, n + 1 - i) IN Loop(Rev, base, n)

------------------------------------------------------------------------------
(* The guest's memory map: regions, what an access to an address finds and *)
(* the order of bytes in memory (emu_bus.c without its caches, which       *)
(* EmuBus adds).  A map is a sequence of regions; memory is a function     *)
(* from addresses to bytes.                                                *)

Perms == {"R", "W", "X"}
Widths == {1, 2, 4}
NoRegion == [kind |-> "none"]

\* emu_region_t; the host memory of a region is named by its base.
Region(base, size, kind, perm, widths) ==
    [base |-> base, size |-> size, kind |-> kind, perm |-> perm, widths |-> widths]
RamRegion(base, size)  == Region(base, size, "RAM", Perms, Widths)
RomRegion(base, size)  == Region(base, size, "ROM", {"R", "X"}, Widths)
MmioRegion(base, size) == Region(base, size, "MMIO", {"R", "W"}, Widths)
PassthruRegion(base, size, perm, widths) == Region(base, size, "PASSTHRU", perm, widths)

InRegion(r, addr) == Sub(addr, r.base) < r.size

\* emu_bus_find.
Find(map, addr) ==
    IF \E i \in DOMAIN map : InRegion(map[i], addr)
    THEN map[CHOOSE i \in DOMAIN map : InRegion(map[i], addr)]
    ELSE NoRegion

\* check: the region an access may use.
CheckIn(r, addr, size, perm) ==
    /\ r # NoRegion
    /\ Sub(addr, r.base) <= r.size - size
    /\ perm \in r.perm
    /\ size \in r.widths
Check(map, addr, size, perm) ==
    LET r == Find(map, addr) IN IF CheckIn(r, addr, size, perm) THEN r ELSE NoRegion

\* emu_host_ld16, emu_host_ld32 and their stores: a value in memory, the low
\* byte first.
LoadLe(mem, addr, size) ==
    LET At(k) == IF k < size THEN mem[Add(addr, k)] ELSE 0
    IN Bytes(At(0), At(1), At(2), At(3))
StoreLe(mem, addr, size, val) ==
    [x \in DOMAIN mem |-> LET k == Sub(x, addr) IN IF k < size THEN ByteOf(val, k) ELSE mem[x]]

\* emu_bswap and EMU_BUS_ORDER.
SwapOf(val, size) ==
    CASE size = 1 -> val [] size = 2 -> Low(SwapInHalves(val), HalfBits) [] OTHER -> SwapBytes(val)
Order(big, val, size) == IF big THEN SwapOf(val, size) ELSE val

\* emu_bus_read, emu_bus_write and emu_bus_fetch16 of memory as the map says
\* it, whatever is cached; devices are not memory.
HasMemory(r) == r.kind \in {"RAM", "ROM", "PASSTHRU"}
Readable(map, addr, size) == HasMemory(Check(map, addr, size, "R"))
Writable(map, addr, size) == Check(map, addr, size, "W").kind \in {"RAM", "PASSTHRU"}
Fetchable(map, addr) == HasMemory(Check(map, addr, 2, "X"))

------------------------------------------------------------------------------
(* Floating-point words: a sign, an exponent and a fraction of half the    *)
(* word.  What the emulator itself decides from the bits (NaNs, infinities, *)
(* zeros, signs, order) is computed; what an arithmetic library or the     *)
(* host's unit computes is a value that depends on the operation, its      *)
(* rounding and its operands, and on nothing else.                         *)

QuietBit     == 2 ^ (HalfBits - 1)
ExpMask      == SignBit - 2 ^ HalfBits
CanonicalNaN == ExpMask + QuietBit

Mag(x)    == x % SignBit
IsNaN(x)  == Mag(x) > ExpMask
IsSNaN(x) == IsNaN(x) /\ And(x, QuietBit) = 0
IsInf(x)  == Mag(x) = ExpMask
IsZero(x) == Mag(x) = 0
FOrd(x)   == IF SignOf(x) THEN -Mag(x) ELSE Mag(x)
Negate(x) == Xor(x, SignBit)

\* The class of a number: the bit FCLASS sets.
FClass(x) ==
    CASE IsInf(x)  -> IF SignOf(x) THEN 0 ELSE 7
      [] IsNaN(x)  -> IF IsSNaN(x) THEN 8 ELSE 9
      [] IsZero(x) -> IF SignOf(x) THEN 3 ELSE 4
      [] Mag(x) < 2 ^ HalfBits -> IF SignOf(x) THEN 2 ELSE 5
      [] OTHER     -> IF SignOf(x) THEN 1 ELSE 6

\* Sign injection: the sign of y, its opposite, or the product's.
FSgnj(how, x, y) ==
    LET neg == CASE how = "N" -> ~SignOf(y) [] how = "X" -> SignOf(x) # SignOf(y) [] OTHER -> SignOf(y)
    IN Mag(x) + IF neg THEN SignBit ELSE 0

\* An arithmetic result.  NaN operands give the canonical NaN.
FpNames == <<"FADD", "FSUB", "FMUL", "FDIV", "FSQRT", "FMA", "I2F", "U2F", "F2I", "F2U", "CVT">>
FpNumber == [op \in {FpNames[i] : i \in DOMAIN FpNames} |-> CHOOSE i \in DOMAIN FpNames : FpNames[i] = op]
Some(op, rm, x, y, z) == Wrap(3 * x + 5 * y + 9 * z + 7 * rm + 11 * FpNumber[op])
FpArith(op, rm, x, y, z) ==
    LET r == Some(op, rm, x, y, z) IN
    IF IsNaN(x) \/ IsNaN(y) \/ IsNaN(z) \/ IsNaN(r) THEN CanonicalNaN ELSE r
FpToInt(signed, rm, x) ==
    IF IsNaN(x) THEN IF signed THEN SignBit - 1 ELSE AllOnes
    ELSE Some(IF signed THEN "F2I" ELSE "F2U", rm, x, 0, 0)
FpFromInt(signed, rm, x) ==
    LET r == Some(IF signed THEN "I2F" ELSE "U2F", rm, x, 0, 0) IN IF IsNaN(r) THEN 0 ELSE r
FpMin(x, y) == IF FOrd(x) = FOrd(y) THEN Or(x, y) ELSE IF FOrd(x) < FOrd(y) THEN x ELSE y
FpMax(x, y) == IF FOrd(x) = FOrd(y) THEN And(x, y) ELSE IF FOrd(x) > FOrd(y) THEN x ELSE y
NaNOr(Op(_, _), x, y) ==
    CASE IsNaN(x) /\ IsNaN(y) -> CanonicalNaN [] IsNaN(x) -> y [] IsNaN(y) -> x [] OTHER -> Op(x, y)
FpCompare(cond, x, y) ==
    /\ ~IsNaN(x) /\ ~IsNaN(y)
    /\ CASE cond = "EQ" -> FOrd(x) = FOrd(y) [] cond = "LT" -> FOrd(x) < FOrd(y) [] OTHER -> FOrd(x) <= FOrd(y)
==============================================================================
