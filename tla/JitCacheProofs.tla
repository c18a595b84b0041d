--------------------------- MODULE JitCacheProofs ---------------------------
(***************************************************************************)
(* What JitCache's runs check on a small instance, for every guest, every  *)
(* buffer and every table: an inductive invariant, that every step keeps   *)
(* it, and the safety properties it implies.                               *)
(*                                                                         *)
(* The invariant has four parts.  Control says what emu_jit_run's position *)
(* implies: above all that the block it runs is a live block of the table, *)
(* and that `prev` is live and in the guest's context unless an exception  *)
(* has just moved the guest.  TableInv is what the tables and the buffer   *)
(* satisfy whenever compact() is not at work, CompactInv what they satisfy *)
(* while it is, with the entries it has moved and those it has still to    *)
(* move in the place of the live ones.                                     *)
(***************************************************************************)
EXTENDS JitCache, TLAPS

\* No static exit leads to where an exception leads.
VectorsApart == \A pc \in Pcs, k \in Exits : Target[pc][k] \notin Vectors

\* Entry i of the table: its body is there, whole, and open.
Whole(i) ==
    /\ blocks[i].code \in Addr
    /\ AlignUp(blocks[i].code) = blocks[i].code
    /\ BodyOf(i) # Junk
    /\ BodyOf(i).pc = blocks[i].pc
    /\ BodyOf(i).ctx = blocks[i].ctx
    /\ BodyOf(i).open
    /\ BodyOf(i).old => genMoved

End(i) == blocks[i].code + Len[blocks[i].pc]
SameKey(i, j) == blocks[i].pc = blocks[j].pc /\ blocks[i].ctx = blocks[j].ctx

\* Where exit k of entry i leads when it is chained.
LinkTo(i, k) == blocks[i].code + BodyOf(i).disp[k]
LinkOk(i, k) ==
    /\ LinkTo(i, k) \in Addr
    /\ mem[LinkTo(i, k)] # Junk
    /\ LinkTo(i, k) + Len[mem[LinkTo(i, k)].pc] <= used
    /\ mem[LinkTo(i, k)].pc = Target[blocks[i].pc][k]
    /\ mem[LinkTo(i, k)].pc \in Chainable
    /\ mem[LinkTo(i, k)].ctx = blocks[i].ctx
    /\ mem[LinkTo(i, k)].open =>
         \E j \in Index : Live(j) /\ blocks[j].code = LinkTo(i, k)

TWhole  == \A i \in Index : Live(i) => Whole(i) /\ End(i) <= used
TOrder  == \A i, j \in Index : (Live(i) /\ Live(j) /\ i < j) => End(i) <= blocks[j].code
TKeys   == \A i, j \in Index : (Live(i) /\ Live(j) /\ SameKey(i, j)) => i = j
THash   == \A i \in Index, h \in Buckets :
              i \in hash[h] <=> Live(i) /\ h = Bucket[blocks[i].pc][blocks[i].ctx]
TPages  == \A i \in Index : Live(i) =>
              /\ i \in phash[PageBucket(PageLo[blocks[i].pc])]
              /\ Span(blocks[i].pc) <= maxSpan
TLinks  == \A i \in Index : Live(i) =>
              /\ blocks[i].linked = BodyOf(i).on
              /\ \A k \in BodyOf(i).on : LinkOk(i, k)
TableInv == TWhole /\ TOrder /\ TKeys /\ THash /\ TPages /\ TLinks

\* What compact() has moved, and what it has still to move.
Moved(i)   == i < kept
ToMove(i)  == ci <= i /\ i < count /\ i \in keep
Stays(i)   == Moved(i) \/ ToMove(i)

CBounds == kept <= ci /\ ci <= count
CWhole  == \A i \in Index : Stays(i) =>
              /\ Whole(i)
              /\ blocks[i].linked = {} /\ BodyOf(i).on = {}
CPlace  == \A i \in Index : /\ Moved(i) => End(i) <= dst
                            /\ ToMove(i) => AlignUp(dst) <= blocks[i].code
COrder  == \A i, j \in Index : (Stays(i) /\ Stays(j) /\ i < j) => End(i) <= blocks[j].code
CKeys   == \A i, j \in Index : (Stays(i) /\ Stays(j) /\ SameKey(i, j)) => i = j
CMissed == \A i \in Index : Stays(i) => blocks[i].pc # gpc \/ blocks[i].ctx # gctx
CompactInv == CBounds /\ CWhole /\ CPlace /\ COrder /\ CKeys /\ CMissed

Control ==
    /\ prev # None =>
         /\ phase \in {"top", "find", "run"}
         /\ Live(prev)
         /\ blocks[prev].ctx = gctx \/ (gpc \in Vectors /\ phase # "run")
    /\ phase = "run" =>
         \E j \in Index : /\ Live(j) /\ blocks[j].code = at
                          /\ blocks[j].pc = gpc /\ blocks[j].ctx = gctx
    /\ phase = "run" => prev # None
    /\ phase \in {"second", "last"} =>
         \A i \in Index : Live(i) => blocks[i].pc # gpc \/ blocks[i].ctx # gctx
    /\ phase = "last" => count = 0 /\ used = 0
    /\ ~haveGen => phase \in {"out", "top"} /\ count = 0
    /\ genMoved => phase \in {"out", "top", "run"}

IndInv == /\ TypeOK
          /\ Control
          /\ phase # "compact" => TableInv
          /\ phase = "compact" => CompactInv

-----------------------------------------------------------------------------
(* Operators. *)

\* The cursor's alignment (translate_once, compact) only moves it forward, and
\* never past an aligned address that is not behind it.
LEMMA AlignFacts ==
    ASSUME NEW n \in Nat
    PROVE  /\ AlignUp(n) \in Nat
           /\ n <= AlignUp(n)
           /\ AlignUp(AlignUp(n)) = AlignUp(n)
<1>1. CASE CodeAlign = 1 BY <1>1 DEF AlignUp
<1>2. CASE CodeAlign = 2 BY <1>2 DEF AlignUp
<1>3. CASE CodeAlign = 4 BY <1>3 DEF AlignUp
<1> QED BY <1>1, <1>2, <1>3, SizeAssumption, Zenon

LEMMA AlignMono ==
    ASSUME NEW n \in Nat, NEW m \in Nat, n <= m
    PROVE  AlignUp(n) <= AlignUp(m)
<1>1. CASE CodeAlign = 1 BY <1>1 DEF AlignUp
<1>2. CASE CodeAlign = 2 BY <1>2 DEF AlignUp
<1>3. CASE CodeAlign = 4 BY <1>3 DEF AlignUp
<1> QED BY <1>1, <1>2, <1>3, SizeAssumption, Zenon

\* Code written at a leaves the bodies before it and behind it alone.
LEMMA WriteKeeps ==
    ASSUME NEW m \in [Addr -> Body \cup {Junk}], NEW a \in Addr,
           NEW n \in Nat \ {0}, NEW b \in Body
    PROVE  /\ WriteCode(m, a, n, b) \in [Addr -> Body \cup {Junk}]
           /\ WriteCode(m, a, n, b)[a] = b
           /\ \A x \in Addr :
                (m[x] # Junk /\ (x + Len[m[x].pc] <= a \/ a + n <= x))
                    => WriteCode(m, a, n, b)[x] = m[x]
<1> DEFINE W == WriteCode(m, a, n, b)
<1>1. W = [x \in Addr |-> IF x = a THEN b
                         ELSE IF Overwrites(m, x, a, n) THEN Junk ELSE m[x]]
  BY Zenon DEF WriteCode
<1>2. W \in [Addr -> Body \cup {Junk}] /\ W[a] = b
  BY <1>1, Zenon
<1>3. ASSUME NEW x \in Addr, m[x] # Junk, x + Len[m[x].pc] <= a \/ a + n <= x
      PROVE  W[x] = m[x]
  <2>1. m[x].pc \in Pcs /\ Len[m[x].pc] \in Nat \ {0}
    BY <1>3, LenAssumption, Zenon DEF Body
  <2>2. x \in Int /\ a \in Int
    BY DEF Addr
  <2>3. x # a /\ ~Overwrites(m, x, a, n)
    BY <1>3, <2>1, <2>2 DEF Overwrites
  <2> QED BY <1>1, <2>3, Zenon
<1> HIDE DEF W
<1> QED BY <1>2, <1>3, Zenon DEF W

-----------------------------------------------------------------------------
(* What changes the tables keeps TableInv. *)

TableType ==
    /\ blocks \in [Index -> Block]
    /\ count \in 0..MaxBlocks
    /\ mem \in [Addr -> Body \cup {Junk}]
    /\ used \in Nat
    /\ hash \in [Buckets -> SUBSET Index]
    /\ phash \in [0..PageBuckets - 1 -> SUBSET Index]
    /\ maxSpan \in Nat

LEMMA EmptyType == EmptyBlock \in Block
<1>1. (CHOOSE pc \in Pcs : TRUE) \in Pcs /\ (CHOOSE c \in Contexts : TRUE) \in Contexts
  BY GuestAssumption, Zenon
<1> QED BY <1>1, Zenon DEF EmptyBlock, Block

LEMMA FlushTable ==
    ASSUME EmuJitFlush
    PROVE  TableType' /\ TableInv' /\ count' = 0 /\ used' = 0
<1>1. TableType'
  BY EmptyType, SizeAssumption DEF EmuJitFlush, TableType
<1>2. count' = 0 /\ used' = 0 /\ \A i \in Index : ~Live(i)'
  BY DEF EmuJitFlush, Live, Index
<1>3. hash' = [h \in Buckets |-> {}]
  BY Zenon DEF EmuJitFlush
<1>4. THash'
  BY <1>2, <1>3, Zenon DEF THash
<1>5. TWhole' /\ TOrder' /\ TKeys' /\ TPages' /\ TLinks'
  BY <1>2, Zenon DEF TWhole, TOrder, TKeys, TPages, TLinks
<1> QED BY <1>1, <1>2, <1>4, <1>5, Zenon DEF TableInv

\* Two live blocks have different code: their bodies are apart.
LEMMA CodeApart ==
    ASSUME TableType, TableInv, NEW i \in Index, NEW j \in Index,
           Live(i), Live(j), blocks[i].code = blocks[j].code
    PROVE  i = j
<1>1. blocks[i].code \in Addr /\ blocks[j].code \in Addr
  BY Zenon DEF TableInv, TWhole, Whole
<1>2. Len[blocks[i].pc] \in Nat \ {0} /\ Len[blocks[j].pc] \in Nat \ {0}
  BY LenAssumption, Zenon DEF TableType, Block
<1>3. i < j => End(i) <= blocks[j].code
  BY Zenon DEF TableInv, TOrder
<1>4. j < i => End(j) <= blocks[i].code
  BY Zenon DEF TableInv, TOrder
<1> QED BY <1>1, <1>2, <1>3, <1>4 DEF End, Addr, Index

LEMMA UnlinkTable ==
    ASSUME TableType, TableInv, UnlinkAll, genMoved' = genMoved
    PROVE  /\ TableType' /\ TableInv'
           /\ \A i \in Index : /\ Live(i)' <=> Live(i)
                               /\ blocks'[i].pc = blocks[i].pc
                               /\ blocks'[i].ctx = blocks[i].ctx
                               /\ blocks'[i].code = blocks[i].code
           /\ \A i \in Index : Live(i) =>
                 blocks'[i].linked = {} /\ BodyOf(i)'.on = {}
<1>1. /\ mem' = [x \in Addr |-> IF mem[x] = Junk THEN Junk
                               ELSE Unpatched(mem[x], LinkedAt(x))]
      /\ blocks' = [i \in Index |->
                    IF Live(i)
                    THEN [blocks[i] EXCEPT !.linked = {}]
                    ELSE blocks[i]]
      /\ UNCHANGED <<count, used, hash, phash, maxSpan>>
  BY Zenon DEF UnlinkAll
<1>2. ASSUME NEW i \in Index
      PROVE  /\ blocks'[i] \in Block
             /\ blocks'[i].pc = blocks[i].pc
             /\ blocks'[i].ctx = blocks[i].ctx
             /\ blocks'[i].code = blocks[i].code
             /\ Live(i) => blocks'[i].linked = {}
  <2>1. blocks[i] \in Block
    BY Zenon DEF TableType
  <2>2. CASE Live(i)
    <3>1. blocks'[i] = [blocks[i] EXCEPT !.linked = {}]
      BY <1>1, <2>2, Zenon
    <3> QED BY <2>1, <3>1, Zenon DEF Block
  <2>3. CASE ~Live(i)
    BY <1>1, <2>1, <2>3, Zenon
  <2> QED BY <2>2, <2>3, Zenon
<1>3. ASSUME NEW x \in Addr, mem[x] # Junk
      PROVE  /\ mem'[x] = Unpatched(mem[x], LinkedAt(x))
             /\ mem'[x] \in Body
             /\ mem'[x] # Junk
             /\ mem'[x].pc = mem[x].pc /\ mem'[x].ctx = mem[x].ctx
             /\ mem'[x].open <=> mem[x].open
             /\ mem'[x].old <=> mem[x].old
  <2>1. mem[x] \in Body
    BY <1>3, Zenon DEF TableType
  <2>2. mem'[x] = Unpatched(mem[x], LinkedAt(x))
    BY <1>1, <1>3, Zenon
  <2>3. Unpatched(mem[x], LinkedAt(x)) \in Body
    BY <2>1 DEF Unpatched, Body
  <2>4. mem'[x].pc = mem[x].pc /\ mem'[x].ctx = mem[x].ctx
    BY <2>2 DEF Unpatched
  <2>5. (mem'[x].open <=> mem[x].open) /\ (mem'[x].old <=> mem[x].old)
    BY <2>1, <2>2 DEF Unpatched, Body
  <2> QED BY <2>2, <2>3, <2>4, <2>5, JunkAssumption, Zenon
<1>4. blocks' \in [Index -> Block]
  BY <1>1, <1>2, Zenon
<1>5. mem' \in [Addr -> Body \cup {Junk}]
  BY <1>1, <1>3, Zenon
<1>6. TableType'
  BY <1>1, <1>4, <1>5, Zenon DEF TableType
<1>7. \A i \in Index : Live(i)' <=> Live(i)
  BY <1>1, <1>2, Zenon DEF Live
<1>8. ASSUME NEW i \in Index, Live(i)
      PROVE  /\ Whole(i)' /\ End(i)' <= used'
             /\ BodyOf(i)'.on = {}
  <2>1. Whole(i) /\ End(i) <= used
    BY <1>8, Zenon DEF TableInv, TWhole
  <2> DEFINE x == blocks[i].code
  <2>2. x \in Addr /\ mem[x] # Junk
    BY <2>1, Zenon DEF Whole, BodyOf
  <2>3. BodyOf(i)' = mem'[x]
    BY <1>2, Zenon DEF BodyOf
  <2>4. Whole(i)'
    BY <1>2, <1>3, <2>1, <2>2, <2>3 DEF Whole, BodyOf, AlignUp
  <2>5. BodyOf(i)'.on = {}
    <3>1. blocks[i].linked = mem[x].on
      BY <1>8, Zenon DEF TableInv, TLinks, BodyOf
    <3>2. mem[x].on \subseteq LinkedAt(x)
      <4>1. mem[x].on \subseteq Exits
        BY <2>2, Zenon DEF TableType, Body
      <4> QED BY <1>8, <3>1, <4>1, Zenon DEF LinkedAt
    <3>3. mem'[x].on = mem[x].on \ LinkedAt(x)
      <4>1. mem'[x] = Unpatched(mem[x], LinkedAt(x))
        BY <1>3, <2>2, Zenon
      <4> QED BY <4>1 DEF Unpatched
    <3> QED BY <2>3, <3>2, <3>3, Zenon
  <2> QED BY <1>1, <1>2, <2>1, <2>4, <2>5, Zenon DEF End
<1>9. TWhole'
  BY <1>7, <1>8, Zenon DEF TWhole
<1>10. TOrder' /\ TKeys' /\ THash' /\ TPages'
  <2>1. TOrder' BY <1>2, <1>7, Zenon DEF TableInv, TOrder, End
  <2>2. TKeys' BY <1>2, <1>7 DEF TableInv, TKeys, SameKey
  <2>3. THash'
    <3>1. ASSUME NEW i \in Index, NEW h \in Buckets
          PROVE  i \in hash'[h] <=> Live(i)' /\ h = Bucket[blocks'[i].pc][blocks'[i].ctx]
      BY <1>1, <1>2, <1>7 DEF TableInv, THash
    <3> QED BY <3>1, Zenon DEF THash
  <2>4. TPages' BY <1>1, <1>2, <1>7, Zenon DEF TableInv, TPages
  <2> QED BY <2>1, <2>2, <2>3, <2>4, Zenon
<1>11. TLinks'
  BY <1>2, <1>7, <1>8, Zenon DEF TLinks
<1> QED BY <1>2, <1>6, <1>7, <1>8, <1>9, <1>10, <1>11, Zenon DEF TableInv

\* A step that leaves the tables alone keeps it.
LEMMA TableStutter ==
    ASSUME TableInv, UNCHANGED <<blocks, count, mem, used, hash, phash, maxSpan, genMoved>>
    PROVE  TableInv'
<1>1. \A i \in Index : Live(i)' <=> Live(i)
  BY Zenon DEF Live
<1>2. TWhole'
  BY <1>1, Zenon DEF TableInv, TWhole, Whole, BodyOf, End, AlignUp
<1>3. TOrder' /\ TKeys' /\ THash' /\ TPages'
  BY <1>1, Zenon DEF TableInv, TOrder, TKeys, THash, TPages, End, SameKey
<1>4. TLinks'
  <2>1. ASSUME NEW i \in Index, NEW k \in BodyOf(i).on, LinkOk(i, k)
        PROVE  LinkOk(i, k)'
    <3>1. LinkTo(i, k)' = LinkTo(i, k)
      BY Zenon DEF LinkTo, BodyOf
    <3> QED BY <1>1, <2>1, <3>1, Zenon DEF LinkOk
  <2>2. \A i \in Index : BodyOf(i)' = BodyOf(i)
    BY Zenon DEF BodyOf
  <2> QED BY <1>1, <2>1, <2>2, Zenon DEF TableInv, TLinks
<1> QED BY <1>2, <1>3, <1>4, Zenon DEF TableInv

\* link_exit: the exit it patches leads to the live block it was given.
LEMMA LinkTable ==
    ASSUME VectorsApart, TableType, TableInv, NEW to \in Index, Live(to),
           prev \in Index \cup {None},
           prev # None => /\ Live(prev)
                          /\ blocks[prev].ctx = blocks[to].ctx \/ blocks[to].pc \in Vectors,
           LinkExit(to), UNCHANGED <<count, used, hash, phash, maxSpan, genMoved>>
    PROVE  /\ TableType' /\ TableInv'
           /\ \A i \in Index : /\ Live(i)' <=> Live(i)
                               /\ blocks'[i].pc = blocks[i].pc
                               /\ blocks'[i].ctx = blocks[i].ctx
                               /\ blocks'[i].code = blocks[i].code
<1>1. CASE UNCHANGED <<blocks, mem>>
  BY <1>1, TableStutter, Zenon DEF Live, TableType
<1>2. ASSUME NEW k \in Exits, Linkable(to, k),
             blocks' = [blocks EXCEPT ![prev].linked = @ \cup {k}],
             mem' = [mem EXCEPT ![blocks[prev].code] =
                        Patched(mem[blocks[prev].code], k,
                                blocks[to].code - blocks[prev].code)]
      PROVE  /\ TableType' /\ TableInv'
             /\ \A i \in Index : /\ Live(i)' <=> Live(i)
                                 /\ blocks'[i].pc = blocks[i].pc
                                 /\ blocks'[i].ctx = blocks[i].ctx
                                 /\ blocks'[i].code = blocks[i].code
  <2> DEFINE from == blocks[prev].code
             d == blocks[to].code - from
  <2>1. /\ prev \in Index /\ Live(prev) /\ blocks[to].pc \in Chainable
        /\ Target[blocks[prev].pc][k] = blocks[to].pc
    BY <1>2, Zenon DEF Linkable
  <2>2. blocks[prev].pc \in Pcs /\ blocks[to].pc \in Pcs
    BY <2>1, Zenon DEF TableType, Block
  <2>3. blocks[prev].ctx = blocks[to].ctx
    BY <1>2, <2>1, <2>2, Zenon DEF Linkable, VectorsApart
  <2>4. /\ from \in Addr /\ mem[from] # Junk /\ mem[from] \in Body
        /\ blocks[to].code \in Addr /\ mem[blocks[to].code] # Junk
        /\ mem[blocks[to].code] \in Body
        /\ d \in Int
    BY <2>1 DEF TableInv, TWhole, Whole, BodyOf, TableType, Addr
  <2>5. /\ mem'[from] = Patched(mem[from], k, d)
        /\ \A x \in Addr : x # from => mem'[x] = mem[x]
    BY <1>2, <2>4, Zenon DEF TableType
  <2>6. /\ Patched(mem[from], k, d) \in Body
        /\ Patched(mem[from], k, d).pc = mem[from].pc
        /\ Patched(mem[from], k, d).ctx = mem[from].ctx
        /\ Patched(mem[from], k, d).on = mem[from].on \cup {k}
        /\ Patched(mem[from], k, d).disp = [mem[from].disp EXCEPT ![k] = d]
        /\ Patched(mem[from], k, d).open <=> mem[from].open
        /\ Patched(mem[from], k, d).old <=> mem[from].old
    BY <2>4, Zenon DEF Patched, Body
  <2> HIDE DEF d
  <2>7. ASSUME NEW x \in Addr
        PROVE  /\ mem'[x] \in Body \cup {Junk}
               /\ mem'[x] = Junk <=> mem[x] = Junk
               /\ mem[x] # Junk => /\ mem'[x].pc = mem[x].pc /\ mem'[x].ctx = mem[x].ctx
                                   /\ mem'[x].open <=> mem[x].open
                                   /\ mem'[x].old <=> mem[x].old
    <3>1. CASE x = from
      BY <2>4, <2>5, <2>6, <3>1, JunkAssumption, Zenon
    <3>2. CASE x # from
      BY <2>5, <3>2, Zenon DEF TableType
    <3> QED BY <3>1, <3>2, Zenon
  <2>8. ASSUME NEW i \in Index
        PROVE  /\ blocks'[i] \in Block
               /\ blocks'[i].pc = blocks[i].pc
               /\ blocks'[i].ctx = blocks[i].ctx
               /\ blocks'[i].code = blocks[i].code
               /\ i # prev => blocks'[i] = blocks[i]
               /\ i = prev => blocks'[i].linked = blocks[i].linked \cup {k}
    <3>1. blocks[i] \in Block
      BY Zenon DEF TableType
    <3>2. CASE i = prev
      <4>1. blocks'[i] = [blocks[i] EXCEPT !.linked = @ \cup {k}]
        BY <1>2, <3>2, Zenon DEF TableType
      <4> QED BY <3>1, <3>2, <4>1 DEF Block
    <3>3. CASE i # prev
      BY <1>2, <3>1, <3>3, Zenon DEF TableType
    <3> QED BY <3>2, <3>3, Zenon
  <2>9. \A i \in Index : Live(i)' <=> Live(i)
    BY <2>8, Zenon DEF Live
  <2>10. TableType'
    <3>1. blocks' \in [Index -> Block]
      BY <1>2, <2>8, Zenon DEF TableType
    <3>2. mem' \in [Addr -> Body \cup {Junk}]
      BY <1>2, <2>7, Zenon DEF TableType
    <3> QED BY <3>1, <3>2, Zenon DEF TableType
  <2>11. TWhole'
    <3>1. ASSUME NEW i \in Index, Live(i)
          PROVE  Whole(i)' /\ End(i)' <= used'
      <4>1. Whole(i) /\ End(i) <= used
        BY <3>1, Zenon DEF TableInv, TWhole
      <4>2. BodyOf(i)' = mem'[blocks[i].code]
        BY <2>8, Zenon DEF BodyOf
      <4>3. Whole(i)'
        BY <2>7, <2>8, <4>1, <4>2 DEF Whole, BodyOf, AlignUp
      <4> QED BY <2>8, <4>1, <4>3, Zenon DEF End
    <3> QED BY <2>9, <3>1, Zenon DEF TWhole
  <2>12. TOrder' /\ TKeys'
    BY <2>8, <2>9 DEF TableInv, TOrder, TKeys, End, SameKey
  <2>13. THash' /\ TPages'
    BY <2>8, <2>9 DEF TableInv, THash, TPages
  <2>14. TLinks'
    <3>1. ASSUME NEW i \in Index, Live(i)
          PROVE  /\ blocks'[i].linked = BodyOf(i)'.on
                 /\ \A e \in BodyOf(i)'.on : LinkOk(i, e)'
      <4>1. /\ blocks[i].linked = BodyOf(i).on
            /\ \A e \in BodyOf(i).on : LinkOk(i, e)
            /\ blocks[i].code \in Addr
        BY <3>1, Zenon DEF TableInv, TLinks, TWhole, Whole
      <4>2. BodyOf(i)' = mem'[blocks[i].code] /\ BodyOf(i) = mem[blocks[i].code]
        BY <2>8, Zenon DEF BodyOf
      <4>3. ASSUME NEW e \in Exits, LinkOk(i, e), BodyOf(i)'.disp[e] = BodyOf(i).disp[e]
            PROVE  LinkOk(i, e)'
        <5>1. LinkTo(i, e)' = LinkTo(i, e)
          BY <2>8, <4>3, Zenon DEF LinkTo
        <5> DEFINE y == LinkTo(i, e)
        <5>2. y \in Addr /\ mem[y] # Junk
          BY <4>3, Zenon DEF LinkOk
        <5>3. /\ mem'[y] # Junk /\ mem'[y].pc = mem[y].pc /\ mem'[y].ctx = mem[y].ctx
              /\ mem'[y].open <=> mem[y].open
          BY <2>7, <5>2, Zenon
        <5> HIDE DEF y
        <5>4. mem'[y].open => \E j \in Index : Live(j)' /\ blocks'[j].code = y
          BY <2>8, <2>9, <4>3, <5>3 DEF LinkOk, y
        <5> QED BY <2>8, <4>3, <5>1, <5>2, <5>3, <5>4 DEF LinkOk, y
      <4>4. CASE i # prev
        <5>1. blocks[i].code # from
          BY <2>1, <3>1, <4>4, CodeApart, Zenon
        <5>2. BodyOf(i)' = BodyOf(i)
          BY <2>5, <4>1, <4>2, <5>1, Zenon
        <5>3. BodyOf(i).on \subseteq Exits
          BY <4>1, Zenon DEF TableType, Block
        <5> QED BY <2>8, <4>1, <4>3, <4>4, <5>2, <5>3, Zenon
      <4>5. CASE i = prev
        <5>1. BodyOf(i)' = Patched(mem[from], k, d) /\ BodyOf(i) = mem[from]
          BY <2>5, <4>2, <4>5, Zenon
        <5>2. blocks'[i].linked = BodyOf(i)'.on
          <6>1. BodyOf(i)'.on = BodyOf(i).on \cup {k}
            BY <2>6, <5>1, ZenonT(40)
          <6> QED BY <2>8, <4>1, <4>5, <6>1, Zenon
        <5>3. BodyOf(i)'.disp[k] = d /\ \A e \in Exits \ {k} : BodyOf(i)'.disp[e] = BodyOf(i).disp[e]
          BY <2>4, <2>6, <5>1, ZenonT(40) DEF Body
        <5>4. ASSUME NEW e \in BodyOf(i).on, e # k
              PROVE  LinkOk(i, e)'
          <6>1. e \in Exits
            BY <4>1, Zenon DEF TableType, Block
          <6> QED BY <4>1, <4>3, <5>3, <5>4, <6>1, Zenon
        <5>5. LinkOk(i, k)'
          <6>1. LinkTo(i, k)' = blocks[to].code
            BY <2>4, <2>8, <4>5, <5>3 DEF LinkTo, d, Addr
          <6> DEFINE y == blocks[to].code
          <6>2. Whole(to) /\ End(to) <= used
            BY Zenon DEF TableInv, TWhole
          <6>3. /\ mem[y].pc = blocks[to].pc /\ mem[y].ctx = blocks[to].ctx
            BY <6>2, Zenon DEF Whole, BodyOf
          <6>4. mem'[y] # Junk /\ mem'[y].pc = blocks[to].pc /\ mem'[y].ctx = blocks[to].ctx
            BY <2>4, <2>7, <6>3, Zenon
          <6>5. Live(to)' /\ blocks'[to].code = y
            BY <2>8, <2>9, Zenon
          <6>6. y + Len[mem'[y].pc] <= used'
            BY <6>2, <6>4, Zenon DEF End
          <6>7. blocks'[i].pc = blocks[prev].pc /\ blocks'[i].ctx = blocks[to].ctx
            BY <2>3, <2>8, <4>5, Zenon
          <6> HIDE DEF y
          <6> QED BY <2>1, <2>4, <6>1, <6>4, <6>5, <6>6, <6>7, Zenon DEF LinkOk, y
        <5> QED BY <2>6, <5>1, <5>2, <5>4, <5>5, Zenon
      <4> QED BY <4>4, <4>5, Zenon
    <3> QED BY <2>9, <3>1, Zenon DEF TLinks
  <2> QED BY <2>8, <2>9, <2>10, <2>11, <2>12, <2>13, <2>14, Zenon DEF TableInv
<1> QED BY <1>1, <1>2, Zenon DEF LinkExit

\* translate_once: the new block goes after everything in use, under a key no
\* live block has.
LEMMA BuildTable ==
    ASSUME TableType, TableInv, gpc \in Pcs, gctx \in Contexts,
           NEW n \in Index, n = count, Build, genMoved' = genMoved,
           \A i \in Index : Live(i) => blocks[i].pc # gpc \/ blocks[i].ctx # gctx
    PROVE  /\ TableType' /\ TableInv'
           /\ Live(n)'
           /\ blocks'[n].pc = gpc /\ blocks'[n].ctx = gctx
           /\ blocks'[n].code = AlignUp(used)
<1> DEFINE a == AlignUp(used)
           b == [pc |-> gpc, ctx |-> gctx, code |-> a, linked |-> {}]
<1>1. /\ a + Len[gpc] <= CodeSize
      /\ blocks' = [blocks EXCEPT ![n] = b]
      /\ count' = n + 1
      /\ mem' = WriteCode(mem, a, Len[gpc], NewBody(gpc, gctx))
      /\ used' = a + Len[gpc]
      /\ hash' = [hash EXCEPT ![Bucket[gpc][gctx]] = @ \cup {n}]
      /\ phash' = [phash EXCEPT ![PageBucket(PageLo[gpc])] = @ \cup {n}]
      /\ maxSpan' = IF Span(gpc) > maxSpan THEN Span(gpc) ELSE maxSpan
  BY Zenon DEF Build
<1>2. /\ used \in Nat /\ Len[gpc] \in Nat \ {0} /\ n \in Nat
      /\ a \in Nat /\ used <= a /\ AlignUp(a) = a
      /\ a \in Addr
  <2>1. used \in Nat /\ Len[gpc] \in Nat \ {0} /\ n \in Nat
    BY LenAssumption DEF TableType
  <2>2. a \in Nat /\ used <= a /\ AlignUp(a) = a
    BY <2>1, AlignFacts, Zenon
  <2> HIDE DEF a
  <2>3. a + Len[gpc] <= CodeSize /\ CodeSize \in Nat
    BY <1>1, SizeAssumption, Zenon
  <2>4. a \in Addr
    BY <2>1, <2>2, <2>3 DEF Addr
  <2> QED BY <2>1, <2>2, <2>4, Zenon
<1> HIDE DEF a
<1>3. NewBody(gpc, gctx) \in Body /\ NewBody(gpc, gctx) # Junk
  <2>1. NewBody(gpc, gctx) \in Body
    BY DEF NewBody, Body
  <2> QED BY <2>1, JunkAssumption, Zenon
<1>4. /\ mem' \in [Addr -> Body \cup {Junk}]
      /\ mem'[a] = NewBody(gpc, gctx)
      /\ \A x \in Addr : (mem[x] # Junk /\ x + Len[mem[x].pc] <= a) => mem'[x] = mem[x]
  BY <1>1, <1>2, <1>3, WriteKeeps, SMTT(30) DEF TableType
<1>5. /\ \A i \in Index : i # n => blocks'[i] = blocks[i]
      /\ blocks'[n].pc = gpc /\ blocks'[n].ctx = gctx
      /\ blocks'[n].code = a /\ blocks'[n].linked = {}
      /\ blocks' \in [Index -> Block]
  <2>1. b \in Block
    BY <1>2, Zenon DEF Block
  <2>2. blocks'[n] = b
    BY <1>1, <1>2, Zenon DEF TableType
  <2> QED BY <1>1, <1>2, <2>1, <2>2, Zenon DEF TableType
<1>6. Span(gpc) \in Nat /\ Bucket[gpc][gctx] \in Buckets
      /\ PageBucket(PageLo[gpc]) \in 0..PageBuckets - 1
  <2>1. PageLo[gpc] \in Nat /\ PageHi[gpc] \in Nat /\ PageLo[gpc] <= PageHi[gpc]
    BY PageAssumption DEF Pages
  <2>2. Span(gpc) \in Nat
    BY <2>1 DEF Span
  <2>3. Bucket[gpc][gctx] \in Buckets
    BY HashAssumption, Zenon
  <2>4. PageBucket(PageLo[gpc]) \in 0..PageBuckets - 1
    BY <2>1, PageAssumption DEF PageBucket
  <2> QED BY <2>2, <2>3, <2>4, Zenon
<1>7. TableType'
  <2>1. count' \in 0..MaxBlocks /\ used' \in Nat /\ maxSpan' \in Nat
    <3>1. count' \in 0..MaxBlocks
      BY <1>1, SizeAssumption DEF Index
    <3>2. used' \in Nat
      BY <1>1, <1>2
    <3>3. maxSpan' \in Nat
      BY <1>1, <1>6, Zenon DEF TableType
    <3> QED BY <3>1, <3>2, <3>3, Zenon
  <2>2. hash' \in [Buckets -> SUBSET Index]
    BY <1>1, <1>2, Zenon DEF TableType
  <2>3. phash' \in [0..PageBuckets - 1 -> SUBSET Index]
    BY <1>1, <1>2, Zenon DEF TableType
  <2> QED BY <1>4, <1>5, <2>1, <2>2, <2>3, Zenon DEF TableType
<1>8. \A i \in Index : Live(i)' <=> Live(i) \/ i = n
  BY <1>1, <1>2, <1>5, SMTT(30) DEF Live, Index, None, Addr
<1>9. ASSUME NEW i \in Index, Live(i)
      PROVE  /\ i # n /\ i < n /\ blocks'[i] = blocks[i]
             /\ BodyOf(i)' = BodyOf(i)
             /\ Whole(i)' /\ End(i)' = End(i) /\ End(i) <= used
             /\ blocks[i].code \in Addr
  <2>1. i # n /\ i < n
    BY <1>2, <1>9 DEF Live, Index
  <2>2. blocks'[i] = blocks[i]
    BY <1>5, <2>1, Zenon
  <2>3. Whole(i) /\ End(i) <= used
    BY <1>9, Zenon DEF TableInv, TWhole
  <2>4. blocks[i].code \in Addr /\ BodyOf(i) # Junk /\ BodyOf(i).pc = blocks[i].pc
    BY <2>3, Zenon DEF Whole
  <2>5. BodyOf(i)' = BodyOf(i)
    <3>1. Len[blocks[i].pc] \in Nat
      BY LenAssumption, Zenon DEF TableType, Block
    <3>2. blocks[i].code + Len[blocks[i].pc] <= a
      BY <1>2, <2>3, <2>4, <3>1 DEF End, Addr
    <3> QED BY <1>4, <2>2, <2>4, <3>2, Zenon DEF BodyOf
  <2>6. Whole(i)'
    BY <2>2, <2>3, <2>5, Zenon DEF Whole, AlignUp
  <2> QED BY <2>1, <2>2, <2>3, <2>4, <2>5, <2>6, Zenon DEF End
<1>10. /\ Whole(n)' /\ End(n)' = used' /\ used <= used'
       /\ BodyOf(n)' = NewBody(gpc, gctx)
  <2>1. BodyOf(n)' = NewBody(gpc, gctx)
    BY <1>1, <1>4, <1>5, Zenon DEF BodyOf
  <2>2. /\ BodyOf(n)'.pc = gpc /\ BodyOf(n)'.ctx = gctx
        /\ BodyOf(n)'.open = TRUE /\ BodyOf(n)'.old = FALSE
    BY <2>1 DEF NewBody
  <2> QED BY <1>1, <1>2, <1>3, <1>5, <2>1, <2>2 DEF Whole, End, AlignUp
<1>11. TWhole'
  <2>1. ASSUME NEW i \in Index, Live(i) PROVE Whole(i)' /\ End(i)' <= used'
    <3>1. Len[blocks[i].pc] \in Nat
      BY LenAssumption, Zenon DEF TableType, Block
    <3>2. End(i) \in Int
      BY <1>9, <2>1, <3>1 DEF End, Addr
    <3>3. Whole(i)' /\ End(i)' = End(i) /\ End(i) <= used
      BY <1>9, <2>1, Zenon
    <3>4. used \in Nat /\ used' \in Nat /\ used <= used'
      BY <1>7, <1>10, Zenon DEF TableType
    <3>5. End(i) <= used'
      BY <3>2, <3>3, <3>4
    <3> QED BY <3>3, <3>5, Zenon
  <2>2. Whole(n)' /\ End(n)' <= used'
    BY <1>1, <1>2, <1>10
  <2> QED BY <1>8, <2>1, <2>2, Zenon DEF TWhole
<1>12. TOrder'
  <2>1. ASSUME NEW i \in Index, NEW j \in Index, Live(i)', Live(j)', i < j
        PROVE  End(i)' <= blocks'[j].code
    <3>1. CASE Live(j)
      <4>1. i < n
        BY <1>2, <1>9, <2>1, <3>1 DEF Index
      <4>2. Live(i)
        BY <1>2, <1>8, <2>1, <4>1 DEF Index
      <4> QED BY <1>9, <2>1, <3>1, <4>2, Zenon DEF TableInv, TOrder
    <3>2. CASE j = n
      <4>1. Live(i)
        BY <1>8, <2>1, <3>2 DEF Index
      <4>2. Len[blocks[i].pc] \in Nat
        BY LenAssumption, Zenon DEF TableType, Block
      <4>3. End(i) \in Int
        BY <1>9, <4>1, <4>2 DEF End, Addr
      <4> QED BY <1>2, <1>5, <1>9, <3>2, <4>1, <4>3
    <3> QED BY <1>8, <2>1, <3>1, <3>2, Zenon
  <2> QED BY <2>1, Zenon DEF TOrder
<1>13. TKeys'
  <2>1. ASSUME NEW i \in Index, NEW j \in Index, Live(i)', Live(j)', SameKey(i, j)'
        PROVE  i = j
    <3>1. blocks'[i].pc = blocks'[j].pc /\ blocks'[i].ctx = blocks'[j].ctx
      BY <2>1, Zenon DEF SameKey
    <3>2. CASE Live(i) /\ Live(j)
      BY <1>9, <3>1, <3>2, Zenon DEF TableInv, TKeys, SameKey
    <3> QED BY <1>5, <1>8, <1>9, <2>1, <3>1, <3>2, Zenon
  <2> QED BY <2>1, Zenon DEF TKeys
<1>14. THash'
  <2>1. ASSUME NEW i \in Index, NEW h \in Buckets
        PROVE  i \in hash'[h] <=> Live(i)' /\ h = Bucket[blocks'[i].pc][blocks'[i].ctx]
    <3>1. i \in hash[h] <=> Live(i) /\ h = Bucket[blocks[i].pc][blocks[i].ctx]
      BY Zenon DEF TableInv, THash
    <3>2. i \in hash'[h] <=> i \in hash[h] \/ (i = n /\ h = Bucket[gpc][gctx])
      BY <1>1, <1>6, Zenon DEF TableType
    <3>3. CASE Live(i)
      BY <1>8, <1>9, <3>1, <3>2, <3>3, Zenon
    <3>4. CASE ~Live(i) /\ i # n
      BY <1>8, <3>1, <3>2, <3>4, Zenon
    <3>5. CASE i = n
      <4>1. ~Live(i)
        BY <1>9, <3>5, Zenon
      <4> QED BY <1>5, <1>8, <3>1, <3>2, <3>5, <4>1, Zenon
    <3> QED BY <3>3, <3>4, <3>5, Zenon
  <2> QED BY <2>1, Zenon DEF THash
<1>15. TPages'
  <2>1. maxSpan <= maxSpan' /\ Span(gpc) <= maxSpan'
    BY <1>1, <1>6 DEF TableType
  <2>2. ASSUME NEW i \in Index, Live(i)
        PROVE  i \in phash'[PageBucket(PageLo[blocks'[i].pc])] /\ Span(blocks'[i].pc) <= maxSpan'
    <3>1. i \in phash[PageBucket(PageLo[blocks[i].pc])] /\ Span(blocks[i].pc) <= maxSpan
      BY <2>2, Zenon DEF TableInv, TPages
    <3>2. PageLo[blocks[i].pc] \in Nat /\ PageHi[blocks[i].pc] \in Nat
      BY PageAssumption DEF TableType, Block, Pages
    <3>3. PageBucket(PageLo[blocks[i].pc]) \in 0..PageBuckets - 1 /\ Span(blocks[i].pc) \in Int
      BY <3>2, PageAssumption DEF PageBucket, Span
    <3>4. i \in phash'[PageBucket(PageLo[blocks[i].pc])]
      BY <1>1, <3>1, <3>3, Zenon DEF TableType
    <3>5. Span(blocks[i].pc) <= maxSpan'
      BY <1>7, <2>1, <3>1, <3>3 DEF TableType
    <3> QED BY <1>9, <2>2, <3>4, <3>5, Zenon
  <2>3. n \in phash'[PageBucket(PageLo[gpc])]
    BY <1>1, <1>6, Zenon DEF TableType
  <2> QED BY <1>5, <1>8, <2>1, <2>2, <2>3, Zenon DEF TPages
<1>16. TLinks'
  <2>1. BodyOf(n)'.on = {}
    BY <1>10 DEF NewBody
  <2>2. ASSUME NEW i \in Index, Live(i)
        PROVE  /\ blocks'[i].linked = BodyOf(i)'.on
               /\ \A e \in BodyOf(i)'.on : LinkOk(i, e)'
    <3>1. /\ blocks[i].linked = BodyOf(i).on
          /\ \A e \in BodyOf(i).on : LinkOk(i, e)
      BY <2>2, ZenonT(40) DEF TableInv, TLinks
    <3>2. ASSUME NEW e \in BodyOf(i).on PROVE LinkOk(i, e)'
      <4> DEFINE y == LinkTo(i, e)
      <4>1. LinkTo(i, e)' = y
        BY <1>9, <2>2, Zenon DEF LinkTo
      <4>2. y \in Addr /\ mem[y] # Junk /\ y + Len[mem[y].pc] <= used
        BY <3>1, <3>2, Zenon DEF LinkOk
      <4>3. mem[y] \in Body /\ Len[mem[y].pc] \in Nat
        BY <4>2, LenAssumption, ZenonT(40) DEF TableType, Body
      <4> HIDE DEF y
      <4>4. y + Len[mem[y].pc] <= a /\ y + Len[mem[y].pc] <= used'
        <5> DEFINE z == Len[mem[y].pc]
        <5>1. y \in Int /\ z \in Int /\ y + z <= used
          BY <4>2, <4>3 DEF Addr
        <5> HIDE DEF z, a
        <5>2. used \in Int /\ used' \in Int /\ a \in Int /\ used <= a /\ used <= used'
          BY <1>1, <1>2, <1>7, <1>10 DEF TableType
        <5>3. y + z <= a /\ y + z <= used'
          BY <5>1, <5>2
        <5> QED BY <5>3, Zenon DEF z
      <4>5. mem'[y] = mem[y]
        BY <1>4, <4>2, <4>4, ZenonT(40)
      <4>6. mem'[y].open => \E j \in Index : Live(j)' /\ blocks'[j].code = y
        BY <1>8, <1>9, <3>1, <4>5 DEF LinkOk, y
      <4> QED BY <1>9, <2>2, <3>1, <4>1, <4>2, <4>4, <4>5, <4>6 DEF LinkOk, y
    <3> QED BY <1>9, <2>2, <3>1, <3>2, Zenon
  <2> QED BY <1>5, <1>8, <2>1, <2>2, Zenon DEF TLinks
<1> QED BY <1>2, <1>5, <1>7, <1>8, <1>11, <1>12, <1>13, <1>14, <1>15, <1>16, Zenon DEF TableInv, a

\* A body in the buffer keeps what it is; only its age and its entry change.
SameBody(x) ==
    /\ mem'[x] \in Body /\ mem'[x] # Junk
    /\ mem'[x].pc = mem[x].pc /\ mem'[x].ctx = mem[x].ctx
    /\ mem'[x].on = mem[x].on /\ mem'[x].disp = mem[x].disp

LEMMA SetOld ==
    ASSUME NEW b \in Body
    PROVE  /\ [b EXCEPT !.old = TRUE] \in Body
           /\ [b EXCEPT !.old = TRUE].pc = b.pc
           /\ [b EXCEPT !.old = TRUE].ctx = b.ctx
           /\ [b EXCEPT !.old = TRUE].on = b.on
           /\ [b EXCEPT !.old = TRUE].disp = b.disp
           /\ [b EXCEPT !.old = TRUE].open <=> b.open
           /\ [b EXCEPT !.old = TRUE].old
BY Zenon DEF Body

LEMMA SetShut ==
    ASSUME NEW b \in Body
    PROVE  /\ [b EXCEPT !.open = FALSE] \in Body
           /\ [b EXCEPT !.open = FALSE].pc = b.pc
           /\ [b EXCEPT !.open = FALSE].ctx = b.ctx
           /\ [b EXCEPT !.open = FALSE].on = b.on
           /\ [b EXCEPT !.open = FALSE].disp = b.disp
           /\ ~[b EXCEPT !.open = FALSE].open
           /\ [b EXCEPT !.open = FALSE].old <=> b.old
BY Zenon DEF Body

\* The guest moves the generation: everything in the buffer is old.
LEMMA AgeTable ==
    ASSUME TableType, TableInv, MoveGeneration
    PROVE  TableType' /\ TableInv' /\ UNCHANGED <<blocks, count>>
<1>1. /\ genMoved' = TRUE /\ mem' = AllOld
      /\ UNCHANGED <<blocks, count, used, hash, phash, maxSpan>>
  BY Zenon DEF MoveGeneration
<1>2. ASSUME NEW x \in Addr
      PROVE  /\ mem[x] = Junk => mem'[x] = Junk
             /\ mem[x] # Junk => SameBody(x) /\ (mem'[x].open <=> mem[x].open)
  <2>1. CASE mem[x] = Junk
    BY <1>1, <2>1, Zenon DEF AllOld
  <2>2. CASE mem[x] # Junk
    <3>1. mem[x] \in Body
      BY <2>2, Zenon DEF TableType
    <3>2. mem'[x] = [mem[x] EXCEPT !.old = TRUE]
      BY <1>1, <2>2, Zenon DEF AllOld
    <3> QED BY <2>2, <3>1, <3>2, SetOld, JunkAssumption DEF SameBody
  <2> QED BY <2>1, <2>2, Zenon
<1>3. mem' \in [Addr -> Body \cup {Junk}]
  <2>1. mem' = [x \in Addr |-> mem'[x]]
    BY <1>1, Zenon DEF AllOld
  <2>2. \A x \in Addr : mem'[x] \in Body \cup {Junk}
    BY <1>2, Zenon DEF SameBody
  <2> QED BY <2>1, <2>2, Zenon
<1>4. TableType'
  BY <1>1, <1>3, Zenon DEF TableType
<1>5. \A i \in Index : Live(i)' <=> Live(i)
  BY <1>1, Zenon DEF Live
<1>6. TWhole'
  <2>1. ASSUME NEW i \in Index, Live(i) PROVE Whole(i)' /\ End(i)' <= used'
    <3>1. Whole(i) /\ End(i) <= used
      BY <2>1, Zenon DEF TableInv, TWhole
    <3>2. BodyOf(i)' = mem'[blocks[i].code]
      BY <1>1, Zenon DEF BodyOf
    <3>3. Whole(i)'
      BY <1>1, <1>2, <3>1, <3>2, Zenon DEF Whole, SameBody, BodyOf, AlignUp
    <3> QED BY <1>1, <3>1, <3>3, Zenon DEF End
  <2> QED BY <1>5, <2>1, Zenon DEF TWhole
<1>7. TOrder' /\ TKeys' /\ THash' /\ TPages'
  BY <1>1, <1>5, Zenon DEF TableInv, TOrder, TKeys, THash, TPages, End, SameKey
<1>8. TLinks'
  <2>1. ASSUME NEW i \in Index, Live(i)
        PROVE  /\ blocks'[i].linked = BodyOf(i)'.on
               /\ \A k \in BodyOf(i)'.on : LinkOk(i, k)'
    <3>1. /\ blocks[i].linked = BodyOf(i).on
          /\ \A k \in BodyOf(i).on : LinkOk(i, k)
          /\ blocks[i].code \in Addr /\ BodyOf(i) # Junk
      BY <2>1, Zenon DEF TableInv, TLinks, TWhole, Whole
    <3>2. BodyOf(i)'.on = BodyOf(i).on /\ BodyOf(i)'.disp = BodyOf(i).disp
      BY <1>1, <1>2, <3>1, ZenonT(40) DEF BodyOf, SameBody
    <3>3. ASSUME NEW k \in BodyOf(i).on PROVE LinkOk(i, k)'
      <4> DEFINE y == LinkTo(i, k)
      <4>1. LinkTo(i, k)' = y
        BY <1>1, <3>2, Zenon DEF LinkTo
      <4>2. y \in Addr /\ mem[y] # Junk
        BY <3>1, <3>3, Zenon DEF LinkOk
      <4> HIDE DEF y
      <4>3. /\ mem'[y] # Junk /\ mem'[y].pc = mem[y].pc /\ mem'[y].ctx = mem[y].ctx
            /\ mem'[y].open <=> mem[y].open
        BY <1>2, <4>2, Zenon DEF SameBody
      <4>4. mem'[y].open => \E j \in Index : Live(j)' /\ blocks'[j].code = y
        BY <1>1, <1>5, <3>1, <4>3, Zenon DEF LinkOk, y
      <4> QED BY <1>1, <3>1, <4>1, <4>2, <4>3, <4>4, Zenon DEF LinkOk, y
    <3> QED BY <1>1, <3>1, <3>2, <3>3, Zenon
  <2> QED BY <1>5, <2>1, Zenon DEF TLinks
<1> QED BY <1>1, <1>4, <1>6, <1>7, <1>8, Zenon DEF TableInv

\* A fence retires every block built from the pages it names: the page walk
\* finds each of them, because none reaches further than g_max_span.
LEMMA RetireComplete ==
    ASSUME TableType, TableInv, NEW lo \in Pages, NEW hi \in Pages, lo <= hi
    PROVE  ToRetire(lo, hi) = {i \in Index : Live(i) /\ Covers(blocks[i].pc, lo, hi)}
<1>1. CASE ~(hi - lo < PageWalkMax)
  BY <1>1, Zenon DEF ToRetire
<1>2. CASE hi - lo < PageWalkMax
  <2>1. ASSUME NEW i \in Index, Live(i)
        PROVE  (/\ PageLo[blocks[i].pc] \in FirstPage(lo)..hi
                /\ i \in phash[PageBucket(PageLo[blocks[i].pc])]
                /\ PageHi[blocks[i].pc] >= lo) <=> Covers(blocks[i].pc, lo, hi)
    <3>1. i \in phash[PageBucket(PageLo[blocks[i].pc])] /\ Span(blocks[i].pc) <= maxSpan
      BY <2>1, Zenon DEF TableInv, TPages
    <3>2. /\ PageLo[blocks[i].pc] \in Nat /\ PageHi[blocks[i].pc] \in Nat
          /\ PageLo[blocks[i].pc] <= PageHi[blocks[i].pc]
      BY PageAssumption DEF TableType, Block, Pages
    <3>3. lo \in Nat /\ hi \in Nat /\ maxSpan \in Nat
      BY DEF TableType, Pages
    <3> QED BY <3>1, <3>2, <3>3 DEF Covers, Span, FirstPage
  <2> QED BY <1>2, <2>1, Zenon DEF ToRetire
<1> QED BY <1>1, <1>2, Zenon

\* retire_pages: what stays live was not built from the fenced pages, and a
\* chained exit into what does not stay finds its entry shut.
LEMMA RetireTable ==
    ASSUME TableType, TableInv, NEW lo \in Pages, NEW hi \in Pages, lo <= hi,
           RetirePages(lo, hi), genMoved' = genMoved
    PROVE  TableType' /\ TableInv' /\ (count = 0 => count' = 0)
<1> DEFINE R == ToRetire(lo, hi)
<1>1. CASE NeedsFlush(R)
  BY <1>1, FlushTable, Zenon DEF RetirePages
<1>2. CASE ~NeedsFlush(R)
  <2> DEFINE Shut(x) == \E i \in R : blocks[i].code = x
                                     /\ blocks[i].pc \in Chainable \ ShortBody
  <2>1. /\ blocks' = [i \in Index |-> IF i \in R THEN [blocks[i] EXCEPT !.code = None]
                                      ELSE blocks[i]]
        /\ mem' = [x \in Addr |-> IF Shut(x)
                                  THEN [Fenced(mem, lo, hi)[x] EXCEPT !.open = FALSE]
                                  ELSE Fenced(mem, lo, hi)[x]]
        /\ hash' = [h \in Buckets |-> hash[h] \ R]
        /\ count' = count /\ used' = used
    BY <1>2, Zenon DEF RetirePages, Unhash
  <2>2. \/ /\ phash' = [h \in 0..PageBuckets - 1 |-> phash[h] \ R]
           /\ maxSpan' = maxSpan
        \/ /\ phash' = PageIndex(blocks', count)
           /\ \E s \in Pages : IsMaxSpan(blocks', count, s) /\ maxSpan' = s
    BY <1>2, Zenon DEF RetirePages
  <2>3. R = {i \in Index : Live(i) /\ Covers(blocks[i].pc, lo, hi)}
    BY RetireComplete, Zenon
  <2>4. \A i \in R : blocks[i].pc \notin ShortBody
    BY <1>2, Zenon DEF NeedsFlush
  <2> HIDE DEF R
  <2>5. ASSUME NEW i \in Index
        PROVE  /\ blocks'[i] \in Block
               /\ blocks'[i].pc = blocks[i].pc /\ blocks'[i].ctx = blocks[i].ctx
               /\ i \in R => blocks'[i].code = None
               /\ i \notin R => blocks'[i] = blocks[i]
    <3>1. blocks[i] \in Block
      BY Zenon DEF TableType
    <3>2. CASE i \in R
      <4>1. blocks'[i] = [blocks[i] EXCEPT !.code = None]
        BY <2>1, <3>2, Zenon
      <4> QED BY <3>1, <3>2, <4>1, Zenon DEF Block
    <3>3. CASE i \notin R
      BY <2>1, <3>1, <3>3, Zenon
    <3> QED BY <3>2, <3>3, Zenon
  <2>6. \A i \in Index : Live(i)' <=> Live(i) /\ i \notin R
    BY <2>1, <2>5, Zenon DEF Live
  <2>7. ASSUME NEW x \in Addr
        PROVE  /\ mem[x] = Junk => mem'[x] = Junk
               /\ mem[x] # Junk =>
                    /\ SameBody(x)
                    /\ mem'[x].open <=> mem[x].open /\ ~Shut(x)
                    /\ mem'[x].old <=> mem[x].old \/ Covers(mem[x].pc, lo, hi)
    <3> DEFINE f == Fenced(mem, lo, hi)[x]
    <3>1. /\ mem'[x] = IF Shut(x) THEN [f EXCEPT !.open = FALSE] ELSE f
          /\ f = IF mem[x] # Junk /\ Covers(mem[x].pc, lo, hi)
                 THEN [mem[x] EXCEPT !.old = TRUE] ELSE mem[x]
      BY <2>1, Zenon DEF Fenced
    <3> HIDE DEF f
    <3>2. CASE mem[x] = Junk
      <4>1. ~Shut(x)
        BY <2>3, <3>2, Zenon DEF TableInv, TWhole, Whole, BodyOf
      <4> QED BY <3>1, <3>2, <4>1, Zenon
    <3>3. CASE mem[x] # Junk
      <4>1. mem[x] \in Body
        BY <3>3, Zenon DEF TableType
      <4>2. /\ f \in Body /\ f.pc = mem[x].pc /\ f.ctx = mem[x].ctx
            /\ f.on = mem[x].on /\ f.disp = mem[x].disp
            /\ f.open <=> mem[x].open
            /\ f.old <=> mem[x].old \/ Covers(mem[x].pc, lo, hi)
        <5>1. CASE Covers(mem[x].pc, lo, hi)
          BY <3>1, <3>3, <4>1, <5>1, SetOld, Zenon
        <5>2. CASE ~Covers(mem[x].pc, lo, hi)
          BY <3>1, <3>3, <4>1, <5>2, Zenon
        <5> QED BY <5>1, <5>2, Zenon
      <4>3. CASE Shut(x)
        <5>1. mem'[x] = [f EXCEPT !.open = FALSE]
          BY <3>1, <4>3, Zenon
        <5> HIDE DEF Shut
        <5> QED BY <3>3, <4>2, <4>3, <5>1, SetShut, JunkAssumption DEF SameBody
      <4>4. CASE ~Shut(x)
        <5>1. mem'[x] = f
          BY <3>1, <4>4, Zenon
        <5> HIDE DEF Shut
        <5> QED BY <3>3, <4>2, <4>4, <5>1, JunkAssumption, Zenon DEF SameBody
      <4> QED BY <4>3, <4>4, Zenon
    <3> QED BY <3>2, <3>3, Zenon
  <2> HIDE DEF Shut
  <2>8. ASSUME NEW i \in Index, Live(i), i \notin R
        PROVE  /\ blocks[i].code \in Addr /\ mem[blocks[i].code] # Junk
               /\ ~Covers(blocks[i].pc, lo, hi)
               /\ ~Shut(blocks[i].code)
               /\ BodyOf(i)' = mem'[blocks[i].code]
    <3>1. blocks[i].code \in Addr /\ mem[blocks[i].code] # Junk
      BY <2>8, Zenon DEF TableInv, TWhole, Whole, BodyOf
    <3>2. ~Covers(blocks[i].pc, lo, hi)
      BY <2>3, <2>8, Zenon
    <3>3. ~Shut(blocks[i].code)
      BY <2>3, <2>8, CodeApart, Zenon DEF Shut
    <3>4. BodyOf(i)' = mem'[blocks[i].code]
      BY <2>5, <2>8, Zenon DEF BodyOf
    <3> QED BY <3>1, <3>2, <3>3, <3>4, Zenon
  <2>9. TWhole'
    <3>1. ASSUME NEW i \in Index, Live(i), i \notin R PROVE Whole(i)' /\ End(i)' <= used'
      <4>1. Whole(i) /\ End(i) <= used
        BY <3>1, Zenon DEF TableInv, TWhole
      <4>2. /\ mem'[blocks[i].code] # Junk
            /\ mem'[blocks[i].code].pc = blocks[i].pc
            /\ mem'[blocks[i].code].ctx = blocks[i].ctx
            /\ mem'[blocks[i].code].open
            /\ mem'[blocks[i].code].old => genMoved
        BY <2>7, <2>8, <3>1, <4>1, Zenon DEF Whole, BodyOf, SameBody
      <4>3. Whole(i)'
        BY <2>5, <2>8, <3>1, <4>1, <4>2, Zenon DEF Whole, AlignUp
      <4> QED BY <2>1, <2>5, <3>1, <4>1, <4>3, Zenon DEF End
    <3> QED BY <2>6, <3>1, Zenon DEF TWhole
  <2>10. TOrder' /\ TKeys'
    BY <2>5, <2>6 DEF TableInv, TOrder, TKeys, End, SameKey
  <2>11. THash'
    <3>1. ASSUME NEW i \in Index, NEW h \in Buckets
          PROVE  i \in hash'[h] <=> Live(i)' /\ h = Bucket[blocks'[i].pc][blocks'[i].ctx]
      <4>1. i \in hash[h] <=> Live(i) /\ h = Bucket[blocks[i].pc][blocks[i].ctx]
        BY Zenon DEF TableInv, THash
      <4> QED BY <2>1, <2>5, <2>6, <4>1, Zenon
    <3> QED BY <3>1, Zenon DEF THash
  <2>12. \A i \in Index : PageBucket(PageLo[blocks[i].pc]) \in 0..PageBuckets - 1
    <3>1. \A i \in Index : PageLo[blocks[i].pc] \in Nat
      BY PageAssumption DEF TableType, Block, Pages
    <3> QED BY <3>1, PageAssumption DEF PageBucket
  <2>13. TPages' /\ phash' \in [0..PageBuckets - 1 -> SUBSET Index] /\ maxSpan' \in Nat
    <3>1. CASE /\ phash' = [h \in 0..PageBuckets - 1 |-> phash[h] \ R]
               /\ maxSpan' = maxSpan
      <4>1. TPages'
        BY <2>5, <2>6, <2>12, <3>1, Zenon DEF TableInv, TPages
      <4> QED BY <3>1, <4>1, Zenon DEF TableType
    <3>2. CASE /\ phash' = PageIndex(blocks', count)
               /\ \E s \in Pages : IsMaxSpan(blocks', count, s) /\ maxSpan' = s
      <4>1. /\ maxSpan' \in Nat
            /\ \A i \in LiveIn(blocks', count) : Span(blocks'[i].pc) <= maxSpan'
        BY <3>2 DEF IsMaxSpan, Pages
      <4>2. \A i \in Index : Live(i)' <=> i \in LiveIn(blocks', count)
        BY <2>1 DEF LiveIn, Live, Index, TableType
      <4>3. LiveIn(blocks', count) \subseteq Index
        BY SizeAssumption DEF LiveIn, Index, TableType
      <4>4. phash' = [h \in 0..PageBuckets - 1 |->
                 {i \in LiveIn(blocks', count) : PageBucket(PageLo[blocks'[i].pc]) = h}]
        BY <3>2, Zenon DEF PageIndex
      <4>5. \A i \in LiveIn(blocks', count) : i \in phash'[PageBucket(PageLo[blocks'[i].pc])]
        BY <2>5, <2>12, <4>3, <4>4, Zenon
      <4> QED BY <4>1, <4>2, <4>3, <4>4, <4>5, Zenon DEF TPages
    <3> QED BY <2>2, <3>1, <3>2, Zenon
  <2>14. TableType'
    <3>1. blocks' \in [Index -> Block]
      BY <2>1, <2>5, Zenon
    <3>2. mem' \in [Addr -> Body \cup {Junk}]
      <4>1. mem' = [x \in Addr |-> mem'[x]]
        BY <2>1, Zenon
      <4>2. \A x \in Addr : mem'[x] \in Body \cup {Junk}
        BY <2>7, Zenon DEF SameBody
      <4> QED BY <4>1, <4>2, Zenon
    <3>3. hash' \in [Buckets -> SUBSET Index]
      BY <2>1, Zenon DEF TableType
    <3> QED BY <2>1, <2>13, <3>1, <3>2, <3>3, Zenon DEF TableType
  <2>15. TLinks'
    <3>1. ASSUME NEW i \in Index, Live(i), i \notin R
          PROVE  /\ blocks'[i].linked = BodyOf(i)'.on
                 /\ \A k \in BodyOf(i)'.on : LinkOk(i, k)'
      <4>1. /\ blocks[i].linked = BodyOf(i).on
            /\ \A k \in BodyOf(i).on : LinkOk(i, k)
        BY <3>1, Zenon DEF TableInv, TLinks
      <4>2. BodyOf(i)'.on = BodyOf(i).on /\ BodyOf(i)'.disp = BodyOf(i).disp
        BY <2>7, <2>8, <3>1, SMTT(30) DEF BodyOf, SameBody
      <4>3. ASSUME NEW k \in BodyOf(i).on PROVE LinkOk(i, k)'
        <5> DEFINE y == LinkTo(i, k)
        <5>1. LinkTo(i, k)' = y
          BY <2>5, <3>1, <4>2, Zenon DEF LinkTo
        <5>2. y \in Addr /\ mem[y] # Junk /\ mem[y].pc \in Chainable
          BY <4>1, <4>3, Zenon DEF LinkOk
        <5>3. mem[y].open => \E j \in Index : Live(j) /\ blocks[j].code = y
          BY <4>1, <4>3, Zenon DEF LinkOk
        <5> HIDE DEF y
        <5>4. /\ mem'[y] # Junk /\ mem'[y].pc = mem[y].pc /\ mem'[y].ctx = mem[y].ctx
              /\ mem'[y].open <=> mem[y].open /\ ~Shut(y)
          BY <2>7, <5>2, Zenon DEF SameBody
        <5>5. mem'[y].open => \E j \in Index : Live(j)' /\ blocks'[j].code = y
          <6> SUFFICES ASSUME mem'[y].open
                       PROVE  \E j \in Index : Live(j)' /\ blocks'[j].code = y
            BY Zenon
          <6>1. PICK j \in Index : Live(j) /\ blocks[j].code = y
            BY <5>3, <5>4, Zenon
          <6>2. blocks[j].pc = mem[y].pc
            BY <6>1, Zenon DEF TableInv, TWhole, Whole, BodyOf
          <6>3. j \notin R
            BY <2>4, <5>2, <5>4, <6>1, <6>2, Zenon DEF Shut
          <6> QED BY <2>5, <2>6, <6>1, <6>3, Zenon
        <5> QED BY <2>1, <2>5, <3>1, <4>1, <5>1, <5>2, <5>4, <5>5 DEF LinkOk, y
      <4> QED BY <2>5, <3>1, <4>1, <4>2, <4>3, Zenon
    <3> QED BY <2>6, <3>1, Zenon DEF TLinks
  <2> QED BY <2>1, <2>9, <2>10, <2>11, <2>13, <2>14, <2>15, Zenon DEF TableInv
<1> QED BY <1>1, <1>2, Zenon

-----------------------------------------------------------------------------
(* compact(). *)

CompactType == /\ ci \in 0..MaxBlocks /\ kept \in 0..MaxBlocks /\ dst \in Nat
               /\ keep \subseteq Index

\* A miss is a miss: no live block has the key lookup() did not find.
LEMMA NotFound ==
    ASSUME TableType, TableInv, gpc \in Pcs, gctx \in Contexts, Found = {}
    PROVE  \A i \in Index : Live(i) => blocks[i].pc # gpc \/ blocks[i].ctx # gctx
<1>1. Bucket[gpc][gctx] \in Buckets
  BY HashAssumption, Zenon
<1> QED BY <1>1, Zenon DEF TableInv, THash, Found

LEMMA StartCompacts ==
    ASSUME TableType, TableInv, gpc \in Pcs, gctx \in Contexts, CompactStart
    PROVE  TableType' /\ CompactType' /\ CompactInv'
<1>1. /\ Found = {} /\ UnlinkAll
      /\ ci' = 0 /\ kept' = 0 /\ dst' = 0
      /\ gpc' = gpc /\ gctx' = gctx /\ genMoved' = genMoved
  BY Zenon DEF CompactStart, guestVars
<1>2. keep' \subseteq LiveIn(blocks, count)
  <2>1. PICK K \in SUBSET Index : Retainable(K) /\ keep' = K
    BY Zenon DEF CompactStart
  <2>2. K \subseteq LiveIn(blocks, count)
    BY <2>1, Zenon DEF Retainable
  <2> QED BY <2>1, <2>2, Zenon
<1>3. \A i \in keep' : i \in Index /\ Live(i)
  BY <1>2, SizeAssumption DEF LiveIn, Live, Index, TableType
<1>4. /\ TableType' /\ TableInv'
      /\ \A i \in Index : /\ Live(i)' <=> Live(i)
                          /\ blocks'[i].pc = blocks[i].pc
                          /\ blocks'[i].ctx = blocks[i].ctx
                          /\ blocks'[i].code = blocks[i].code
      /\ \A i \in Index : Live(i) => blocks'[i].linked = {} /\ BodyOf(i)'.on = {}
  BY <1>1, UnlinkTable, Zenon
<1>5. \A i \in Index : Stays(i)' => Live(i)' /\ Live(i) /\ ToMove(i)'
  BY <1>1, <1>3, <1>4 DEF Stays, Moved, ToMove, Index
<1>6. CompactType'
  BY <1>1, <1>3, SizeAssumption, SMTT(30) DEF CompactType
<1>7. CBounds'
  BY <1>1, <1>4 DEF CBounds, TableType
<1>8. CWhole'
  BY <1>4, <1>5, Zenon DEF TableInv, TWhole, CWhole
<1>9. CPlace'
  <2>1. ASSUME NEW i \in Index, ToMove(i)' PROVE AlignUp(0) <= blocks'[i].code
    <3>1. blocks'[i].code \in Addr /\ AlignUp(blocks'[i].code) = blocks'[i].code
      BY <1>4, <1>5, <2>1, Zenon DEF TableInv, TWhole, Whole, Stays, AlignUp
    <3>2. blocks'[i].code \in Nat
      BY <3>1 DEF Addr
    <3> QED BY <3>1, <3>2, AlignMono
  <2>2. AlignUp(dst)' = AlignUp(0)
    BY <1>1, Zenon DEF AlignUp
  <2> QED BY <1>1, <2>1, <2>2 DEF CPlace, Moved, Index
<1>10. COrder' /\ CKeys'
  BY <1>4, <1>5, Zenon DEF TableInv, TOrder, TKeys, COrder, CKeys
<1>11. CMissed'
  BY <1>1, <1>4, <1>5, NotFound, Zenon DEF CMissed
<1> QED BY <1>4, <1>6, <1>7, <1>8, <1>9, <1>10, <1>11, Zenon DEF CompactInv

LEMMA DropKeeps ==
    ASSUME TableType, CompactType, CompactInv, CompactDrop
    PROVE  TableType' /\ CompactType' /\ CompactInv'
<1>1. /\ ci < count /\ ci \notin keep /\ ci' = ci + 1
      /\ UNCHANGED <<blocks, count, mem, used, hash, phash, maxSpan, kept, dst, keep,
                     gpc, gctx, genMoved>>
  BY Zenon DEF CompactDrop, tableVars, guestVars
<1>2. TableType' /\ CompactType' /\ CBounds'
  BY <1>1, SizeAssumption DEF TableType, CompactType, CompactInv, CBounds
<1>3. \A i \in Index : /\ Moved(i)' <=> Moved(i)
                       /\ ToMove(i)' => ToMove(i)
                       /\ Stays(i)' => Stays(i)
  BY <1>1 DEF Moved, ToMove, Stays, CompactType, Index
<1>4. CWhole'
  BY <1>1, <1>3, Zenon DEF CompactInv, CWhole, Whole, BodyOf, AlignUp
<1>5. CPlace'
  BY <1>1, <1>3, Zenon DEF CompactInv, CPlace, End, AlignUp
<1>6. COrder' /\ CKeys' /\ CMissed'
  BY <1>1, <1>3, Zenon DEF CompactInv, COrder, CKeys, CMissed, End, SameKey
<1> QED BY <1>2, <1>4, <1>5, <1>6, Zenon DEF CompactInv

\* A survivor slides down: never onto one already moved, and never past one
\* still to be moved, which lies behind it in the buffer.
LEMMA MoveKeeps ==
    ASSUME TableType, CompactType, CompactInv, CompactMove
    PROVE  TableType' /\ CompactType' /\ CompactInv'
<1> DEFINE d == AlignUp(dst)
<1>1. PICK c \in Index, n \in Index : c = ci /\ n = kept
  BY SizeAssumption DEF CompactMove, CompactType, CompactInv, CBounds, TableType, Index
<1> DEFINE b == blocks[c]
           L == Len[blocks[c].pc]
<1>2. /\ c < count /\ c \in keep /\ n <= c
      /\ mem' = WriteCode(mem, d, L, mem[b.code])
      /\ blocks' = [blocks EXCEPT ![n] = [b EXCEPT !.code = d]]
      /\ dst' = d + L /\ kept' = n + 1 /\ ci' = c + 1
      /\ UNCHANGED <<count, used, hash, phash, maxSpan, keep, gpc, gctx, genMoved>>
  BY <1>1, Zenon DEF CompactMove, CompactInv, CBounds, guestVars, SlideTo
<1>3. /\ ToMove(c) /\ Whole(c) /\ b.linked = {} /\ BodyOf(c).on = {}
      /\ d <= b.code
  BY <1>1, <1>2 DEF ToMove, CompactInv, CWhole, CPlace, Stays, Index
<1>4. /\ b \in Block /\ L \in Nat \ {0} /\ b.code \in Addr
      /\ mem[b.code] \in Body /\ mem[b.code] # Junk
      /\ dst \in Nat /\ d \in Nat /\ dst <= d /\ AlignUp(d) = d
      /\ d \in Addr
  <2>1. b \in Block
    BY Zenon DEF TableType
  <2>2. L \in Nat \ {0} /\ b.code \in Addr /\ mem[b.code] # Junk
    BY <1>3, <2>1, LenAssumption, Zenon DEF Block, Whole, BodyOf
  <2>3. mem[b.code] \in Body
    BY <2>2, Zenon DEF TableType
  <2>4. dst \in Nat /\ d \in Nat /\ dst <= d /\ AlignUp(d) = d
    BY AlignFacts, Zenon DEF CompactType
  <2> HIDE DEF d
  <2>5. d \in Addr
    <3>1. d <= b.code /\ CodeSize \in Nat
      BY <1>3, SizeAssumption, Zenon
    <3> QED BY <2>2, <2>4, <3>1 DEF Addr
  <2> QED BY <2>1, <2>2, <2>3, <2>4, <2>5, Zenon
<1> HIDE DEF d, L
<1>5. /\ mem' \in [Addr -> Body \cup {Junk}]
      /\ mem'[d] = mem[b.code]
      /\ \A x \in Addr : (mem[x] # Junk /\ (x + Len[mem[x].pc] <= d \/ d + L <= x))
                            => mem'[x] = mem[x]
  <2> DEFINE m == mem[b.code]
  <2>1. mem \in [Addr -> Body \cup {Junk}] /\ m \in Body
    BY <1>4, Zenon DEF TableType
  <2> HIDE DEF m
  <2>2. /\ WriteCode(mem, d, L, m) \in [Addr -> Body \cup {Junk}]
        /\ WriteCode(mem, d, L, m)[d] = m
        /\ \A x \in Addr : (mem[x] # Junk /\ (x + Len[mem[x].pc] <= d \/ d + L <= x))
                              => WriteCode(mem, d, L, m)[x] = mem[x]
    BY <1>4, <2>1, WriteKeeps
  <2>3. mem' = WriteCode(mem, d, L, m)
    BY <1>2, Zenon DEF m
  <2> QED BY <2>2, <2>3, Zenon DEF m
<1>6. /\ \A i \in Index : i # n => blocks'[i] = blocks[i]
      /\ blocks' \in [Index -> Block]
      /\ blocks'[n].pc = b.pc /\ blocks'[n].ctx = b.ctx
      /\ blocks'[n].code = d /\ blocks'[n].linked = {}
  <2>1. blocks'[n] = [b EXCEPT !.code = d]
    BY <1>2, Zenon DEF TableType
  <2>2. [b EXCEPT !.code = d] \in Block
    BY <1>4, Zenon DEF Block
  <2> QED BY <1>2, <1>3, <1>4, <2>1, <2>2, Zenon DEF TableType, Block
<1>7. TableType' /\ CompactType' /\ CBounds'
  <2>1. TableType'
    BY <1>2, <1>5, <1>6, Zenon DEF TableType
  <2>2. dst' \in Nat
    BY <1>2, <1>4
  <2>3. /\ ci' \in 0..MaxBlocks /\ kept' \in 0..MaxBlocks
        /\ kept' <= ci' /\ ci' <= count'
    <3>1. /\ c < count /\ n <= c /\ kept' = n + 1 /\ ci' = c + 1 /\ count' = count
          /\ count \in 0..MaxBlocks /\ c \in Nat /\ n \in Nat /\ MaxBlocks \in Nat
      BY <1>2, SizeAssumption DEF TableType, Index
    <3> QED BY <3>1
  <2> QED BY <1>2, <2>1, <2>2, <2>3, Zenon DEF CompactType, CBounds
<1>8. ASSUME NEW i \in Index
      PROVE  /\ Moved(i)' <=> Moved(i) \/ i = n
             /\ ToMove(i)' <=> ToMove(i) /\ i # c
             /\ Moved(i) => i < n /\ ~ToMove(i)
             /\ ToMove(i)' => c < i /\ n < i
  BY <1>1, <1>2 DEF Moved, ToMove, Index
<1>9. ASSUME NEW i \in Index, Moved(i) \/ (ToMove(i) /\ i # c)
      PROVE  /\ blocks'[i] = blocks[i] /\ BodyOf(i)' = BodyOf(i)
             /\ Whole(i) /\ Whole(i)' /\ End(i)' = End(i) /\ End(i) \in Nat
             /\ blocks[i].linked = {} /\ BodyOf(i).on = {}
             /\ Moved(i) => End(i) <= d
             /\ ToMove(i) => d + L <= blocks[i].code
             /\ blocks[i].code \in Nat
  <2>1. i # n /\ blocks'[i] = blocks[i]
    BY <1>6, <1>8, <1>9 DEF Index
  <2>2. Whole(i) /\ blocks[i].linked = {} /\ BodyOf(i).on = {}
    BY <1>9, Zenon DEF CompactInv, CWhole, Stays
  <2>3. /\ blocks[i].code \in Addr /\ BodyOf(i) # Junk /\ BodyOf(i).pc = blocks[i].pc
        /\ Len[blocks[i].pc] \in Nat /\ blocks[i].code \in Nat /\ End(i) \in Nat
    <3>1. blocks[i].code \in Addr /\ BodyOf(i) # Junk /\ BodyOf(i).pc = blocks[i].pc
      BY <2>2, Zenon DEF Whole
    <3>2. Len[blocks[i].pc] \in Nat
      BY LenAssumption, Zenon DEF TableType, Block
    <3>3. blocks[i].code \in Nat /\ blocks[i].code + Len[blocks[i].pc] \in Nat
      BY <3>1, <3>2 DEF Addr
    <3> QED BY <3>1, <3>2, <3>3, Zenon DEF End
  <2>4. Moved(i) => End(i) <= d
    BY <1>4, <2>3, SMTT(30) DEF CompactInv, CPlace
  <2>5. ToMove(i) => d + L <= blocks[i].code
    <3>1. ToMove(i) => End(c) <= blocks[i].code
      BY <1>3, <1>8, <1>9, Zenon DEF CompactInv, COrder, Stays
    <3> QED BY <1>3, <1>4, <2>3, <3>1 DEF End, L, Addr
  <2>6. BodyOf(i)' = BodyOf(i)
    BY <1>5, <1>9, <2>1, <2>3, <2>4, <2>5, Zenon DEF BodyOf, End
  <2>7. Whole(i)'
    BY <1>2, <2>1, <2>2, <2>6, Zenon DEF Whole, AlignUp
  <2> QED BY <2>1, <2>2, <2>3, <2>4, <2>5, <2>6, <2>7, Zenon DEF End
<1>10. /\ BodyOf(n)' = BodyOf(c) /\ Whole(n)' /\ End(n)' = d + L
       /\ End(n)' = dst'
  <2>1. BodyOf(n)' = BodyOf(c)
    BY <1>5, <1>6, Zenon DEF BodyOf
  <2>2. Whole(n)'
    BY <1>2, <1>3, <1>4, <1>6, <2>1, Zenon DEF Whole, AlignUp
  <2> QED BY <1>2, <1>6, <2>1, <2>2, Zenon DEF End, L
<1>11. CWhole'
  BY <1>3, <1>6, <1>8, <1>9, <1>10, Zenon DEF CWhole, Stays
<1>12. CPlace'
  <2>1. ASSUME NEW i \in Index, Moved(i)' PROVE End(i)' <= dst'
    BY <1>2, <1>4, <1>8, <1>9, <1>10, <2>1
  <2>2. ASSUME NEW i \in Index, ToMove(i)' PROVE AlignUp(dst)' <= blocks'[i].code
    <3>1. d + L <= blocks[i].code /\ blocks[i].code \in Nat
          /\ AlignUp(blocks[i].code) = blocks[i].code
      BY <1>8, <1>9, <2>2, Zenon DEF Whole
    <3>2. AlignUp(d + L) <= blocks[i].code
      BY <1>4, <3>1, AlignMono
    <3>3. AlignUp(dst)' = AlignUp(d + L)
      BY <1>2, Zenon DEF AlignUp
    <3> QED BY <1>8, <1>9, <2>2, <3>2, <3>3, Zenon
  <2> QED BY <2>1, <2>2, Zenon DEF CPlace
<1>13. COrder'
  <2>1. ASSUME NEW i \in Index, NEW j \in Index, Stays(i)', Stays(j)', i < j
        PROVE  End(i)' <= blocks'[j].code
    <3>1. /\ i = n \/ Moved(i) \/ (ToMove(i) /\ i # c)
          /\ j = n \/ Moved(j) \/ (ToMove(j) /\ j # c)
      BY <1>8, <2>1, Zenon DEF Stays
    <3>2. CASE i = n
      <4>1. ToMove(j) /\ j # c
        BY <1>8, <2>1, <3>1, <3>2 DEF Index
      <4> QED BY <1>9, <1>10, <3>2, <4>1, Zenon
    <3>3. CASE j = n
      <4>1. Moved(i)
        BY <1>8, <2>1, <3>1, <3>3 DEF Index
      <4> QED BY <1>6, <1>9, <3>3, <4>1, Zenon
    <3>4. CASE i # n /\ j # n
      BY <1>9, <2>1, <3>1, <3>4, Zenon DEF CompactInv, COrder, Stays
    <3> QED BY <3>2, <3>3, <3>4, Zenon
  <2> QED BY <2>1, Zenon DEF COrder
<1>14. CKeys'
  <2>1. ASSUME NEW i \in Index, NEW j \in Index, Stays(i)', Stays(j)',
               blocks'[i].pc = blocks'[j].pc, blocks'[i].ctx = blocks'[j].ctx
        PROVE  i = j
    <3>1. /\ i = n \/ (i # n /\ Stays(i) /\ i # c /\ blocks'[i] = blocks[i])
          /\ j = n \/ (j # n /\ Stays(j) /\ j # c /\ blocks'[j] = blocks[j])
      <4>1. ASSUME NEW m \in Index, Stays(m)', m # n
            PROVE  Stays(m) /\ m # c /\ blocks'[m] = blocks[m]
        BY <1>3, <1>8, <1>9, <4>1, Zenon DEF Stays
      <4> QED BY <2>1, <4>1, Zenon
    <3>2. Stays(c)
      BY <1>3, Zenon DEF Stays
    <3> QED BY <1>6, <2>1, <3>1, <3>2, Zenon DEF CompactInv, CKeys, SameKey
  <2> QED BY <2>1, Zenon DEF CKeys, SameKey
<1>15. CMissed'
  <2>1. ASSUME NEW i \in Index, Stays(i)'
        PROVE  blocks'[i].pc # gpc' \/ blocks'[i].ctx # gctx'
    <3>1. CASE i = n
      BY <1>2, <1>3, <1>6, <3>1, Zenon DEF CompactInv, CMissed, Stays
    <3>2. CASE i # n
      <4>1. Stays(i) /\ blocks'[i] = blocks[i]
        BY <1>8, <1>9, <2>1, <3>2, Zenon DEF Stays
      <4> QED BY <1>2, <4>1, Zenon DEF CompactInv, CMissed
    <3> QED BY <3>1, <3>2, Zenon
  <2> QED BY <2>1, Zenon DEF CMissed
<1> QED BY <1>7, <1>11, <1>12, <1>13, <1>14, <1>15, Zenon DEF CompactInv

\* compact()'s end: what was kept is the table, hashed and indexed anew.
LEMMA DoneKeeps ==
    ASSUME TableType, CompactType, CompactInv, CompactDone
    PROVE  /\ TableType' /\ TableInv' /\ CompactType'
           /\ \A i \in Index : Live(i)' => blocks'[i].pc # gpc \/ blocks'[i].ctx # gctx
<1>1. /\ ci = count /\ count' = kept /\ used' = dst
      /\ blocks' = [i \in Index |-> IF i < kept THEN blocks[i] ELSE EmptyBlock]
      /\ mem' = [x \in Addr |-> IF x < dst THEN mem[x] ELSE Junk]
      /\ hash' = [h \in Buckets |->
                    {i \in 0..kept - 1 : Bucket[blocks[i].pc][blocks[i].ctx] = h}]
      /\ phash' = PageIndex(blocks, kept)
      /\ \E s \in Pages : IsMaxSpan(blocks, kept, s) /\ maxSpan' = s
      /\ keep' = {} /\ ci' = 0 /\ kept' = 0 /\ dst' = 0
      /\ genMoved' = genMoved
  BY Zenon DEF CompactDone, guestVars
<1>2. kept \in 0..MaxBlocks /\ dst \in Nat /\ 0..kept - 1 \subseteq Index
      /\ \A i \in Index : i \in 0..kept - 1 <=> i < kept
  BY SizeAssumption DEF CompactType, Index
<1>3. \A i \in Index : i < kept => /\ Whole(i) /\ blocks[i].linked = {}
                                   /\ BodyOf(i).on = {} /\ End(i) <= dst
  BY Zenon DEF CompactInv, CWhole, CPlace, Stays, Moved
<1>4. /\ blocks' \in [Index -> Block]
      /\ \A i \in Index : i < kept => blocks'[i] = blocks[i]
  BY <1>1, EmptyType, Zenon DEF TableType
<1>5. mem' \in [Addr -> Body \cup {Junk}]
  BY <1>1, Zenon DEF TableType
<1>6. \A i \in Index : Live(i)' <=> i < kept
  <2>1. \A i \in Index : i < kept => blocks[i].code # None
    BY <1>3 DEF Whole, Addr, None
  <2> QED BY <1>1, <1>4, <2>1, Zenon DEF Live
<1>7. ASSUME NEW i \in Index, i < kept
      PROVE  /\ BodyOf(i)' = BodyOf(i) /\ Whole(i)' /\ End(i)' <= used'
  <2>1. Whole(i) /\ End(i) <= dst /\ blocks'[i] = blocks[i]
    BY <1>3, <1>4, <1>7, Zenon
  <2>2. blocks[i].code \in Addr /\ Len[blocks[i].pc] \in Nat \ {0}
    BY <2>1, LenAssumption, Zenon DEF Whole, TableType, Block
  <2>3. blocks[i].code < dst
    BY <1>2, <2>1, <2>2 DEF End, Addr
  <2>4. BodyOf(i)' = BodyOf(i)
    BY <1>1, <2>1, <2>2, <2>3, Zenon DEF BodyOf
  <2>5. Whole(i)'
    BY <1>1, <2>1, <2>4, Zenon DEF Whole, AlignUp
  <2> QED BY <1>1, <2>1, <2>4, <2>5, Zenon DEF End
<1>8. TWhole' /\ TLinks'
  <2>1. TWhole'
    BY <1>6, <1>7, Zenon DEF TWhole
  <2>2. ASSUME NEW i \in Index, i < kept
        PROVE  blocks'[i].linked = {} /\ BodyOf(i)'.on = {}
    BY <1>3, <1>4, <1>7, <2>2, Zenon
  <2> QED BY <1>6, <2>1, <2>2, Zenon DEF TLinks
<1>9. TOrder' /\ TKeys'
  BY <1>4, <1>6, Zenon DEF CompactInv, COrder, CKeys, Stays, Moved, TOrder, TKeys, End, SameKey
<1>10. THash'
  <2>1. ASSUME NEW i \in Index, NEW h \in Buckets
        PROVE  i \in hash'[h] <=> Live(i)' /\ h = Bucket[blocks'[i].pc][blocks'[i].ctx]
    BY <1>1, <1>2, <1>4, <1>6, Zenon
  <2> QED BY <2>1, Zenon DEF THash
<1>11. LiveIn(blocks, kept) = 0..kept - 1
  BY <1>2, <1>3, SMTT(30) DEF LiveIn, Whole, Addr, None
<1>12. /\ maxSpan' \in Nat
       /\ \A i \in 0..kept - 1 : Span(blocks[i].pc) <= maxSpan'
  BY <1>1, <1>11 DEF IsMaxSpan, Pages
<1>13. phash' = [h \in 0..PageBuckets - 1 |->
                   {i \in 0..kept - 1 : PageBucket(PageLo[blocks[i].pc]) = h}]
  BY <1>1, <1>11, Zenon DEF PageIndex
<1>14. \A i \in Index : PageBucket(PageLo[blocks[i].pc]) \in 0..PageBuckets - 1
  <2>1. \A i \in Index : PageLo[blocks[i].pc] \in Nat
    BY PageAssumption DEF TableType, Block, Pages
  <2> QED BY <2>1, PageAssumption DEF PageBucket
<1>15. TPages'
  BY <1>2, <1>4, <1>6, <1>12, <1>13, <1>14, Zenon DEF TPages
<1>16. TableType'
  <2>1. hash' \in [Buckets -> SUBSET Index]
    BY <1>1, <1>2, Zenon
  <2>2. phash' \in [0..PageBuckets - 1 -> SUBSET Index]
    BY <1>2, <1>13, Zenon
  <2> QED BY <1>1, <1>2, <1>4, <1>5, <1>12, <2>1, <2>2, Zenon DEF TableType
<1>17. CompactType'
  BY <1>1, SizeAssumption DEF CompactType
<1>18. \A i \in Index : Live(i)' => blocks'[i].pc # gpc \/ blocks'[i].ctx # gctx
  BY <1>4, <1>6, Zenon DEF CompactInv, CMissed, Stays, Moved
<1> QED BY <1>8, <1>9, <1>10, <1>15, <1>16, <1>17, <1>18, Zenon DEF TableInv

-----------------------------------------------------------------------------
(* Every step keeps the invariant. *)

CtlType == /\ haveGen \in BOOLEAN /\ genMoved \in BOOLEAN
           /\ prev \in Index \cup {None}
           /\ phase \in {"out", "top", "find", "fall", "run", "compact", "second", "last"}
           /\ at \in Int
           /\ gpc \in Pcs /\ gctx \in Contexts

LEMMA TypeParts == TypeOK <=> TableType /\ CompactType /\ CtlType
BY Zenon DEF TypeOK, TableType, CompactType, CtlType

LEMMA InvInit == Init => IndInv
<1> SUFFICES ASSUME Init PROVE IndInv
  BY Zenon
<1>1. count = 0 /\ phase = "out" /\ prev = None /\ genMoved = FALSE /\ haveGen = FALSE
      /\ used = 0
  BY Zenon DEF Init
<1>2. TableType
  BY EmptyType, SizeAssumption DEF Init, TableType
<1>3. CompactType /\ CtlType
  <2>1. ci = 0 /\ kept = 0 /\ dst = 0 /\ keep = {} /\ MaxBlocks \in Nat
    BY SizeAssumption, Zenon DEF Init
  <2>2. CompactType
    BY <2>1 DEF CompactType
  <2>3. at = 0 /\ gpc \in Pcs /\ gctx \in Contexts
    BY Zenon DEF Init
  <2>4. CtlType
    <3>1. haveGen \in BOOLEAN /\ genMoved \in BOOLEAN
      BY <1>1, Zenon
    <3>2. prev \in Index \cup {None}
      BY <1>1, Zenon
    <3>3. phase \in {"out", "top", "find", "fall", "run", "compact", "second", "last"}
      BY <1>1, Zenon
    <3> QED BY <2>3, <3>1, <3>2, <3>3 DEF CtlType
  <2> QED BY <2>2, <2>4, Zenon
<1>4. \A i \in Index : ~Live(i)
  BY <1>1 DEF Live, Index
<1>5. hash = [h \in Buckets |-> {}]
  BY Zenon DEF Init
<1>6. TableInv
  BY <1>4, <1>5, Zenon DEF TableInv, TWhole, TOrder, TKeys, THash, TPages, TLinks
<1>7. Control
  BY <1>1, Zenon DEF Control
<1> QED BY <1>1, <1>2, <1>3, <1>6, <1>7, TypeParts, Zenon DEF IndInv

\* A step outside compact() and the run of a block that does not change the
\* tables, or changes them and forgets `prev`.
LEMMA TopKeeps ==
    ASSUME IndInv, CtlType', TableType', TableInv', UNCHANGED compactVars,
           prev' = None, phase' \in {"out", "top", "find", "fall"},
           genMoved' => phase' \in {"out", "top"},
           haveGen' \/ (phase' \in {"out", "top"} /\ count' = 0)
    PROVE  IndInv'
<1>1. CompactType'
  BY TypeParts, Zenon DEF IndInv, CompactType, compactVars
<1>2. TypeOK'
  BY <1>1, TypeParts, Zenon DEF TypeOK, TableType, CompactType, CtlType
<1>3. Control'
  BY Zenon DEF Control
<1> QED BY <1>2, <1>3, Zenon DEF IndInv

LEMMA SliceSteps ==
    ASSUME IndInv, SliceStart \/ SliceEnd
    PROVE  IndInv'
<1>1. TableType /\ TableInv /\ CtlType /\ (~haveGen => count = 0)
  BY TypeParts, Zenon DEF IndInv, SliceStart, SliceEnd, Control
<1>2. /\ prev' = None /\ phase' \in {"out", "top"}
      /\ UNCHANGED <<haveGen, at, compactVars, gpc, gctx, genMoved>>
  BY Zenon DEF SliceStart, SliceEnd, guestVars
<1>3. CtlType'
  BY <1>1, <1>2, Zenon DEF CtlType
<1>4. TableType' /\ TableInv' /\ (~haveGen => count' = 0)
  <2>1. CASE UNCHANGED tableVars
    BY <1>1, <1>2, <2>1, TableStutter, Zenon DEF tableVars, TableType
  <2>2. CASE EmuJitFlush
    BY <2>2, FlushTable, Zenon
  <2>3. CASE UnlinkAll
    BY <1>1, <1>2, <2>3, UnlinkTable, Zenon DEF UnlinkAll
  <2> QED BY <2>1, <2>2, <2>3, Zenon DEF SliceStart, SliceEnd
<1> QED BY <1>1, <1>2, <1>3, <1>4, TopKeeps, Zenon DEF CtlType

LEMMA IrqStep ==
    ASSUME IndInv, TakeIrq
    PROVE  IndInv'
<1>1. TableType /\ TableInv /\ CtlType /\ CompactType /\ Control
  BY TypeParts, Zenon DEF IndInv, TakeIrq
<1>2. /\ phase = "top" /\ gpc' \in Vectors /\ gctx' \in Contexts
      /\ UNCHANGED <<blocks, count, mem, used, hash, phash, maxSpan, haveGen, prev, phase,
                     at, ci, kept, dst, keep, genMoved>>
  BY Zenon DEF TakeIrq, tableVars, compactVars
<1>3. TypeOK'
  <2>1. CtlType'
    BY <1>1, <1>2, GuestAssumption, Zenon DEF CtlType
  <2>2. TableType' /\ CompactType'
    BY <1>1, <1>2, Zenon DEF TableType, CompactType
  <2> QED BY <2>1, <2>2, Zenon DEF TypeOK, TableType, CompactType, CtlType
<1>4. Control'
  BY <1>1, <1>2, Zenon DEF Control, Live
<1>5. TableInv'
  BY <1>1, <1>2, TableStutter, Zenon
<1> QED BY <1>2, <1>3, <1>4, <1>5, Zenon DEF IndInv

LEMMA SyncStep ==
    ASSUME IndInv, SyncGeneration
    PROVE  IndInv'
<1>1. TableType /\ TableInv /\ CtlType /\ CompactType /\ Control
  BY TypeParts, Zenon DEF IndInv, SyncGeneration
<1>2. /\ phase = "top" /\ haveGen' = TRUE /\ genMoved' = FALSE /\ phase' = "find"
      /\ UNCHANGED <<at, ci, kept, dst, keep, gpc, gctx>>
  BY Zenon DEF SyncGeneration, compactVars
<1>3. CASE haveGen /\ genMoved
  <2>1. EmuJitFlush /\ prev' = None
    BY <1>3, Zenon DEF SyncGeneration
  <2>2. CtlType'
    BY <1>1, <1>2, <2>1, Zenon DEF CtlType
  <2>3. TableType' /\ TableInv'
    BY <2>1, FlushTable, Zenon
  <2> QED BY <1>2, <2>1, <2>2, <2>3, TopKeeps, Zenon DEF compactVars
<1>4. CASE ~(haveGen /\ genMoved)
  <2>1. UNCHANGED <<blocks, count, mem, used, hash, phash, maxSpan, prev>>
    BY <1>4, Zenon DEF SyncGeneration, tableVars
  <2>2. TypeOK'
    <3>1. CtlType'
      BY <1>1, <1>2, <2>1, Zenon DEF CtlType
    <3>2. TableType' /\ CompactType'
      BY <1>1, <1>2, <2>1, Zenon DEF TableType, CompactType
    <3> QED BY <3>1, <3>2, Zenon DEF TypeOK, TableType, CompactType, CtlType
  <2>3. Control'
    BY <1>1, <1>2, <2>1, Zenon DEF Control, Live
  <2>4. TableInv'
    <3>1. CASE genMoved = FALSE
      BY <1>1, <1>2, <2>1, <3>1, TableStutter, Zenon
    <3>2. CASE ~haveGen
      <4>1. \A i \in Index : ~Live(i) /\ ~Live(i)'
        BY <1>1, <2>1, <3>2 DEF Control, Live, Index
      <4>2. THash'
        BY <1>1, <2>1, <4>1, Zenon DEF TableInv, THash
      <4> QED BY <4>1, <4>2, Zenon DEF TableInv, TWhole, TOrder, TKeys, TPages, TLinks
    <3> QED BY <1>1, <1>4, <3>1, <3>2, Zenon DEF CtlType
  <2> QED BY <1>2, <2>2, <2>3, <2>4, Zenon DEF IndInv
<1> QED BY <1>3, <1>4, Zenon

\* A hit: the block entered is live, and the exit linked to it is prev's.
LEMMA HitStep ==
    ASSUME VectorsApart, IndInv, NEW i \in Index, Hit(i)
    PROVE  IndInv'
<1>1. TableType /\ TableInv /\ CtlType /\ CompactType /\ Control
  BY TypeParts, Zenon DEF IndInv, Hit
<1>2. /\ phase = "find" /\ i \in Found /\ LinkExit(i)
      /\ prev' = i /\ at' = blocks[i].code /\ phase' = "run"
      /\ UNCHANGED <<count, used, hash, phash, maxSpan, haveGen, ci, kept, dst, keep,
                     gpc, gctx, genMoved>>
  BY Zenon DEF Hit, Enter, compactVars, guestVars
<1>3. Live(i) /\ blocks[i].pc = gpc /\ blocks[i].ctx = gctx
  <2>1. Bucket[gpc][gctx] \in Buckets
    BY <1>1, HashAssumption, Zenon DEF CtlType
  <2> QED BY <1>1, <1>2, <2>1, Zenon DEF Found, TableInv, THash
<1>4. prev # None => Live(prev) /\ (blocks[prev].ctx = blocks[i].ctx \/ blocks[i].pc \in Vectors)
  BY <1>1, <1>2, <1>3, Zenon DEF Control
<1>5. /\ TableType' /\ TableInv'
      /\ \A j \in Index : /\ Live(j)' <=> Live(j)
                          /\ blocks'[j].pc = blocks[j].pc
                          /\ blocks'[j].ctx = blocks[j].ctx
                          /\ blocks'[j].code = blocks[j].code
  <2>1. prev \in Index \cup {None}
    BY <1>1, Zenon DEF CtlType
  <2> QED BY <1>1, <1>2, <1>3, <1>4, <2>1, LinkTable, Zenon
<1>6. blocks[i].code \in Int
  BY <1>1, <1>3 DEF TableInv, TWhole, Whole, Addr
<1>7. TypeOK'
  <2>1. CtlType'
    BY <1>1, <1>2, <1>6, Zenon DEF CtlType
  <2>2. CompactType'
    BY <1>1, <1>2, Zenon DEF CompactType
  <2> QED BY <1>5, <2>1, <2>2, Zenon DEF TypeOK, TableType, CompactType, CtlType
<1>8. Control'
  <2>1. Live(i)' /\ blocks'[i].code = at' /\ blocks'[i].pc = gpc' /\ blocks'[i].ctx = gctx'
    BY <1>2, <1>3, <1>5, Zenon
  <2>2. Live(prev)' <=> Live(i)'
    BY <1>2, Zenon DEF Live
  <2>3. i # None
    BY DEF Index, None
  <2> QED BY <1>1, <1>2, <2>1, <2>2, <2>3, Zenon DEF Control
<1> QED BY <1>2, <1>5, <1>7, <1>8, Zenon DEF IndInv

\* translate() builds: the key is new, and the block built is entered.
LEMMA TranslateStep ==
    ASSUME IndInv, Translate
    PROVE  IndInv'
<1>1. TableType /\ TableInv /\ CtlType /\ CompactType /\ Control
  BY TypeParts, Zenon DEF IndInv, Translate, MayAttempt
<1>2. /\ MayAttempt /\ Build
      /\ prev' = count /\ at' = AlignUp(used) /\ phase' = "run"
      /\ UNCHANGED <<haveGen, ci, kept, dst, keep, gpc, gctx, genMoved>>
  BY Zenon DEF Translate, Enter, compactVars, guestVars
<1>3. \A i \in Index : Live(i) => blocks[i].pc # gpc \/ blocks[i].ctx # gctx
  BY <1>1, <1>2, NotFound, Zenon DEF MayAttempt, Control, CtlType
<1>4. count < MaxBlocks
  BY <1>1, <1>2, SizeAssumption DEF MayAttempt, SpaceLow, Control, TableType
<1>5. PICK n \in Index : n = count
  <2>1. count \in Nat /\ MaxBlocks \in Nat
    BY <1>1, SizeAssumption DEF TableType
  <2> QED BY <1>4, <2>1 DEF Index
<1>6. /\ TableType' /\ TableInv' /\ Live(n)'
      /\ blocks'[n].pc = gpc /\ blocks'[n].ctx = gctx
      /\ blocks'[n].code = AlignUp(used)
  BY <1>1, <1>2, <1>3, <1>5, BuildTable, Zenon DEF CtlType
<1>7. TypeOK'
  <2>1. AlignUp(used) \in Int
    BY <1>1, AlignFacts DEF TableType
  <2>2. CtlType'
    BY <1>1, <1>2, <1>5, <2>1, Zenon DEF CtlType
  <2>3. CompactType'
    BY <1>1, <1>2, Zenon DEF CompactType
  <2> QED BY <1>6, <2>2, <2>3, Zenon DEF TypeOK, TableType, CompactType, CtlType
<1>8. Control'
  <2>1. prev' = n /\ n # None /\ (Live(prev)' <=> Live(n)')
    BY <1>2, <1>5 DEF Live, Index, None
  <2>2. haveGen
    BY <1>1, <1>2, Zenon DEF Control, MayAttempt
  <2> QED BY <1>1, <1>2, <1>6, <2>1, <2>2, Zenon DEF Control, CtlType
<1> QED BY <1>2, <1>6, <1>7, <1>8, Zenon DEF IndInv

\* It declines, or cannot: the table is what it was.
LEMMA DeclineSteps ==
    ASSUME IndInv, TranslateDeclined \/ TranslateTooBig
    PROVE  IndInv'
<1>1. TableType /\ TableInv /\ CtlType /\ Control /\ haveGen /\ genMoved = FALSE
  BY TypeParts, Zenon DEF IndInv, TranslateDeclined, TranslateTooBig, MayAttempt, Control, CtlType
<1>2. /\ phase' = "fall" /\ prev' = None
      /\ UNCHANGED <<blocks, count, mem, hash, phash, maxSpan, haveGen, at,
                     compactVars, gpc, gctx, genMoved>>
      /\ used' = used \/ used' = AlignUp(used)
  BY Zenon DEF TranslateDeclined, TranslateTooBig, tableVars, guestVars
<1>3. used' \in Nat /\ used <= used'
  BY <1>1, <1>2, AlignFacts DEF TableType
<1>4. TableType' /\ CtlType'
  BY <1>1, <1>2, <1>3, Zenon DEF TableType, CtlType
<1>5. \A j \in Index : Live(j)' <=> Live(j)
  BY <1>2, Zenon DEF Live
<1>6. TWhole'
  <2>1. ASSUME NEW j \in Index, Live(j) PROVE Whole(j)' /\ End(j)' <= used'
    <3>1. Whole(j) /\ End(j) <= used
      BY <1>1, <2>1, Zenon DEF TableInv, TWhole
    <3>2. Whole(j)'
      BY <1>2, <3>1, Zenon DEF Whole, BodyOf, AlignUp
    <3>3. blocks[j].code \in Int /\ Len[blocks[j].pc] \in Int
      BY <1>1, <3>1, LenAssumption, SMTT(30) DEF Whole, Addr, TableType, Block
    <3>4. End(j)' = End(j) /\ End(j) \in Int
      BY <1>2, <3>3 DEF End
    <3> QED BY <1>1, <1>3, <3>1, <3>2, <3>4, SMTT(30) DEF TableType
  <2> QED BY <1>5, <2>1, Zenon DEF TWhole
<1>7. TOrder' /\ TKeys' /\ THash' /\ TPages'
  BY <1>1, <1>2, <1>5, Zenon DEF TableInv, TOrder, TKeys, THash, TPages, End, SameKey
<1>8. TLinks'
  <2>1. \A j \in Index : BodyOf(j)' = BodyOf(j)
    BY <1>2, Zenon DEF BodyOf
  <2>2. ASSUME NEW j \in Index, NEW k \in BodyOf(j).on, LinkOk(j, k)
        PROVE  LinkOk(j, k)'
    <3> DEFINE y == LinkTo(j, k)
    <3>1. LinkTo(j, k)' = y
      BY <1>2, <2>1, Zenon DEF LinkTo
    <3>2. y \in Addr /\ mem[y] # Junk /\ y + Len[mem[y].pc] <= used
      BY <2>2, Zenon DEF LinkOk
    <3>3. y \in Int /\ Len[mem[y].pc] \in Int
      BY <1>1, <3>2, LenAssumption, SMTT(30) DEF TableType, Body, Addr
    <3> HIDE DEF y
    <3>4. y + Len[mem[y].pc] <= used'
      BY <1>1, <1>3, <3>2, <3>3 DEF TableType
    <3> QED BY <1>2, <1>5, <2>2, <3>1, <3>4, Zenon DEF LinkOk, y
  <2> QED BY <1>1, <1>2, <1>5, <2>1, <2>2, Zenon DEF TableInv, TLinks
<1> QED BY <1>1, <1>2, <1>4, <1>6, <1>7, <1>8, TopKeeps, Zenon DEF TableInv

LEMMA CompactSteps ==
    ASSUME IndInv, CompactStart \/ CompactMove \/ CompactDrop \/ CompactDone
    PROVE  IndInv'
<1>1. TableType /\ CompactType /\ CtlType /\ Control
  BY TypeParts, Zenon DEF IndInv
<1>2. /\ phase \in {"find", "compact"} /\ haveGen /\ genMoved = FALSE
      /\ UNCHANGED <<haveGen, at, gpc, gctx, genMoved>>
      /\ prev' = None
      /\ phase' = "compact" \/ (phase' = "second" /\ CompactDone)
  <2>1. phase = "compact" => prev = None
    BY <1>1, Zenon DEF Control
  <2> QED BY <1>1, <2>1, Zenon DEF CompactStart, CompactMove, CompactDrop, CompactDone, Control,
                            CtlType, guestVars, tableVars
<1>3. CtlType'
  BY <1>1, <1>2, Zenon DEF CtlType
<1>4. CASE CompactDone
  <2>1. phase = "compact" /\ phase' = "second" /\ CompactInv
    BY <1>4, Zenon DEF CompactDone, IndInv
  <2>2. /\ TableType' /\ TableInv' /\ CompactType'
        /\ \A i \in Index : Live(i)' => blocks'[i].pc # gpc \/ blocks'[i].ctx # gctx
    BY <1>1, <1>4, <2>1, DoneKeeps, Zenon
  <2>3. Control'
    BY <1>2, <2>1, <2>2, Zenon DEF Control
  <2>4. TypeOK'
    BY <1>3, <2>2, Zenon DEF TypeOK, TableType, CompactType, CtlType
  <2> QED BY <2>1, <2>2, <2>3, <2>4, Zenon DEF IndInv
<1>5. CASE CompactStart \/ CompactMove \/ CompactDrop
  <2>1. phase' = "compact"
    BY <1>5, Zenon DEF CompactStart, CompactMove, CompactDrop, IndInv
  <2>2. TableType' /\ CompactType' /\ CompactInv'
    <3>1. CASE CompactStart
      <4>1. TableInv
        BY <3>1, Zenon DEF CompactStart, IndInv
      <4> QED BY <1>1, <3>1, <4>1, StartCompacts, Zenon DEF CtlType
    <3>2. CASE CompactMove
      <4>1. CompactInv
        BY <3>2, Zenon DEF CompactMove, IndInv
      <4> QED BY <1>1, <3>2, <4>1, MoveKeeps, Zenon
    <3>3. CASE CompactDrop
      <4>1. CompactInv
        BY <3>3, Zenon DEF CompactDrop, IndInv
      <4> QED BY <1>1, <3>3, <4>1, DropKeeps, Zenon
    <3> QED BY <1>5, <3>1, <3>2, <3>3, Zenon
  <2>3. Control'
    BY <1>2, <2>1, Zenon DEF Control
  <2>4. TypeOK'
    BY <1>3, <2>2, Zenon DEF TypeOK, TableType, CompactType, CtlType
  <2> QED BY <2>1, <2>2, <2>3, <2>4, Zenon DEF IndInv
<1> QED BY <1>4, <1>5, Zenon

LEMMA StartOverStep ==
    ASSUME IndInv, StartOver
    PROVE  IndInv'
<1>1. TableType /\ CompactType /\ CtlType /\ Control /\ haveGen /\ genMoved = FALSE
      /\ prev = None
  BY TypeParts, Zenon DEF IndInv, StartOver, Control, CtlType
<1>2. /\ EmuJitFlush /\ phase' = "last"
      /\ UNCHANGED <<haveGen, prev, at, ci, kept, dst, keep, gpc, gctx, genMoved>>
  BY Zenon DEF StartOver, compactVars, guestVars
<1>3. TableType' /\ TableInv' /\ count' = 0 /\ used' = 0
  BY <1>2, FlushTable, Zenon
<1>4. CtlType' /\ CompactType'
  BY <1>1, <1>2, Zenon DEF CtlType, CompactType
<1>5. \A i \in Index : ~Live(i)'
  BY <1>3 DEF Live, Index
<1>6. Control'
  BY <1>1, <1>2, <1>3, <1>5, Zenon DEF Control
<1>7. TypeOK'
  BY <1>3, <1>4, Zenon DEF TypeOK, TableType, CompactType, CtlType
<1> QED BY <1>2, <1>3, <1>6, <1>7, Zenon DEF IndInv

\* The interpreter's turn forgets prev; a fence it executes retires what it
\* should, or flushes.
LEMMA InterpretSteps ==
    ASSUME IndInv,
           \/ Interpret \/ InterpretGeneration \/ InterpretFlush
           \/ \E lo, hi \in Pages : InterpretFence(lo, hi)
    PROVE  IndInv'
<1>1. /\ Interpreted
      /\ (UNCHANGED genMoved /\ gctx' \in Contexts) \/ (MoveGeneration /\ gctx' = gctx)
  BY TypeParts, Zenon DEF Interpret, InterpretGeneration, InterpretFlush, InterpretFence, IndInv, CtlType
<1>2. TableType /\ TableInv /\ CtlType /\ haveGen /\ genMoved = FALSE
  BY <1>1, TypeParts, Zenon DEF IndInv, Interpreted, MayInterpret, Control, CtlType
<1>3. /\ gpc' \in Pcs /\ prev' = None /\ phase' = "top"
      /\ UNCHANGED <<haveGen, at, compactVars>>
  BY <1>1, Zenon DEF Interpreted
<1>4. CtlType'
  BY <1>1, <1>2, <1>3, Zenon DEF CtlType, MoveGeneration
<1>5. TableType' /\ TableInv'
  <2>1. CASE Interpret
    <3>1. UNCHANGED <<blocks, count, mem, used, hash, phash, maxSpan, genMoved>>
      BY <2>1, Zenon DEF Interpret, tableVars
    <3>2. TableType'
      BY <1>2, <3>1, Zenon DEF TableType
    <3> QED BY <1>2, <3>1, <3>2, TableStutter, Zenon
  <2>2. CASE InterpretGeneration
    BY <1>2, <2>2, AgeTable, Zenon DEF InterpretGeneration
  <2>3. CASE InterpretFlush
    BY <2>3, FlushTable, Zenon DEF InterpretFlush
  <2>4. ASSUME NEW lo \in Pages, NEW hi \in Pages, InterpretFence(lo, hi)
        PROVE  TableType' /\ TableInv'
    BY <1>2, <2>4, RetireTable, Zenon DEF InterpretFence
  <2> QED BY <2>1, <2>2, <2>3, <2>4, Zenon
<1> QED BY <1>2, <1>3, <1>4, <1>5, TopKeeps, Zenon

\* A block runs: it and whatever it chains into are live blocks of the guest's
\* pc and context.
LEMMA RunSteps ==
    ASSUME IndInv,
           \/ \E k \in Exits : RunExit(k) \/ RunChained(k)
           \/ RunElsewhere \/ RunTrap \/ RunGeneration
    PROVE  IndInv'
<1>1. phase = "run"
  BY Zenon DEF RunExit, RunChained, RunElsewhere, RunTrap, RunGeneration
<1>2. TableType /\ TableInv /\ CtlType /\ CompactType /\ Control /\ haveGen
  BY <1>1, TypeParts, Zenon DEF IndInv, Control
<1>3. PICK j \in Index : /\ Live(j) /\ blocks[j].code = at
                         /\ blocks[j].pc = gpc /\ blocks[j].ctx = gctx
  BY <1>1, <1>2, Zenon DEF Control
<1>4. /\ Whole(j) /\ at \in Addr /\ mem[at] # Junk /\ mem[at].pc = gpc /\ mem[at] \in Body
      /\ BodyOf(j) = mem[at]
  BY <1>2, <1>3, Zenon DEF TableInv, TWhole, Whole, BodyOf, TableType
<1>5. prev \in Index /\ prev # None /\ Live(prev) /\ blocks[prev].ctx = gctx
  BY <1>1, <1>2, Zenon DEF Control, CtlType
<1>6. /\ UNCHANGED <<blocks, count, haveGen, prev, ci, kept, dst, keep>>
      /\ TableType' /\ TableInv'
  <2>1. CASE RunGeneration
    <3>1. MoveGeneration /\ UNCHANGED <<haveGen, prev, ci, kept, dst, keep>>
      BY <2>1, Zenon DEF RunGeneration, compactVars
    <3> QED BY <1>2, <3>1, AgeTable, Zenon
  <2>2. CASE ~RunGeneration
    <3>1. UNCHANGED <<blocks, count, mem, used, hash, phash, maxSpan, genMoved,
                      haveGen, prev, ci, kept, dst, keep>>
      BY <2>2, Zenon DEF RunExit, RunChained, RunElsewhere, RunTrap, ToDispatcher, tableVars, compactVars
    <3>2. TableType'
      BY <1>2, <3>1, Zenon DEF TableType
    <3> QED BY <1>2, <3>1, <3>2, TableStutter, Zenon
  <2> QED BY <2>1, <2>2, Zenon
<1>7. \A i \in Index : Live(i)' <=> Live(i)
  BY <1>6, Zenon DEF Live
<1>8. Live(prev)' /\ blocks'[prev'].ctx = gctx
  BY <1>5, <1>6, Zenon DEF Live
<1>9. CompactType'
  BY <1>2, <1>6, Zenon DEF CompactType
<1>10. ASSUME gpc' \in Pcs, gctx' = gctx \/ (gctx' \in Contexts /\ gpc' \in Vectors),
              UNCHANGED genMoved, phase' = "top", at' = 0
       PROVE  IndInv'
  <2>1. CtlType'
    BY <1>2, <1>6, <1>10 DEF CtlType
  <2>2. Control'
    BY <1>2, <1>6, <1>8, <1>10, Zenon DEF Control
  <2>3. TypeOK'
    BY <1>6, <1>9, <2>1, Zenon DEF TypeOK, TableType, CompactType, CtlType
  <2> QED BY <1>6, <1>10, <2>2, <2>3, Zenon DEF IndInv
<1>11. ASSUME NEW k \in Exits, RunExit(k) PROVE IndInv'
  <2>1. gpc' \in Pcs
    BY <1>2, <1>4, <1>11, TargetAssumption DEF RunExit, CtlType
  <2> QED BY <1>10, <1>11, <2>1, ZenonT(40) DEF RunExit, ToDispatcher
<1>12. ASSUME NEW k \in Exits, RunChained(k) PROVE IndInv'
  <2> DEFINE to == at + mem[at].disp[k]
  <2>1. k \in BodyOf(j).on /\ gpc' = Target[gpc][k] /\ UNCHANGED <<gctx, genMoved>>
    BY <1>4, <1>12, Zenon DEF RunChained
  <2>2. LinkOk(j, k) /\ LinkTo(j, k) = to
    BY <1>2, <1>3, <1>4, <2>1, Zenon DEF TableInv, TLinks, LinkTo
  <2>3. /\ to \in Addr /\ mem[to] # Junk /\ mem[to].pc = gpc' /\ gpc' \in Pcs
        /\ mem[to].open => \E i \in Index : Live(i) /\ blocks[i].code = to
        /\ mem[to].ctx = gctx
    <3>1. /\ to \in Addr /\ mem[to] # Junk /\ mem[to].pc = Target[blocks[j].pc][k]
          /\ mem[to].ctx = blocks[j].ctx
          /\ mem[to].open => \E i \in Index : Live(i) /\ blocks[i].code = to
      BY <2>2, Zenon DEF LinkOk
    <3>2. mem[to].pc \in Pcs
      BY <1>2, <3>1, Zenon DEF TableType, Body
    <3> QED BY <1>3, <2>1, <3>1, <3>2, Zenon
  <2> HIDE DEF to
  <2>4. CASE ~mem[to].open
    <3>1. ToDispatcher
      BY <1>12, <2>3, <2>4, Zenon DEF RunChained, to
    <3> QED BY <1>10, <2>1, <2>3, <3>1, Zenon DEF ToDispatcher
  <2>5. CASE mem[to].open
    <3>1. at' = to /\ phase' = "run"
      BY <1>1, <1>12, <2>3, <2>5, Zenon DEF RunChained, to
    <3>2. PICK i \in Index : Live(i) /\ blocks[i].code = to
      BY <2>3, <2>5, Zenon
    <3>3. blocks[i].pc = gpc' /\ blocks[i].ctx = gctx'
      BY <1>2, <2>1, <2>3, <3>2, Zenon DEF TableInv, TWhole, Whole, BodyOf
    <3>4. /\ Live(i)' /\ blocks'[i].code = at'
          /\ blocks'[i].pc = gpc' /\ blocks'[i].ctx = gctx'
      BY <1>6, <1>7, <3>1, <3>2, <3>3, ZenonT(40)
    <3>5. CtlType'
      BY <1>2, <1>6, <2>1, <2>3, <3>1, SMTT(30) DEF CtlType, Addr
    <3>6. Control'
      BY <1>2, <1>5, <1>6, <1>8, <2>1, <3>1, <3>4, Zenon DEF Control
    <3>7. TypeOK'
      BY <1>6, <1>9, <3>5, Zenon DEF TypeOK, TableType, CompactType, CtlType
    <3> QED BY <1>6, <3>1, <3>6, <3>7, Zenon DEF IndInv
  <2> QED BY <2>4, <2>5, Zenon
<1>13. CASE RunElsewhere
  BY <1>10, <1>13, Zenon DEF RunElsewhere, ToDispatcher
<1>14. CASE RunTrap
  <2>1. gpc' \in Vectors /\ gctx' \in Contexts
    BY <1>14, Zenon DEF RunTrap
  <2> QED BY <1>10, <1>14, <2>1, GuestAssumption, Zenon DEF RunTrap, ToDispatcher
<1>15. CASE RunGeneration
  <2>1. genMoved' = TRUE /\ UNCHANGED <<phase, at, gpc, gctx>>
    BY <1>15, Zenon DEF RunGeneration, MoveGeneration
  <2>2. CtlType'
    BY <1>2, <1>6, <2>1, Zenon DEF CtlType
  <2>3. /\ Live(j)' /\ blocks'[j].code = at'
        /\ blocks'[j].pc = gpc' /\ blocks'[j].ctx = gctx'
    BY <1>3, <1>6, <1>7, <2>1, Zenon
  <2>4. Control'
    BY <1>1, <1>2, <1>5, <1>6, <1>8, <2>1, <2>3, Zenon DEF Control
  <2>5. TypeOK'
    BY <1>6, <1>9, <2>2, Zenon DEF TypeOK, TableType, CompactType, CtlType
  <2> QED BY <1>1, <1>6, <2>1, <2>4, <2>5, Zenon DEF IndInv
<1> QED BY <1>11, <1>12, <1>13, <1>14, <1>15, Zenon

LEMMA InvStutter ==
    ASSUME IndInv, UNCHANGED vars
    PROVE  IndInv'
<1>1. UNCHANGED <<blocks, count, mem, used, hash, phash, maxSpan, haveGen, prev, phase, at,
                  ci, kept, dst, keep, gpc, gctx, genMoved>>
  BY Zenon DEF vars, tableVars, compactVars, guestVars
<1>2. TypeOK'
  BY <1>1, Zenon DEF IndInv, TypeOK
<1>3. Control'
  BY <1>1, Zenon DEF IndInv, Control, Live
<1>4. phase # "compact" => TableInv'
  BY <1>1, TableStutter, Zenon DEF IndInv
<1>5. ASSUME CompactInv PROVE CompactInv'
  <2>1. \A i \in Index : /\ Moved(i)' <=> Moved(i)
                         /\ ToMove(i)' <=> ToMove(i)
                         /\ Stays(i)' <=> Stays(i)
    BY <1>1, Zenon DEF Moved, ToMove, Stays
  <2>2. CBounds' /\ CWhole'
    BY <1>1, <1>5, <2>1, Zenon DEF CompactInv, CBounds, CWhole, Whole, BodyOf, AlignUp
  <2>3. CPlace'
    BY <1>1, <1>5, <2>1, Zenon DEF CompactInv, CPlace, End, AlignUp
  <2>4. COrder' /\ CKeys' /\ CMissed'
    BY <1>1, <1>5, <2>1, Zenon DEF CompactInv, COrder, CKeys, CMissed, End, SameKey
  <2> QED BY <2>2, <2>3, <2>4, Zenon DEF CompactInv
<1> QED BY <1>1, <1>2, <1>3, <1>4, <1>5, Zenon DEF IndInv

LEMMA InvNext ==
    ASSUME VectorsApart, IndInv, [Next]_vars
    PROVE  IndInv'
<1>1. CASE UNCHANGED vars
  BY <1>1, InvStutter, Zenon
<1>2. CASE Next
  BY <1>2, SliceSteps, IrqStep, SyncStep, HitStep, TranslateStep, DeclineSteps,
     CompactSteps, StartOverStep, InterpretSteps, RunSteps, Zenon DEF Next
<1> QED BY <1>1, <1>2, Zenon

LEMMA Invariance ==
    ASSUME VectorsApart
    PROVE  Spec => []IndInv
<1>1. Init => IndInv
  BY InvInit, Zenon
<1>2. IndInv /\ [Next]_vars => IndInv'
  BY InvNext, Zenon
<1> QED BY <1>1, <1>2, PTL DEF Spec

\* The dispatcher only ever runs the guest's code: the body at the address it
\* jumps to, or that a chained exit jumps to, is the translation of the guest's
\* pc for its context, whole and not retired, for every program no static exit
\* of which leads to an exception's address.
THEOREM RunsRight ==
    ASSUME VectorsApart
    PROVE  Spec => []RunsTheRightCode
<1>1. IndInv => RunsTheRightCode
  <2> SUFFICES ASSUME IndInv, phase = "run"
               PROVE  /\ at \in Addr /\ mem[at] # Junk /\ mem[at].open
                      /\ mem[at].pc = gpc /\ mem[at].ctx = gctx
                      /\ mem[at].old => genMoved
    BY Zenon DEF RunsTheRightCode
  <2>1. PICK j \in Index : /\ Live(j) /\ blocks[j].code = at
                           /\ blocks[j].pc = gpc /\ blocks[j].ctx = gctx
    BY Zenon DEF IndInv, Control
  <2> QED BY <2>1, Zenon DEF IndInv, TableInv, TWhole, Whole, BodyOf
<1> QED BY <1>1, Invariance, PTL

\* Whenever compact() is not at work, every live block's body is whole and in
\* its place, blocks lie apart in table order, lookup() finds each of them and
\* nothing else, and the page index misses none.
THEOREM TablesSound ==
    ASSUME VectorsApart
    PROVE  Spec => []TablesIntact
<1>1. IndInv => TypeOK
  BY Zenon DEF IndInv
<1>2. IndInv => BodiesIntact
  BY Zenon DEF IndInv, BodiesIntact, TableInv, TWhole, Whole
<1>3. IndInv => InOrder
  BY Zenon DEF IndInv, InOrder, TableInv, TWhole, TOrder, End
<1>4. IndInv => TableFindable
  BY Zenon DEF IndInv, TableFindable, TableInv, THash, TKeys, SameKey
<1>5. IndInv => PageIndexComplete
  BY Zenon DEF IndInv, PageIndexComplete, TableInv, TPages
<1>6. IndInv => TablesIntact
  BY <1>1, <1>2, <1>3, <1>4, <1>5, Zenon DEF TablesIntact
<1> QED BY <1>6, Invariance, PTL

\* No fence leaves a block behind that was built from what it fences.
THEOREM NothingStale ==
    ASSUME VectorsApart
    PROVE  Spec => []NothingStaleFindable
<1>1. IndInv => NothingStaleFindable
  BY Zenon DEF IndInv, NothingStaleFindable, TableInv, TWhole, Whole
<1> QED BY <1>1, Invariance, PTL

\* Every chained exit is recorded and leads to the code of its target, and
\* compact() never moves a block over one it has still to move.
THEOREM LinksAndMoves ==
    ASSUME VectorsApart
    PROVE  Spec => []LinksSafe
<1>1. IndInv => LinksSound
  <2> SUFFICES ASSUME IndInv, phase # "compact", NEW i \in Index, Live(i)
               PROVE  /\ blocks[i].linked = BodyOf(i).on
                      /\ \A k \in BodyOf(i).on :
                           /\ LinkTo(i, k) \in Addr
                           /\ mem[LinkTo(i, k)] # Junk
                           /\ mem[LinkTo(i, k)].pc = Target[blocks[i].pc][k]
                           /\ mem[LinkTo(i, k)].ctx = blocks[i].ctx
                           /\ mem[LinkTo(i, k)].old => (~mem[LinkTo(i, k)].open \/ genMoved)
    BY Zenon DEF LinksSound, LinkTo
  <2>1. TableInv
    BY ZenonT(40) DEF IndInv
  <2>2. ASSUME NEW k \in BodyOf(i).on
        PROVE  mem[LinkTo(i, k)].old => (~mem[LinkTo(i, k)].open \/ genMoved)
    BY <2>1, <2>2 DEF TableInv, TLinks, LinkOk, TWhole, Whole, BodyOf
  <2> QED BY <2>1, <2>2, Zenon DEF TableInv, TLinks, LinkOk
<1>2. IndInv => CompactionSafe
  <2> SUFFICES ASSUME IndInv, phase = "compact", NEW i \in ci..count - 1, i \in keep
               PROVE  /\ SlideTo <= blocks[i].code
                      /\ BodyOf(i) # Junk /\ BodyOf(i).pc = blocks[i].pc
                      /\ BodyOf(i).on = {}
    BY Zenon DEF CompactionSafe
  <2>1. i \in Index /\ ToMove(i)
    BY DEF IndInv, TypeOK, ToMove
  <2> QED BY <2>1, Zenon DEF IndInv, CompactInv, CWhole, CPlace, Stays, Whole, SlideTo
<1>3. IndInv => LinksSafe
  BY <1>1, <1>2, Zenon DEF LinksSafe
<1> QED BY <1>3, Invariance, PTL
=============================================================================
