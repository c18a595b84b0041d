------------------------------ MODULE JitCache ------------------------------
(***************************************************************************)
(* The JIT's code cache and the dispatcher that enters it                  *)
(* (src/src/emu/emu_jit.c): the bump-allocated code buffer, the block      *)
(* table with its pc hash and its page index, chained exits, compaction,   *)
(* page invalidation, generations and flushes, for one core.               *)
(*                                                                         *)
(* The code buffer is memory: a block's emitted code (a body) sits at an   *)
(* address, writing over any of it destroys it, and a chained exit is a    *)
(* displacement that leads wherever it leads.  What the guest computes is  *)
(* left out; what is kept of it is where it goes next, in which context,   *)
(* and which of the code it was translated from it has changed and fenced. *)
(***************************************************************************)
EXTENDS Integers, FiniteSetsExt

CONSTANTS
    Pcs, Contexts,      \* guest addresses and block contexts
    Vectors,            \* pcs reached with a change of context: by an
                        \* interrupt, a trap or a return from one
    NoPc,               \* no guest address: an exit that cannot be chained
    Target,             \* [Pcs -> [Exits -> Pcs \cup {NoPc}]]: static exits
    Chainable,          \* pcs whose block has a chain entry
    ShortBody,          \* pcs whose body has no room for the retiring jump
    Len,                \* bytes of code a block takes
    PageLo, PageHi,     \* block_page_lo, block_page_hi: pages a block covers
    Bucket, Buckets,    \* pc_hash
    PageBuckets,        \* EMU_JIT_PAGE_HASH_SIZE
    PageWalkMax,        \* JIT_PAGE_WALK_MAX
    LastPage,           \* the guest's pages are 0..LastPage
    MaxBlocks, CodeSize, BlockReserve, CodeAlign,
    Junk                \* bytes that are no body's start

Exits  == 1..2                      \* EMU_JIT_MAX_CHAIN
Addr   == 0..CodeSize - 1
Index  == 0..MaxBlocks - 1
Pages  == 0..LastPage
None   == -1                        \* a retired block's code, no `prev`
PageBucket(p) == p % PageBuckets

Block == [pc : Pcs, ctx : Contexts, code : Addr \cup {None},
          linked : SUBSET Exits]

\* on/disp: an exit k in on is patched to jump disp[k] bytes from the body's start.
\* open: the chain entry leads into the body, not to its own exit.
\* old: the guest has since fenced a change to what it was built from.
Body == [pc : Pcs, ctx : Contexts, on : SUBSET Exits,
         disp : [Exits -> Int], open : BOOLEAN, old : BOOLEAN]

ASSUME GuestAssumption ==
    /\ Pcs # {} /\ Contexts # {} /\ Vectors \subseteq Pcs /\ NoPc \notin Pcs
    /\ Chainable \subseteq Pcs /\ ShortBody \subseteq Chainable

ASSUME TargetAssumption ==
    /\ Target \in [Pcs -> [Exits -> Pcs \cup {NoPc}]]
    /\ \A pc \in Pcs \ Chainable : \A k \in Exits : Target[pc][k] = NoPc

ASSUME LenAssumption == Len \in [Pcs -> Nat \ {0}]

ASSUME PageAssumption ==
    /\ LastPage \in Nat /\ PageBuckets \in Nat \ {0} /\ PageWalkMax \in Nat \ {0}
    /\ PageLo \in [Pcs -> Pages] /\ PageHi \in [Pcs -> Pages]
    /\ \A pc \in Pcs : PageLo[pc] <= PageHi[pc]

ASSUME HashAssumption == Bucket \in [Pcs -> [Contexts -> Buckets]]

ASSUME SizeAssumption ==
    /\ MaxBlocks \in Nat \ {0} /\ CodeSize \in Nat \ {0}
    /\ BlockReserve \in Nat /\ CodeAlign \in {1, 2, 4}

ASSUME JunkAssumption == Junk \notin Body

VARIABLES
    blocks, count,      \* g_blocks, g_block_count
    mem, used,          \* g_code, g_code_used
    hash,               \* g_hash: [Buckets -> the indices chained there]
    phash, maxSpan,     \* g_phash, g_max_span
    haveGen,            \* g_have_generation
    prev,               \* emu_jit_run's prev, an index
    phase,              \* where emu_jit_run is
    at,                 \* the address of the body that runs
    ci, kept, dst, keep,\* compact(): its loop and what it retains
    gpc, gctx,          \* the guest's pc and context
    genMoved            \* *hot.generation differs from g_generation

tableVars   == <<blocks, count, mem, used, hash, phash, maxSpan>>
compactVars == <<ci, kept, dst, keep>>
guestVars   == <<gpc, gctx, genMoved>>
vars == <<tableVars, haveGen, prev, phase, at, compactVars, guestVars>>

Live(i)    == i < count /\ blocks[i].code # None
Covers(pc, lo, hi) == PageLo[pc] <= hi /\ lo <= PageHi[pc]

\* Mutation: the cursor is rounded down to the boundary.
AlignUp_Down(n) == (n \div CodeAlign) * CodeAlign

AlignUp(n) == ((n + CodeAlign - 1) \div CodeAlign) * CodeAlign

\* Mutation: only the buffer is asked for room, not the table.
SpaceLow_BufferOnly == used + BlockReserve >= CodeSize

SpaceLow == count >= MaxBlocks \/ used + BlockReserve >= CodeSize

-----------------------------------------------------------------------------
(* The code buffer. *)

\* n bytes written at a, the first of them b's: what they hit is gone.
Overwrites(m, x, a, n) == m[x] # Junk /\ x < a + n /\ a < x + Len[m[x].pc]
WriteCode(m, a, n, b) ==
    [x \in Addr |-> IF x = a THEN b
                    ELSE IF Overwrites(m, x, a, n) THEN Junk ELSE m[x]]

\* The exits in ks point back at the body's own tail.
Unpatched(b, ks) ==
    [pc |-> b.pc, ctx |-> b.ctx, open |-> b.open, old |-> b.old,
     on   |-> b.on \ ks,
     disp |-> [k \in Exits |-> IF k \in ks THEN 0 ELSE b.disp[k]]]

\* Exit k jumps d bytes from the body's start.
Patched(b, k, d) ==
    [pc |-> b.pc, ctx |-> b.ctx, open |-> b.open, old |-> b.old,
     on |-> b.on \cup {k}, disp |-> [b.disp EXCEPT ![k] = d]]

\* The bodies built from pages lo..hi, as the guest's fence makes them.
Fenced(m, lo, hi) ==
    [x \in Addr |-> IF m[x] # Junk /\ Covers(m[x].pc, lo, hi)
                    THEN [m[x] EXCEPT !.old = TRUE] ELSE m[x]]

NewBody(pc, ctx) == [pc |-> pc, ctx |-> ctx, on |-> {},
                     disp |-> [k \in Exits |-> 0], open |-> TRUE, old |-> FALSE]

-----------------------------------------------------------------------------
(* The tables. *)

\* An entry past count: nothing may rely on what it holds.
EmptyBlock == [pc |-> CHOOSE pc \in Pcs : TRUE, ctx |-> CHOOSE c \in Contexts : TRUE,
               code |-> None, linked |-> {}]

\* emu_jit_flush.  Freed bytes are junk: nothing may rely on them either.
EmuJitFlush ==
    /\ hash' = [h \in Buckets |-> {}]
    /\ phash' = [h \in 0..PageBuckets - 1 |-> {}]
    /\ maxSpan' = 0
    /\ count' = 0
    /\ used' = 0
    /\ mem' = [x \in Addr |-> Junk]
    /\ blocks' = [i \in Index |-> EmptyBlock]

Span(pc) == PageHi[pc] - PageLo[pc]

\* rebuild_pages, for the first n entries of a table t.
LiveIn(t, n)    == {i \in 0..n - 1 : t[i].code # None}
PageIndex(t, n) == [h \in 0..PageBuckets - 1 |->
                      {i \in LiveIn(t, n) : PageBucket(PageLo[t[i].pc]) = h}]

\* Mutation: rebuild_pages resets the span and does not raise it again.
IsMaxSpan_Reset(t, n, s) == s = 0

IsMaxSpan(t, n, s) ==
    /\ \A i \in LiveIn(t, n) : Span(t[i].pc) <= s
    /\ s = 0 \/ \E i \in LiveIn(t, n) : Span(t[i].pc) = s

\* Mutation: the cursor is not advanced past the new code.
Build_NoAdvance ==
    LET start == AlignUp(used) IN
    /\ start + Len[gpc] <= CodeSize
    /\ blocks' = [blocks EXCEPT ![count] =
                     [pc |-> gpc, ctx |-> gctx, code |-> start,
                      linked |-> {}]]
    /\ count' = count + 1
    /\ mem' = WriteCode(mem, start, Len[gpc], NewBody(gpc, gctx))
    /\ used' = start
    /\ hash' = [hash EXCEPT ![Bucket[gpc][gctx]] = @ \cup {count}]
    /\ phash' = [phash EXCEPT ![PageBucket(PageLo[gpc])] = @ \cup {count}]
    /\ maxSpan' = IF Span(gpc) > maxSpan THEN Span(gpc) ELSE maxSpan

\* translate_once's success: append, hash, index.
Build ==
    LET start == AlignUp(used) IN
    /\ start + Len[gpc] <= CodeSize
    /\ blocks' = [blocks EXCEPT ![count] =
                     [pc |-> gpc, ctx |-> gctx, code |-> start,
                      linked |-> {}]]
    /\ count' = count + 1
    /\ mem' = WriteCode(mem, start, Len[gpc], NewBody(gpc, gctx))
    /\ used' = start + Len[gpc]
    /\ hash' = [hash EXCEPT ![Bucket[gpc][gctx]] = @ \cup {count}]
    /\ phash' = [phash EXCEPT ![PageBucket(PageLo[gpc])] = @ \cup {count}]
    /\ maxSpan' = IF Span(gpc) > maxSpan THEN Span(gpc) ELSE maxSpan

Overflows == AlignUp(used) + Len[gpc] > CodeSize

\* Mutation: the exits are marked unlinked and the code is not patched.
UnlinkAll_MarksOnly ==
    /\ blocks' = [i \in Index |->
                    IF Live(i)
                    THEN [blocks[i] EXCEPT !.linked = {}]
                    ELSE blocks[i]]
    /\ UNCHANGED <<count, mem, used, hash, phash, maxSpan>>

\* unlink_all: retired blocks are passed over.
LinkedAt(x) == {k \in Exits : \E i \in Index :
                   Live(i) /\ blocks[i].code = x /\ k \in blocks[i].linked}
UnlinkAll ==
    /\ mem' = [x \in Addr |-> IF mem[x] = Junk THEN Junk
                              ELSE Unpatched(mem[x], LinkedAt(x))]
    /\ blocks' = [i \in Index |->
                    IF Live(i)
                    THEN [blocks[i] EXCEPT !.linked = {}]
                    ELSE blocks[i]]
    /\ UNCHANGED <<count, used, hash, phash, maxSpan>>

\* link_exit(prev, to): the first exit of prev that has to's pc.
Linkable(to, k) ==
    /\ prev # None
    /\ blocks[to].pc \in Chainable
    /\ k \notin blocks[prev].linked
    /\ Target[blocks[prev].pc][k] = blocks[to].pc

LinkExit(to) ==
    \/ \E k \in Exits :
         /\ Linkable(to, k)
         /\ \A j \in Exits : j < k => ~Linkable(to, j)
         /\ LET from == blocks[prev].code IN
            /\ blocks' = [blocks EXCEPT ![prev].linked = @ \cup {k}]
            /\ mem' = [mem EXCEPT ![from] =
                          Patched(mem[from], k, blocks[to].code - from)]
    \/ /\ \A k \in Exits : ~Linkable(to, k)
       /\ UNCHANGED <<blocks, mem>>

\* The blocks retire_pages finds for lo..hi: through the page index when
\* the range is narrow, over the whole table when it is wide.

\* Mutation: the walk starts at the page itself, not g_max_span before it.
FirstPage_NoSpan(lo) == lo

FirstPage(lo) == IF lo > maxSpan THEN lo - maxSpan ELSE 0
ToRetire(lo, hi) ==
    IF hi - lo < PageWalkMax
    THEN {i \in Index : /\ Live(i)
                        /\ PageLo[blocks[i].pc] \in FirstPage(lo)..hi
                        /\ i \in phash[PageBucket(PageLo[blocks[i].pc])]
                        /\ PageHi[blocks[i].pc] >= lo}
    ELSE {i \in Index : Live(i) /\ Covers(blocks[i].pc, lo, hi)}

\* retire_one cannot turn the entry of one of them into a jump.
NeedsFlush(R) == \E i \in R : blocks[i].pc \in ShortBody

\* Mutation: the retired stay in their buckets.
Unhash_Nothing(R) == hash

Unhash(R) == [h \in Buckets |-> hash[h] \ R]

\* retire_pages: unhash each, turn its chain entry into a jump to its own
\* exit, or flush when one has no room for that jump.
RetirePages(lo, hi) ==
    LET R == ToRetire(lo, hi) IN
    IF NeedsFlush(R)
    THEN EmuJitFlush
    ELSE /\ blocks' = [i \in Index |-> IF i \in R THEN [blocks[i] EXCEPT !.code = None]
                                       ELSE blocks[i]]
         /\ mem' = [x \in Addr |->
                      IF \E i \in R : blocks[i].code = x
                                      /\ blocks[i].pc \in Chainable \ ShortBody
                      THEN [Fenced(mem, lo, hi)[x] EXCEPT !.open = FALSE]
                      ELSE Fenced(mem, lo, hi)[x]]
         /\ hash' = Unhash(R)
         /\ IF hi - lo < PageWalkMax
            THEN /\ phash' = [h \in 0..PageBuckets - 1 |-> phash[h] \ R]
                 /\ UNCHANGED maxSpan
            ELSE /\ phash' = PageIndex(blocks', count)
                 /\ \E s \in Pages : IsMaxSpan(blocks', count, s) /\ maxSpan' = s
         /\ UNCHANGED <<count, used>>

-----------------------------------------------------------------------------
(* emu_jit_run: between slices, and the head of its loop. *)

Init ==
    /\ blocks = [i \in Index |-> EmptyBlock]
    /\ count = 0 /\ used = 0
    /\ mem = [x \in Addr |-> Junk]
    /\ hash = [h \in Buckets |-> {}]
    /\ phash = [h \in 0..PageBuckets - 1 |-> {}]
    /\ maxSpan = 0
    /\ haveGen = FALSE
    /\ prev = None
    /\ phase = "out"
    /\ at = 0
    /\ ci = 0 /\ kept = 0 /\ dst = 0 /\ keep = {}
    /\ gpc \in Pcs /\ gctx \in Contexts /\ genMoved = FALSE

\* A slice begins: plainly, after a flush_all by any core, or unchained.
SliceStart ==
    /\ phase = "out"
    /\ \/ UNCHANGED tableVars
       \/ EmuJitFlush
       \/ UnlinkAll
    /\ prev' = None
    /\ phase' = "top"
    /\ UNCHANGED <<haveGen, at, compactVars, guestVars>>

\* The budget is spent, or the guest halted or waits.
SliceEnd ==
    /\ phase = "top"
    /\ phase' = "out"
    /\ prev' = None
    /\ UNCHANGED <<tableVars, haveGen, at, compactVars, guestVars>>

\* take_irq, then round the loop again: prev is left as it is.
TakeIrq ==
    /\ phase = "top"
    /\ gpc' \in Vectors
    /\ gctx' \in Contexts
    /\ UNCHANGED <<tableVars, haveGen, prev, phase, at, compactVars, genMoved>>

SyncGeneration ==
    /\ phase = "top"
    /\ IF haveGen /\ genMoved
       THEN EmuJitFlush /\ prev' = None
       ELSE UNCHANGED <<tableVars, prev>>
    /\ haveGen' = TRUE
    /\ genMoved' = FALSE
    /\ phase' = "find"
    /\ UNCHANGED <<at, compactVars, gpc, gctx>>

\* Mutation: the context is not compared.
Found_AnyContext == {i \in hash[Bucket[gpc][gctx]] : blocks[i].pc = gpc}

\* lookup(): the blocks of the bucket with this pc and context.
Found == {i \in hash[Bucket[gpc][gctx]] : blocks[i].pc = gpc /\ blocks[i].ctx = gctx}

Enter(i, where) ==
    /\ prev' = i
    /\ at' = where
    /\ phase' = "run"
    /\ UNCHANGED <<haveGen, compactVars, guestVars>>

Hit(i) ==
    /\ phase = "find"
    /\ i \in Found
    /\ LinkExit(i)
    /\ Enter(i, blocks[i].code)
    /\ UNCHANGED <<count, used, hash, phash, maxSpan>>

-----------------------------------------------------------------------------
(* translate(): an attempt, a compaction and an attempt, a flush and one. *)

MayAttempt ==
    \/ phase = "find" /\ Found = {} /\ ~SpaceLow
    \/ phase = "second" /\ ~SpaceLow
    \/ phase = "last"

Translate ==
    /\ MayAttempt
    /\ Build
    /\ Enter(count, AlignUp(used))

\* The translator declines: the alignment of the cursor is all that is left.
TranslateDeclined ==
    /\ MayAttempt
    /\ used' = AlignUp(used)
    /\ phase' = "fall"
    /\ prev' = None
    /\ UNCHANGED <<blocks, count, mem, hash, phash, maxSpan, haveGen, at,
                   compactVars, guestVars>>

\* Even an empty buffer is too small for it.
TranslateTooBig ==
    /\ phase = "last"
    /\ Overflows
    /\ phase' = "fall"
    /\ prev' = None
    /\ UNCHANGED <<tableVars, haveGen, at, compactVars, guestVars>>

\* What compact() may retain: blocks that fit its budget (JitRetention).
Budget == CodeSize - (CodeSize \div 4) - BlockReserve
Retainable(K) ==
    /\ K \subseteq LiveIn(blocks, count)
    /\ MapThenSumSet(LAMBDA i : Len[blocks[i].pc], K) <= Budget

CompactStart ==
    /\ phase = "find"
    /\ Found = {}
    /\ SpaceLow \/ Overflows
    /\ keep' \in {K \in SUBSET Index : Retainable(K)}
    /\ UnlinkAll
    /\ ci' = 0 /\ kept' = 0 /\ dst' = 0
    /\ prev' = None
    /\ phase' = "compact"
    /\ UNCHANGED <<haveGen, at, guestVars>>

\* Where the next survivor goes.
\* Mutation: a gap is left before it.
SlideTo_Gap == AlignUp(dst) + CodeAlign

SlideTo == AlignUp(dst)

\* One turn of compact()'s loop: a survivor slides down, anything else goes.
CompactMove ==
    /\ phase = "compact"
    /\ ci < count
    /\ ci \in keep
    /\ LET b == blocks[ci]
           d == SlideTo
       IN /\ mem' = WriteCode(mem, d, Len[b.pc], mem[b.code])
          /\ blocks' = [blocks EXCEPT ![kept] = [b EXCEPT !.code = d]]
          /\ dst' = d + Len[b.pc]
    /\ kept' = kept + 1
    /\ ci' = ci + 1
    /\ UNCHANGED <<count, used, hash, phash, maxSpan, haveGen, prev, phase, at,
                   keep, guestVars>>

CompactDrop ==
    /\ phase = "compact"
    /\ ci < count
    /\ ci \notin keep
    /\ ci' = ci + 1
    /\ UNCHANGED <<tableVars, haveGen, prev, phase, at, kept, dst, keep, guestVars>>

\* rebuild_hash: every entry kept is hashed and indexed.
CompactDone ==
    /\ phase = "compact"
    /\ ci = count
    /\ count' = kept
    /\ used' = dst
    /\ blocks' = [i \in Index |-> IF i < kept THEN blocks[i] ELSE EmptyBlock]
    /\ mem' = [x \in Addr |-> IF x < dst THEN mem[x] ELSE Junk]
    /\ hash' = [h \in Buckets |->
                  {i \in 0..kept - 1 : Bucket[blocks[i].pc][blocks[i].ctx] = h}]
    /\ phash' = PageIndex(blocks, kept)
    /\ \E s \in Pages : IsMaxSpan(blocks, kept, s) /\ maxSpan' = s
    /\ phase' = "second"
    /\ keep' = {} /\ ci' = 0 /\ kept' = 0 /\ dst' = 0
    /\ UNCHANGED <<haveGen, prev, at, guestVars>>

StartOver ==
    /\ phase = "second"
    /\ SpaceLow \/ Overflows
    /\ EmuJitFlush
    /\ phase' = "last"
    /\ UNCHANGED <<haveGen, prev, at, compactVars, guestVars>>

-----------------------------------------------------------------------------
(* The interpreter's turn: the guest moves anywhere, and only here can it   *)
(* execute a fence (the translators decline every instruction that is one). *)

MayInterpret == phase \in {"find", "fall"}

Interpreted ==
    /\ MayInterpret
    /\ gpc' \in Pcs
    /\ prev' = None
    /\ phase' = "top"
    /\ UNCHANGED <<haveGen, at, compactVars>>

Interpret == Interpreted /\ gctx' \in Contexts /\ UNCHANGED <<tableVars, genMoved>>

\* The guest moved what generations count: page tables, PMP, MPU registers.
\* What is in the buffer was built under the old ones.
AllOld == [x \in Addr |-> IF mem[x] # Junk THEN [mem[x] EXCEPT !.old = TRUE] ELSE Junk]
MoveGeneration ==
    /\ genMoved' = TRUE
    /\ mem' = AllOld
    /\ UNCHANGED <<blocks, count, used, hash, phash, maxSpan>>

InterpretGeneration == Interpreted /\ MoveGeneration /\ UNCHANGED gctx

\* An address fence: emu_jit_invalidate_page, emu_jit_invalidate_range.
InterpretFence(lo, hi) ==
    /\ Interpreted
    /\ lo <= hi
    /\ RetirePages(lo, hi)
    /\ UNCHANGED <<gctx, genMoved>>

\* FENCE.I and global fences (rv_jit_flush).
InterpretFlush == Interpreted /\ EmuJitFlush /\ UNCHANGED <<gctx, genMoved>>

-----------------------------------------------------------------------------
(* A block runs.  Its tail returns to the dispatcher with prev unchanged. *)

ToDispatcher ==
    /\ phase' = "top"
    /\ at' = 0
    /\ UNCHANGED <<haveGen, prev, compactVars>>

\* A static exit returns: it is not linked, or the loop cap was reached.
RunExit(k) ==
    /\ phase = "run"
    /\ mem[at] # Junk
    /\ Target[mem[at].pc][k] # NoPc
    /\ gpc' = Target[mem[at].pc][k]
    /\ ToDispatcher
    /\ UNCHANGED <<tableVars, gctx, genMoved>>

\* It is linked, and leads into the body there or, if that was retired,
\* through its entry straight back out.
RunChained(k) ==
    /\ phase = "run"
    /\ mem[at] # Junk
    /\ k \in mem[at].on
    /\ gpc' = Target[mem[at].pc][k]
    /\ LET to == at + mem[at].disp[k] IN
       IF to \in Addr /\ mem[to] # Junk /\ ~mem[to].open
       THEN ToDispatcher
       ELSE at' = to /\ UNCHANGED <<haveGen, prev, phase, compactVars>>
    /\ UNCHANGED <<tableVars, gctx, genMoved>>

\* An indirect jump, a return, the end of the block: always the tail.
RunElsewhere ==
    /\ phase = "run"
    /\ gpc' \in Pcs
    /\ ToDispatcher
    /\ UNCHANGED <<tableVars, gctx, genMoved>>

\* A trap inside the block, or a return from one that a helper executed.
RunTrap ==
    /\ phase = "run"
    /\ gpc' \in Vectors
    /\ gctx' \in Contexts
    /\ ToDispatcher
    /\ UNCHANGED <<tableVars, genMoved>>

\* A store that moves the generation, to an MPU register say.
RunGeneration ==
    /\ phase = "run"
    /\ ~genMoved
    /\ MoveGeneration
    /\ UNCHANGED <<haveGen, prev, phase, at, compactVars, gpc, gctx>>

Next ==
    \/ SliceStart \/ SliceEnd \/ TakeIrq \/ SyncGeneration
    \/ \E i \in Index : Hit(i)
    \/ Translate \/ TranslateDeclined \/ TranslateTooBig
    \/ CompactStart \/ CompactMove \/ CompactDrop \/ CompactDone \/ StartOver
    \/ Interpret \/ InterpretGeneration \/ InterpretFlush
    \/ \E lo, hi \in Pages : InterpretFence(lo, hi)
    \/ \E k \in Exits : RunExit(k) \/ RunChained(k)
    \/ RunElsewhere \/ RunTrap \/ RunGeneration

Spec == Init /\ [][Next]_vars

-----------------------------------------------------------------------------
(* Properties. *)

TypeOK ==
    /\ blocks \in [Index -> Block]
    /\ count \in 0..MaxBlocks
    /\ mem \in [Addr -> Body \cup {Junk}]
    /\ used \in Nat
    /\ hash \in [Buckets -> SUBSET Index]
    /\ phash \in [0..PageBuckets - 1 -> SUBSET Index]
    /\ maxSpan \in Nat
    /\ haveGen \in BOOLEAN /\ genMoved \in BOOLEAN
    /\ prev \in Index \cup {None}
    /\ phase \in {"out", "top", "find", "fall", "run", "compact", "second", "last"}
    /\ at \in Int
    /\ ci \in 0..MaxBlocks /\ kept \in 0..MaxBlocks /\ dst \in Nat
    /\ keep \subseteq Index
    /\ gpc \in Pcs /\ gctx \in Contexts

\* The body of a live block is whole and where the table says.
BodyOf(i) == mem[blocks[i].code]
BodiesIntact ==
    phase # "compact" =>
        \A i \in Index : Live(i) =>
            /\ BodyOf(i) # Junk
            /\ BodyOf(i).pc = blocks[i].pc /\ BodyOf(i).ctx = blocks[i].ctx
            /\ BodyOf(i).open

\* What runs is the code of the guest's pc, built for the context the guest is
\* in ("A block ... is only entered under it", armv7m_ir.c), and built after
\* the last fence of its pages -- except that a block that itself moves the
\* generation goes on until it returns to the dispatcher.
RunsTheRightCode ==
    phase = "run" =>
        /\ at \in Addr
        /\ mem[at] # Junk
        /\ mem[at].open
        /\ mem[at].pc = gpc /\ mem[at].ctx = gctx
        /\ mem[at].old => genMoved

\* lookup() finds every live block, in one bucket, once; a retired block in
\* none; and no two live blocks are the same block.
TableFindable ==
    phase # "compact" =>
        /\ \A i \in Index, h \in Buckets :
               i \in hash[h] <=> Live(i) /\ h = Bucket[blocks[i].pc][blocks[i].ctx]
        /\ \A i, j \in Index :
               (Live(i) /\ Live(j) /\ blocks[i].pc = blocks[j].pc
                        /\ blocks[i].ctx = blocks[j].ctx) => i = j

\* Every live block is in the bucket of its first page, and none reaches
\* further past it than g_max_span, so the page walk misses none.
PageIndexComplete ==
    phase # "compact" =>
        \A i \in Index : Live(i) =>
            /\ i \in phash[PageBucket(PageLo[blocks[i].pc])]
            /\ Span(blocks[i].pc) <= maxSpan

\* Blocks lie in the buffer in table order, apart from each other.
InOrder ==
    phase # "compact" =>
        \A i \in Index : Live(i) =>
            /\ blocks[i].code + Len[blocks[i].pc] <= used
            /\ \A j \in Index : (Live(j) /\ i < j) =>
                   blocks[i].code + Len[blocks[i].pc] <= blocks[j].code

\* The table's record of a chained exit is what is in the code, and a chained
\* exit leads to the entry of a body of its target in its own context.
LinksSound ==
    phase # "compact" =>
        \A i \in Index : Live(i) =>
            /\ blocks[i].linked = BodyOf(i).on
            /\ \A k \in BodyOf(i).on :
                 LET to == blocks[i].code + BodyOf(i).disp[k] IN
                 /\ to \in Addr
                 /\ mem[to] # Junk
                 /\ mem[to].pc = Target[blocks[i].pc][k]
                 /\ mem[to].ctx = blocks[i].ctx
                 /\ mem[to].old => (~mem[to].open \/ genMoved)

\* While compact() moves blocks, the ones still to be moved are whole: "dst
\* never overtakes the source".
CompactionSafe ==
    phase = "compact" =>
        \A i \in ci..count - 1 : i \in keep =>
            /\ SlideTo <= blocks[i].code
            /\ BodyOf(i) # Junk /\ BodyOf(i).pc = blocks[i].pc
            /\ BodyOf(i).on = {}

\* Nothing lookup() can find was built from code the guest has since changed
\* and fenced, a generation the dispatcher has still to look at apart.
NothingStaleFindable ==
    phase # "compact" =>
        \A i \in Index : (Live(i) /\ BodyOf(i).old) => genMoved
\* Everything the lookups go by is right at once: the bodies are whole and in
\* order, the hash finds the live blocks and only those, and the page index
\* misses none.
TablesIntact == TypeOK /\ BodiesIntact /\ InOrder /\ TableFindable /\ PageIndexComplete

\* The chained exits are right whenever code runs, and there are none to go
\* wrong while the code they jump to is being moved.
LinksSafe == LinksSound /\ CompactionSafe
=============================================================================
