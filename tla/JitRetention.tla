---------------------------- MODULE JitRetention ----------------------------
(***************************************************************************)
(* What the code cache keeps when it is full (src/src/emu/emu_jit.c):      *)
(* blocks count the entries that come through lookup(), an entry through a *)
(* chained exit is counted for nobody, and compact() first spreads heat    *)
(* along the chained exits (chain_heat), then keeps the hottest bins that  *)
(* fit a budget, ages them and slides them down, one block a step.         *)
(***************************************************************************)
EXTENDS Integers, Sequences

CONSTANTS
    BlockPcs,           \* guest addresses, one context
    StaticExits,        \* [BlockPcs -> SUBSET BlockPcs]: where static exits lead
    CodeBytes,          \* [BlockPcs -> bytes of code]
    MaxBlocks, CodeSize, BlockReserve, CodeAlign,
    HitBins,            \* HIT_BINS
    HitMax,             \* UINT16_MAX
    MaxPasses           \* chain_heat's eight

ASSUME RetentionAssumption ==
    /\ StaticExits \in [BlockPcs -> SUBSET BlockPcs]
    /\ CodeBytes \in [BlockPcs -> Nat]
    /\ MaxBlocks \in Nat /\ CodeSize \in Nat /\ BlockReserve \in Nat
    /\ CodeAlign \in Nat \ {0} /\ HitBins \in Nat \ {0} /\ HitMax \in Nat
    /\ MaxPasses \in Nat \ {0}

VARIABLES
    tab,        \* g_blocks: in the order of the buffer
    used,       \* g_code_used
    stage,      \* "run", or where compact() is: "heat" or "sweep"
    at,         \* the block its loop is at
    pass, moved,        \* chain_heat's: kept as its loop leaves them
    kept, dst   \* the sweep's: what it has kept, and where the next goes

retentionVars == <<tab, used, stage, at, pass, moved, kept, dst>>
heatVars  == <<pass, moved>>
sweepVars == <<kept, dst>>

Held == [pc : BlockPcs, hits : 0..HitMax, linked : SUBSET BlockPcs, live : BOOLEAN]
LiveBlocks == {n \in DOMAIN tab : tab[n].live}
BlockAt(pc) == {n \in LiveBlocks : tab[n].pc = pc}      \* find_block
AlignUp(n) == ((n + CodeAlign - 1) \div CodeAlign) * CodeAlign

SpaceLow == Len(tab) >= MaxBlocks \/ used + BlockReserve >= CodeSize
FitsCode(pc) == AlignUp(used) + CodeBytes[pc] <= CodeSize

RetentionInit ==
    /\ tab = <<>> /\ used = 0
    /\ stage = "run" /\ at = 1
    /\ pass = 0 /\ moved = FALSE
    /\ kept = <<>> /\ dst = 0

\* translate_once, when there is room.
TranslateOnce(pc) ==
    /\ stage = "run"
    /\ BlockAt(pc) = {} /\ ~SpaceLow /\ FitsCode(pc)
    /\ tab' = Append(tab, [pc |-> pc, hits |-> 0, linked |-> {}, live |-> TRUE])
    /\ used' = AlignUp(used) + CodeBytes[pc]
    /\ UNCHANGED <<stage, at, heatVars, sweepVars>>

\* lookup: a counted entry, up to the counter's last value.
CountedEntry(n) ==
    /\ stage = "run"
    /\ n \in LiveBlocks
    /\ tab[n].hits < HitMax
    /\ tab' = [tab EXCEPT ![n].hits = @ + 1]
    /\ UNCHANGED <<used, stage, at, heatVars, sweepVars>>

\* link_exit: the entries that follow go uncounted.
ChainExit(n, t) ==
    /\ stage = "run"
    /\ n \in LiveBlocks /\ t \in LiveBlocks
    /\ tab[t].pc \in StaticExits[tab[n].pc] \ tab[n].linked
    /\ tab' = [tab EXCEPT ![n].linked = @ \cup {tab[t].pc}]
    /\ UNCHANGED <<used, stage, at, heatVars, sweepVars>>

\* retire_one: the bytes stay until compaction.
RetireBlock(n) ==
    /\ stage = "run"
    /\ n \in LiveBlocks
    /\ tab' = [tab EXCEPT ![n].live = FALSE, ![n].hits = 0]
    /\ UNCHANGED <<used, stage, at, heatVars, sweepVars>>

\* No room for the next block: compact().
NoRoom == SpaceLow \/ \E pc \in BlockPcs : BlockAt(pc) = {} /\ ~FitsCode(pc)

CompactStart ==
    /\ stage = "run" /\ NoRoom
    /\ stage' = "heat"
    /\ at' = 1 /\ pass' = 0 /\ moved' = FALSE
    /\ UNCHANGED <<tab, used, sweepVars>>

\* Mutation: one pass, whatever it moved.
MorePasses_No == FALSE

MorePasses == moved /\ pass + 1 < MaxPasses

\* chain_heat, the inner loop for one block: what its linked exits lead to is
\* at least as hot as it is.
Colder(n) == {t \in LiveBlocks : tab[t].pc \in tab[n].linked /\ tab[t].hits < tab[n].hits}
HeatBlock ==
    /\ stage = "heat"
    /\ at <= Len(tab)
    /\ IF at \in LiveBlocks /\ Colder(at) # {}
       THEN /\ tab' = [n \in DOMAIN tab |->
                         IF n \in Colder(at) THEN [tab[n] EXCEPT !.hits = tab[at].hits]
                         ELSE tab[n]]
            /\ moved' = TRUE
       ELSE UNCHANGED <<tab, moved>>
    /\ at' = at + 1
    /\ UNCHANGED <<used, stage, pass, sweepVars>>

\* The next pass, or the end of them and the start of the sweep.
HeatPass ==
    /\ stage = "heat"
    /\ at > Len(tab)
    /\ IF MorePasses
       THEN pass' = pass + 1 /\ moved' = FALSE /\ UNCHANGED stage
       ELSE stage' = "sweep" /\ UNCHANGED heatVars
    /\ at' = 1 /\ kept' = <<>> /\ dst' = 0
    /\ UNCHANGED <<tab, used>>

\* compact(): the histogram summed from the hottest bin down, and the bins the
\* walk down takes before the first that does not fit.
HitBin(hits) == IF hits >= HitBins THEN HitBins - 1 ELSE hits
BytesFrom(b) ==
    LET Bytes(n) == IF n \in LiveBlocks /\ HitBin(tab[n].hits) >= b THEN CodeBytes[tab[n].pc] ELSE 0
        sum[n \in 0..Len(tab)] == IF n = 0 THEN 0 ELSE sum[n - 1] + Bytes(n)
    IN sum[Len(tab)]
Budget == CodeSize - (CodeSize \div 4) - BlockReserve
TakenBin(b) == \A c \in b..HitBins - 1 : BytesFrom(c) <= Budget

\* Never one that ran once, or not at all.
Survives(n) ==
    /\ n \in LiveBlocks
    /\ HitBin(tab[n].hits) >= 2 /\ TakenBin(HitBin(tab[n].hits))

\* A survivor is unlinked, aged and slid down.
SweepBlock ==
    /\ stage = "sweep"
    /\ at <= Len(tab)
    /\ IF Survives(at)
       THEN /\ kept' = Append(kept, [tab[at] EXCEPT !.hits = @ \div 2, !.linked = {}])
            /\ dst' = AlignUp(dst) + CodeBytes[tab[at].pc]
       ELSE UNCHANGED sweepVars
    /\ at' = at + 1
    /\ UNCHANGED <<tab, used, stage, heatVars>>

SweepDone ==
    /\ stage = "sweep"
    /\ at > Len(tab)
    /\ tab' = kept /\ used' = dst
    /\ stage' = "run" /\ at' = 1
    /\ pass' = 0 /\ moved' = FALSE /\ kept' = <<>> /\ dst' = 0

\* translate(), when compaction did not free enough.
FlushAll ==
    /\ stage = "run" /\ NoRoom
    /\ tab' = <<>> /\ used' = 0
    /\ UNCHANGED <<stage, at, heatVars, sweepVars>>

RetentionNext ==
    \/ \E pc \in BlockPcs : TranslateOnce(pc)
    \/ \E n \in DOMAIN tab : CountedEntry(n) \/ RetireBlock(n)
    \/ \E n, t \in DOMAIN tab : ChainExit(n, t)
    \/ CompactStart \/ HeatBlock \/ HeatPass \/ SweepBlock \/ SweepDone \/ FlushAll

RetentionSpec == RetentionInit /\ [][RetentionNext]_retentionVars

-----------------------------------------------------------------------------
(* Properties. *)

\* Types, the counts' saturation and the loops' bounds among them.
RetentionTypeOK ==
    /\ tab \in Seq(Held) /\ kept \in Seq(Held)
    /\ used \in Nat /\ dst \in Nat
    /\ stage \in {"run", "heat", "sweep"}
    /\ at \in 1..Len(tab) + 1 /\ pass \in 0..MaxPasses - 1 /\ moved \in BOOLEAN

\* A pass that has moved nothing so far has found nothing colder behind it.
Settling ==
    /\ stage = "run" => at = 1
    /\ stage = "heat" /\ ~moved => \A n \in LiveBlocks : n < at => Colder(n) = {}
    /\ stage = "sweep" /\ ~moved => \A n \in LiveBlocks : Colder(n) = {}
    /\ stage = "sweep" /\ moved => pass = MaxPasses - 1

\* "Retention by count then evicts the loop body and keeps the block that jumps
\* into it" is what chain_heat is there to prevent: what a kept block is
\* chained to is kept with it, unless every one of the eight passes still
\* moved heat.
LoopBodyKept ==
    /\ RetentionTypeOK
    /\ stage = "sweep" =>
          \/ moved /\ pass = MaxPasses - 1
          \/ \A n, t \in LiveBlocks :
                Survives(n) /\ tab[t].pc \in tab[n].linked => Survives(t)

=============================================================================
