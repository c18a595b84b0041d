------------------------------ MODULE JitSeen ------------------------------
(***************************************************************************)
(* The table of already-seen pcs of the JIT dispatcher                     *)
(* (src/src/emu/emu_jit.c): which pcs the translator refused, how often a  *)
(* pc without a block has missed, and how often compaction has evicted a   *)
(* pc's block -- one entry per slot, entries told current from stale by    *)
(* an epoch that wraps.  With it, as much of the dispatcher as calls it:   *)
(* the miss path of emu_jit_run, translate's three outcomes, compaction's  *)
(* evictions, and the invalidations the frontends ask for.                 *)
(*                                                                         *)
(* The guest is present as one piece of state: which (pc, context) the     *)
(* translator would refuse now, and which pages it changed with no fence   *)
(* since that reopens refused pcs.                                         *)
(***************************************************************************)
EXTENDS Integers, FiniteSets

CONSTANTS
    Pcs, Contexts,     \* guest addresses and block contexts
    Blocks,            \* a block's identity: the pcs and contexts the guest reaches
    Folds, CtxFold,    \* ctx_fold: 64-bit contexts into 32 bits, not injective
    Slots, NegSlot,    \* neg_slot: (pc, fold) to a table slot
    Pages, PageOf,     \* the page a pc is on ...
    Reaches,           \* ... and every page its first instruction has bytes on
    EpochMax,          \* JIT_SEEN_EPOCH_MAX
    HotThreshold, ThrashEvictions, ThrashMarks, ThrashRetry

SeenDeclined == 255
SeenThrash   == 254
SeenEvicted  == 128

Keys == Pcs \X Folds      \* an entry's identity: the context is folded

ASSUME KeyAssumption ==
    /\ Blocks \subseteq Pcs \X Contexts /\ Blocks # {}
    /\ CtxFold \in [Contexts -> Folds]
    /\ NegSlot \in [Keys -> Slots]

ASSUME PageAssumption ==
    /\ PageOf \in [Pcs -> Pages]
    /\ Reaches \in [Pcs -> SUBSET Pages]
    /\ \A pc \in Pcs : PageOf[pc] \in Reaches[pc]

ASSUME EpochAssumption == EpochMax \in Nat \ {0}

ASSUME LimitAssumption ==
    /\ HotThreshold \in 1..127           \* emu_jit_set_hot_threshold
    /\ ThrashEvictions \in 0..125        \* emu_jit_set_thrash_evictions
    /\ ThrashMarks \in Nat /\ ThrashRetry \in Nat \ {0}

VARIABLES
    neg,            \* g_neg: [Slots -> an entry]
    epoch,          \* g_neg_epoch
    thrashInterps,  \* g_thrash_interps
    marksLeft,      \* g_thrash_marks_left
    resident,       \* the blocks lookup() finds
    victims,        \* blocks this compaction still has to evict
    pending,        \* the block translate() is compacting for
    phase,          \* "dispatch", "compact", "retry" or "last"
    refuses,        \* guest: what the translator would refuse now
    unfenced        \* guest: pages changed since a fence reopened what they refuse

negVars   == <<neg, epoch, thrashInterps, marksLeft>>
cacheVars == <<resident, victims, pending, phase>>
guestVars == <<refuses, unfenced>>
vars      == <<negVars, cacheVars, guestVars>>

KeyOf(b) == <<b[1], CtxFold[b[2]]>>
OnPage(p, b) == p \in Reaches[b[1]]

-----------------------------------------------------------------------------
(* The table. *)

\* Mutation: the slot's key is not compared.
SeenGet_AnyKey(k) == IF neg[NegSlot[k]].epoch = epoch THEN neg[NegSlot[k]].v ELSE 0

\* seen_get: an entry of an earlier epoch, or of another key, is no answer.
SeenGet(k) ==
    LET e == neg[NegSlot[k]]
    IN IF e.epoch = epoch /\ e.key = k THEN e.v ELSE 0

SeenOf(b) == SeenGet(KeyOf(b))

SeenSet(k, v) ==
    neg' = [neg EXCEPT ![NegSlot[k]] = [key |-> k, epoch |-> epoch, v |-> v]]

\* Epoch 0 is never the current one.
Cleared(e) == [key |-> e.key, epoch |-> 0, v |-> 0]

\* Past the last epoch the table is cleared, or stale entries would be current.
NegInvalidate ==
    IF epoch + 1 > EpochMax
    THEN /\ epoch' = 1
         /\ neg' = [s \in Slots |-> Cleared(neg[s])]
    ELSE epoch' = epoch + 1 /\ UNCHANGED neg

\* The misses this one makes, and whether they are enough to translate.
Misses(b) == SeenOf(b) + 1
IsHot(b) == HotThreshold <= 1 \/ Misses(b) >= HotThreshold

HeatBump(b) == IF IsHot(b) THEN UNCHANGED neg ELSE SeenSet(KeyOf(b), Misses(b))

NegNote(b) == SeenSet(KeyOf(b), SeenDeclined)

\* Evictions of b's pc, this one included.
Evictions(b) ==
    IF SeenOf(b) >= SeenEvicted THEN SeenOf(b) - SeenEvicted + 1 ELSE 1

EvictNote(b) ==
    IF ThrashEvictions = 0 \/ SeenOf(b) \in {SeenDeclined, SeenThrash}
    THEN UNCHANGED <<neg, marksLeft>>
    ELSE \/ /\ Evictions(b) >= ThrashEvictions
            /\ marksLeft # 0
            /\ marksLeft' = marksLeft - 1
            /\ SeenSet(KeyOf(b), SeenThrash)
         \/ /\ Evictions(b) >= ThrashEvictions
            /\ marksLeft = 0
            /\ SeenSet(KeyOf(b), SeenEvicted + Evictions(b) - 1)
            /\ UNCHANGED marksLeft
         \/ /\ Evictions(b) < ThrashEvictions
            /\ SeenSet(KeyOf(b), SeenEvicted + Evictions(b))
            /\ UNCHANGED marksLeft

\* Mutation: what was refused in the range stays refused.
ClearRange_Nothing(p) == UNCHANGED neg

\* emu_jit_invalidate_range's second half: entries for pcs in the range.
ClearRange(p) ==
    neg' = [s \in Slots |-> IF PageOf[neg[s].key[1]] = p
                            THEN Cleared(neg[s])
                            ELSE neg[s]]

-----------------------------------------------------------------------------
(* The dispatcher's miss path and what follows it. *)

Init ==
    /\ neg = [s \in Slots |-> [key |-> CHOOSE k \in Keys : TRUE, epoch |-> 0, v |-> 0]]
    /\ epoch = 1
    /\ thrashInterps = 0
    /\ marksLeft = 0
    /\ resident = {}
    /\ victims = {}
    /\ pending = CHOOSE b \in Blocks : TRUE
    /\ phase = "dispatch"
    /\ refuses \in SUBSET Blocks
    /\ unfenced = {}

\* Mutation: the dispatches are counted and the marks never forgotten.
DispatchThrash_Forever(b) ==
    /\ phase = "dispatch"
    /\ b \notin resident
    /\ SeenOf(b) = SeenThrash
    /\ thrashInterps' = IF thrashInterps + 1 >= ThrashRetry THEN 0 ELSE thrashInterps + 1
    /\ UNCHANGED <<neg, epoch, marksLeft, cacheVars, guestVars>>

\* A pc marked as thrashing is interpreted up to its next jump; every
\* ThrashRetry of those the marks are all forgotten (run_interp_to_jump).
DispatchThrash(b) ==
    /\ phase = "dispatch"
    /\ b \notin resident
    /\ SeenOf(b) = SeenThrash
    /\ IF thrashInterps + 1 >= ThrashRetry
       THEN thrashInterps' = 0 /\ NegInvalidate
       ELSE thrashInterps' = thrashInterps + 1 /\ UNCHANGED <<neg, epoch>>
    /\ UNCHANGED <<marksLeft, cacheVars, guestVars>>

Missed(b) ==
    /\ phase = "dispatch"
    /\ b \notin resident
    /\ SeenOf(b) \notin {SeenDeclined, SeenThrash}

\* Not hot yet: the miss is counted and one instruction interpreted.
DispatchCold(b) ==
    /\ Missed(b)
    /\ ~IsHot(b)
    /\ HeatBump(b)
    /\ UNCHANGED <<epoch, thrashInterps, marksLeft, cacheVars, guestVars>>

\* What the translator may answer: on a page changed and not yet fenced it
\* may see the code as it was or as it is.
MayRefuse(b) == b \in refuses \/ \E p \in unfenced : OnPage(p, b)
MayAccept(b) == b \notin refuses \/ \E p \in unfenced : OnPage(p, b)

\* translate_once: the block is built ...
Built(b) ==
    /\ MayAccept(b)
    /\ resident' = resident \cup {b}
    /\ UNCHANGED neg

\* ... or the pc is refused, which is remembered; running out of room is not.
Declined(b) ==
    /\ MayRefuse(b)
    /\ NegNote(b)
    /\ UNCHANGED resident

DispatchHot(b) ==
    /\ Missed(b)
    /\ IsHot(b)
    /\ HeatBump(b)
    /\ Built(b)
    /\ UNCHANGED <<epoch, thrashInterps, marksLeft, victims, pending, phase, guestVars>>

DispatchDeclined(b) ==
    /\ Missed(b)
    /\ IsHot(b)
    /\ Declined(b)
    /\ UNCHANGED <<epoch, thrashInterps, marksLeft, victims, pending, phase, guestVars>>

\* No room: compact, evicting some of the blocks (JitRetention says which).
DispatchNoRoom(b) ==
    /\ Missed(b)
    /\ IsHot(b)
    /\ HeatBump(b)
    /\ victims' \in SUBSET resident
    /\ marksLeft' = ThrashMarks
    /\ pending' = b
    /\ phase' = "compact"
    /\ UNCHANGED <<epoch, thrashInterps, resident, guestVars>>

CompactEvict(b) ==
    /\ phase = "compact"
    /\ b \in victims
    /\ EvictNote(b)
    /\ victims' = victims \ {b}
    /\ resident' = resident \ {b}
    /\ UNCHANGED <<epoch, thrashInterps, pending, phase, guestVars>>

CompactDone ==
    /\ phase = "compact"
    /\ victims = {}
    /\ phase' = "retry"
    /\ UNCHANGED <<negVars, resident, victims, pending, guestVars>>

\* translate's second attempt, after the compaction.
Retry ==
    /\ phase = "retry"
    /\ Built(pending) \/ Declined(pending)
    /\ phase' = "dispatch"
    /\ UNCHANGED <<epoch, thrashInterps, marksLeft, victims, pending, guestVars>>

\* Still no room: start over.  The flush forgets every answer ...
RetryFlush ==
    /\ phase = "retry"
    /\ NegInvalidate
    /\ resident' = {}
    /\ phase' = "last"
    /\ UNCHANGED <<thrashInterps, marksLeft, victims, pending, guestVars>>

\* ... and only then is the last attempt made; it may overflow too.
LastAttempt ==
    /\ phase = "last"
    /\ \/ Built(pending)
       \/ Declined(pending)
       \/ UNCHANGED <<neg, resident>>
    /\ phase' = "dispatch"
    /\ UNCHANGED <<epoch, thrashInterps, marksLeft, victims, pending, guestVars>>

-----------------------------------------------------------------------------
(* What the guest does to its own code, and how a frontend says so. *)

\* The guest changes what is on a page: maps it, unmaps it, rewrites it.
GuestChange(p) ==
    /\ phase = "dispatch"
    /\ \E b \in Blocks :
          /\ OnPage(p, b)
          /\ refuses' \in {refuses \cup {b}, refuses \ {b}}
    /\ unfenced' = unfenced \cup {p}
    /\ UNCHANGED <<negVars, cacheVars>>

\* retire_pages, as far as lookup() can tell.
RetirePage(p) == resident' = {b \in resident : ~OnPage(p, b)}

\* SFENCE.VMA naming an address, RV32 (emu_jit_invalidate_page): the page's
\* blocks go, what was refused there stays refused.
InvalidatePage(p) ==
    /\ phase = "dispatch"
    /\ RetirePage(p)
    /\ UNCHANGED <<negVars, victims, pending, phase, guestVars>>

\* A TLB entry written, PowerPC (emu_jit_invalidate_range): what was refused
\* there is reopened too.
InvalidateRange(p) ==
    /\ phase = "dispatch"
    /\ RetirePage(p)
    /\ ClearRange(p)
    /\ unfenced' = unfenced \ {p}
    /\ UNCHANGED <<epoch, thrashInterps, marksLeft, victims, pending, phase, refuses>>

\* The same for a range wide enough that forgetting everything is cheaper.
InvalidateWide(R) ==
    /\ phase = "dispatch"
    /\ resident' = {b \in resident : \A p \in R : ~OnPage(p, b)}
    /\ NegInvalidate
    /\ unfenced' = unfenced \ R
    /\ UNCHANGED <<thrashInterps, marksLeft, victims, pending, phase, refuses>>

\* FENCE.I, a generation change, a reset (emu_jit_flush).
Flush ==
    /\ phase = "dispatch"
    /\ resident' = {}
    /\ NegInvalidate
    /\ unfenced' = {}
    /\ UNCHANGED <<thrashInterps, marksLeft, victims, pending, phase, refuses>>

Next ==
    \/ \E b \in Blocks :
          \/ DispatchThrash(b) \/ DispatchCold(b)
          \/ DispatchHot(b) \/ DispatchDeclined(b) \/ DispatchNoRoom(b)
          \/ CompactEvict(b)
    \/ CompactDone \/ Retry \/ RetryFlush \/ LastAttempt
    \/ \E p \in Pages :
          GuestChange(p) \/ InvalidatePage(p) \/ InvalidateRange(p)
    \/ \E R \in SUBSET Pages : InvalidateWide(R)
    \/ Flush

Spec == Init /\ [][Next]_vars

\* The guest keeps coming back to every pc it has, and the dispatcher never
\* stops inside a translation.
FairSpec ==
    /\ Spec
    /\ \A k \in Keys : SF_vars(\E b \in Blocks : KeyOf(b) = k /\ DispatchThrash(b))
    /\ WF_vars(\/ \E b \in Blocks : CompactEvict(b)
               \/ CompactDone \/ Retry \/ RetryFlush \/ LastAttempt)

-----------------------------------------------------------------------------
(* Properties. *)

Entry == [key : Keys, epoch : 0..EpochMax, v : 0..255]

\* Types; blocks a compaction is about to evict are still in the table.
TypeOK ==
    /\ neg \in [Slots -> Entry]
    /\ epoch \in 1..EpochMax
    /\ thrashInterps \in 0..ThrashRetry - 1
    /\ marksLeft \in 0..ThrashMarks
    /\ victims \subseteq resident /\ resident \subseteq Blocks
    /\ phase # "compact" => victims = {}
    /\ pending \in Blocks
    /\ phase \in {"dispatch", "compact", "retry", "last"}
    /\ refuses \subseteq Blocks /\ unfenced \subseteq Pages

\* No entry is from an epoch still to come, which is what lets a bumped epoch
\* stand for a cleared table (neg_invalidate).
EpochOrder == \A s \in Slots : neg[s].epoch <= epoch

SeenInv == TypeOK /\ EpochOrder

Abs == INSTANCE AbsSeen WITH known <- [k \in Keys |-> SeenGet(k)]

\* The table never gives an answer nobody put there for that key: through slot
\* and fold collisions, evictions, range clears and the wrap of the epoch, a
\* key's answer moves as the dispatcher moved it, or is forgotten for good
\* (seen_get, seen_set, neg_invalidate).
AnswersAreReal == Abs!AbsSpec

\* A pc is only answered "declined" while the translator would still refuse it
\* in some context with that fold, unless the guest has changed its page and no
\* flush, range fence or generation change has come since: those reopen what was
\* refused, whatever a compaction in the middle of a translation does to the
\* entry (emu_jit_invalidate_range, neg_invalidate).  Not for an instruction
\* across two pages: a fence of the second leaves the refusal it has at the first.
NoStaleRefusal ==
    \A b \in Blocks :
        (/\ SeenOf(b) = SeenDeclined
         /\ Reaches[b[1]] = {PageOf[b[1]]} /\ PageOf[b[1]] \notin unfenced)
        => \E c \in refuses : KeyOf(c) = KeyOf(b)

\* A pc given up as thrashing is translated again some day: the marks are
\* forgotten after ThrashRetry interpreted dispatches (run_interp_to_jump).
ThrashForgotten ==
    \A k \in Keys : SeenGet(k) = SeenThrash ~> SeenGet(k) # SeenThrash
\* The table is well formed: its types, and no entry from before the epoch
\* last wrapped is left to be mistaken for one of this epoch.
TableSane == TypeOK /\ EpochOrder
=============================================================================
