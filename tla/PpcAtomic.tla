----------------------------- MODULE PpcAtomic -------------------------------
(***************************************************************************)
(* lwarx, stwcx. and plain stores of PowerPC cores that run on threads of  *)
(* their own (src/src/frontend/ppc/ppc_cpu.c: ppc_larx_smp, ppc_stcx_smp,  *)
(* resv_break, ppc_cpu_start), one access of shared memory a step, under   *)
(* the recursive spinlock of src/include/emu/emu_lock.h.  A plain store    *)
(* takes the lock only when a count, read without it, says that some core  *)
(* holds a reservation; the read is relaxed, so the host may make it       *)
(* before the store it follows in the code.                                *)
(***************************************************************************)
EXTENDS Integers, FiniteSets

CONSTANTS
    ResvCores, FirstCore,   \* the cores, and the one that runs out of reset
    ResvWords,              \* the words they access ...
    SwapWords,              \* ... and those resv_host finds: RAM
    ResvValues,             \* what a word holds
    ResvDrift               \* bound: how far interrupts make the count too high

ASSUME ResvAssumption ==
    /\ IsFiniteSet(ResvCores) /\ FirstCore \in ResvCores
    /\ SwapWords \subseteq ResvWords /\ 0 \in ResvWords
    /\ 0 \in ResvValues
    /\ ResvDrift \in Nat

VARIABLES
    smpLive,    \* smp_live, set in every core at once
    word,       \* the words of RAM; a device keeps its own state
    resvHeld,   \* g_resv_held
    lockOwner,  \* g_resv_lock: the thread that holds it, if one does ...
    lockDepth,  \* ... and how often
    where,      \* where each core is: held, between instructions ("idle"), or in one
    after,      \* where its resv_break returns to: "idle", or "drop" in stwcx.
    reserve, resvPa,        \* its reservation
    resvRaw, resvRawOk,     \* the bytes lwarx read, and whether they are RAM's
    loaded,     \* the register lwarx loaded, from RAM
    opWord,     \* the word its instruction accesses
    early,      \* a store read the count before it landed, and it was not zero
    rest, other \* the cores the loop of resv_break has still to see, and the one it is at

lockVars == <<lockOwner, lockDepth>>
readVars == <<resvPa, resvRaw, resvRawOk, loaded>>
opVars   == <<opWord, early>>
loopVars == <<rest, other>>
resvVars == <<smpLive, word, resvHeld, lockVars, where, after, reserve, readVars, opVars, loopVars>>

Reserving == {k \in ResvCores : reserve[k]}

\* ppc_cpu_init, and a reset of every core.
ResvInit ==
    /\ smpLive = FALSE
    /\ word \in [SwapWords -> ResvValues]
    /\ resvHeld = 0
    /\ lockOwner = {} /\ lockDepth = 0
    /\ where = [k \in ResvCores |-> IF k = FirstCore THEN "idle" ELSE "held"]
    /\ after = [k \in ResvCores |-> "idle"]
    /\ reserve = [k \in ResvCores |-> FALSE]
    /\ resvPa = [k \in ResvCores |-> 0] /\ opWord = resvPa
    /\ resvRaw = [k \in ResvCores |-> 0] /\ loaded = resvRaw
    /\ resvRawOk = [k \in ResvCores |-> FALSE]
    /\ early = [k \in ResvCores |-> FALSE]
    /\ rest = [k \in ResvCores |-> {}]
    /\ other = [k \in ResvCores |-> k]

\* A store lands on a word.
Lands(w, v) == word' = IF w \in SwapWords THEN [word EXCEPT ![w] = v] ELSE word

Moves(k, from, to) == where[k] = from /\ where' = [where EXCEPT ![k] = to]

\* emu_lock, which spins until it may, and emu_unlock.
EmuLock(k) ==
    /\ lockOwner \subseteq {k}
    /\ lockOwner' = {k}
    /\ lockDepth' = IF lockOwner = {k} THEN lockDepth + 1 ELSE 1

EmuUnlock ==
    /\ lockDepth' = lockDepth - 1
    /\ lockOwner' = IF lockDepth = 1 THEN {} ELSE lockOwner

------------------------------------------------------------------------------
(* One core: the reservation is a flag, and there is nobody to tell. *)

AloneLarx(w) ==
    /\ ~smpLive
    /\ reserve' = [reserve EXCEPT ![FirstCore] = TRUE]
    /\ loaded' = IF w \in SwapWords THEN [loaded EXCEPT ![FirstCore] = word[w]] ELSE loaded
    /\ UNCHANGED <<smpLive, word, resvHeld, lockVars, where, after, resvPa, resvRaw, resvRawOk, opVars, loopVars>>

AloneStore(w, v) ==     \* stwcx. too, with the flag set, which it clears
    /\ ~smpLive
    /\ Lands(w, v)
    /\ \E clear \in {FALSE, reserve[FirstCore]} :
          reserve' = [reserve EXCEPT ![FirstCore] = @ /\ ~clear]
    /\ UNCHANGED <<smpLive, resvHeld, lockVars, where, after, readVars, opVars, loopVars>>

\* ppc_cpu_start, by the first core while the others are held.
PpcCpuStart ==
    /\ ~smpLive
    /\ smpLive' = TRUE
    /\ reserve' = [k \in ResvCores |-> FALSE]
    /\ resvHeld' = 0
    /\ UNCHANGED <<word, lockVars, where, after, readVars, opVars, loopVars>>

\* ppc_cpu_take_start, on the started core's own thread.
TakeStart(k) ==
    /\ smpLive
    /\ Moves(k, "held", "idle")
    /\ reserve' = [reserve EXCEPT ![k] = FALSE]
    /\ UNCHANGED <<smpLive, word, resvHeld, lockVars, after, readVars, opVars, loopVars>>

------------------------------------------------------------------------------
(* ppc_larx_smp: counted, reserved, then read once. *)

LarxSmp(k, w) ==
    /\ smpLive
    /\ Moves(k, "idle", "larx")
    /\ EmuLock(k)
    /\ opWord' = [opWord EXCEPT ![k] = w]
    /\ UNCHANGED <<smpLive, word, resvHeld, after, reserve, readVars, early, loopVars>>

\* Mutation: the count is a flag.
LarxCounts_Flag(k) ==
    /\ Moves(k, "larx", "mark")
    /\ resvHeld' = 1
    /\ UNCHANGED <<smpLive, word, lockVars, after, reserve, readVars, opVars, loopVars>>

LarxCounts(k) ==
    /\ Moves(k, "larx", "mark")
    /\ resvHeld' = IF reserve[k] THEN resvHeld ELSE resvHeld + 1
    /\ UNCHANGED <<smpLive, word, lockVars, after, reserve, readVars, opVars, loopVars>>

LarxReserves(k) ==
    /\ Moves(k, "mark", "read")
    /\ reserve' = [reserve EXCEPT ![k] = TRUE]
    /\ resvPa' = [resvPa EXCEPT ![k] = opWord[k]]
    /\ UNCHANGED <<smpLive, word, resvHeld, lockVars, after, resvRaw, resvRawOk, loaded, opVars, loopVars>>

LarxReads(k) ==
    /\ Moves(k, "read", "unlock")
    /\ resvRawOk' = [resvRawOk EXCEPT ![k] = opWord[k] \in SwapWords]
    /\ IF opWord[k] \in SwapWords
       THEN /\ resvRaw' = [resvRaw EXCEPT ![k] = word[opWord[k]]]
            /\ loaded' = [loaded EXCEPT ![k] = word[opWord[k]]]
       ELSE UNCHANGED <<resvRaw, loaded>>
    /\ UNCHANGED <<smpLive, word, resvHeld, lockVars, after, reserve, resvPa, opVars, loopVars>>

Unlocks(k) ==
    /\ Moves(k, "unlock", "idle")
    /\ EmuUnlock
    /\ UNCHANGED <<smpLive, word, resvHeld, after, reserve, readVars, opVars, loopVars>>

------------------------------------------------------------------------------
(* stwcx.: the core looks at its own flag, and ppc_stcx_smp again inside the *)
(* lock: another core's store may have broken the reservation meanwhile.   *)

StcxAsks(k, w) ==
    /\ smpLive
    /\ Moves(k, "idle", "asks")
    /\ reserve[k]
    /\ opWord' = [opWord EXCEPT ![k] = w]
    /\ UNCHANGED <<smpLive, word, resvHeld, lockVars, after, reserve, readVars, early, loopVars>>

StcxSmp(k) ==
    /\ Moves(k, "asks", "stcx")
    /\ EmuLock(k)
    /\ UNCHANGED <<smpLive, word, resvHeld, after, reserve, readVars, opVars, loopVars>>

\* On the word that lwarx read, if that is RAM, a compare-and-swap with the
\* bytes it read there.
BySwap(k) == resvRawOk[k] /\ opWord[k] = resvPa[k]

\* Mutation: the flag is trusted, and the swap compares nothing.
MayStore_Flag(k) == reserve[k]

MayStore(k) == reserve[k] /\ (BySwap(k) => word[opWord[k]] = resvRaw[k])

StcxStores(k, v) ==
    /\ Moves(k, "stcx", "hint")
    /\ MayStore(k)
    /\ Lands(opWord[k], v)
    /\ after' = [after EXCEPT ![k] = "drop"]
    /\ UNCHANGED <<smpLive, resvHeld, lockVars, reserve, readVars, opVars, loopVars>>

\* The swap fails, the bus faults, or the reservation is gone.
StcxFails(k) ==
    /\ where[k] = "stcx"
    /\ MayStore(k) => ~BySwap(k)
    /\ where' = [where EXCEPT ![k] = IF reserve[k] THEN "drop" ELSE "unlock"]
    /\ UNCHANGED <<smpLive, word, resvHeld, lockVars, after, reserve, readVars, opVars, loopVars>>

StcxDrops(k) ==
    /\ Moves(k, "drop", "unlock")
    /\ reserve' = [reserve EXCEPT ![k] = FALSE]
    /\ resvHeld' = IF reserve[k] THEN resvHeld - 1 ELSE resvHeld
    /\ after' = [after EXCEPT ![k] = "idle"]
    /\ UNCHANGED <<smpLive, word, lockVars, readVars, opVars, loopVars>>

------------------------------------------------------------------------------
(* A plain store: it lands and resv_break reads the count, or the host reads *)
(* the count first.                                                        *)

Store(k, w, v) ==
    /\ smpLive
    /\ Moves(k, "idle", "hint")
    /\ Lands(w, v)
    /\ opWord' = [opWord EXCEPT ![k] = w]
    /\ UNCHANGED <<smpLive, resvHeld, lockVars, after, reserve, readVars, early, loopVars>>

HintEarly(k, w) ==
    /\ smpLive
    /\ Moves(k, "idle", "late")
    /\ early' = [early EXCEPT ![k] = resvHeld # 0]
    /\ opWord' = [opWord EXCEPT ![k] = w]
    /\ UNCHANGED <<smpLive, word, resvHeld, lockVars, after, reserve, readVars, loopVars>>

StoreLate(k, v) ==
    /\ Moves(k, "late", IF early[k] THEN "break" ELSE "idle")
    /\ Lands(opWord[k], v)
    /\ early' = [early EXCEPT ![k] = FALSE]
    /\ UNCHANGED <<smpLive, resvHeld, lockVars, after, reserve, readVars, opWord, loopVars>>

------------------------------------------------------------------------------
(* resv_break. *)

Hint(k) ==
    /\ Moves(k, "hint", IF resvHeld = 0 THEN after[k] ELSE "break")
    /\ UNCHANGED <<smpLive, word, resvHeld, lockVars, after, reserve, readVars, opVars, loopVars>>

Break(k) ==
    /\ Moves(k, "break", "each")
    /\ EmuLock(k)
    /\ rest' = [rest EXCEPT ![k] = ResvCores \ {k}]
    /\ UNCHANGED <<smpLive, word, resvHeld, after, reserve, readVars, opVars, other>>

Broken(k, o) == reserve[o] /\ resvPa[o] = opWord[k]

BreakPasses(k, o) ==
    /\ where[k] = "each" /\ o \in rest[k] /\ ~Broken(k, o)
    /\ rest' = [rest EXCEPT ![k] = @ \ {o}]
    /\ UNCHANGED <<smpLive, word, resvHeld, lockVars, where, after, reserve, readVars, opVars, other>>

BreakSees(k, o) ==
    /\ Moves(k, "each", "clear")
    /\ o \in rest[k] /\ Broken(k, o)
    /\ other' = [other EXCEPT ![k] = o]
    /\ UNCHANGED <<smpLive, word, resvHeld, lockVars, after, reserve, readVars, opVars, rest>>

\* What was seen set may have been cleared by an interrupt since.
BreakClears(k) ==
    /\ Moves(k, "clear", "each")
    /\ reserve' = [reserve EXCEPT ![other[k]] = FALSE]
    /\ resvHeld' = resvHeld - 1
    /\ rest' = [rest EXCEPT ![k] = @ \ {other[k]}]
    /\ other' = [other EXCEPT ![k] = k]
    /\ UNCHANGED <<smpLive, word, lockVars, after, readVars, opVars>>

BreakDone(k) ==
    /\ rest[k] = {}
    /\ Moves(k, "each", after[k])
    /\ EmuUnlock
    /\ UNCHANGED <<smpLive, word, resvHeld, after, reserve, readVars, opVars, loopVars>>

\* ppc_cpu_take_irq with HID0[ICR]: without the lock, and not counted off.
TakeIrq(k) ==
    /\ smpLive \/ k = FirstCore
    /\ where[k] = "idle" /\ reserve[k]
    /\ smpLive => resvHeld < ResvDrift + Cardinality(Reserving)
    /\ reserve' = [reserve EXCEPT ![k] = FALSE]
    /\ UNCHANGED <<smpLive, word, resvHeld, lockVars, where, after, readVars, opVars, loopVars>>

ResvStep(k) ==
    \/ \E w \in ResvWords : LarxSmp(k, w) \/ StcxAsks(k, w) \/ HintEarly(k, w) \/ \E v \in ResvValues : Store(k, w, v)
    \/ TakeStart(k) \/ StcxSmp(k) \/ LarxCounts(k) \/ LarxReserves(k) \/ LarxReads(k) \/ Unlocks(k)
    \/ \E v \in ResvValues : StcxStores(k, v) \/ StoreLate(k, v)
    \/ StcxFails(k) \/ StcxDrops(k) \/ Hint(k) \/ Break(k)
    \/ \E o \in ResvCores : BreakPasses(k, o) \/ BreakSees(k, o)
    \/ BreakClears(k) \/ BreakDone(k) \/ TakeIrq(k)

ResvNext ==
    \/ PpcCpuStart
    \/ \E w \in ResvWords : AloneLarx(w) \/ \E v \in ResvValues : AloneStore(w, v)
    \/ \E k \in ResvCores : ResvStep(k)

ResvSpec == ResvInit /\ [][ResvNext]_resvVars

------------------------------------------------------------------------------
(* Properties. *)

\* Where a core holds the lock, and where it holds it twice.
InLock(k) == where[k] \in {"larx", "mark", "read", "stcx", "drop", "unlock", "each", "clear"} \/ after[k] = "drop"
Nested(k) == where[k] \in {"each", "clear"} /\ after[k] = "drop"

ResvTypeOK ==
    /\ smpLive \in BOOLEAN /\ resvHeld \in Nat
    /\ where \in [ResvCores -> {"held", "idle", "asks", "larx", "mark", "read", "unlock", "stcx", "drop",
                                "hint", "late", "break", "each", "clear"}]
    /\ after \in [ResvCores -> {"idle", "drop"}]
    /\ reserve \in [ResvCores -> BOOLEAN] /\ resvRawOk \in [ResvCores -> BOOLEAN]
    /\ resvPa \in [ResvCores -> ResvWords] /\ opWord \in [ResvCores -> ResvWords]
    /\ word \in [SwapWords -> ResvValues]
    /\ resvRaw \in [ResvCores -> ResvValues] /\ loaded \in [ResvCores -> ResvValues]
    /\ early \in [ResvCores -> BOOLEAN]
    /\ rest \in [ResvCores -> SUBSET ResvCores] /\ other \in [ResvCores -> ResvCores]

\* The lock is held by the core that is inside it and by no other, as often
\* as it has entered it (emu_lock, emu_unlock).
LockRight ==
    /\ \A k, o \in lockOwner : k = o
    /\ lockOwner = {k \in ResvCores : InLock(k)}
    /\ \A k \in lockOwner : lockDepth = IF Nested(k) THEN 2 ELSE 1

\* "A hint read without the lock: it is never below the truth": while cores
\* share memory the count is at least the reservations held, through every
\* interleaving of lwarx, stwcx., stores and the interrupts that clear a
\* reservation without the lock (resv_count, resv_break, ppc_larx_smp,
\* ppc_stcx_smp, ppc_cpu_start).
HintNotBelow ==
    /\ ResvTypeOK /\ LockRight
    /\ smpLive => Cardinality(Reserving) <= resvHeld

\* A stwcx. that swaps replaces the very value its lwarx gave the guest,
\* whichever stores of other cores landed since and whether or not they broke
\* the reservation: no increment is lost (ppc_larx_smp, ppc_stcx_smp).
StwcxAtomic ==
    [][\A k \in ResvCores :
          where[k] = "stcx" /\ where'[k] = "hint" /\ BySwap(k) => word[opWord[k]] = loaded[k]]_resvVars
==============================================================================
