------------------------------- MODULE EmuRun -------------------------------
(***************************************************************************)
(* emu_run_system (src/src/platform/common/emu_run.c) inside               *)
(* emu_main_body's loop over images: the guest runs in slices, up to a     *)
(* cap on what it retires, with one NMI at a given count, until it is      *)
(* idle, is capped or an image is uploaded.                                *)
(*                                                                         *)
(* A slice is a budget and the guest may retire more (JitSlice), on each   *)
(* of its cores.  MaxInsn and NmiAt are zero for "none", as in the code.   *)
(* Counts are 64-bit: subtraction is modulo Wrap, and a guest that retires *)
(* Wrap instructions, which none lives to do, is not followed.             *)
(***************************************************************************)
EXTENDS Integers

CONSTANTS
    Wrap,           \* 2^64
    Slice,          \* env->slice
    MaxInsn,        \* env->max_insn
    NmiAt,          \* env->nmi_at
    Cores,          \* sys->ncores
    Over            \* how far past its budget a core's slice may run

ASSUME RunAssumption ==
    /\ {Wrap, Slice, MaxInsn, NmiAt, Cores, Over} \subseteq Nat
    /\ Slice > 0 /\ Cores > 0
    /\ MaxInsn + Cores * (Slice + Over) < Wrap

VARIABLES
    pc,             \* "run", "after" or an outcome
    retired,        \* *retired_total
    nmiAt,          \* the local copy: zero once it was asserted
    allIdle,
    nmis            \* ghost: assertions of the NMI pin in this run

vars == <<pc, retired, nmiAt, allIdle, nmis>>

Init ==
    /\ pc = "run" /\ retired = 0 /\ nmiAt = NmiAt
    /\ allIdle = FALSE /\ nmis = 0

-----------------------------------------------------------------------------
Least(a, b) == IF a < b THEN a ELSE b

\* Mutation: a slice is never cut short for the cap.
ToCap_Whole == Slice

\* uint64_t left = max_insn - retired_total.
ToCap == IF MaxInsn = 0 THEN Slice ELSE Least(Slice, (MaxInsn - retired) % Wrap)

SliceNow ==
    IF nmiAt # 0 /\ nmiAt > retired THEN Least(ToCap, nmiAt - retired) ELSE ToCap

\* Mutation: the pin is asserted every time the count is past.
NmiAfter_Again(due) == nmiAt

NmiAfter(due) == IF due THEN 0 ELSE nmiAt

\* A round retired did: the total, and the NMI it may have brought it to.
Account(did, idle) ==
    LET due == nmiAt # 0 /\ retired + did >= nmiAt IN
    /\ retired' = retired + did
    /\ nmis' = IF due THEN nmis + 1 ELSE nmis
    /\ nmiAt' = NmiAfter(due)
    /\ allIdle' = (idle /\ ~due)

\* A round (emu_debug_run).  A core retires up to its budget and, stopping
\* between blocks, past it; one that has nothing to do retires nothing, and
\* only then is the round idle.
RunSlice ==
    /\ pc = "run"
    /\ \E did \in 0 .. Cores * (SliceNow + Over), idle \in BOOLEAN :
          /\ idle => did = 0
          /\ retired + did < Wrap
          /\ Account(did, idle)
    /\ pc' = "after"

\* Mutation: only the exact count is the cap.
AtCap_Exactly == MaxInsn # 0 /\ retired = MaxInsn

AtCap == MaxInsn # 0 /\ retired >= MaxInsn

\* The platform's polls, an upload, the cap, the clock, and the end.
After ==
    /\ pc = "after"
    /\ \/ pc' = "reload"
       \/ AtCap /\ pc' = "capped"
       \/ ~AtCap /\ allIdle /\ pc' = "halted"
       \/ ~AtCap /\ ~allIdle /\ pc' = "run"
    /\ UNCHANGED <<retired, nmiAt, allIdle, nmis>>

\* emu_main_body: an uploaded image starts again, from zero.
Again ==
    /\ pc = "reload"
    /\ pc' = "run" /\ retired' = 0 /\ nmiAt' = NmiAt
    /\ allIdle' = FALSE /\ nmis' = 0

Ended == pc \in {"halted", "capped"} /\ UNCHANGED vars

Next == RunSlice \/ After \/ Again \/ Ended

\* What a run of slices is, however a slice is executed: its cores overrun a
\* slice by no more than Over, and a round that retired anything is not idle.
Spec == Init /\ [][Next]_vars

-----------------------------------------------------------------------------
(* Properties. *)

\* The types; the NMI is given at most once, when its count is reached and as
\* soon as it is ("the NMI pin, once, at the count asked").
TypeOK ==
    /\ pc \in {"run", "after", "halted", "capped", "reload"}
    /\ retired \in 0 .. Wrap - 1
    /\ allIdle \in BOOLEAN
    /\ nmiAt \in {0, NmiAt} /\ nmis \in {0, 1}
    /\ nmis = 1 <=> (NmiAt # 0 /\ retired >= NmiAt)

\* "Compare the running total against the cap, never a budget counted down
\* to zero": whenever a slice is handed out something of the cap is left, so
\* that what is left does not wrap ("and the cap silently stops existing").
CapNeverPassed == (pc = "run" /\ MaxInsn # 0) => retired < MaxInsn

\* "A run stops near it rather than a whole slice past": past the cap are at
\* most what each core overran and, on more cores than one, the others' slices.
StopsNearCap ==
    MaxInsn # 0 => retired <= MaxInsn + (Cores - 1) * Slice + Cores * Over
\* The whole promise of the cap: the count never wraps past it, and a run
\* that ends there ends within one slice's overshoot, its NMI delivered once.
CapKept == TypeOK /\ CapNeverPassed /\ StopsNearCap
=============================================================================
