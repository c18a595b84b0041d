----------------------------- MODULE RunSlices ------------------------------
(***************************************************************************)
(* The run loop over the JIT's slices: emu_run_system asks for a round of  *)
(* one core (EmuRun), emu_core_slice decides whether the core is given a   *)
(* slice, emu_jit_run executes it (JitSlice), and what it retired goes to  *)
(* the account of the run.  EmuRun takes it as given that a core overruns  *)
(* its slice by Over at most; here that is what the JIT's loop does.       *)
(***************************************************************************)
EXTENDS EmuRun

CONSTANTS BlockMax, FallbackMax, ThrashRunMax, Levels, IrqRetires, Yields

ASSUME SlicesAssumption ==
    /\ {BlockMax, FallbackMax, ThrashRunMax, Levels} \subseteq Nat
    /\ BlockMax > 0 /\ FallbackMax > 0

VARIABLES phase, budget, done, batch, total, reason, gstate, level, stretch,
          yielded,
          inRound           \* emu_core_run has been called and not accounted for

J == INSTANCE JitSlice WITH Budgets <- 0..Slice

core == <<phase, budget, done, batch, total, reason, gstate, level, stretch, yielded>>
all == <<vars, core, inRound>>

JointInit == Init /\ J!Init /\ inRound = FALSE

\* emu_core_slice: halted, held, or parked with nothing that could wake it.
Skip ==
    /\ pc = "run" /\ ~inRound
    /\ gstate # "running"
    /\ Account(0, TRUE)
    /\ pc' = "after"
    /\ UNCHANGED <<core, inRound>>

\* emu_core_slice calls emu_core_run.
Begin ==
    /\ pc = "run" /\ ~inRound
    /\ gstate \in {"running", "wfi"}
    /\ J!Start(SliceNow) \/ J!StartParked(SliceNow)
    /\ inRound' = TRUE
    /\ UNCHANGED vars

Inside ==
    /\ J!Loop
    /\ UNCHANGED <<vars, inRound>>

\* Mutation: a core that has parked itself no longer counts as live.
Idle_Parked == gstate = "wfi"

\* "Anything not halted and not permanently parked counts as live", by its
\* state before the slice.
Idle == FALSE

\* As in EmuRun, a guest that retires Wrap instructions is not followed.
End ==
    /\ inRound /\ phase = "out"
    /\ retired + done < Wrap
    /\ Account(done, Idle)
    /\ pc' = "after"
    /\ inRound' = FALSE
    /\ UNCHANGED core

\* Between rounds the host polls, and the core may be released or stopped.
Between ==
    /\ ~inRound
    /\ \/ After /\ UNCHANGED core
       \/ Ended /\ UNCHANGED core
       \/ J!Outside /\ UNCHANGED vars
    /\ UNCHANGED inRound

\* A new image: the core is reset.
Reload ==
    /\ Again
    /\ reason' = "budget" /\ gstate' = "running" /\ level' = 0
    /\ UNCHANGED <<phase, budget, done, batch, total, stretch, yielded, inRound>>

JointNext == Skip \/ Begin \/ Inside \/ End \/ Between \/ Reload

\* The loop of a slice runs of its own accord; nothing else is promised.
JointSpec == JointInit /\ [][JointNext]_all /\ WF_all(Inside)

\* The rounds here are one core's, which overruns by less than a block.
OneCore == Cores = 1 /\ BlockMax <= Over + 1

-----------------------------------------------------------------------------
(* Properties. *)

\* A slice runs past what the run loop asked for by less than one entry of a
\* block, what it reports of the core is so, and a fallback batch is no longer
\* than the stretch of code that could not be translated.
SliceSound == J!TypeOK /\ J!Overshoot /\ J!ReasonTrue /\ J!BatchFollowsStretch

\* Every slice the run loop asks for returns to it.
SliceReturns == J!SliceReturns
=============================================================================
