------------------------------ MODULE JitSlice ------------------------------
(***************************************************************************)
(* One slice of a core under the JIT: emu_jit_run's loop as accounting     *)
(* (src/src/emu/emu_jit.c).  Which way an instruction is executed -- by a  *)
(* block, by the interpreter in batches that double, or step by step to    *)
(* the next jump -- is the code cache's business (JitCache, JitSeen) and   *)
(* is left open here; what each way charges to the budget, when the loop   *)
(* ends and what it reports is not.                                        *)
(***************************************************************************)
EXTENDS Integers

CONSTANTS
    Budgets,        \* what a caller may ask for
    BlockMax,       \* the most one entry of a block retires (its loop cap)
    FallbackMax,    \* EMU_JIT_FALLBACK_MAX
    ThrashRunMax,   \* JIT_THRASH_RUN_MAX
    Levels,         \* nested interrupt priorities of the guest
    IrqRetires,     \* ~ops->irq_not_retired
    Yields          \* the frontend's interpreter returns EMU_RUN_YIELD (G4MH)

VARIABLES
    phase,          \* "out", "top" or "step" (inside run_interp_to_jump)
    budget, done,   \* emu_jit_run's argument and its count
    batch,          \* what the next fallback may interpret
    total,          \* run_interp_to_jump's count
    reason,         \* what the slice reported
    gstate,         \* the core's state: "running", "wfi", "halted", "held"
    level,          \* the guest's execution priority: interrupts above it
    stretch,        \* instructions interpreted since a block last ran
    yielded         \* the interpreter said YIELD during this slice

vars == <<phase, budget, done, batch, total, reason, gstate, level, stretch, yielded>>

States == {"running", "wfi", "halted", "held"}

Init ==
    /\ phase = "out"
    /\ budget = 0 /\ done = 0 /\ batch = 1 /\ total = 0
    /\ reason = "budget"
    /\ gstate \in {"running", "held"}
    /\ level = 0 /\ stretch = 0 /\ yielded = FALSE

\* Between slices, the report taken, another core may release or stop it.
Outside ==
    /\ phase = "out"
    /\ gstate' \in (IF gstate = "held" THEN {"running"} ELSE {"halted"})
    /\ reason' = "budget"
    /\ UNCHANGED <<phase, budget, done, batch, total, level, stretch, yielded>>

\* is_idle and wake: a core that stays parked runs nothing.
StartParked(b) ==
    /\ phase = "out"
    /\ gstate = "wfi"
    /\ budget' = b /\ done' = 0
    /\ reason' = "wfi"
    /\ yielded' = FALSE
    /\ UNCHANGED <<phase, batch, total, gstate, level, stretch>>

Start(b) ==
    /\ phase = "out"
    /\ gstate' = IF gstate = "wfi" THEN "running" ELSE gstate
    /\ phase' = "top"
    /\ budget' = b /\ done' = 0 /\ batch' = 1
    /\ reason' = "budget"
    /\ stretch' = 0 /\ yielded' = FALSE
    /\ UNCHANGED <<total, level>>

\* The head of the loop: the budget is spent ...
Spent ==
    /\ phase = "top"
    /\ done >= budget
    /\ phase' = "out"
    /\ UNCHANGED <<budget, done, batch, total, reason, gstate, level, stretch, yielded>>

\* ... or the core is not running.
NotRunning ==
    /\ phase = "top"
    /\ done < budget
    /\ gstate # "running"
    /\ reason' = IF gstate = "halted" THEN "halted" ELSE "wfi"
    /\ phase' = "out"
    /\ UNCHANGED <<budget, done, batch, total, gstate, level, stretch, yielded>>

Going == phase = "top" /\ done < budget /\ gstate = "running"

\* take_irq: an interrupt of a higher priority than what runs.
TakeIrq ==
    /\ Going
    /\ level < Levels
    /\ level' \in level + 1..Levels
    /\ done' = IF IrqRetires THEN done + 1 ELSE done
    /\ UNCHANGED <<phase, budget, batch, total, reason, gstate, stretch, yielded>>

\* What ops->interp->run(cpu, want) may return, with the state it leaves the
\* core in.  It stops short only for a core that stops running or yields.
InterpRun(want) ==
    {[r |-> "budget", n |-> want, to |-> s] : s \in States \ {"held"}}
    \cup {[r |-> "budget", n |-> n, to |-> s] : n \in 0..want - 1, s \in {"wfi", "halted"}}
    \cup {[r |-> s, n |-> n, to |-> s] : n \in 0..want, s \in {"wfi", "halted"}}
    \cup {[r |-> "yield", n |-> n, to |-> "running"] : n \in IF Yields THEN 1..want ELSE {}}

Least(a, b) == IF a < b THEN a ELSE b

\* Mutation: a batch is not cut to what is left.
Want_Batch(most) == most

Want(most) == LET w == Least(most, budget - done) IN IF w = 0 THEN 1 ELSE w

\* After any fallback: a halt or a wait ends the slice.
\* Mutation: whatever is not BUDGET does.
Ends_AnyReason(r) == r # "budget"

Ends(r) == r \in {"halted", "wfi"}

AfterInterp(r) ==
    IF Ends(r)
    THEN phase' = "out" /\ reason' = (IF r = "halted" THEN r ELSE "wfi")
    ELSE phase' = "top" /\ UNCHANGED reason

InterpBatch(most) ==
    \E x \in InterpRun(Want(most)) :
        /\ done' = done + x.n
        /\ stretch' = stretch + x.n
        /\ gstate' = x.to
        /\ level' \in 0..Levels
        /\ yielded' = (yielded \/ x.r = "yield")
        /\ AfterInterp(x.r)
        /\ UNCHANGED <<budget, total>>

\* Mutation: a stretch starts with a full batch.
Doubled_Full == FallbackMax

Doubled == IF batch < FallbackMax THEN batch * 2 ELSE batch

\* A guard is up, the pc is known to be refused, or has just been.
Fallback ==
    /\ Going
    /\ InterpBatch(batch)
    /\ batch' = Doubled

\* Not hot yet: one instruction, and the batch stays.
Cold ==
    /\ Going
    /\ InterpBatch(1)
    /\ UNCHANGED batch

\* A thrashing pc: run_interp_to_jump, one instruction at a time.
ToJump ==
    /\ Going
    /\ phase' = "step"
    /\ total' = 0
    /\ UNCHANGED <<budget, done, batch, reason, gstate, level, stretch, yielded>>

\* Mutation: it runs on to the jump, as far as the budget goes.
MayStep_ToTheJump(t) == done + t < budget

MayStep(t) == done + t < budget /\ t < ThrashRunMax

StepOn ==
    /\ phase = "step"
    /\ \E x \in InterpRun(1) :
          LET t == total + x.n IN
          /\ gstate' = x.to
          /\ level' \in 0..Levels
          /\ yielded' = (yielded \/ x.r = "yield")
          /\ \/ \* straight on
                /\ x.r \in {"budget", "yield"} /\ x.n # 0
                /\ MayStep(t)
                /\ total' = t
                /\ UNCHANGED <<phase, done, reason, stretch>>
             \/ \* a jump, the end of the budget, or the core stopped
                /\ done' = done + t
                /\ stretch' = stretch + t
                /\ total' = 0
                /\ AfterInterp(x.r)
    /\ UNCHANGED <<budget, batch>>

\* Mutation: a block that retired nothing is charged nothing.
Charge_Retired(n) == n

Charge(n) == IF n # 0 THEN n ELSE 1

\* A block, found or built: n instructions, none when its first one trapped.
RunBlock ==
    /\ Going
    /\ \E n \in 0..BlockMax :
          /\ done' = done + Charge(n)
          /\ gstate' \in {"running", "wfi", "halted"}
    /\ level' \in 0..Levels
    /\ batch' = 1
    /\ stretch' = 0
    /\ UNCHANGED <<phase, budget, total, reason, yielded>>

Loop == Spent \/ NotRunning \/ TakeIrq \/ Fallback \/ Cold \/ ToJump \/ StepOn \/ RunBlock

Next == Outside \/ (\E b \in Budgets : StartParked(b) \/ Start(b)) \/ Loop

Spec == Init /\ [][Next]_vars

\* The loop runs on a thread of its own accord; nothing outside is promised.
FairSpec == Spec /\ WF_vars(Loop)

-----------------------------------------------------------------------------
(* Properties. *)

\* A batch that doubles stops below twice FallbackMax, and at FallbackMax when
\* that is a power of two, as the default of 64 is.
TypeOK ==
    /\ phase \in {"out", "top", "step"}
    /\ budget \in Budgets \cup {0} /\ done \in Nat
    /\ batch \in 1..2 * FallbackMax - 1 /\ total \in 0..ThrashRunMax
    /\ reason \in {"budget", "wfi", "halted"}
    /\ gstate \in States /\ level \in 0..Levels
    /\ stretch \in Nat /\ yielded \in BOOLEAN

\* The budget is a floor, and a slice runs past it by less than one entry of a
\* block: neither a batch nor a run to the next jump adds to that.
Overshoot == done < budget + BlockMax \/ done = 0

\* What the slice reports is so: a wait or a halt is the core's state, and a
\* spent budget was spent (emu_core_slice and the schedulers act on it).
ReasonTrue ==
    phase = "out" =>
        /\ reason = "halted" => gstate = "halted"
        /\ reason = "wfi" => gstate \in {"wfi", "held", "halted"}

\* "The overshoot is bounded by the batch at the point translation resumes,
\* which is at most the length of the stretch that declined" (emu_jit.c:1688):
\* so it is until the guest yields, which cuts a batch short.
BatchFollowsStretch == (Going /\ ~yielded) => batch <= stretch + 1

\* Every slice returns: a block that traps on its first instruction, an
\* interrupt and an interpreted stop all bring the end nearer.
SliceReturns == phase # "out" ~> phase = "out"

\* A core that yields has "nothing to do until some other core runs, so a
\* scheduler should move on rather than let the budget drain" (emu_types.h:72):
\* no more of the slice's budget is spent once the interpreter has yielded.
YieldEndsSlice == [][(yielded /\ phase # "out") => done' = done]_vars
=============================================================================
