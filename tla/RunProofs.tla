----------------------------- MODULE RunProofs -----------------------------
(***************************************************************************)
(* That a run honours its cap, for every slice, cap, core count and        *)
(* overrun; and of the run loop over the JIT's slices (RunSlices), that a  *)
(* slice is sound and that a run made of them is a run of EmuRun, for      *)
(* every block length, batch limit and interrupt nesting.  And of the code *)
(* cache those slices fill, that a compaction keeps a hot loop's body.     *)
(***************************************************************************)
EXTENDS RunSlices, JitRetention, TLAPS

\* The pin's local count goes to zero when the pin is asserted.
Inv ==
    /\ TypeOK /\ CapNeverPassed /\ StopsNearCap
    /\ nmiAt = IF nmis = 1 THEN 0 ELSE NmiAt

LEMMA ConstantsNat ==
    /\ Wrap \in Nat /\ Slice \in Nat /\ MaxInsn \in Nat /\ NmiAt \in Nat
    /\ Cores \in Nat /\ Over \in Nat /\ Slice > 0 /\ Cores > 0
    /\ MaxInsn + Cores * (Slice + Over) < Wrap
BY RunAssumption

\* All cores' slices together are one core's, the others' and the overruns.
LEMMA RoundBound ==
    ASSUME NEW s \in Nat, s <= Slice
    PROVE  /\ Cores * (s + Over) \in Nat
           /\ Cores * (s + Over) <= s + (Cores - 1) * Slice + Cores * Over
<1> DEFINE c == Cores - 1
<1>1. c \in Nat /\ Cores = c + 1
  BY ConstantsNat
<1>2. Cores * (s + Over) = Cores * s + Cores * Over
  BY ConstantsNat
<1>3. Cores * s = c * s + s
  BY <1>1, ConstantsNat
<1>4. c * s <= c * Slice
  BY <1>1, ConstantsNat
<1>5. Cores * s \in Nat /\ Cores * Over \in Nat /\ c * s \in Nat /\ c * Slice \in Nat
  BY <1>1, ConstantsNat
<1> HIDE DEF c
<1>6. Cores * (s + Over) \in Nat /\ Cores * (s + Over) <= s + c * Slice + Cores * Over
  BY <1>2, <1>3, <1>4, <1>5
<1> QED
  BY <1>6 DEF c

\* Nothing wraps: what is handed out is within the slice and what is left.
LEMMA SliceInCap ==
    ASSUME Inv, pc = "run"
    PROVE  /\ SliceNow \in Nat /\ SliceNow <= Slice
           /\ MaxInsn # 0 => SliceNow <= MaxInsn - retired
<1>1. retired \in Nat /\ retired < Wrap /\ nmiAt \in Nat
  BY ConstantsNat DEF Inv, TypeOK
<1>2. MaxInsn # 0 => MaxInsn - retired \in 1 .. Wrap - 1
  <2>1. MaxInsn < Wrap
    <3>1. Cores * (Slice + Over) \in Nat
      BY RoundBound, ConstantsNat
    <3> QED
      BY <3>1, ConstantsNat
  <2> QED
    BY <1>1, <2>1, ConstantsNat DEF Inv, CapNeverPassed
<1>3. MaxInsn # 0 => (MaxInsn - retired) % Wrap = MaxInsn - retired
  BY <1>2, ConstantsNat
<1>4. ToCap \in Nat /\ ToCap <= Slice /\ (MaxInsn # 0 => ToCap <= MaxInsn - retired)
  BY <1>1, <1>2, <1>3, ConstantsNat DEF ToCap, Least
<1> QED
  BY <1>1, <1>4, ConstantsNat DEF SliceNow, Least

\* What the start of a run, the first or after an upload, needs.
LEMMA AtStart ==
    /\ 0 \in 0 .. Wrap - 1
    /\ MaxInsn # 0 => 0 < MaxInsn
    /\ 0 <= MaxInsn + (Cores - 1) * Slice + Cores * Over
<1>1. Cores * Over \in Nat /\ (Cores - 1) * Slice \in Nat
  BY ConstantsNat
<1>2. Cores * (Slice + Over) \in Nat
  BY RoundBound, ConstantsNat
<1> QED
  BY <1>1, <1>2, ConstantsNat

LEMMA InvInit == Init => Inv
<1> SUFFICES ASSUME Init PROVE Inv
  OBVIOUS
<1>1. allIdle \in BOOLEAN
  BY Zenon DEF Init
<1>2. /\ pc = "run" /\ retired = 0 /\ nmiAt = NmiAt /\ nmis = 0
  BY DEF Init
<1>3. nmis = 1 <=> (NmiAt # 0 /\ retired >= NmiAt)
  BY <1>2, ConstantsNat
<1> QED
  BY <1>1, <1>2, <1>3, AtStart DEF Inv, TypeOK, CapNeverPassed, StopsNearCap

LEMMA InvStep == Inv /\ [Next]_vars => Inv'
<1> SUFFICES ASSUME Inv, [Next]_vars PROVE Inv'
  OBVIOUS
<1>1. CASE RunSlice
  <2> DEFINE due(d) == nmiAt # 0 /\ retired + d >= nmiAt
  <2>1. PICK did \in 0 .. Cores * (SliceNow + Over), idle \in BOOLEAN :
            /\ retired + did < Wrap
            /\ retired' = retired + did
            /\ nmis' = IF due(did) THEN nmis + 1 ELSE nmis
            /\ nmiAt' = IF due(did) THEN 0 ELSE nmiAt
            /\ allIdle' = (idle /\ ~due(did))
    BY <1>1 DEF RunSlice, Account, NmiAfter
  <2>2. pc = "run" /\ pc' = "after"
    BY <1>1 DEF RunSlice
  <2>3. SliceNow \in Nat /\ SliceNow <= Slice
        /\ (MaxInsn # 0 => SliceNow <= MaxInsn - retired)
    BY <2>2, SliceInCap
  <2>4. Cores * (SliceNow + Over) \in Nat
        /\ Cores * (SliceNow + Over) <= SliceNow + (Cores - 1) * Slice + Cores * Over
    BY <2>3, RoundBound
  <2>5. retired \in Nat /\ did \in Nat
    BY <2>4, ConstantsNat DEF Inv, TypeOK
  <2>6. Cores * Over \in Nat /\ (Cores - 1) * Slice \in Nat
    BY ConstantsNat
  <2>7. StopsNearCap'
    <3> SUFFICES ASSUME MaxInsn # 0
                 PROVE  retired' <= MaxInsn + (Cores - 1) * Slice + Cores * Over
      BY DEF StopsNearCap
    <3>1. did <= SliceNow + (Cores - 1) * Slice + Cores * Over
      BY <2>3, <2>4, <2>5, <2>6
    <3> QED
      BY <2>1, <2>3, <2>5, <2>6, <3>1, ConstantsNat
  <2>8. CapNeverPassed'
    BY <2>2 DEF CapNeverPassed
  <2>9. allIdle' \in BOOLEAN
    BY <2>1
  <2>10. /\ retired' \in 0 .. Wrap - 1
         /\ nmis' \in {0, 1} /\ nmiAt' \in {0, NmiAt}
         /\ nmiAt' = IF nmis' = 1 THEN 0 ELSE NmiAt
         /\ nmis' = 1 <=> (NmiAt # 0 /\ retired' >= NmiAt)
    BY <2>1, <2>5, ConstantsNat DEF Inv, TypeOK
  <2> QED
    BY <2>2, <2>7, <2>8, <2>9, <2>10 DEF Inv, TypeOK
<1>2. CASE After
  <2>1. retired \in Nat /\ MaxInsn \in Nat
    BY ConstantsNat DEF Inv, TypeOK
  <2> QED
    BY <1>2, <2>1 DEF After, AtCap, Inv, TypeOK, CapNeverPassed, StopsNearCap
<1>3. CASE Again
  <2>1. allIdle' \in BOOLEAN
    BY <1>3, Zenon DEF Again
  <2>2. /\ pc' = "run" /\ retired' = 0 /\ nmiAt' = NmiAt /\ nmis' = 0
    BY <1>3 DEF Again
  <2>3. nmis' = 1 <=> (NmiAt # 0 /\ retired' >= NmiAt)
    BY <2>2, ConstantsNat
  <2> QED
    BY <2>1, <2>2, <2>3, AtStart DEF Inv, TypeOK, CapNeverPassed, StopsNearCap
<1>4. CASE Ended \/ UNCHANGED vars
  BY <1>4 DEF Ended, vars, Inv, TypeOK, CapNeverPassed, StopsNearCap
<1> QED
  BY <1>1, <1>2, <1>3, <1>4 DEF Next

\* emu_run_system never hands out a slice when the cap is used up, which is
\* when `left' would wrap, and stops within one round's overrun of it.
THEOREM CapHonoured == Spec => []CapKept
<1>1. Inv => CapKept
  BY DEF Inv, CapKept
<1> QED
  BY <1>1, InvInit, InvStep, PTL DEF Spec

-----------------------------------------------------------------------------
(* The slices. *)

\* Besides what SliceSound says: while the loop runs nothing is reported yet,
\* a run to the next jump is inside the budget, and it is a batch at any point
\* where translation may resume that is bounded by the stretch.
SliceInv ==
    /\ J!TypeOK /\ J!Overshoot /\ J!ReasonTrue
    /\ phase # "out" => reason = "budget"
    /\ phase = "step" => done + total < budget
    /\ (phase = "step" \/ J!Going) /\ ~yielded => batch <= stretch + 1

LEMMA SlicesNat ==
    /\ BlockMax \in Nat /\ FallbackMax \in Nat /\ ThrashRunMax \in Nat /\ Levels \in Nat
    /\ BlockMax > 0 /\ FallbackMax > 0 /\ Slice \in Nat
BY SlicesAssumption, ConstantsNat

\* The two kinds of state of SliceInv, for its use in the steps below.
LEMMA SliceTypes ==
    ASSUME SliceInv
    PROVE  /\ phase \in {"out", "top", "step"} /\ budget \in 0 .. Slice
           /\ budget \in Nat /\ done \in Nat /\ total \in Nat /\ batch \in Nat /\ stretch \in Nat
           /\ batch >= 1 /\ batch < 2 * FallbackMax /\ total <= ThrashRunMax
           /\ reason \in {"budget", "wfi", "halted"} /\ gstate \in J!States
           /\ level \in 0 .. Levels /\ yielded \in BOOLEAN
BY SlicesNat DEF SliceInv, J!TypeOK

LEMMA SliceStart == J!Init => SliceInv
<1> SUFFICES ASSUME J!Init PROVE SliceInv
  OBVIOUS
<1>1. phase = "out" /\ reason = "budget" /\ done = 0
  BY DEF J!Init
<1>2. yielded \in BOOLEAN
  BY Zenon DEF J!Init
<1>3. J!TypeOK
  BY <1>2, SlicesNat DEF J!Init, J!TypeOK, J!States
<1> QED
  BY <1>1, <1>3 DEF SliceInv, J!Overshoot, J!ReasonTrue, J!Going

LEMMA SliceBegin ==
    ASSUME SliceInv, NEW b \in 0 .. Slice, J!Start(b) \/ J!StartParked(b)
    PROVE  SliceInv'
<1>1. yielded' \in BOOLEAN
  BY Zenon DEF J!Start, J!StartParked
<1>2. CASE J!Start(b)
  <2>1. J!TypeOK'
    BY <1>1, <1>2, SliceTypes, SlicesNat DEF J!Start, J!TypeOK, J!States
  <2> QED
    BY <1>2, <2>1 DEF J!Start, SliceInv, J!Overshoot, J!ReasonTrue, J!Going
<1>3. CASE J!StartParked(b)
  <2>1. phase' = "out" /\ reason' = "wfi" /\ gstate' = "wfi" /\ done' = 0
    BY <1>3 DEF J!StartParked
  <2>2. J!TypeOK'
    BY <1>1, <1>3, <2>1, SliceTypes, SlicesNat DEF J!StartParked, J!TypeOK, J!States
  <2> QED
    BY <2>1, <2>2 DEF SliceInv, J!Overshoot, J!ReasonTrue, J!Going
<1> QED
  BY <1>2, <1>3

LEMMA SliceOutside == SliceInv /\ J!Outside => SliceInv'
BY SliceTypes, SlicesNat
DEF J!Outside, SliceInv, J!TypeOK, J!Overshoot, J!ReasonTrue, J!Going, J!States

\* What an interpreter asked for at least one instruction may return.
LEMMA InterpReturns ==
    ASSUME NEW want \in Nat \ {0}, NEW x \in J!InterpRun(want)
    PROVE  /\ x.n \in 0 .. want /\ x.to \in J!States
           /\ x.r \in {"budget", "wfi", "halted", "yield"}
           /\ x.r \in {"wfi", "halted"} => x.to = x.r
           /\ x.r = "budget" /\ x.to = "running" => x.n = want
           /\ x.r = "yield" => x.n # 0
BY DEF J!InterpRun, J!States

\* A batch, as long as what is left of the budget or shorter.
LEMMA BatchKeeps ==
    ASSUME SliceInv, J!Going, NEW most \in Nat \ {0}, J!InterpBatch(most),
           batch' \in 1 .. 2 * FallbackMax - 1,
           ~yielded => batch' <= stretch + most + 1
    PROVE  SliceInv'
<1> DEFINE want == J!Want(most)
<1>1. want \in Nat \ {0} /\ want <= budget - done /\ (want = most \/ want = budget - done)
  BY SliceTypes DEF J!Want, J!Least, J!Going
<1> HIDE DEF want
<1>2. PICK x \in J!InterpRun(want) :
          /\ done' = done + x.n /\ stretch' = stretch + x.n
          /\ gstate' = x.to /\ level' \in 0 .. Levels
          /\ yielded' = (yielded \/ x.r = "yield")
          /\ J!AfterInterp(x.r)
          /\ UNCHANGED <<budget, total>>
  BY DEF J!InterpBatch, want
<1>3. /\ x.n \in 0 .. want /\ x.to \in J!States
      /\ x.r \in {"budget", "wfi", "halted", "yield"}
      /\ x.r \in {"wfi", "halted"} => x.to = x.r
      /\ x.r = "budget" /\ x.to = "running" => x.n = want
  BY <1>1, InterpReturns
<1>4. \/ /\ x.r \in {"wfi", "halted"} /\ phase' = "out" /\ reason' = x.r
      \/ /\ x.r \in {"budget", "yield"} /\ phase' = "top" /\ reason' = reason
  BY <1>2, <1>3 DEF J!AfterInterp, J!Ends
<1>5. reason = "budget"
  BY DEF SliceInv, J!Going
<1>6. J!TypeOK'
  BY <1>1, <1>2, <1>3, <1>4, SliceTypes, SlicesNat DEF J!TypeOK
<1>7. J!Overshoot' /\ done' <= budget'
  BY <1>1, <1>2, <1>3, SliceTypes, SlicesNat DEF J!Overshoot, J!Going
<1>8. J!ReasonTrue' /\ (phase' # "out" => reason' = "budget") /\ phase' # "step"
  BY <1>2, <1>3, <1>4, <1>5 DEF J!ReasonTrue
<1>9. J!Going' /\ ~yielded' => batch' <= stretch' + 1
  <2> SUFFICES ASSUME J!Going', ~yielded' PROVE batch' <= stretch' + 1
    OBVIOUS
  <2>1. x.r = "budget" /\ x.to = "running" /\ ~yielded /\ done' < budget'
    BY <1>2, <1>3, <1>4, Zenon DEF J!Going
  <2>2. x.n = most
    BY <1>1, <1>2, <1>3, <2>1, SliceTypes
  <2> QED
    BY <1>2, <2>1, <2>2, SliceTypes
<1> QED
  BY <1>6, <1>7, <1>8, <1>9 DEF SliceInv

LEMMA StepKeeps == SliceInv /\ J!StepOn => SliceInv'
<1> SUFFICES ASSUME SliceInv, J!StepOn PROVE SliceInv'
  OBVIOUS
<1>1. PICK x \in J!InterpRun(1) :
          /\ gstate' = x.to /\ level' \in 0 .. Levels
          /\ yielded' = (yielded \/ x.r = "yield")
          /\ \/ /\ x.r \in {"budget", "yield"}
                /\ J!MayStep(total + x.n)
                /\ total' = total + x.n
                /\ UNCHANGED <<phase, done, reason, stretch>>
             \/ /\ done' = done + (total + x.n)
                /\ stretch' = stretch + (total + x.n)
                /\ total' = 0
                /\ J!AfterInterp(x.r)
  BY DEF J!StepOn
<1>2. phase = "step" /\ budget' = budget /\ batch' = batch
  BY DEF J!StepOn
<1>3. /\ x.n \in 0 .. 1 /\ x.to \in J!States
      /\ x.r \in {"budget", "wfi", "halted", "yield"}
      /\ x.r \in {"wfi", "halted"} => x.to = x.r
  BY InterpReturns
<1>4. done + total < budget /\ reason = "budget" /\ (~yielded => batch <= stretch + 1)
  BY <1>2 DEF SliceInv
<1>5. CASE /\ J!MayStep(total + x.n)
           /\ total' = total + x.n
           /\ UNCHANGED <<phase, done, reason, stretch>>
  <2>1. J!TypeOK' /\ J!Overshoot'
    BY <1>1, <1>2, <1>3, <1>4, <1>5, SliceTypes, SlicesNat DEF J!TypeOK, J!Overshoot, J!MayStep
  <2>2. done' + total' < budget'
    BY <1>2, <1>5 DEF J!MayStep
  <2> QED
    BY <1>1, <1>2, <1>4, <1>5, <2>1, <2>2, Zenon DEF SliceInv, J!ReasonTrue
<1>6. CASE /\ done' = done + (total + x.n)
           /\ stretch' = stretch + (total + x.n)
           /\ total' = 0
           /\ J!AfterInterp(x.r)
  <2>1. \/ /\ x.r \in {"wfi", "halted"} /\ phase' = "out" /\ reason' = x.r
        \/ /\ x.r \in {"budget", "yield"} /\ phase' = "top" /\ reason' = reason
    BY <1>3, <1>6 DEF J!AfterInterp, J!Ends
  <2>2. J!TypeOK'
    BY <1>1, <1>2, <1>3, <1>6, <2>1, SliceTypes, SlicesNat DEF J!TypeOK
  <2>3. J!Overshoot'
    BY <1>2, <1>3, <1>4, <1>6, SliceTypes, SlicesNat DEF J!Overshoot
  <2>4. J!ReasonTrue' /\ (phase' # "out" => reason' = "budget") /\ phase' # "step"
    BY <1>1, <1>3, <1>4, <2>1 DEF J!ReasonTrue
  <2>5. ~yielded' => batch' <= stretch' + 1
    BY <1>1, <1>2, <1>3, <1>4, <1>6, SliceTypes
  <2> QED
    BY <2>2, <2>3, <2>4, <2>5 DEF SliceInv
<1> QED
  BY <1>1, <1>5, <1>6

LEMMA LoopKeeps == SliceInv /\ J!Loop => SliceInv'
<1> SUFFICES ASSUME SliceInv, J!Loop PROVE SliceInv'
  OBVIOUS
<1>1. CASE J!Spent \/ J!NotRunning
  BY <1>1, SliceTypes, SlicesNat
  DEF J!Spent, J!NotRunning, SliceInv, J!TypeOK, J!Overshoot, J!ReasonTrue, J!Going, J!States
<1>2. CASE J!TakeIrq
  BY <1>2, SliceTypes, SlicesNat
  DEF J!TakeIrq, SliceInv, J!TypeOK, J!Overshoot, J!ReasonTrue, J!Going
<1>3. CASE J!Fallback
  <2>1. J!Going /\ J!InterpBatch(batch) /\ batch' = J!Doubled
    BY <1>3 DEF J!Fallback
  <2>2. batch' \in 1 .. 2 * FallbackMax - 1 /\ batch' <= batch + batch
    BY <2>1, SliceTypes, SlicesNat DEF J!Doubled
  <2>3. ~yielded => batch' <= stretch + batch + 1
    BY <2>1, <2>2, SliceTypes DEF SliceInv
  <2> QED
    BY <2>1, <2>2, <2>3, SliceTypes, BatchKeeps
<1>4. CASE J!Cold
  <2>1. J!Going /\ J!InterpBatch(1) /\ batch' = batch
    BY <1>4 DEF J!Cold
  <2>2. batch' \in 1 .. 2 * FallbackMax - 1
    BY <2>1, SliceTypes, SlicesNat
  <2>3. ~yielded => batch' <= stretch + 1 + 1
    BY <2>1, <2>2, SliceTypes DEF SliceInv
  <2> QED
    BY <2>1, <2>2, <2>3, BatchKeeps
<1>5. CASE J!ToJump
  BY <1>5, SliceTypes, SlicesNat
  DEF J!ToJump, SliceInv, J!TypeOK, J!Overshoot, J!ReasonTrue, J!Going
<1>6. CASE J!StepOn
  BY <1>6, StepKeeps
<1>7. CASE J!RunBlock
  BY <1>7, SliceTypes, SlicesNat
  DEF J!RunBlock, J!Charge, SliceInv, J!TypeOK, J!Overshoot, J!ReasonTrue, J!Going, J!States
<1> QED
  BY <1>1, <1>2, <1>3, <1>4, <1>5, <1>6, <1>7 DEF J!Loop

-----------------------------------------------------------------------------
(* The run loop over them. *)

\* A round is in progress in the run loop's "run", for what it asked for.
Joined ==
    /\ ~inRound => phase = "out"
    /\ inRound => pc = "run" /\ budget = SliceNow

\* A core that only the run loop's own steps touch stays sound.
LEMMA SliceSame == SliceInv /\ UNCHANGED core => SliceInv'
BY DEF core, SliceInv, J!TypeOK, J!Overshoot, J!ReasonTrue, J!Going

LEMMA SliceNowSame == UNCHANGED vars => SliceNow' = SliceNow
BY DEF vars, SliceNow, ToCap

\* Every step of the run loop over slices keeps the slice's invariant and the
\* link to the run loop, given the run loop's own invariant.
LEMMA JoinedStep == Inv /\ SliceInv /\ Joined /\ [JointNext]_all => SliceInv' /\ Joined'
<1> SUFFICES ASSUME Inv, SliceInv, Joined, [JointNext]_all PROVE SliceInv' /\ Joined'
  OBVIOUS
<1>1. CASE Skip
  BY <1>1, SliceSame DEF Skip, Joined, core
<1>2. CASE Begin
  <2>1. pc = "run" /\ ~inRound /\ UNCHANGED vars /\ inRound' = TRUE
        /\ (J!Start(SliceNow) \/ J!StartParked(SliceNow))
    BY <1>2 DEF Begin
  <2>2. SliceNow \in 0 .. Slice
    BY <2>1, SliceInCap, ConstantsNat
  <2>3. SliceInv'
    BY <2>1, <2>2, SliceBegin
  <2>4. budget' = SliceNow /\ pc' = pc
    BY <2>1 DEF J!Start, J!StartParked, vars
  <2> QED
    BY <2>1, <2>3, <2>4, SliceNowSame DEF Joined
<1>3. CASE Inside
  <2>1. J!Loop /\ UNCHANGED vars /\ inRound' = inRound
    BY <1>3 DEF Inside
  <2>2. phase # "out" /\ budget' = budget
    BY <2>1 DEF J!Loop, J!Spent, J!NotRunning, J!TakeIrq, J!Fallback, J!Cold, J!ToJump,
                J!StepOn, J!RunBlock, J!InterpBatch, J!Going
  <2> QED
    BY <2>1, <2>2, LoopKeeps, SliceNowSame DEF Joined, vars
<1>4. CASE End
  BY <1>4, SliceSame DEF End, Joined, core
<1>5. CASE Between
  <2>1. ~inRound /\ inRound' = inRound /\ phase = "out"
    BY <1>5 DEF Between, Joined
  <2>2. CASE UNCHANGED core
    BY <2>1, <2>2, SliceSame DEF Joined, core
  <2>3. CASE J!Outside
    BY <2>1, <2>3, SliceOutside DEF Joined, J!Outside
  <2> QED
    BY <1>5, <2>2, <2>3 DEF Between
<1>6. CASE Reload
  <2>1. /\ ~inRound /\ phase = "out"
        /\ UNCHANGED <<phase, budget, done, batch, total, stretch, yielded, inRound>>
        /\ reason' = "budget" /\ gstate' = "running" /\ level' = 0
    BY <1>6 DEF Reload, Again, Joined
  <2>2. J!TypeOK'
    BY <2>1, SlicesNat DEF SliceInv, J!TypeOK, J!States
  <2> QED
    BY <2>1, <2>2 DEF SliceInv, J!Overshoot, J!ReasonTrue, J!Going, Joined
<1>7. CASE UNCHANGED all
  BY <1>7, SliceSame, SliceNowSame DEF all, core, vars, Joined
<1> QED
  BY <1>1, <1>2, <1>3, <1>4, <1>5, <1>6, <1>7 DEF JointNext

\* What the run loop takes away from a slice is within what it allows for.
LEMMA OverrunAllowed ==
    ASSUME OneCore, Inv, SliceInv, Joined, inRound
    PROVE  done \in 0 .. Cores * (SliceNow + Over)
<1>1. SliceNow \in Nat
  BY SliceInCap DEF Joined
<1>2. done < SliceNow + BlockMax \/ done = 0
  BY DEF SliceInv, J!Overshoot, Joined
<1>3. done <= SliceNow + Over
  BY <1>1, <1>2, SliceTypes, SlicesNat, ConstantsNat DEF OneCore
<1>4. Cores * (SliceNow + Over) = SliceNow + Over
  BY <1>1, ConstantsNat DEF OneCore
<1> QED
  BY <1>1, <1>3, <1>4, SliceTypes, ConstantsNat

\* A round's steps are the run loop's own, or nothing to it.
LEMMA RoundIsSlice ==
    ASSUME OneCore, Inv, SliceInv, Joined, [JointNext]_all
    PROVE  [Next]_vars
<1>1. CASE Skip
  <2>1. pc = "run" /\ Account(0, TRUE) /\ pc' = "after"
    BY <1>1, Zenon DEF Skip
  <2>2. SliceNow \in Nat /\ retired + 0 < Wrap /\ retired \in Nat
    BY <2>1, SliceInCap, ConstantsNat DEF Inv, TypeOK
  <2>3. 0 \in 0 .. Cores * (SliceNow + Over)
    <3>1. Cores * (SliceNow + Over) = SliceNow + Over
      BY <2>2, ConstantsNat DEF OneCore
    <3> QED
      BY <2>2, <3>1, ConstantsNat
  <2> QED
    BY <2>1, <2>2, <2>3, Zenon DEF RunSlice, Next
<1>2. CASE End
  <2>1. inRound /\ retired + done < Wrap /\ Account(done, Idle) /\ pc' = "after"
    BY <1>2 DEF End
  <2>2. pc = "run" /\ done \in 0 .. Cores * (SliceNow + Over) /\ Idle = FALSE
    BY <2>1, OverrunAllowed DEF Joined, Idle
  <2> QED
    BY <2>1, <2>2, Zenon DEF RunSlice, Next
<1>3. CASE Begin \/ Inside \/ UNCHANGED all
  BY <1>3 DEF Begin, Inside, all
<1>4. CASE Between
  BY <1>4 DEF Between, Next
<1>5. CASE Reload
  BY <1>5 DEF Reload, Next
<1> QED
  BY <1>1, <1>2, <1>3, <1>4, <1>5 DEF JointNext

\* The inductive invariant.
JointInv == Inv /\ SliceInv /\ Joined

LEMMA JointStart == JointInit => JointInv
BY InvInit, SliceStart DEF JointInit, J!Init, Joined, JointInv

LEMMA JointStep ==
    ASSUME OneCore, JointInv, [JointNext]_all
    PROVE  [Next]_vars /\ JointInv'
BY RoundIsSlice, JoinedStep, InvStep DEF JointInv

\* A run made of emu_jit_run's slices is a run of EmuRun's: the JIT's loop
\* overruns what it is asked for by no more than the run loop allows for, and
\* what the two account for between them is what EmuRun says of a round.
THEOREM RunOfSlices == ASSUME OneCore PROVE JointSpec => Spec
<1>1. JointInit => Init
  BY DEF JointInit
<1>2. JointInv /\ [JointNext]_all => [Next]_vars /\ JointInv'
  BY JointStep
<1> QED
  BY <1>1, <1>2, JointStart, PTL DEF JointSpec, Spec

\* So the cap of emu_run_system holds of the JIT's slices.
THEOREM SlicesHonourCap == ASSUME OneCore PROVE JointSpec => []CapKept
BY RunOfSlices, CapHonoured, PTL

\* A slice of emu_jit_run passes its budget by less than a block, reports what
\* is so and sizes its batches from this stretch of code, for every budget the
\* run loop asks for, every block length and both kinds of interrupt.
THEOREM SlicesSound == ASSUME OneCore PROVE JointSpec => []SliceSound
<1>1. JointInv /\ [JointNext]_all => JointInv'
  BY JointStep
<1>2. JointInv => SliceSound
  BY DEF JointInv, SliceInv, SliceSound, J!BatchFollowsStretch
<1> QED
  BY <1>1, <1>2, JointStart, PTL DEF JointSpec

-----------------------------------------------------------------------------
(* What a compaction keeps (JitRetention), for any table, budget, number of *)
(* bins and number of passes.                                              *)

\* The types, and how far a pass that has moved nothing has looked.
RetentionInv == RetentionTypeOK /\ Settling

\* Places in the code buffer are numbers.
LEMMA AlignUpNat == \A n \in Nat : AlignUp(n) \in Nat
<1> SUFFICES ASSUME NEW n \in Nat PROVE AlignUp(n) \in Nat
  OBVIOUS
<1>1. n + CodeAlign - 1 \in Nat
  BY RetentionAssumption
<1>2. (n + CodeAlign - 1) \div CodeAlign \in Nat
  BY <1>1, RetentionAssumption
<1> QED
  BY <1>2, RetentionAssumption DEF AlignUp

\* The table's entries, their fields, and what the steps make of them.
LEMMA Entries ==
    ASSUME RetentionTypeOK
    PROVE  Len(tab) \in Nat /\ DOMAIN tab = 1..Len(tab) /\ \A n \in DOMAIN tab : tab[n] \in Held
<1>1. tab \in Seq(Held)
  BY DEF RetentionTypeOK
<1> QED
  BY <1>1

LEMMA EmptyTable == <<>> \in Seq(Held) /\ Len(<<>>) = 0
OBVIOUS

\* The loops start at the first block and the first pass.
LEMMA LoopStart == 0 \in 0..MaxPasses - 1 /\ FALSE \in BOOLEAN /\ \A m \in Nat : 1 \in 1..m + 1
BY RetentionAssumption

LEMMA HeldFields ==
    ASSUME NEW e \in Held
    PROVE  e.pc \in BlockPcs /\ e.hits \in 0..HitMax /\ e.linked \in SUBSET BlockPcs
BY DEF Held

LEMMA HeldMade ==
    ASSUME NEW e \in Held, NEW h \in 0..HitMax, NEW L \in SUBSET BlockPcs
    PROVE  /\ [e EXCEPT !.hits = h] \in Held
           /\ [e EXCEPT !.linked = L] \in Held
           /\ [e EXCEPT !.hits = h, !.linked = L] \in Held
           /\ [e EXCEPT !.live = FALSE, !.hits = h] \in Held
BY Zenon DEF Held

\* A hotter block is in a bin at least as hot.
LEMMA HotterBin ==
    ASSUME NEW x \in 0..HitMax, NEW y \in 0..HitMax, x <= y
    PROVE  HitBin(x) \in 0..HitBins - 1 /\ HitBin(y) \in 0..HitBins - 1 /\ HitBin(x) <= HitBin(y)
BY RetentionAssumption DEF HitBin

\* What survives is decided by the count alone: a live block at least as hot
\* as a survivor survives.
LEMMA HotterSurvives ==
    ASSUME RetentionTypeOK, NEW n \in LiveBlocks, NEW t \in LiveBlocks,
           Survives(n), tab[n].hits <= tab[t].hits
    PROVE  Survives(t)
<1>1. tab[n].hits \in 0..HitMax /\ tab[t].hits \in 0..HitMax
  BY Entries, HeldFields DEF LiveBlocks
<1> DEFINE b == HitBin(tab[n].hits)
           c == HitBin(tab[t].hits)
<1>2. b \in 0..HitBins - 1 /\ c \in 0..HitBins - 1 /\ b <= c
  BY <1>1, HotterBin
<1>3. b >= 2 /\ TakenBin(b)
  BY DEF Survives
<1> HIDE DEF b, c
<1>4. \A d \in c..HitBins - 1 : d \in b..HitBins - 1
  BY <1>2, RetentionAssumption
<1>5. c >= 2 /\ TakenBin(c)
  BY <1>2, <1>3, <1>4 DEF TakenBin
<1> QED
  BY <1>5 DEF Survives, b, c

\* The lookups, links and retirements keep a table's length and types.
LEMMA EntryKept ==
    ASSUME RetentionTypeOK, NEW n \in DOMAIN tab, NEW e \in Held,
           tab' = [tab EXCEPT ![n] = e]
    PROVE  tab' \in Seq(Held) /\ Len(tab') = Len(tab)
BY DEF RetentionTypeOK

LEMMA RetentionInitInv == RetentionInit => RetentionInv
<1> SUFFICES ASSUME RetentionInit PROVE RetentionInv
  OBVIOUS
<1>1. RetentionTypeOK
  BY EmptyTable, LoopStart, Zenon DEF RetentionInit, RetentionTypeOK
<1>2. Settling
  BY DEF RetentionInit, Settling
<1> QED
  BY <1>1, <1>2 DEF RetentionInv

\* What the guest does to the table between compactions.
LEMMA RunStep ==
    ASSUME RetentionInv,
           \/ \E b \in BlockPcs : TranslateOnce(b)
           \/ \E n \in DOMAIN tab : CountedEntry(n) \/ RetireBlock(n)
           \/ \E n, t \in DOMAIN tab : ChainExit(n, t)
           \/ CompactStart \/ FlushAll
    PROVE  RetentionInv'
<1> USE DEF RetentionInv
<1>1. ASSUME NEW b \in BlockPcs, TranslateOnce(b) PROVE RetentionInv'
  <2>1. [pc |-> b, hits |-> 0, linked |-> {}, live |-> TRUE] \in Held
    BY RetentionAssumption DEF Held
  <2>2. tab' \in Seq(Held) /\ Len(tab') = Len(tab) + 1
    BY <1>1, <2>1 DEF TranslateOnce, RetentionTypeOK
  <2>3. used' \in Nat
    <3>1. AlignUp(used) \in Nat /\ CodeBytes[b] \in Nat
      BY AlignUpNat, RetentionAssumption, Zenon DEF RetentionTypeOK
    <3> QED
      BY <1>1, <3>1 DEF TranslateOnce
  <2> QED
    BY <1>1, <2>2, <2>3 DEF TranslateOnce, RetentionTypeOK, Settling, heatVars, sweepVars
<1>2. ASSUME NEW n \in DOMAIN tab, CountedEntry(n) PROVE RetentionInv'
  <2>1. [tab[n] EXCEPT !.hits = @ + 1] \in Held
    <3>1. tab[n].hits + 1 \in 0..HitMax /\ tab[n] \in Held
      <4>1. tab[n] \in Held /\ tab[n].hits \in 0..HitMax
        BY <1>2, Entries, HeldFields, Zenon
      <4>2. tab[n].hits < HitMax
        BY <1>2 DEF CountedEntry
      <4> QED
        BY <4>1, <4>2, RetentionAssumption
    <3> QED
      BY <3>1, HeldMade, Zenon
  <2>2. tab' \in Seq(Held) /\ Len(tab') = Len(tab)
    BY <1>2, <2>1, EntryKept, Zenon DEF CountedEntry
  <2> QED
    BY <1>2, <2>2 DEF CountedEntry, RetentionTypeOK, Settling, heatVars, sweepVars
<1>3. ASSUME NEW n \in DOMAIN tab, RetireBlock(n) PROVE RetentionInv'
  <2>1. [tab[n] EXCEPT !.live = FALSE, !.hits = 0] \in Held
    <3>1. 0 \in 0..HitMax /\ tab[n] \in Held
      BY Entries, RetentionAssumption
    <3> QED
      BY <3>1, HeldMade, Zenon
  <2>2. tab' = [tab EXCEPT ![n] = [tab[n] EXCEPT !.live = FALSE, !.hits = 0]]
    BY <1>3, Zenon DEF RetireBlock, RetentionTypeOK
  <2>3. tab' \in Seq(Held) /\ Len(tab') = Len(tab)
    BY <2>1, <2>2, EntryKept, Zenon
  <2> QED
    BY <1>3, <2>3, Zenon DEF RetireBlock, RetentionTypeOK, Settling, heatVars, sweepVars
<1>4. ASSUME NEW n \in DOMAIN tab, NEW t \in DOMAIN tab, ChainExit(n, t) PROVE RetentionInv'
  <2>1. [tab[n] EXCEPT !.linked = @ \cup {tab[t].pc}] \in Held
    <3>1. tab[n].linked \cup {tab[t].pc} \in SUBSET BlockPcs /\ tab[n] \in Held
      BY Entries, HeldFields
    <3>2. 0 \in 0..HitMax
      BY RetentionAssumption
    <3> QED
      BY <3>1, <3>2, HeldMade, Zenon
  <2>2. tab' \in Seq(Held) /\ Len(tab') = Len(tab)
    BY <1>4, <2>1, EntryKept, Zenon DEF ChainExit
  <2> QED
    BY <1>4, <2>2 DEF ChainExit, RetentionTypeOK, Settling, heatVars, sweepVars
<1>5. CASE CompactStart
  <2>1. RetentionTypeOK'
    BY <1>5, Entries, LoopStart, Zenon DEF CompactStart, RetentionTypeOK, sweepVars
  <2>2. \A n \in LiveBlocks' : ~(n < 1)
    BY <1>5, Entries DEF CompactStart, LiveBlocks
  <2>3. Settling'
    BY <1>5, <2>2 DEF CompactStart, Settling
  <2> QED
    BY <2>1, <2>3
<1>6. CASE FlushAll
  BY <1>6 DEF FlushAll, RetentionTypeOK, Settling, heatVars, sweepVars
<1> QED
  BY <1>1, <1>2, <1>3, <1>4, <1>5, <1>6

\* One block of a pass: if it moves no heat, nothing is colder behind the
\* cursor and it has passed one block more.
LEMMA HeatBlockStep == ASSUME RetentionInv, HeatBlock PROVE RetentionInv'
<1> USE DEF RetentionInv
<1>1. Len(tab) \in Nat /\ at \in 1..Len(tab) + 1 /\ at' = at + 1 /\ at <= Len(tab)
  BY DEF HeatBlock, RetentionTypeOK
<1>2. CASE at \in LiveBlocks /\ Colder(at) # {}
  <2>1. \A n \in DOMAIN tab : [tab[n] EXCEPT !.hits = tab[at].hits] \in Held /\ tab[n] \in Held
    <3>1. tab[at].hits \in 0..HitMax /\ {} \in SUBSET BlockPcs
      BY <1>1, Entries, HeldFields
    <3> QED
      BY <3>1, Entries, HeldMade, Zenon
  <2>2. tab' \in Seq(Held) /\ Len(tab') = Len(tab)
    BY <1>2, <2>1 DEF HeatBlock, RetentionTypeOK
  <2> QED
    BY <1>1, <1>2, <2>2 DEF HeatBlock, RetentionTypeOK, Settling, sweepVars
<1>3. CASE ~(at \in LiveBlocks /\ Colder(at) # {})
  <2>1. UNCHANGED <<tab, moved, used, stage, pass, kept, dst>>
    BY <1>3 DEF HeatBlock, sweepVars
  <2>2. LiveBlocks' = LiveBlocks /\ \A n \in LiveBlocks : Colder(n)' = Colder(n)
    BY <2>1 DEF LiveBlocks, Colder
  <2>3. \A n \in LiveBlocks : n \in Int
    BY DEF LiveBlocks, RetentionTypeOK
  <2>4. ~moved => \A n \in LiveBlocks : n < at + 1 => Colder(n) = {}
    BY <1>1, <1>3, <2>3 DEF Settling, HeatBlock
  <2>5. RetentionTypeOK'
    BY <1>1, <2>1 DEF RetentionTypeOK
  <2>6. Settling'
    BY <1>1, <2>1, <2>2, <2>4 DEF Settling, HeatBlock
  <2> QED
    BY <2>5, <2>6
<1> QED
  BY <1>2, <1>3

\* The end of a pass: the passes go on while heat moves, and end settled or
\* at the eighth.
LEMMA HeatPassStep == ASSUME RetentionInv, HeatPass PROVE RetentionInv'
<1> USE DEF RetentionInv
<1>1. RetentionTypeOK'
  <2>1. tab' = tab /\ used' = used /\ at' = 1 /\ kept' = <<>> /\ dst' = 0 /\ stage' \in {"run", "heat", "sweep"}
    BY DEF HeatPass
  <2>2. pass' \in 0..MaxPasses - 1
    BY RetentionAssumption DEF HeatPass, MorePasses, RetentionTypeOK, heatVars
  <2>3. moved' \in BOOLEAN
    BY Zenon DEF HeatPass, RetentionTypeOK, heatVars
  <2> QED
    BY <2>1, <2>2, <2>3, Entries, EmptyTable, LoopStart DEF RetentionTypeOK
<1>2. LiveBlocks' = LiveBlocks /\ \A n \in LiveBlocks : Colder(n)' = Colder(n)
  BY DEF HeatPass, LiveBlocks, Colder
<1>3. \A n \in LiveBlocks : n \in Nat /\ 1 <= n /\ n < at
  BY DEF LiveBlocks, HeatPass, RetentionTypeOK
<1>4. CASE MorePasses
  <2>1. stage' = "heat" /\ at' = 1
    BY <1>4 DEF HeatPass
  <2>2. \A n \in LiveBlocks : ~(n < 1)
    BY <1>3
  <2> QED
    BY <1>1, <1>2, <2>1, <2>2 DEF Settling
<1>5. CASE ~MorePasses
  <2>1. stage' = "sweep" /\ moved' = moved /\ pass' = pass
    BY <1>5 DEF HeatPass, heatVars
  <2>2. moved => pass = MaxPasses - 1
    BY <1>5, RetentionAssumption DEF MorePasses, RetentionTypeOK
  <2>3. ~moved => \A n \in LiveBlocks : Colder(n) = {}
    BY <1>3 DEF Settling, HeatPass
  <2> QED
    BY <1>1, <1>2, <2>1, <2>2, <2>3 DEF Settling
<1> QED
  BY <1>1, <1>4, <1>5

\* The sweep leaves the counts as they are until it is over.
LEMMA SweepStep == ASSUME RetentionInv, SweepBlock \/ SweepDone PROVE RetentionInv'
<1> USE DEF RetentionInv
<1>1. CASE SweepBlock
  <2>1. Len(tab) \in Nat /\ at \in 1..Len(tab) + 1 /\ at <= Len(tab) /\ tab[at] \in Held
    BY <1>1 DEF SweepBlock, RetentionTypeOK
  <2>2. [tab[at] EXCEPT !.hits = @ \div 2, !.linked = {}] \in Held
    <3>1. tab[at].hits \div 2 \in 0..HitMax
      <4> DEFINE h == tab[at].hits
      <4>1. h \in 0..HitMax
        BY <2>1, HeldFields
      <4> HIDE DEF h
      <4>2. h \div 2 \in 0..HitMax
        BY <4>1, RetentionAssumption
      <4> QED
        BY <4>2 DEF h
    <3>2. [tab[at] EXCEPT !.hits = tab[at].hits \div 2, !.linked = {}] \in Held
      BY <2>1, <3>1, HeldMade, Zenon
    <3> QED
      BY <3>2
  <2>3. kept' \in Seq(Held)
    <3>1. kept \in Seq(Held)
      BY DEF RetentionTypeOK
    <3> QED
      BY <1>1, <2>2, <3>1 DEF SweepBlock, sweepVars
  <2>4. dst' \in Nat
    <3>1. AlignUp(dst) \in Nat /\ CodeBytes[tab[at].pc] \in Nat /\ dst \in Nat
      BY <2>1, HeldFields, AlignUpNat, RetentionAssumption, Zenon DEF RetentionTypeOK
    <3> QED
      BY <1>1, <3>1 DEF SweepBlock, sweepVars
  <2>5. RetentionTypeOK'
    BY <1>1, <2>1, <2>3, <2>4 DEF SweepBlock, RetentionTypeOK, heatVars
  <2>6. LiveBlocks' = LiveBlocks /\ \A n \in LiveBlocks : Colder(n)' = Colder(n)
    BY <1>1 DEF SweepBlock, LiveBlocks, Colder
  <2>7. Settling'
    BY <1>1, <2>6 DEF SweepBlock, Settling, heatVars
  <2> QED
    BY <2>5, <2>7
<1>2. CASE SweepDone
  <2>1. tab' \in Seq(Held) /\ Len(tab') \in Nat
    BY <1>2 DEF SweepDone, RetentionTypeOK
  <2>2. used' \in Nat /\ kept' = <<>> /\ dst' = 0 /\ stage' = "run" /\ at' = 1 /\ pass' = 0 /\ moved' = FALSE
    BY <1>2 DEF SweepDone, RetentionTypeOK
  <2> QED
    BY <2>1, <2>2, EmptyTable, LoopStart, Zenon DEF RetentionTypeOK, Settling
<1> QED
  BY <1>1, <1>2

LEMMA RetentionStep == RetentionInv /\ [RetentionNext]_retentionVars => RetentionInv'
<1> SUFFICES ASSUME RetentionInv, [RetentionNext]_retentionVars PROVE RetentionInv'
  OBVIOUS
<1>1. CASE UNCHANGED retentionVars
  BY <1>1 DEF retentionVars, RetentionInv, RetentionTypeOK, Settling, LiveBlocks, Colder
<1>2. CASE RetentionNext
  BY <1>2, RunStep, HeatBlockStep, HeatPassStep, SweepStep DEF RetentionNext
<1> QED
  BY <1>1, <1>2

\* A settled heat keeps a loop's body with the block that jumps into it.
LEMMA SettledKeeps == RetentionInv => LoopBodyKept
<1> SUFFICES ASSUME RetentionInv, stage = "sweep", ~moved,
                    NEW n \in LiveBlocks, NEW t \in LiveBlocks,
                    Survives(n), tab[t].pc \in tab[n].linked
             PROVE  Survives(t)
  BY DEF RetentionInv, Settling, LoopBodyKept
<1>1. t \notin Colder(n)
  BY DEF RetentionInv, Settling
<1>2. tab[n].hits \in Int /\ tab[t].hits \in Int
  BY Entries, HeldFields DEF RetentionInv, LiveBlocks
<1>3. tab[n].hits <= tab[t].hits
  BY <1>1, <1>2 DEF Colder
<1> QED
  BY <1>3, HotterSurvives DEF RetentionInv

\* What a kept block is chained to is kept with it, for any table, budget and
\* number of passes (chain_heat, compact).
THEOREM LoopBodiesKept == RetentionSpec => []LoopBodyKept
BY RetentionInitInv, RetentionStep, SettledKeeps, PTL DEF RetentionSpec
=============================================================================
