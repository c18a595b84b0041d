--------------------------- MODULE CoreSyncProofs ---------------------------
(***************************************************************************)
(* What threads do to each other's state: a thread's event, for any number *)
(* of threads that may signal it, and the reservations of PowerPC cores,   *)
(* for any number of cores, words and values.                              *)
(***************************************************************************)
EXTENDS PortEvent, PpcAtomic, FiniteSetTheorems, TLAPS

-----------------------------------------------------------------------------
(* That an event loses no wake-up and makes none up. *)

Inv == TypeOK /\ SleepingIsTrue /\ SleeperIsWoken

LEMMA InvInit == Init => Inv
<1> SUFFICES ASSUME Init PROVE Inv
  OBVIOUS
<1>1. TypeOK
  <2>1. \A s \in Signallers : mutex = s <=> spc[s] \in {"wake", "unlock"}
    BY EventAssumption, Zenon DEF Init
  <2>2. mutex # Owner /\ wpc = "run" /\ set = 0 /\ sleeping = 0 /\ onCond \in BOOLEAN
    BY EventAssumption, Zenon DEF Init
  <2>3. spc \in [Signallers -> {"run", "look", "lock", "wake", "unlock"}]
    BY DEF Init
  <2> QED
    BY <2>1, <2>2, <2>3 DEF TypeOK
<1>2. SleepingIsTrue /\ SleeperIsWoken
  BY DEF Init, SleepingIsTrue, SleeperIsWoken
<1> QED
  BY <1>1, <1>2 DEF Inv

\* One step keeps the invariant.  The signaller's look at `sleeping' needs
\* SleepingIsTrue, its pthread_cond_signal that the owner, which holds the
\* mutex from its store to pthread_cond_wait, is not in between.
LEMMA InvStep == Inv /\ [Next]_vars => Inv'
<1> SUFFICES ASSUME Inv, [Next]_vars PROVE Inv'
  OBVIOUS
<1> USE EventAssumption DEF Inv, TypeOK, SleepingIsTrue, SleeperIsWoken, Outstanding
<1>1. CASE WaitCall
  BY <1>1 DEF WaitCall, WGoto
<1>2. CASE WaitSpin
  BY <1>2 DEF WaitSpin, WGoto
<1>3. CASE WaitLock
  BY <1>3 DEF WaitLock, WGoto
<1>4. CASE WaitSleeping
  BY <1>4 DEF WaitSleeping, WGoto
<1>5. CASE WaitTake
  BY <1>5 DEF WaitTake, WGoto
<1>6. CASE WaitCond
  BY <1>6 DEF WaitCond, WGoto
<1>7. CASE WaitWoken
  BY <1>7 DEF WaitWoken, WGoto, AfterCond
<1>8. CASE Spurious
  BY <1>8, Zenon DEF Spurious
<1>9. CASE WaitAwake
  BY <1>9 DEF WaitAwake, WGoto
<1>10. CASE WaitUnlock
  BY <1>10 DEF WaitUnlock, WGoto
<1>11. ASSUME NEW s \in Signallers, SigPost(s) PROVE Inv'
  BY <1>11 DEF SigPost, SGoto, MaySignal
<1>12. ASSUME NEW s \in Signallers, SigLock(s) PROVE Inv'
  BY <1>12 DEF SigLock, SGoto
<1>13. ASSUME NEW s \in Signallers, SigWake(s) PROVE Inv'
  BY <1>13, Zenon DEF SigWake, SGoto
<1>14. ASSUME NEW s \in Signallers, SigUnlock(s) PROVE Inv'
  BY <1>14 DEF SigUnlock, SGoto
<1>15. CASE UNCHANGED vars
  BY <1>15 DEF vars
<1> QED
  BY <1>1, <1>2, <1>3, <1>4, <1>5, <1>6, <1>7, <1>8, <1>9, <1>10, <1>11, <1>12,
     <1>13, <1>14, <1>15 DEF Next, Wait, Signal

\* A thread asleep in event_wait with its flag set is about to be woken
\* (event_signal's look at `sleeping' against event_wait's look at `set').
THEOREM NoLostWakeup == Spec => []NoWakeupLost
<1>1. Inv => NoWakeupLost
  BY DEF Inv, NoWakeupLost
<1> QED
  BY <1>1, InvInit, InvStep, PTL DEF Spec

\* What one step of the event is to the one-shot wake-up.
LEMMA StepIsAbstract == Inv /\ [Next]_vars => [Abs!Next]_(Abs!vars)
<1> SUFFICES ASSUME Inv, [Next]_vars PROVE [Abs!Next]_(Abs!vars)
  OBVIOUS
<1> USE EventAssumption DEF Inv, TypeOK, Outstanding, InWait, Abs!Next, Abs!vars
<1>1. CASE WaitCall
  BY <1>1 DEF WaitCall, WGoto, Abs!Call
<1>2. CASE WaitSpin
  BY <1>2 DEF WaitSpin, WGoto, Abs!Return
<1>3. CASE WaitTake
  BY <1>3 DEF WaitTake, WGoto, Abs!Return
<1>4. CASE WaitLock \/ WaitSleeping \/ WaitCond \/ WaitWoken \/ Spurious
           \/ WaitAwake \/ WaitUnlock
  BY <1>4 DEF WaitLock, WaitSleeping, WaitCond, WaitWoken, Spurious, WaitAwake,
              WaitUnlock, WGoto, AfterCond
<1>5. ASSUME NEW s \in Signallers, SigPost(s) PROVE [Abs!Next]_(Abs!vars)
  BY <1>5 DEF SigPost, MaySignal, Abs!Signal
<1>6. ASSUME NEW s \in Signallers, SigLock(s) \/ SigWake(s) \/ SigUnlock(s)
      PROVE [Abs!Next]_(Abs!vars)
  BY <1>6 DEF SigLock, SigWake, SigUnlock
<1>7. CASE UNCHANGED vars
  BY <1>7 DEF vars
<1> QED
  BY <1>1, <1>2, <1>3, <1>4, <1>5, <1>6, <1>7 DEF Next, Wait, Signal

\* The safety half of OneShot: no wait returns without a signal, and no
\* signal serves two waits.
THEOREM EventIsOneShot == Spec => Abs!Init /\ [][Abs!Next]_(Abs!vars)
<1>1. Init => Abs!Init
  BY DEF Init, Abs!Init, Outstanding, InWait
<1> QED
  BY <1>1, InvInit, InvStep, StepIsAbstract, PTL DEF Spec

-----------------------------------------------------------------------------
(* That no reservation is missed by a store, and no increment lost. *)

\* The reservations the count stands for: the ones held, the one that lwarx
\* has counted and not yet taken, and the one resv_break has seen and not yet
\* counted off, which an interrupt may clear in between.
Owed == {o \in ResvCores :
           \/ reserve[o] \/ where[o] = "mark"
           \/ \E k \in ResvCores : where[k] = "clear" /\ other[k] = o}

\* stwcx. is left through its end.
Returns == \A k \in ResvCores :
    after[k] = "drop" => where[k] \in {"hint", "break", "each", "clear", "drop"}

\* Before ppc_cpu_start nobody is inside an instruction another could see,
\* and no bytes were kept.
Alone == ~smpLive => \A k \in ResvCores : where[k] \in {"held", "idle"} /\ ~resvRawOk[k]

\* One read gives the guest its value and stwcx. the bytes it compares with.
RawIsLoaded == \A k \in ResvCores : resvRawOk[k] => resvRaw[k] = loaded[k]

HintCovers == smpLive => Cardinality(Owed) <= resvHeld

ResvInv == ResvTypeOK /\ LockRight /\ Returns /\ Alone /\ RawIsLoaded /\ HintCovers

LEMMA OwedFinite == IsFiniteSet(Owed) /\ Cardinality(Owed) \in Nat
<1>1. IsFiniteSet(Owed)
  BY ResvAssumption, FS_Subset DEF Owed
<1> QED
  BY <1>1, FS_CardinalityType

LEMMA ResvInitInv == ResvInit => ResvInv
<1> SUFFICES ASSUME ResvInit PROVE ResvInv
  OBVIOUS
<1>1. ResvTypeOK
  BY ResvAssumption, Zenon DEF ResvInit, ResvTypeOK
<1>2. \A k \in ResvCores : ~InLock(k)
  BY DEF ResvInit, InLock
<1>3. LockRight
  BY <1>2 DEF ResvInit, LockRight
<1>4. Returns /\ Alone /\ RawIsLoaded /\ HintCovers
  BY DEF ResvInit, Returns, Alone, RawIsLoaded, HintCovers
<1> QED
  BY <1>1, <1>3, <1>4 DEF ResvInv

\* The types but that of the count.
LEMMA ResvTypes ==
  ASSUME ResvInv, [ResvNext]_resvVars, resvHeld' \in Nat
  PROVE  ResvTypeOK'
<1> USE DEF ResvInv, ResvTypeOK, Lands
<1>1. CASE PpcCpuStart
  BY <1>1, Zenon DEF PpcCpuStart, readVars, opVars, loopVars
<1>2. ASSUME NEW w \in ResvWords, AloneLarx(w) PROVE ResvTypeOK'
  BY <1>2, Zenon DEF AloneLarx, opVars, loopVars
<1>3. ASSUME NEW w \in ResvWords, NEW v \in ResvValues, AloneStore(w, v) PROVE ResvTypeOK'
  BY <1>3, ResvAssumption DEF AloneStore, readVars, opVars, loopVars
<1>4. ASSUME NEW k \in ResvCores, ResvStep(k) PROVE ResvTypeOK'
  <2> USE DEF Moves, readVars, opVars, loopVars
  <2>1. CASE TakeStart(k)
    BY <2>1 DEF TakeStart
  <2>2. CASE StcxSmp(k)
    BY <2>2 DEF StcxSmp
  <2>3. CASE LarxCounts(k)
    BY <2>3 DEF LarxCounts
  <2>4. CASE LarxReserves(k)
    BY <2>4 DEF LarxReserves
  <2>5. CASE LarxReads(k)
    BY <2>5 DEF LarxReads
  <2>6. CASE Unlocks(k)
    BY <2>6 DEF Unlocks
  <2>7. CASE StcxFails(k)
    BY <2>7 DEF StcxFails
  <2>8. CASE StcxDrops(k)
    BY <2>8 DEF StcxDrops
  <2>9. CASE Hint(k)
    BY <2>9 DEF Hint
  <2>10. CASE Break(k)
    BY <2>10 DEF Break
  <2>11. CASE BreakClears(k)
    BY <2>11 DEF BreakClears
  <2>12. CASE BreakDone(k)
    BY <2>12 DEF BreakDone
  <2>13. CASE TakeIrq(k)
    BY <2>13 DEF TakeIrq
  <2>14. ASSUME NEW w \in ResvWords, LarxSmp(k, w) PROVE ResvTypeOK'
    BY <2>14 DEF LarxSmp
  <2>15. ASSUME NEW w \in ResvWords, StcxAsks(k, w) PROVE ResvTypeOK'
    BY <2>15 DEF StcxAsks
  <2>16. ASSUME NEW w \in ResvWords, HintEarly(k, w) PROVE ResvTypeOK'
    BY <2>16 DEF HintEarly
  <2>17. ASSUME NEW w \in ResvWords, NEW v \in ResvValues, Store(k, w, v) PROVE ResvTypeOK'
    BY <2>17 DEF Store
  <2>18. ASSUME NEW v \in ResvValues, StcxStores(k, v) PROVE ResvTypeOK'
    BY <2>18 DEF StcxStores
  <2>19. ASSUME NEW v \in ResvValues, StoreLate(k, v) PROVE ResvTypeOK'
    BY <2>19 DEF StoreLate
  <2>20. ASSUME NEW o \in ResvCores, BreakPasses(k, o) PROVE ResvTypeOK'
    BY <2>20 DEF BreakPasses
  <2>21. ASSUME NEW o \in ResvCores, BreakSees(k, o) PROVE ResvTypeOK'
    BY <2>21 DEF BreakSees
  <2> QED
    BY <1>4, <2>1, <2>2, <2>3, <2>4, <2>5, <2>6, <2>7, <2>8, <2>9, <2>10, <2>11, <2>12,
       <2>13, <2>14, <2>15, <2>16, <2>17, <2>18, <2>19, <2>20, <2>21, Zenon DEF ResvStep
<1>5. CASE UNCHANGED resvVars
  BY <1>5, Zenon DEF resvVars, lockVars, readVars, opVars, loopVars
<1> QED
  BY <1>1, <1>2, <1>3, <1>4, <1>5, Zenon DEF ResvNext

\* Who is inside the lock, and how deep.
LEMMA LockStep ==
  ASSUME ResvInv, NEW k \in ResvCores, ResvStep(k)
  PROVE  LockRight' /\ Returns'
<1> USE DEF ResvInv, ResvTypeOK, LockRight, Returns, InLock, Nested, Moves, lockVars
<1>0. CASE TakeStart(k)
  BY <1>0 DEF TakeStart
<1>1. ASSUME NEW w \in ResvWords, LarxSmp(k, w) PROVE LockRight' /\ Returns'
  BY <1>1 DEF LarxSmp, EmuLock
<1>1a. CASE StcxSmp(k)
  BY <1>1a DEF StcxSmp, EmuLock
<1>2. ASSUME NEW w \in ResvWords, HintEarly(k, w) \/ StcxAsks(k, w) PROVE LockRight' /\ Returns'
  BY <1>2 DEF HintEarly, StcxAsks
<1>2a. ASSUME NEW w \in ResvWords, NEW v \in ResvValues, Store(k, w, v) PROVE LockRight' /\ Returns'
  BY <1>2a DEF Store
<1>3. CASE LarxCounts(k) \/ LarxReserves(k) \/ LarxReads(k)
  BY <1>3 DEF LarxCounts, LarxReserves, LarxReads
<1>4. CASE Unlocks(k)
  BY <1>4 DEF Unlocks, EmuUnlock
<1>5. ASSUME NEW v \in ResvValues, StcxStores(k, v) PROVE LockRight' /\ Returns'
  BY <1>5 DEF StcxStores
<1>6. ASSUME NEW v \in ResvValues, StoreLate(k, v) PROVE LockRight' /\ Returns'
  BY <1>6 DEF StoreLate
<1>7. CASE StcxFails(k)
  BY <1>7 DEF StcxFails
<1>8. CASE StcxDrops(k)
  BY <1>8 DEF StcxDrops
<1>9. CASE Hint(k)
  BY <1>9 DEF Hint
<1>10. CASE Break(k)
  BY <1>10 DEF Break, EmuLock
<1>11. ASSUME NEW o \in ResvCores, BreakPasses(k, o) \/ BreakSees(k, o) PROVE LockRight' /\ Returns'
  BY <1>11 DEF BreakPasses, BreakSees
<1>12. CASE BreakClears(k)
  BY <1>12 DEF BreakClears
<1>13. CASE BreakDone(k)
  BY <1>13 DEF BreakDone, EmuUnlock
<1>14. CASE TakeIrq(k)
  BY <1>14 DEF TakeIrq
<1> QED
  BY <1>0, <1>1, <1>1a, <1>2, <1>2a, <1>3, <1>4, <1>5, <1>6, <1>7, <1>8, <1>9, <1>10, <1>11, <1>12,
     <1>13, <1>14, Zenon DEF ResvStep

\* What one entry more or less does to the count.
LEMMA OneMore ==
  ASSUME NEW S, IsFiniteSet(S), NEW x, NEW n \in Nat, Cardinality(S) <= n
  PROVE  /\ Cardinality(S \cup {x}) <= n + 1
         /\ x \in S => n - 1 \in Nat /\ Cardinality(S \ {x}) <= n - 1
         /\ \A T : T \subseteq S => Cardinality(T) <= n
<1>1. Cardinality(S) \in Nat
  BY FS_CardinalityType
<1>2. Cardinality(S \cup {x}) <= n + 1
  BY <1>1, FS_AddElement
<1>3. ASSUME x \in S PROVE n - 1 \in Nat /\ Cardinality(S \ {x}) <= n - 1
  <2>1. Cardinality(S \ {x}) = Cardinality(S) - 1 /\ IsFiniteSet(S \ {x})
    BY <1>3, FS_RemoveElement
  <2>2. Cardinality(S \ {x}) \in Nat
    BY <2>1, FS_CardinalityType
  <2> QED
    BY <1>1, <2>1, <2>2
<1>4. ASSUME NEW T, T \subseteq S PROVE Cardinality(T) <= n
  BY <1>1, <1>4, FS_Subset, FS_CardinalityType
<1> QED
  BY <1>2, <1>3, <1>4

\* The count keeps up with what it stands for.
LEMMA HintStep ==
  ASSUME ResvInv, NEW k \in ResvCores, ResvStep(k)
  PROVE  HintCovers' /\ resvHeld' \in Nat
<1> USE DEF ResvTypeOK, Moves
<1>0. ResvTypeOK /\ smpLive' = smpLive
  BY Zenon DEF ResvInv, ResvStep, TakeStart, LarxSmp, StcxAsks, StcxSmp, HintEarly, Store, LarxCounts, LarxReserves, LarxReads,
       Unlocks, StcxStores, StoreLate, StcxFails, StcxDrops, Hint, Break, BreakPasses, BreakSees,
       BreakClears, BreakDone, TakeIrq
<1>1. ASSUME smpLive PROVE Cardinality(Owed) <= resvHeld /\ IsFiniteSet(Owed)
  BY <1>1, OwedFinite DEF ResvInv, HintCovers
<1>2. ASSUME Owed' \subseteq Owed, resvHeld' = resvHeld PROVE HintCovers' /\ resvHeld' \in Nat
  BY <1>0, <1>1, <1>2, OneMore, Zenon DEF HintCovers
<1>3. ASSUME NEW o, o \in Owed, Owed' \subseteq Owed \ {o}, resvHeld' = resvHeld - 1, smpLive
      PROVE  HintCovers' /\ resvHeld' \in Nat
  <2>1. IsFiniteSet(Owed \ {o})
    BY <1>1, <1>3, FS_Subset
  <2> QED
    BY <1>0, <1>1, <1>3, <2>1, OneMore, Zenon DEF HintCovers
<1>4. ASSUME where[k] \notin {"held", "idle"} PROVE smpLive
  BY <1>0, <1>4 DEF ResvInv, Alone
\* Only the core inside the lock is at a place the count looks at.
<1>5. ASSUME NEW a \in ResvCores, NEW b \in ResvCores, where[a] \in {"mark", "clear", "drop", "larx", "each", "stcx", "read"},
             where[b] \in {"mark", "clear", "drop"}
      PROVE  a = b
  BY <1>5 DEF ResvInv, LockRight, InLock
<1>6. ASSUME NEW w \in ResvWords, LarxSmp(k, w) \/ StcxAsks(k, w) \/ HintEarly(k, w) PROVE HintCovers' /\ resvHeld' \in Nat
  <2>1. Owed' \subseteq Owed
    BY <1>0, <1>6 DEF Owed, LarxSmp, StcxAsks, HintEarly, loopVars
  <2> QED
    BY <1>2, <1>6, <2>1 DEF LarxSmp, StcxAsks, HintEarly
<1>6a. CASE StcxSmp(k) \/ TakeStart(k)
  <2>1. Owed' \subseteq Owed
    BY <1>0, <1>6a DEF Owed, StcxSmp, TakeStart, loopVars
  <2> QED
    BY <1>2, <1>6a, <2>1 DEF StcxSmp, TakeStart
<1>7. ASSUME NEW w \in ResvWords, NEW v \in ResvValues, Store(k, w, v) PROVE HintCovers' /\ resvHeld' \in Nat
  <2>1. Owed' \subseteq Owed
    BY <1>0, <1>7 DEF Owed, Store, loopVars
  <2> QED
    BY <1>2, <1>7, <2>1 DEF Store
<1>8. CASE LarxCounts(k)
  <2>1. Owed' \subseteq Owed \cup {k}
    BY <1>0, <1>8 DEF Owed, LarxCounts, loopVars
  <2>2. reserve[k] => k \in Owed
    BY DEF Owed
  <2>3. CASE reserve[k]
    BY <1>2, <1>8, <2>1, <2>2, <2>3 DEF LarxCounts
  <2>4. CASE ~reserve[k]
    <3>1. smpLive /\ resvHeld' = resvHeld + 1
      BY <1>4, <1>8, <2>4 DEF LarxCounts
    <3>2. Cardinality(Owed \cup {k}) <= resvHeld + 1 /\ IsFiniteSet(Owed \cup {k})
      BY <1>0, <1>1, <3>1, OneMore, FS_AddElement, Zenon
    <3>3. Cardinality(Owed') <= resvHeld + 1
      <4>1. resvHeld + 1 \in Nat
        BY <1>0
      <4> QED
        BY <2>1, <3>2, <4>1, OneMore, Zenon
    <3> QED
      BY <1>0, <3>1, <3>3 DEF HintCovers
  <2> QED
    BY <2>3, <2>4
<1>9. CASE LarxReserves(k)
  <2>1. Owed' \subseteq Owed
    BY <1>0, <1>9 DEF Owed, LarxReserves, loopVars
  <2> QED
    BY <1>2, <1>9, <2>1 DEF LarxReserves
<1>10. CASE LarxReads(k) \/ Unlocks(k)
  <2>1. Owed' \subseteq Owed
    BY <1>0, <1>10 DEF Owed, LarxReads, Unlocks, loopVars
  <2> QED
    BY <1>2, <1>10, <2>1 DEF LarxReads, Unlocks
<1>11. ASSUME NEW v \in ResvValues, StcxStores(k, v) \/ StoreLate(k, v) PROVE HintCovers' /\ resvHeld' \in Nat
  <2>1. Owed' \subseteq Owed
    BY <1>0, <1>11 DEF Owed, StcxStores, StoreLate, loopVars
  <2> QED
    BY <1>2, <1>11, <2>1 DEF StcxStores, StoreLate
<1>12. CASE StcxFails(k)
  <2>1. Owed' \subseteq Owed
    BY <1>0, <1>12 DEF Owed, StcxFails, loopVars
  <2> QED
    BY <1>2, <1>12, <2>1 DEF StcxFails
<1>13. CASE StcxDrops(k)
  <2>1. Owed' \subseteq Owed \ {k}
    <3>1. \A b \in ResvCores : where[b] # "clear"
      BY <1>5, <1>13 DEF StcxDrops
    <3> QED
      BY <1>0, <1>13, <3>1 DEF Owed, StcxDrops, loopVars
  <2>2. smpLive /\ (reserve[k] => k \in Owed)
    BY <1>4, <1>13 DEF Owed, StcxDrops
  <2> QED
    BY <1>2, <1>3, <1>13, <2>1, <2>2 DEF StcxDrops
<1>14. CASE Hint(k)
  <2>1. Owed' \subseteq Owed
    BY <1>0, <1>14, Zenon DEF Owed, Hint, loopVars
  <2> QED
    BY <1>2, <1>14, <2>1 DEF Hint
<1>15. CASE Break(k)
  <2>1. Owed' \subseteq Owed
    BY <1>0, <1>15 DEF Owed, Break
  <2> QED
    BY <1>2, <1>15, <2>1 DEF Break
<1>16. ASSUME NEW o \in ResvCores, BreakPasses(k, o) \/ BreakSees(k, o) PROVE HintCovers' /\ resvHeld' \in Nat
  <2>1. Owed' \subseteq Owed
    BY <1>0, <1>16 DEF Owed, BreakPasses, BreakSees, Broken
  <2> QED
    BY <1>2, <1>16, <2>1 DEF BreakPasses, BreakSees
<1>17. CASE BreakClears(k)
  <2>1. \A b \in ResvCores : where[b] \in {"mark", "clear"} => b = k
    BY <1>5, <1>17 DEF BreakClears
  <2>2. Owed' \subseteq Owed \ {other[k]} /\ other[k] \in Owed
    BY <1>0, <1>17, <2>1 DEF Owed, BreakClears
  <2> QED
    BY <1>3, <1>4, <1>17, <2>2 DEF BreakClears
<1>18. CASE BreakDone(k)
  <2>1. Owed' \subseteq Owed
    BY <1>0, <1>18, Zenon DEF Owed, BreakDone, loopVars
  <2> QED
    BY <1>2, <1>18, <2>1 DEF BreakDone
<1>19. CASE TakeIrq(k)
  <2>1. Owed' \subseteq Owed
    BY <1>0, <1>19 DEF Owed, TakeIrq, loopVars
  <2> QED
    BY <1>2, <1>19, <2>1 DEF TakeIrq
<1> QED
  BY <1>6, <1>6a, <1>7, <1>8, <1>9, <1>10, <1>11, <1>12, <1>13, <1>14, <1>15, <1>16, <1>17, <1>18, <1>19, Zenon DEF ResvStep

LEMMA ResvStepInv == ResvInv /\ [ResvNext]_resvVars => ResvInv'
<1> SUFFICES ASSUME ResvInv, [ResvNext]_resvVars PROVE ResvInv'
  OBVIOUS
<1>1. CASE ~smpLive /\ ~(\E k \in ResvCores : ResvStep(k)) /\ ResvNext
  <2> USE DEF Alone, LockRight, InLock, Nested, Returns, readVars, lockVars
  <2>1. /\ UNCHANGED <<lockVars, where, after, resvRaw, resvRawOk>>
        /\ smpLive' => resvHeld' = 0 /\ reserve' = [k \in ResvCores |-> FALSE]
        /\ resvHeld' \in {0, resvHeld}
    <3>1. CASE PpcCpuStart
      BY <3>1 DEF PpcCpuStart
    <3>2. ASSUME NEW w \in ResvWords, AloneLarx(w) \/ \E v \in ResvValues : AloneStore(w, v)
          PROVE  UNCHANGED <<smpLive, resvHeld, lockVars, where, after, resvRaw, resvRawOk>>
      BY <3>2, Zenon DEF AloneLarx, AloneStore
    <3> QED
      BY <1>1, <3>1, <3>2, Zenon DEF ResvNext
  <2>2. LockRight' /\ Returns' /\ Alone' /\ RawIsLoaded'
    <3>1. \A k \in ResvCores : where[k] \in {"held", "idle"} /\ ~resvRawOk[k]
      BY <1>1 DEF ResvInv
    <3>2. LockRight' /\ Returns'
      BY <2>1 DEF ResvInv
    <3> QED
      BY <2>1, <3>1, <3>2, Zenon DEF RawIsLoaded
  <2>3. HintCovers'
    <3>1. smpLive' => Owed' = {}
      BY <1>1, <2>1 DEF ResvInv, Owed
    <3> QED
      BY <2>1, <3>1, FS_EmptySet DEF HintCovers
  <2>4. ResvTypeOK'
    BY <2>1, ResvTypes DEF ResvInv, ResvTypeOK
  <2> QED
    BY <2>2, <2>3, <2>4 DEF ResvInv
<1>2. ASSUME NEW k \in ResvCores, ResvStep(k) PROVE ResvInv'
  <2>1. LockRight' /\ Returns' /\ HintCovers' /\ ResvTypeOK'
    BY <1>2, LockStep, HintStep, ResvTypes
  <2>2. Alone' /\ RawIsLoaded'
    <3>1. CASE LarxReads(k)
      <4>1. smpLive /\ smpLive' = smpLive
        BY <3>1, Zenon DEF LarxReads, ResvInv, Alone, Moves
      <4>2. \A o \in ResvCores : o # k => resvRawOk'[o] = resvRawOk[o] /\ resvRaw'[o] = resvRaw[o] /\ loaded'[o] = loaded[o]
        BY <3>1 DEF LarxReads, ResvInv, ResvTypeOK
      <4>3. resvRawOk'[k] => resvRaw'[k] = loaded'[k]
        <5>1. CASE opWord[k] \in SwapWords
          BY <3>1, <5>1 DEF LarxReads, ResvInv, ResvTypeOK
        <5>2. CASE opWord[k] \notin SwapWords
          BY <3>1, <5>2, Zenon DEF LarxReads, ResvInv, ResvTypeOK
        <5> QED
          BY <5>1, <5>2
      <4> QED
        BY <4>1, <4>2, <4>3, Zenon DEF ResvInv, Alone, RawIsLoaded
    <3>2. CASE ~LarxReads(k)
      <4>1. UNCHANGED <<smpLive, resvRaw, resvRawOk, loaded>> /\ (where' # where => smpLive \/ where[k] \notin {"held", "idle"})
        BY <1>2, <3>2, Zenon DEF ResvStep, TakeStart, LarxSmp, StcxAsks, StcxSmp, HintEarly, Store, LarxCounts, LarxReserves,
           Unlocks, StcxStores, StoreLate, StcxFails, StcxDrops, Hint, Break, BreakPasses, BreakSees,
           BreakClears, BreakDone, TakeIrq, Moves, readVars
      <4> QED
        BY <4>1 DEF ResvInv, Alone, RawIsLoaded
    <3> QED
      BY <3>1, <3>2
  <2> QED
    BY <2>1, <2>2 DEF ResvInv
<1>3. CASE UNCHANGED resvVars
  <2>1. ResvTypeOK' /\ LockRight' /\ Returns' /\ Alone' /\ RawIsLoaded'
    BY <1>3 DEF ResvInv, ResvTypeOK, LockRight, InLock, Nested, Returns, Alone, RawIsLoaded,
       resvVars, lockVars, readVars, opVars, loopVars
  <2>2. Owed' = Owed
    BY <1>3 DEF Owed, resvVars, loopVars
  <2> QED
    BY <1>3, <2>1, <2>2 DEF ResvInv, HintCovers, resvVars
<1>4. ResvNext => ~smpLive \/ \E k \in ResvCores : ResvStep(k)
  BY DEF ResvNext, PpcCpuStart, AloneLarx, AloneStore
<1> QED
  BY <1>1, <1>2, <1>3, <1>4

\* The count a store reads without the lock is never below the reservations
\* held, and the lock is held by whoever is inside it, for any number of
\* cores, words and values (resv_break, ppc_larx_smp, ppc_stcx_smp).
THEOREM HintIsSafe == ResvSpec => []HintNotBelow
<1>1. ResvInv => HintNotBelow
  <2> SUFFICES ASSUME ResvInv, smpLive PROVE Cardinality(Reserving) <= resvHeld
    BY DEF ResvInv, HintNotBelow
  <2>1. Reserving \subseteq Owed
    BY DEF Reserving, Owed
  <2> QED
    <3>1. IsFiniteSet(Owed) /\ resvHeld \in Nat /\ Cardinality(Owed) <= resvHeld
      BY OwedFinite, Zenon DEF ResvInv, ResvTypeOK, HintCovers
    <3> QED
      BY <2>1, <3>1, OneMore, Zenon
<1> QED
  BY <1>1, ResvInitInv, ResvStepInv, PTL DEF ResvSpec

\* A stwcx. that swaps replaces the value its own lwarx loaded, whatever the
\* other cores did in between (ppc_stcx_smp).
THEOREM SwapsAreAtomic == ResvSpec => StwcxAtomic
<1>1. ASSUME ResvInv, [ResvNext]_resvVars, NEW k \in ResvCores, where[k] = "stcx", where'[k] = "hint", BySwap(k)
      PROVE  word[opWord[k]] = loaded[k]
  <2>1. PICK j \in ResvCores : ResvStep(j)
    <3>1. where' # where
      BY <1>1, Zenon
    <3> QED
      BY <1>1, <3>1, Zenon DEF ResvNext, PpcCpuStart, AloneLarx, AloneStore, resvVars
  <2>2. where[k] = "stcx" /\ where'[k] = "hint" /\ DOMAIN where = ResvCores
    BY <1>1 DEF ResvInv, ResvTypeOK
  <2>3. \E v \in ResvValues : StcxStores(k, v)
    <3>1. CASE TakeStart(j) \/ StcxSmp(j) \/ LarxCounts(j) \/ LarxReserves(j) \/ LarxReads(j) \/ Unlocks(j)
      BY <2>2, <3>1, Zenon DEF TakeStart, StcxSmp, LarxCounts, LarxReserves, LarxReads, Unlocks, Moves
    <3>2. CASE StcxFails(j) \/ StcxDrops(j) \/ Hint(j) \/ Break(j)
      BY <2>2, <3>2 DEF StcxFails, StcxDrops, Hint, Break, Moves
    <3>3. CASE BreakClears(j) \/ BreakDone(j) \/ TakeIrq(j)
      BY <2>2, <3>3 DEF BreakClears, BreakDone, TakeIrq, Moves
    <3>4. ASSUME NEW w \in ResvWords, LarxSmp(j, w) \/ StcxAsks(j, w) \/ HintEarly(j, w) PROVE FALSE
      BY <2>2, <3>4 DEF LarxSmp, StcxAsks, HintEarly, Moves
    <3>4a. ASSUME NEW w \in ResvWords, NEW v \in ResvValues, Store(j, w, v) PROVE FALSE
      BY <2>2, <3>4a DEF Store, Moves
    <3>4b. ASSUME NEW v \in ResvValues, StoreLate(j, v) PROVE FALSE
      BY <2>2, <3>4b DEF StoreLate, Moves
    <3>5. ASSUME NEW o \in ResvCores, BreakPasses(j, o) \/ BreakSees(j, o) PROVE FALSE
      BY <2>2, <3>5 DEF BreakPasses, BreakSees, Moves
    <3>6. ASSUME NEW v \in ResvValues, StcxStores(j, v) PROVE StcxStores(k, v)
      BY <2>2, <3>6, Zenon DEF StcxStores, Moves
    <3> QED
      BY <2>1, <3>1, <3>2, <3>3, <3>4, <3>4a, <3>4b, <3>5, <3>6, Zenon DEF ResvStep
  <2> QED
    BY <1>1, <2>3, Zenon DEF StcxStores, MayStore, BySwap, ResvInv, RawIsLoaded
<1>2. ResvInv /\ [ResvNext]_resvVars =>
      [\A k \in ResvCores :
          where[k] = "stcx" /\ where'[k] = "hint" /\ BySwap(k) => word[opWord[k]] = loaded[k]]_resvVars
  BY <1>1
<1> QED
  BY <1>2, ResvInitInv, ResvStepInv, PTL DEF ResvSpec, StwcxAtomic
=============================================================================
