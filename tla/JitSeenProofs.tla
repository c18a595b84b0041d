--------------------------- MODULE JitSeenProofs ---------------------------
(***************************************************************************)
(* Proofs about the table of already-seen pcs, for any number of pcs,      *)
(* contexts, slots and epochs: its types, the order of the epochs, and     *)
(* that it implements AbsSeen.                                             *)
(***************************************************************************)
EXTENDS JitSeen, TLAPS

\* A block's key and its answer are of the right type.
LEMMA KeyType == \A b \in Blocks : KeyOf(b) \in Keys
BY KeyAssumption DEF KeyOf, Keys

LEMMA SeenGetType ==
    ASSUME TypeOK PROVE \A k \in Keys : SeenGet(k) \in 0..255
BY KeyAssumption DEF TypeOK, Entry, SeenGet

LEMMA SeenOfType ==
    ASSUME TypeOK PROVE \A b \in Blocks : SeenOf(b) \in 0..255
BY SeenGetType, KeyType DEF SeenOf

\* Writing one entry keeps the table a table of entries of no later epoch.
LEMMA SetKeeps ==
    ASSUME SeenInv, NEW k \in Keys, NEW v \in 0..255,
           SeenSet(k, v), epoch' = epoch
    PROVE  neg' \in [Slots -> Entry] /\ EpochOrder'
<1>1. [key |-> k, epoch |-> epoch, v |-> v] \in Entry
  BY DEF SeenInv, TypeOK, Entry
<1>2. neg' \in [Slots -> Entry]
  BY EpochAssumption, <1>1, Zenon DEF SeenInv, TypeOK, SeenSet
<1>3. NegSlot[k] \in Slots
  BY KeyAssumption
<1>4. ASSUME NEW s \in Slots PROVE neg'[s].epoch <= epoch'
  <2>1. CASE s = NegSlot[k]
    BY <2>1 DEF SeenInv, TypeOK, SeenSet
  <2>2. CASE s # NegSlot[k]
    BY <2>2 DEF SeenInv, TypeOK, EpochOrder, SeenSet
  <2> QED BY <2>1, <2>2
<1> QED BY <1>2, <1>4 DEF EpochOrder

\* Bumping the epoch, the wrap included, keeps it too.
LEMMA InvalidateKeeps ==
    ASSUME SeenInv, NegInvalidate
    PROVE  neg' \in [Slots -> Entry] /\ EpochOrder' /\ epoch' \in 1..EpochMax
<1>1. CASE epoch + 1 > EpochMax
  <2>1. \A s \in Slots : Cleared(neg[s]) \in Entry
    BY EpochAssumption DEF SeenInv, TypeOK, Entry, Cleared
  <2>2. neg' = [s \in Slots |-> Cleared(neg[s])] /\ epoch' = 1
    BY <1>1 DEF NegInvalidate
  <2>3. \A s \in Slots : neg'[s].epoch = 0
    BY <2>2 DEF Cleared
  <2> QED BY EpochAssumption, <2>1, <2>2, <2>3 DEF EpochOrder
<1>2. CASE ~(epoch + 1 > EpochMax)
  BY EpochAssumption, <1>2 DEF SeenInv, TypeOK, NegInvalidate, EpochOrder, Entry
<1> QED BY <1>1, <1>2

LEMMA ClearKeeps ==
    ASSUME SeenInv, NEW p, ClearRange(p), epoch' = epoch
    PROVE  neg' \in [Slots -> Entry] /\ EpochOrder'
<1>1. \A s \in Slots : Cleared(neg[s]) \in Entry /\ Cleared(neg[s]).epoch = 0
  BY EpochAssumption DEF SeenInv, TypeOK, Entry, Cleared
<1>2. \A s \in Slots : neg'[s] \in {Cleared(neg[s]), neg[s]}
  BY DEF ClearRange
<1>3. neg' \in [Slots -> Entry]
  BY <1>1 DEF SeenInv, TypeOK, ClearRange
<1>4. ASSUME NEW s \in Slots PROVE neg'[s].epoch <= epoch'
  BY <1>1, <1>2 DEF SeenInv, TypeOK, EpochOrder
<1> QED BY <1>3, <1>4 DEF EpochOrder

\* The counts evict_note stores are bytes, and below the two special marks.
LEMMA EvictKeeps ==
    ASSUME SeenInv, NEW b \in Blocks, EvictNote(b), epoch' = epoch
    PROVE  neg' \in [Slots -> Entry] /\ EpochOrder' /\ marksLeft' \in 0..ThrashMarks
<1>1. SeenOf(b) \in 0..255 /\ KeyOf(b) \in Keys /\ marksLeft \in 0..ThrashMarks
  BY SeenOfType, KeyType DEF SeenInv, TypeOK
<1>2. CASE ThrashEvictions = 0 \/ SeenOf(b) \in {SeenDeclined, SeenThrash}
  BY <1>1, <1>2 DEF EvictNote, SeenInv, TypeOK, EpochOrder
<1>3. CASE ~(ThrashEvictions = 0 \/ SeenOf(b) \in {SeenDeclined, SeenThrash})
  <2>1. Evictions(b) \in 1..126
    BY <1>1, <1>3 DEF Evictions, SeenEvicted, SeenDeclined, SeenThrash
  <2>2. PICK v \in 0..255 : SeenSet(KeyOf(b), v)
    BY <1>1, <1>3, <2>1 DEF EvictNote, SeenThrash, SeenEvicted
  <2>3. marksLeft' \in 0..ThrashMarks
    BY LimitAssumption, <1>1, <1>3 DEF EvictNote
  <2> QED BY <1>1, <2>2, <2>3, SetKeeps
<1> QED BY <1>2, <1>3

LEMMA HeatKeeps ==
    ASSUME SeenInv, NEW b \in Blocks, HeatBump(b), epoch' = epoch
    PROVE  neg' \in [Slots -> Entry] /\ EpochOrder'
<1>1. SeenOf(b) \in 0..255 /\ KeyOf(b) \in Keys
  BY SeenOfType, KeyType DEF SeenInv
<1>2. CASE IsHot(b)
  BY <1>2 DEF HeatBump, SeenInv, TypeOK, EpochOrder
<1>3. CASE ~IsHot(b)
  <2>1. Misses(b) \in 0..255
    BY LimitAssumption, <1>1, <1>3 DEF Misses, IsHot
  <2> QED BY <1>1, <1>3, <2>1, SetKeeps DEF HeatBump
<1> QED BY <1>2, <1>3

LEMMA NoteKeeps ==
    ASSUME SeenInv, NEW b \in Blocks, NegNote(b), epoch' = epoch
    PROVE  neg' \in [Slots -> Entry] /\ EpochOrder'
BY SetKeeps, KeyType DEF NegNote, SeenDeclined

-----------------------------------------------------------------------------
LEMMA InvInit == Init => SeenInv
<1> SUFFICES ASSUME Init PROVE SeenInv
  OBVIOUS
<1>1. (CHOOSE k \in Keys : TRUE) \in Keys /\ (CHOOSE b \in Blocks : TRUE) \in Blocks
  <2>1. PICK b \in Blocks : TRUE
    BY KeyAssumption
  <2>2. KeyOf(b) \in Keys
    BY KeyType
  <2> HIDE DEF Keys
  <2> QED BY <2>1, <2>2
<1>2. neg \in [Slots -> Entry] /\ EpochOrder
  BY EpochAssumption, <1>1 DEF Init, Entry, EpochOrder
<1> QED BY EpochAssumption, LimitAssumption, <1>1, <1>2 DEF Init, SeenInv, TypeOK

\* One step per action: the table by the lemmas above, the rest by its guard.
LEMMA InvNext == SeenInv /\ [Next]_vars => SeenInv'
<1> SUFFICES ASSUME SeenInv, [Next]_vars PROVE SeenInv'
  OBVIOUS
<1> USE DEF SeenInv, cacheVars, guestVars, negVars
<1>1. ASSUME NEW b \in Blocks, DispatchThrash(b) PROVE SeenInv'
  <2>1. CASE thrashInterps + 1 >= ThrashRetry
    <3>1. NegInvalidate /\ thrashInterps' = 0
      BY <1>1, <2>1 DEF DispatchThrash
    <3> QED BY EpochAssumption, LimitAssumption, <1>1, <3>1, InvalidateKeeps DEF DispatchThrash, TypeOK
  <2>2. CASE ~(thrashInterps + 1 >= ThrashRetry)
    BY LimitAssumption, <1>1, <2>2 DEF DispatchThrash, TypeOK, EpochOrder
  <2> QED BY <2>1, <2>2
<1>2. ASSUME NEW b \in Blocks, DispatchCold(b) PROVE SeenInv'
  BY <1>2, HeatKeeps DEF DispatchCold, TypeOK
<1>3. ASSUME NEW b \in Blocks, DispatchHot(b) PROVE SeenInv'
  BY <1>3, HeatKeeps DEF DispatchHot, Built, TypeOK
<1>4. ASSUME NEW b \in Blocks, DispatchDeclined(b) PROVE SeenInv'
  BY <1>4, NoteKeeps DEF DispatchDeclined, Declined, TypeOK
<1>5. ASSUME NEW b \in Blocks, DispatchNoRoom(b) PROVE SeenInv'
  BY LimitAssumption, <1>5, HeatKeeps DEF DispatchNoRoom, TypeOK
<1>6. ASSUME NEW b \in Blocks, CompactEvict(b) PROVE SeenInv'
  BY <1>6, EvictKeeps DEF CompactEvict, TypeOK
<1>7. CASE CompactDone
  BY <1>7 DEF CompactDone, TypeOK, EpochOrder
<1>8. CASE Retry
  <2>1. CASE Built(pending)
    BY <1>8, <2>1 DEF Retry, Built, TypeOK, EpochOrder
  <2>2. CASE Declined(pending)
    BY <1>8, <2>2, NoteKeeps DEF Retry, Declined, TypeOK
  <2> QED BY <1>8, <2>1, <2>2 DEF Retry
<1>9. CASE RetryFlush
  BY <1>9, InvalidateKeeps DEF RetryFlush, TypeOK
<1>10. CASE LastAttempt
  <2>1. CASE Built(pending)
    BY <1>10, <2>1 DEF LastAttempt, Built, TypeOK, EpochOrder
  <2>2. CASE Declined(pending)
    BY <1>10, <2>2, NoteKeeps DEF LastAttempt, Declined, TypeOK
  <2>3. CASE UNCHANGED <<neg, resident>>
    BY <1>10, <2>3 DEF LastAttempt, TypeOK, EpochOrder
  <2> QED BY <1>10, <2>1, <2>2, <2>3 DEF LastAttempt
<1>11. ASSUME NEW p \in Pages, GuestChange(p) PROVE SeenInv'
  BY <1>11 DEF GuestChange, TypeOK, EpochOrder
<1>12. ASSUME NEW p \in Pages, InvalidatePage(p) PROVE SeenInv'
  BY <1>12 DEF InvalidatePage, RetirePage, guestVars, negVars, TypeOK, EpochOrder
<1>13. ASSUME NEW p \in Pages, InvalidateRange(p) PROVE SeenInv'
  BY <1>13, ClearKeeps DEF InvalidateRange, RetirePage, TypeOK
<1>14. ASSUME NEW R \in SUBSET Pages, InvalidateWide(R) PROVE SeenInv'
  BY <1>14, InvalidateKeeps DEF InvalidateWide, TypeOK
<1>15. CASE Flush
  BY <1>15, InvalidateKeeps DEF Flush, TypeOK
<1>16. CASE UNCHANGED vars
  BY <1>16 DEF vars, TypeOK, EpochOrder
<1> QED
  BY <1>1, <1>2, <1>3, <1>4, <1>5, <1>6, <1>7, <1>8, <1>9, <1>10, <1>11,
     <1>12, <1>13, <1>14, <1>15, <1>16 DEF Next

\* The table is well-typed and no entry is ahead of the epoch, however often
\* neg_invalidate has wrapped.
THEOREM SeenInvariant == Spec => []TableSane
<1>1. Spec => []SeenInv
  BY InvInit, InvNext, PTL DEF Spec
<1>2. SeenInv => TableSane
  BY DEF SeenInv, TableSane
<1> QED BY <1>1, <1>2, PTL

-----------------------------------------------------------------------------
(* Refinement: the answers seen_get gives are AbsSeen's. *)

Answers == [k \in Keys |-> SeenGet(k)]

LEMMA AnswersType ==
    ASSUME SeenInv, SeenInv'
    PROVE  Answers' \in [Keys -> Abs!SeenValues]
<1>1. \A k \in Keys : SeenGet(k)' \in 0..255
  BY KeyAssumption DEF SeenInv, TypeOK, Entry, SeenGet
<1> QED BY <1>1, SMTT(30) DEF Answers, Abs!SeenValues

\* An entry written answers for its own key and hides the slot's others.
LEMMA SetAnswers ==
    ASSUME SeenInv, NEW k \in Keys, NEW v \in 0..255,
           SeenSet(k, v), epoch' = epoch
    PROVE  /\ SeenGet(k)' = v
           /\ \A j \in Keys \ {k} : SeenGet(j)' \in {SeenGet(j), 0}
<1>1. NegSlot[k] \in Slots /\ neg \in [Slots -> Entry]
  BY KeyAssumption DEF SeenInv, TypeOK
<1>2. neg'[NegSlot[k]] = [key |-> k, epoch |-> epoch, v |-> v]
  BY <1>1 DEF SeenSet
<1>3. SeenGet(k)' = v
  BY <1>2 DEF SeenGet
<1>4. ASSUME NEW j \in Keys \ {k} PROVE SeenGet(j)' \in {SeenGet(j), 0}
  <2>1. CASE NegSlot[j] = NegSlot[k]
    BY <1>2, <2>1 DEF SeenGet
  <2>2. CASE NegSlot[j] # NegSlot[k]
    <3>1. NegSlot[j] \in Slots
      BY KeyAssumption
    <3>2. neg'[NegSlot[j]] = neg[NegSlot[j]]
      BY <1>1, <2>2, <3>1 DEF SeenSet
    <3> QED BY <3>2 DEF SeenGet
  <2> QED BY <2>1, <2>2
<1> QED BY <1>3, <1>4

\* A bumped epoch leaves no answer; without EpochOrder this would be false.
LEMMA InvalidateForgets ==
    ASSUME SeenInv, NegInvalidate
    PROVE  \A j \in Keys : SeenGet(j)' = 0
<1> SUFFICES ASSUME NEW j \in Keys PROVE SeenGet(j)' = 0
  OBVIOUS
<1>1. NegSlot[j] \in Slots /\ neg[NegSlot[j]].epoch \in 0..EpochMax
  BY KeyAssumption, EpochAssumption DEF SeenInv, TypeOK, Entry
<1>2. neg[NegSlot[j]].epoch <= epoch /\ epoch \in 1..EpochMax
  BY <1>1 DEF SeenInv, TypeOK, EpochOrder
<1>3. CASE epoch + 1 > EpochMax
  <2>1. neg' = [s \in Slots |-> Cleared(neg[s])] /\ epoch' = 1
    BY <1>3 DEF NegInvalidate
  <2>2. neg'[NegSlot[j]].epoch = 0
    BY <1>1, <2>1 DEF Cleared
  <2> QED BY <2>1, <2>2 DEF SeenGet
<1>4. CASE ~(epoch + 1 > EpochMax)
  <2>1. neg' = neg /\ epoch' = epoch + 1
    BY <1>4 DEF NegInvalidate
  <2> QED BY <1>1, <1>2, <2>1 DEF SeenGet
<1> QED BY <1>3, <1>4

LEMMA ClearForgets ==
    ASSUME SeenInv, NEW p, ClearRange(p), epoch' = epoch
    PROVE  \A j \in Keys : SeenGet(j)' \in {SeenGet(j), 0}
<1> SUFFICES ASSUME NEW j \in Keys PROVE SeenGet(j)' \in {SeenGet(j), 0}
  OBVIOUS
<1>1. NegSlot[j] \in Slots
  BY KeyAssumption
<1>2. neg'[NegSlot[j]] \in {Cleared(neg[NegSlot[j]]), neg[NegSlot[j]]}
  BY <1>1 DEF ClearRange
<1>3. Cleared(neg[NegSlot[j]]).epoch = 0 /\ epoch # 0
  BY DEF Cleared, SeenInv, TypeOK
<1> QED BY <1>2, <1>3 DEF SeenGet

\* The three shapes of a step as AbsSeen sees it.
LEMMA AbsAnswer ==
    ASSUME SeenInv, SeenInv', NEW k \in Keys, NEW v \in 0..255,
           SeenSet(k, v), epoch' = epoch, v \in Abs!Moves(SeenGet(k))
    PROVE  Abs!AbsNext
<1>1. Answers \in [Keys -> 0..255] /\ Answers' \in [Keys -> Abs!SeenValues]
  BY AnswersType, SeenGetType DEF Answers, SeenInv
<1>2. \A j \in Keys : Answers[j] = SeenGet(j) /\ Answers'[j] = SeenGet(j)'
  BY DEF Answers
<1>3. Answers'[k] \in Abs!Moves(Answers[k])
  BY <1>2, SetAnswers
<1>4. \A j \in Keys \ {k} : Answers'[j] \in {Answers[j], 0}
  BY <1>2, SetAnswers
<1> QED BY <1>1, <1>3, <1>4 DEF Abs!AbsNext, Abs!Answer, Answers

LEMMA AbsForget ==
    ASSUME SeenInv, SeenInv', \A j \in Keys : SeenGet(j)' \in {SeenGet(j), 0}
    PROVE  Abs!AbsNext
<1>1. Answers' \in [Keys -> Abs!SeenValues]
  BY AnswersType
<1>2. \A j \in Keys : Answers'[j] \in {Answers[j], 0}
  BY DEF Answers
<1> QED BY <1>1, <1>2 DEF Abs!AbsNext, Abs!Forget, Answers

LEMMA AbsStutter ==
    ASSUME UNCHANGED <<neg, epoch>> PROVE Answers' = Answers
BY DEF Answers, SeenGet

LEMMA HeatRefines ==
    ASSUME SeenInv, SeenInv', NEW b \in Blocks, HeatBump(b), epoch' = epoch,
           SeenOf(b) \notin {SeenDeclined, SeenThrash}
    PROVE  Abs!AbsNext \/ Answers' = Answers
<1>1. SeenOf(b) \in 0..255 /\ KeyOf(b) \in Keys
  BY SeenOfType, KeyType DEF SeenInv
<1>2. CASE IsHot(b)
  BY <1>2, AbsStutter, SMTT(30) DEF HeatBump
<1>3. CASE ~IsHot(b)
  <2>1. Misses(b) \in 0..255 /\ SeenOf(b) < 128 /\ Misses(b) < HotThreshold
    BY LimitAssumption, <1>1, <1>3 DEF Misses, IsHot
  <2>2. Misses(b) \in Abs!Moves(SeenGet(KeyOf(b)))
    BY <2>1, <1>1 DEF Abs!Moves, Abs!SeenEvicted, Misses, SeenOf
  <2> QED BY <1>1, <1>3, <2>1, <2>2, AbsAnswer DEF HeatBump
<1> QED BY <1>2, <1>3

LEMMA NoteRefines ==
    ASSUME SeenInv, SeenInv', NEW b \in Blocks, NegNote(b), epoch' = epoch
    PROVE  Abs!AbsNext
<1>1. SeenDeclined \in Abs!Moves(SeenGet(KeyOf(b)))
  BY DEF Abs!Moves, Abs!SeenDeclined, SeenDeclined
<1> QED BY <1>1, AbsAnswer, KeyType DEF NegNote, SeenDeclined

LEMMA EvictRefines ==
    ASSUME SeenInv, SeenInv', NEW b \in Blocks, EvictNote(b), epoch' = epoch
    PROVE  Abs!AbsNext \/ Answers' = Answers
<1>1. SeenOf(b) \in 0..255 /\ KeyOf(b) \in Keys
  BY SeenOfType, KeyType DEF SeenInv
<1>2. CASE ThrashEvictions = 0 \/ SeenOf(b) \in {SeenDeclined, SeenThrash}
  BY <1>2, AbsStutter DEF EvictNote
<1>3. CASE ~(ThrashEvictions = 0 \/ SeenOf(b) \in {SeenDeclined, SeenThrash})
  <2> DEFINE n == Evictions(b)
  <2>1. n \in 1..126
    BY <1>1, <1>3 DEF Evictions, SeenEvicted, SeenDeclined, SeenThrash
  <2>2. Abs!Moves(SeenGet(KeyOf(b))) =
          (IF SeenOf(b) < 128 /\ SeenOf(b) + 1 < HotThreshold
           THEN {SeenOf(b) + 1} ELSE {}) \cup {255}
          \cup (IF n < ThrashEvictions THEN {128 + n} ELSE {254, 128 + n - 1})
    BY LimitAssumption, <1>1, <1>3, SMTT(30) DEF Abs!Moves, Abs!SeenEvicted, Abs!SeenDeclined,
       Abs!SeenThrash, SeenOf, Evictions, SeenEvicted, SeenDeclined, SeenThrash
  <2>3. CASE SeenSet(KeyOf(b), SeenThrash) /\ n >= ThrashEvictions
    BY LimitAssumption, <1>1, <2>1, <2>2, <2>3, AbsAnswer, SMTT(30) DEF SeenThrash
  <2>4. CASE SeenSet(KeyOf(b), SeenEvicted + n - 1) /\ n >= ThrashEvictions
    BY LimitAssumption, <1>1, <2>1, <2>2, <2>4, AbsAnswer, SMTT(30) DEF SeenEvicted
  <2>5. CASE SeenSet(KeyOf(b), SeenEvicted + n) /\ n < ThrashEvictions
    BY <1>1, <2>1, <2>2, <2>5, AbsAnswer DEF SeenEvicted
  <2> QED BY <1>3, <2>3, <2>4, <2>5 DEF EvictNote
<1> QED BY <1>2, <1>3

\* A flush, wide range or retry of the marks forgets every answer.
LEMMA InvalidateRefines ==
    ASSUME SeenInv, SeenInv', NegInvalidate PROVE Abs!AbsNext
BY InvalidateForgets, AbsForget

\* Every step of the dispatcher is a step of AbsSeen or leaves the answers.
LEMMA StepRefines ==
    ASSUME SeenInv, SeenInv', [Next]_vars
    PROVE  Abs!AbsNext \/ Answers' = Answers
<1> USE DEF cacheVars, guestVars, negVars
<1>1. ASSUME NEW b \in Blocks, DispatchThrash(b)
      PROVE  Abs!AbsNext \/ Answers' = Answers
  BY <1>1, InvalidateRefines, AbsStutter DEF DispatchThrash
<1>2. ASSUME NEW b \in Blocks,
             DispatchCold(b) \/ DispatchHot(b) \/ DispatchNoRoom(b)
      PROVE  Abs!AbsNext \/ Answers' = Answers
  BY <1>2, HeatRefines DEF DispatchCold, DispatchHot, DispatchNoRoom, Missed
<1>3. ASSUME NEW b \in Blocks, DispatchDeclined(b)
      PROVE  Abs!AbsNext \/ Answers' = Answers
  BY <1>3, NoteRefines DEF DispatchDeclined, Declined
<1>4. ASSUME NEW b \in Blocks, CompactEvict(b)
      PROVE  Abs!AbsNext \/ Answers' = Answers
  BY <1>4, EvictRefines DEF CompactEvict
<1>5. CASE Retry \/ LastAttempt
  <2>1. pending \in Blocks /\ epoch' = epoch
    BY <1>5 DEF SeenInv, TypeOK, Retry, LastAttempt
  <2> QED BY <1>5, <2>1, NoteRefines, AbsStutter
          DEF Retry, LastAttempt, Built, Declined
<1>6. CASE RetryFlush
  BY <1>6, InvalidateRefines DEF RetryFlush
<1>7. CASE CompactDone
  BY <1>7, AbsStutter DEF CompactDone
<1>8. ASSUME NEW p \in Pages, GuestChange(p) \/ InvalidatePage(p)
      PROVE  Abs!AbsNext \/ Answers' = Answers
  BY <1>8, AbsStutter DEF GuestChange, InvalidatePage
<1>9. ASSUME NEW p \in Pages, InvalidateRange(p)
      PROVE  Abs!AbsNext \/ Answers' = Answers
  BY <1>9, ClearForgets, AbsForget DEF InvalidateRange
<1>10. ASSUME NEW R \in SUBSET Pages, InvalidateWide(R)
      PROVE  Abs!AbsNext \/ Answers' = Answers
  BY <1>10, InvalidateRefines DEF InvalidateWide
<1>11. CASE Flush
  BY <1>11, InvalidateRefines DEF Flush
<1>12. CASE UNCHANGED vars
  BY <1>12, AbsStutter DEF vars
<1> QED
  BY <1>1, <1>2, <1>3, <1>4, <1>5, <1>6, <1>7, <1>8, <1>9, <1>10, <1>11,
     <1>12 DEF Next

\* The table of seen pcs implements AbsSeen: seen_get never gives an answer
\* nobody put there for that key.
THEOREM SeenRefinesAbs == Spec => AnswersAreReal
<1>1. Init => Abs!AbsInit
  <2> SUFFICES ASSUME Init PROVE Answers = [k \in Keys |-> 0]
    BY DEF Abs!AbsInit, Answers
  <2>1. ASSUME NEW k \in Keys PROVE SeenGet(k) = 0
    BY KeyAssumption, EpochAssumption DEF Init, SeenGet
  <2> QED BY <2>1 DEF Answers
<1>2. SeenInv /\ SeenInv' /\ [Next]_vars => [Abs!AbsNext]_(Answers)
  BY StepRefines
<1>3. Spec => []SeenInv
  BY InvInit, InvNext, PTL DEF Spec
<1> QED
  BY <1>1, <1>2, <1>3, PTL DEF Spec, AnswersAreReal, Abs!AbsSpec, Answers

-----------------------------------------------------------------------------
(* No refusal outlives its reason. *)

\* The refusals there are were there before, and the guest is as it was.
LEMMA FewerRefusals ==
    ASSUME NoStaleRefusal, UNCHANGED guestVars,
           \A j \in Keys : SeenGet(j)' = SeenDeclined => SeenGet(j) = SeenDeclined
    PROVE  NoStaleRefusal'
BY KeyType DEF NoStaleRefusal, guestVars, SeenOf

\* A count is never taken for a refusal.
LEMMA SetNoRefusal ==
    ASSUME SeenInv, NoStaleRefusal, UNCHANGED guestVars, NEW k \in Keys, NEW v \in 0..254,
           SeenSet(k, v), epoch' = epoch
    PROVE  NoStaleRefusal'
<1>1. SeenGet(k)' = v /\ \A j \in Keys \ {k} : SeenGet(j)' \in {SeenGet(j), 0}
  BY SetAnswers
<1> QED
  BY <1>1, FewerRefusals DEF SeenDeclined

LEMMA HeatNoRefusal ==
    ASSUME SeenInv, NoStaleRefusal, UNCHANGED guestVars, NEW b \in Blocks, HeatBump(b), epoch' = epoch
    PROVE  NoStaleRefusal'
<1>1. SeenOf(b) \in 0..255 /\ KeyOf(b) \in Keys
  BY SeenOfType, KeyType DEF SeenInv
<1>2. CASE IsHot(b)
  BY <1>2, FewerRefusals DEF HeatBump, SeenGet
<1>3. CASE ~IsHot(b)
  <2>1. Misses(b) \in 0..254
    BY LimitAssumption, <1>1, <1>3 DEF Misses, IsHot
  <2> QED BY <1>1, <1>3, <2>1, SetNoRefusal DEF HeatBump
<1> QED BY <1>2, <1>3

LEMMA EvictNoRefusal ==
    ASSUME SeenInv, NoStaleRefusal, UNCHANGED guestVars, NEW b \in Blocks, EvictNote(b), epoch' = epoch
    PROVE  NoStaleRefusal'
<1>1. SeenOf(b) \in 0..255 /\ KeyOf(b) \in Keys
  BY SeenOfType, KeyType DEF SeenInv
<1>2. CASE ThrashEvictions = 0 \/ SeenOf(b) \in {SeenDeclined, SeenThrash}
  BY <1>2, FewerRefusals DEF EvictNote, SeenGet
<1>3. CASE ~(ThrashEvictions = 0 \/ SeenOf(b) \in {SeenDeclined, SeenThrash})
  <2>1. Evictions(b) \in 1..126
    BY <1>1, <1>3 DEF Evictions, SeenEvicted, SeenDeclined, SeenThrash
  <2>2. PICK v \in 0..254 : SeenSet(KeyOf(b), v)
    BY <1>1, <1>3, <2>1 DEF EvictNote, SeenThrash, SeenEvicted
  <2> QED BY <1>1, <2>2, SetNoRefusal
<1> QED BY <1>2, <1>3

\* What is refused is refused for a reason, or its page is not fenced.
LEMMA DeclineHasReason ==
    ASSUME SeenInv, NoStaleRefusal, UNCHANGED guestVars, NEW b \in Blocks, Declined(b), epoch' = epoch
    PROVE  NoStaleRefusal'
<1>1. KeyOf(b) \in Keys /\ SeenSet(KeyOf(b), SeenDeclined)
  BY KeyType DEF Declined, NegNote
<1>2. \A j \in Keys \ {KeyOf(b)} : SeenGet(j)' \in {SeenGet(j), 0}
  BY <1>1, SetAnswers DEF SeenDeclined
<1> SUFFICES ASSUME NEW x \in Blocks, SeenOf(x)' = SeenDeclined,
                    Reaches[x[1]] = {PageOf[x[1]]}, PageOf[x[1]] \notin unfenced
             PROVE  \E c \in refuses : KeyOf(c) = KeyOf(x)
  BY DEF NoStaleRefusal, guestVars
<1>3. CASE KeyOf(x) = KeyOf(b)
  <2>1. x[1] = b[1]
    BY <1>3 DEF KeyOf
  <2>2. ~\E p \in unfenced : OnPage(p, b)
    BY <2>1 DEF OnPage
  <2> QED
    BY <1>3, <2>2 DEF Declined, MayRefuse
<1>4. CASE KeyOf(x) # KeyOf(b)
  BY <1>2, <1>4, KeyType DEF NoStaleRefusal, SeenOf, SeenDeclined
<1> QED BY <1>3, <1>4

LEMMA InvalidateNoRefusal ==
    ASSUME SeenInv, NegInvalidate PROVE NoStaleRefusal'
BY InvalidateForgets, KeyType DEF NoStaleRefusal, SeenOf, SeenDeclined

\* A range fence reopens every pc that is on its page.
LEMMA RangeReopens ==
    ASSUME SeenInv, NEW p, ClearRange(p), epoch' = epoch, NEW j \in Keys, PageOf[j[1]] = p
    PROVE  SeenGet(j)' = 0
<1>1. NegSlot[j] \in Slots
  BY KeyAssumption
<1>2. neg'[NegSlot[j]] = IF PageOf[neg[NegSlot[j]].key[1]] = p
                         THEN Cleared(neg[NegSlot[j]]) ELSE neg[NegSlot[j]]
  BY <1>1 DEF ClearRange
<1>3. Cleared(neg[NegSlot[j]]).epoch = 0 /\ epoch # 0
  BY DEF Cleared, SeenInv, TypeOK
<1> QED BY <1>2, <1>3 DEF SeenGet

LEMMA RefusalNext == SeenInv /\ NoStaleRefusal /\ [Next]_vars => NoStaleRefusal'
<1> SUFFICES ASSUME SeenInv, NoStaleRefusal, [Next]_vars PROVE NoStaleRefusal'
  OBVIOUS
<1>s. ASSUME UNCHANGED <<neg, epoch>>, UNCHANGED guestVars PROVE NoStaleRefusal'
  BY <1>s, FewerRefusals DEF SeenGet
<1>1. ASSUME NEW b \in Blocks, DispatchThrash(b) PROVE NoStaleRefusal'
  BY <1>1, <1>s, InvalidateNoRefusal DEF DispatchThrash
<1>2. ASSUME NEW b \in Blocks, DispatchCold(b) \/ DispatchHot(b) \/ DispatchNoRoom(b) PROVE NoStaleRefusal'
  BY <1>2, HeatNoRefusal DEF DispatchCold, DispatchHot, DispatchNoRoom
<1>3. ASSUME NEW b \in Blocks, DispatchDeclined(b) PROVE NoStaleRefusal'
  BY <1>3, DeclineHasReason DEF DispatchDeclined
<1>4. ASSUME NEW b \in Blocks, CompactEvict(b) PROVE NoStaleRefusal'
  BY <1>4, EvictNoRefusal DEF CompactEvict
<1>5. CASE Retry \/ LastAttempt
  <2>1. pending \in Blocks /\ epoch' = epoch /\ UNCHANGED guestVars
    BY <1>5 DEF SeenInv, TypeOK, Retry, LastAttempt
  <2>2. Declined(pending) \/ UNCHANGED neg
    BY <1>5 DEF Retry, LastAttempt, Built
  <2> QED BY <2>1, <2>2, <1>s, DeclineHasReason
<1>6. CASE RetryFlush \/ Flush \/ \E R \in SUBSET Pages : InvalidateWide(R)
  BY <1>6, InvalidateNoRefusal DEF RetryFlush, Flush, InvalidateWide
<1>7. CASE CompactDone \/ \E p \in Pages : InvalidatePage(p)
  BY <1>7, <1>s DEF CompactDone, InvalidatePage, negVars
<1>8. ASSUME NEW p \in Pages, GuestChange(p) PROVE NoStaleRefusal'
  <2>1. PICK b \in Blocks : OnPage(p, b) /\ refuses' \in {refuses \cup {b}, refuses \ {b}}
    BY <1>8 DEF GuestChange
  <2>2. UNCHANGED <<neg, epoch>> /\ unfenced' = unfenced \cup {p}
    BY <1>8, SMTT(30) DEF GuestChange, negVars
  <2> SUFFICES ASSUME NEW x \in Blocks, SeenOf(x) = SeenDeclined,
                      Reaches[x[1]] = {PageOf[x[1]]}, PageOf[x[1]] \notin unfenced, PageOf[x[1]] # p
               PROVE  \E c \in refuses' : KeyOf(c) = KeyOf(x)
    BY <2>2 DEF NoStaleRefusal, SeenOf, SeenGet
  <2>3. PICK c \in refuses : KeyOf(c) = KeyOf(x)
    BY DEF NoStaleRefusal
  <2>4. c[1] = x[1]
    BY <2>3 DEF KeyOf
  <2>5. c # b
    BY <2>1, <2>4 DEF OnPage
  <2> QED BY <2>1, <2>3, <2>5
<1>9. ASSUME NEW p \in Pages, InvalidateRange(p) PROVE NoStaleRefusal'
  <2>1. ClearRange(p) /\ epoch' = epoch /\ unfenced' = unfenced \ {p} /\ refuses' = refuses
    BY <1>9 DEF InvalidateRange
  <2>2. ASSUME NEW x \in Blocks, SeenOf(x)' = SeenDeclined PROVE PageOf[x[1]] # p /\ SeenOf(x) = SeenDeclined
    <3>1. KeyOf(x) \in Keys /\ KeyOf(x)[1] = x[1]
      BY KeyType DEF KeyOf
    <3>2. SeenGet(KeyOf(x))' \in {SeenGet(KeyOf(x)), 0}
      BY <2>1, <3>1, ClearForgets
    <3>3. PageOf[KeyOf(x)[1]] = p => SeenGet(KeyOf(x))' = 0
      BY <2>1, <3>1, RangeReopens
    <3> QED BY <2>2, <3>1, <3>2, <3>3 DEF SeenOf, SeenDeclined
  <2> QED BY <2>1, <2>2 DEF NoStaleRefusal
<1>10. CASE UNCHANGED vars
  BY <1>10, <1>s DEF vars, negVars
<1> QED
  BY <1>1, <1>2, <1>3, <1>4, <1>5, <1>6, <1>7, <1>8, <1>9, <1>10 DEF Next

\* A pc whose instruction is on one page is answered "declined" only while it
\* would be refused, or while its page is changed and not fenced, however the
\* entry has been evicted, overwritten and written again (emu_jit.c).
THEOREM RefusalsAreFresh == Spec => []NoStaleRefusal
<1>1. Init => SeenInv /\ NoStaleRefusal
  <2> SUFFICES ASSUME Init PROVE NoStaleRefusal
    BY InvInit
  <2>1. ASSUME NEW b \in Blocks PROVE SeenOf(b) = 0
    BY KeyAssumption, KeyType DEF Init, SeenOf, SeenGet
  <2> QED BY <2>1 DEF NoStaleRefusal, SeenDeclined
<1>2. SeenInv /\ NoStaleRefusal /\ [Next]_vars => (SeenInv /\ NoStaleRefusal)'
  BY InvNext, RefusalNext
<1> QED
  BY <1>1, <1>2, PTL DEF Spec
=============================================================================
