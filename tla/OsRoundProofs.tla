--------------------------- MODULE OsRoundProofs ---------------------------
(***************************************************************************)
(* The round of OsRound, for every number of cores and in both builds: the *)
(* wait is a barrier, and a run ends only when no core could run.          *)
(*                                                                         *)
(* The inductive invariant is in four parts: where everybody is (Shape),   *)
(* the kernel's list of the tasks that could run (Queue, Awake), the       *)
(* hand-overs and their count (Handed, Tally), and that a round in which   *)
(* nobody lived has changed nothing since its scan (Scanning, StillQuiet,  *)
(* GuestsLive, Ends).                                                      *)
(***************************************************************************)
EXTENDS OsRound, FiniteSetTheorems, TLAPS

\* Where the coordinator can be, and where a core's task.
MainAt == {"scan", "release", "slice", "guest", "sliced", "barrier", "poll", "net", "end"}
OtherAt == {"none", "take", "slice", "guest", "sliced"}
\* The core's task has been handed a slice.
Busy == {"slice", "guest", "sliced"}
\* emu_os_system_step between its scan and its return.
InRound == {"release", "slice", "guest", "sliced", "barrier", "poll"}

\* Every place.
Places == {"none", "scan", "release", "slice", "guest", "sliced", "barrier", "poll", "net",
           "end", "take"}

At ==
    /\ pc[Main] \in MainAt
    /\ \A k \in Others : pc[k] \in OtherAt
    /\ pc[Net] \in {"none", "take"}

\* The scan goes upwards.
Rising ==
    /\ \A i \in 1 .. Len(run) : run[i] < scan
    /\ \A i, j \in 1 .. Len(run) : i < j => run[i] < run[j]

\* The round's locals, by where the coordinator is in it.
Linked ==
    /\ pc[Main] \notin InRound => next = 0 /\ done = 0
    /\ pc[Main] \in {"net", "end"} => run = <<>> /\ scan = 1
    /\ pc[Main] \in InRound => scan = N
    /\ pc[Main] \in InRound \ {"release"} => next = Len(run)
    /\ pc[Main] = "release" => run # <<>> /\ \A k \in Others : pc[k] # "none"
    /\ 0 \in fresh <=> pc[Main] \in {"barrier", "poll"}

\* All of that.
Shape == TypeOK /\ At /\ Rising /\ Linked

\* The ready list has an order on one core, and none under SMP.
Queue ==
    /\ \A t \in Task : t \notin ready => ahead[t] = {}
    /\ \A t \in Task : t \notin ahead[t]
    /\ smp => \A t \in Task : ahead[t] = {}
    /\ ~smp => \A t, u \in ready : t # u => t \in ahead[u] \/ u \in ahead[t]

\* Nobody who has something to do is off the list.
Awake ==
    /\ pc[Main] \notin {"barrier", "net"} \/ note[Main] > 0 => Main \in ready
    /\ \A k \in Others : pc[k] \in Busy \/ note[k] > 0 => k \in ready
    /\ \A k \in Others : pc[k] = "none" => k \notin ready
    /\ note[Net] > 0 => Net \in ready

\* Core k has been released in this round.
Sent(k) == \E i \in 1 .. next : run[i] = k

\* It has, and has not answered.
Out(k) == Sent(k) /\ k \notin fresh

\* A core's task has work exactly while it is out.
Handed ==
    /\ \A k \in Others : Out(k) =>
           (pc[k] = "take" /\ note[k] = 1) \/ (pc[k] \in Busy /\ note[k] = 0)
    /\ \A k \in Others : ~Out(k) => pc[k] \in {"none", "take"} /\ note[k] = 0
    /\ \A k \in fresh : k = 0 \/ Sent(k)

\* The places in run of those that have answered.
Answered == {i \in 1 .. Len(run) : run[i] \in fresh}

\* Every answer is counted once, or is still to be counted.
Tally ==
    /\ pc[Main] # "net" => done + note[Main] = Cardinality(Answered) /\ note[Net] = 0
    /\ pc[Main] = "net" => note[Main] + note[Net] = 1
    /\ pc[Main] = "poll" => note[Main] = 0 /\ Answered = 1 .. Len(run)

\* live[k] is this round's.
Started(k) ==
    IF k = Main THEN pc[Main] \in {"guest", "sliced", "barrier", "poll"}
                ELSE k \in fresh \/ pc[k] \in {"guest", "sliced"}

\* The scan found core k.
InRun(k) == \E i \in 1 .. Len(run) : run[i] = k

\* Nobody has lived in this round so far.
Quiet == \A k \in Core : Started(k) => ~live[k]

\* The scan's findings stay true while it goes on.
Scanning == pc[Main] = "scan" => \A k \in 1 .. scan - 1 : Runnable(k) <=> InRun(k)

\* As long as nobody has lived they stay true after it, none of those found
\* has started (it would have lived), and core 0, if it has, could not run.
StillQuiet ==
    pc[Main] \in InRound /\ Quiet =>
        /\ \A k \in Others : (Runnable(k) <=> InRun(k)) /\ ~Started(k)
        /\ Started(Main) => ~Runnable(Main)

\* A slice that runs counts as live.
GuestsLive == \A k \in Core : pc[k] = "guest" => live[k]

\* An idle round leaves nobody who could run.
Ends == pc[Main] = "end" \/ (pc[Main] \in {"poll", "net"} /\ idle) => \A k \in Core : ~Runnable(k)

\* The inductive invariant.
RoundInv ==
    /\ Shape /\ Queue /\ Awake /\ Handed /\ Tally
    /\ Scanning /\ StillQuiet /\ GuestsLive /\ Ends

-----------------------------------------------------------------------------

USE RoundAssumption DEF Main, Net, Core, Others, Task

\* TypeOK in three parts.
KernelTyped ==
    note \in [Task -> Nat] /\ ready \subseteq Task /\ ahead \in [Task -> SUBSET ready]

RoundTyped ==
    /\ scan \in 1 .. N /\ run \in Seq(Others) /\ next \in 0 .. Len(run) /\ done \in Nat
    /\ fresh \subseteq Core

RestTyped ==
    /\ smp \in BOOLEAN
    /\ state \in [Core -> {"run", "wfi", "held", "halted"}]
    /\ irq \subseteq Core
    /\ pc \in [Task -> {"none", "scan", "release", "slice", "guest", "sliced", "barrier",
                        "poll", "net", "end", "take"}]
    /\ live \in [Core -> BOOLEAN]
    /\ pos \in [Core -> Nat] /\ roundPos \in Nat
    /\ idle \in BOOLEAN /\ job \in {"none", "asked", "ran"}

LEMMA TypeParts == TypeOK <=> KernelTyped /\ RoundTyped /\ RestTyped
  BY Zenon DEF TypeOK, KernelTyped, RoundTyped, RestTyped

\* The kernel's operations keep the types.
LEMMA MakeReadyTyped ==
  ASSUME KernelTyped, NEW T \in SUBSET Task, MakeReady(T)
  PROVE  ready' \subseteq Task /\ ahead' \in [Task -> SUBSET ready']
  <1>1. ready' = ready \cup T
      BY DEF MakeReady
  <1>2. \A t \in Task : (IF ~smp /\ t \in T \ ready THEN ready \cup {u \in T \ ready : u < t}
                                                   ELSE ahead[t]) \in SUBSET ready'
      BY <1>1 DEF KernelTyped
  <1> QED
      BY <1>1, <1>2, Zenon DEF MakeReady, KernelTyped

LEMMA GiveTyped ==
  ASSUME KernelTyped, NEW t \in Task, Give(t)
  PROVE  KernelTyped'
  <1>1. ready' \subseteq Task /\ ahead' \in [Task -> SUBSET ready']
      BY MakeReadyTyped DEF Give
  <1>2. note' \in [Task -> Nat]
      BY DEF Give, KernelTyped
  <1> QED
      BY <1>1, <1>2 DEF KernelTyped

LEMMA WaitTyped ==
  ASSUME KernelTyped, NEW t \in Task, Wait(t)
  PROVE  KernelTyped' /\ note' = note /\ pc' = pc
  <1>1. \A u \in Task : (IF u = t THEN {} ELSE ahead[u] \ {t}) \in SUBSET ready'
      BY DEF KernelTyped, Wait
  <1>2. ahead' \in [Task -> SUBSET ready']
      BY <1>1, Zenon DEF Wait, KernelTyped
  <1> QED
      BY <1>2 DEF KernelTyped, Wait

LEMMA TypeNext == TypeOK /\ pc[Main] \in MainAt /\ [Next]_vars => TypeOK'
  <1> SUFFICES ASSUME KernelTyped, RoundTyped, RestTyped, [Next]_vars
               PROVE  KernelTyped' /\ RoundTyped' /\ RestTyped'
      BY Zenon DEF TypeOK, KernelTyped, RoundTyped, RestTyped
  <1> USE DEF roundVars, kernelVars, guestVars, Goto
  <1>1. CASE Scan
    <2>1. KernelTyped'
      BY <1>1, Zenon DEF KernelTyped, Scan
    <2>2. RoundTyped'
      <3>1. scan \in Others /\ run \in Seq(Others)
          BY <1>1 DEF RoundTyped, Scan
      <3>2. Append(run, scan) \in Seq(Others) /\ Len(Append(run, scan)) = Len(run) + 1
          BY <3>1
      <3>3. run' \in Seq(Others) /\ Len(run') >= Len(run)
        <4>1. run' = Append(run, scan) \/ run' = run
            BY <1>1 DEF Scan
        <4> QED
            BY <3>1, <3>2, <4>1
      <3> QED
          BY <1>1, <3>1, <3>3 DEF RoundTyped, Scan
    <2>3. RestTyped'
      BY <1>1, Zenon DEF RestTyped, Scan
    <2> QED
      BY <2>1, <2>2, <2>3
  <1>2. CASE Scanned
    <2>1. KernelTyped'
      BY <1>2, MakeReadyTyped DEF KernelTyped, Scanned
    <2>2. RoundTyped'
      BY <1>2 DEF RoundTyped, Scanned
    <2>3. RestTyped'
      BY <1>2 DEF RestTyped, Scanned
    <2> QED
      BY <2>1, <2>2, <2>3
  <1>3. CASE Release
    <2>1. KernelTyped'
      BY <1>3, GiveTyped DEF Release, RoundTyped
    <2>2. RoundTyped'
      BY <1>3 DEF RoundTyped, Release
    <2>3. RestTyped'
      BY <1>3 DEF RestTyped, Release
    <2> QED
      BY <2>1, <2>2, <2>3
  <1>4. CASE Released
    <2>1. KernelTyped'
      BY <1>4 DEF KernelTyped, Released
    <2>2. RoundTyped'
      BY <1>4 DEF RoundTyped, Released
    <2>3. RestTyped'
      <3>1. CASE smp
          BY <1>4, <3>1 DEF RestTyped, Released
      <3>2. CASE ~smp
        <4>1. pos' = [pos EXCEPT ![0] = roundPos] /\ roundPos' = roundPos + 1
            BY <1>4, <3>2 DEF Released
        <4>2. pos' \in [Core -> Nat] /\ roundPos' \in Nat
            BY <4>1 DEF RestTyped
        <4> QED
            BY <1>4, <4>2 DEF RestTyped, Released
      <3> QED
          BY <3>1, <3>2
    <2> QED
      BY <2>1, <2>2, <2>3
  <1>5. CASE Sliced
    <2>1. KernelTyped'
      BY <1>5 DEF KernelTyped, Sliced
    <2>2. RoundTyped'
      BY <1>5 DEF RoundTyped, Sliced
    <2>3. RestTyped'
      BY <1>5 DEF RestTyped, Sliced
    <2> QED
      BY <2>1, <2>2, <2>3
  <1>6. CASE BarrierWait
    <2>1. KernelTyped'
      BY <1>6, WaitTyped DEF BarrierWait
    <2>2. RoundTyped'
      BY <1>6 DEF RoundTyped, BarrierWait
    <2>3. RestTyped'
      BY <1>6, WaitTyped DEF RestTyped, BarrierWait
    <2> QED
      BY <2>1, <2>2, <2>3
  <1>7. CASE Barrier
    <2>1. KernelTyped'
      BY <1>7 DEF KernelTyped, Barrier
    <2>2. RoundTyped'
      BY <1>7 DEF RoundTyped, KernelTyped, Barrier
    <2>3. RestTyped'
      BY <1>7 DEF RestTyped, Barrier
    <2> QED
      BY <2>1, <2>2, <2>3
  <1>8. CASE Sum
    <2>1. KernelTyped'
      BY <1>8 DEF KernelTyped, Sum
    <2>2. RoundTyped'
      BY <1>8 DEF RoundTyped, Sum
    <2>3. RestTyped'
      BY <1>8, Zenon DEF RestTyped, Sum, AllIdle
    <2> QED
      BY <2>1, <2>2, <2>3
  <1>9. CASE PollNone
    <2>1. KernelTyped'
      BY <1>9 DEF KernelTyped, PollNone, Returned, Again
    <2>2. RoundTyped'
      BY <1>9 DEF RoundTyped, PollNone, Returned, Again
    <2>3. RestTyped'
      BY <1>9 DEF RestTyped, PollNone, Returned, Again
    <2> QED
      BY <2>1, <2>2, <2>3
  <1>10. CASE Poll
    <2>1. KernelTyped'
      BY <1>10, GiveTyped DEF Poll, Returned
    <2>2. RoundTyped'
      BY <1>10 DEF RoundTyped, Poll, Returned
    <2>3. RestTyped'
      BY <1>10 DEF RestTyped, Poll, Returned
    <2> QED
      BY <2>1, <2>2, <2>3
  <1>11. CASE CallWait
    <2>1. KernelTyped'
      BY <1>11, WaitTyped DEF CallWait
    <2>2. RoundTyped'
      BY <1>11 DEF RoundTyped, CallWait
    <2>3. RestTyped'
      BY <1>11, WaitTyped DEF RestTyped, CallWait
    <2> QED
      BY <2>1, <2>2, <2>3
  <1>12. CASE CallDone
    <2>1. KernelTyped'
      BY <1>12 DEF KernelTyped, CallDone, Again
    <2>2. RoundTyped'
      BY <1>12 DEF RoundTyped, CallDone, Again
    <2>3. RestTyped'
      BY <1>12 DEF RestTyped, CallDone, Again
    <2> QED
      BY <2>1, <2>2, <2>3
  <1>13. CASE NetWait
    <2>1. KernelTyped'
      BY <1>13, WaitTyped DEF NetWait
    <2>2. RoundTyped'
      BY <1>13 DEF RoundTyped, NetWait
    <2>3. RestTyped'
      BY <1>13, WaitTyped DEF RestTyped, NetWait
    <2> QED
      BY <2>1, <2>2, <2>3
  <1>14. CASE NetJob
    <2>1. KernelTyped'
      BY <1>14, MakeReadyTyped, SMTT(30) DEF KernelTyped, NetJob
    <2>2. RoundTyped'
      BY <1>14 DEF RoundTyped, NetJob
    <2>3. RestTyped'
      BY <1>14 DEF RestTyped, NetJob
    <2> QED
      BY <2>1, <2>2, <2>3
  <1>15. ASSUME NEW k \in Others, CoreWait(k) PROVE KernelTyped' /\ RoundTyped' /\ RestTyped'
    <2>1. KernelTyped'
      BY <1>15, WaitTyped DEF CoreWait
    <2>2. RoundTyped'
      BY <1>15 DEF RoundTyped, CoreWait
    <2>3. RestTyped'
      BY <1>15, WaitTyped DEF RestTyped, CoreWait
    <2> QED
      BY <2>1, <2>2, <2>3
  <1>16. ASSUME NEW k \in Others, CoreTake(k) PROVE KernelTyped' /\ RoundTyped' /\ RestTyped'
    <2>1. KernelTyped'
      BY <1>16 DEF KernelTyped, CoreTake
    <2>2. RoundTyped'
      BY <1>16 DEF RoundTyped, CoreTake
    <2>3. RestTyped'
      BY <1>16, SMTT(30) DEF RestTyped, CoreTake
    <2> QED
      BY <2>1, <2>2, <2>3
  <1>17. ASSUME NEW k \in Others, CoreGive(k) PROVE KernelTyped' /\ RoundTyped' /\ RestTyped'
    <2>1. KernelTyped'
      BY <1>17, GiveTyped DEF CoreGive
    <2>2. RoundTyped'
      BY <1>17 DEF RoundTyped, CoreGive
    <2>3. RestTyped'
      BY <1>17 DEF RestTyped, CoreGive
    <2> QED
      BY <2>1, <2>2, <2>3
  <1>18. ASSUME NEW k \in Core, SliceStart(k) PROVE KernelTyped' /\ RoundTyped' /\ RestTyped'
    <2>1. KernelTyped'
      BY <1>18 DEF KernelTyped, SliceStart
    <2>2. RoundTyped'
      BY <1>18 DEF RoundTyped, SliceStart
    <2>3. RestTyped'
      BY <1>18 DEF RestTyped, SliceStart, Runnable
    <2> QED
      BY <2>1, <2>2, <2>3
  <1>19. ASSUME NEW k \in Core, GuestStop(k) PROVE KernelTyped' /\ RoundTyped' /\ RestTyped'
    <2>1. KernelTyped'
      BY <1>19 DEF KernelTyped, GuestStop
    <2>2. RoundTyped'
      BY <1>19 DEF RoundTyped, GuestStop
    <2>3. RestTyped'
      BY <1>19 DEF RestTyped, GuestStop
    <2> QED
      BY <2>1, <2>2, <2>3
  <1>20. ASSUME NEW k \in Core, NEW j \in Core \ {k}, GuestPoke(k, j)
         PROVE  KernelTyped' /\ RoundTyped' /\ RestTyped'
    <2>1. KernelTyped'
      BY <1>20 DEF KernelTyped, GuestPoke
    <2>2. RoundTyped'
      BY <1>20 DEF RoundTyped, GuestPoke
    <2>3. RestTyped'
      BY <1>20, Zenon DEF RestTyped, GuestPoke
    <2> QED
      BY <2>1, <2>2, <2>3
  <1>21. CASE UNCHANGED vars
      BY <1>21, Zenon DEF vars, KernelTyped, RoundTyped, RestTyped
  <1> QED
      BY <1>1, <1>2, <1>3, <1>4, <1>5, <1>6, <1>7, <1>8, <1>9, <1>10, <1>11, <1>12,
         <1>13, <1>14, <1>15, <1>16, <1>17, <1>18, <1>19, <1>20, <1>21, Zenon
      DEF Next, MainStep, NetStep, CoreStep, SliceStep, Ended

LEMMA ShapeInit == Init => Shape
  <1> SUFFICES ASSUME Init PROVE Shape
      OBVIOUS
  <1>1. KernelTyped /\ RoundTyped
      BY DEF Init, KernelTyped, RoundTyped
  <1>2. /\ pc[Main] = "scan" /\ pc[Net] = "none" /\ \A k \in Others : pc[k] = "none"
        /\ pc \in [Task -> Places]
    <2>1. pc = [t \in Task |-> IF t = 0 THEN "scan" ELSE "none"]
        BY DEF Init
    <2>2. 0 \in Task /\ N \in Task /\ N # 0 /\ \A k \in Others : k \in Task /\ k # 0
        OBVIOUS
    <2> QED
        BY <2>1, <2>2, Zenon DEF Places
  <1>3. RestTyped
      BY <1>2, Zenon DEF Init, RestTyped, Places
  <1>4. At
      BY <1>2 DEF At, MainAt, OtherAt
  <1>5. Rising
      BY DEF Init, Rising
  <1>6. Linked
      BY <1>2, Zenon DEF Init, Linked, InRound
  <1> QED
      BY <1>1, <1>3, <1>4, <1>5, <1>6, TypeParts DEF Shape

\* Where the scan's end leaves each task.
LEMMA ScannedTo ==
  ASSUME Scanned, run # <<>>
  PROVE  /\ pc'[Main] = "release" /\ pc'[Net] = pc[Net]
         /\ \A k \in Others : pc'[k] = IF pc[k] = "none" THEN "take" ELSE pc[k]
  <1>1. pc' = [t \in Task |-> CASE t = 0 -> "release"
                               [] t \in Others /\ pc[t] = "none" -> "take"
                               [] OTHER -> pc[t]]
      BY DEF Scanned
  <1>2. 0 \in Task /\ N \in Task /\ N # 0 /\ N \notin Others /\ 0 \notin Others
      OBVIOUS
  <1>3. \A k \in Others : k \in Task /\ k # 0
      OBVIOUS
  <1>4. pc'[Main] = "release" /\ pc'[Net] = pc[Net]
      BY <1>1, <1>2
  <1>5. \A k \in Others : pc'[k] = IF pc[k] = "none" THEN "take" ELSE pc[k]
      BY <1>1, <1>3, Zenon
  <1> QED
      BY <1>4, <1>5

LEMMA ShapeNext == Shape /\ [Next]_vars => Shape'
  <1> SUFFICES ASSUME TypeOK, At, Rising, Linked, [Next]_vars
               PROVE  At' /\ Rising' /\ Linked'
      BY TypeNext, Zenon DEF Shape, At
  <1>a. TypeOK'
      BY TypeNext DEF At
  <1>b. pc \in [Task -> Places] /\ smp \in BOOLEAN
      BY DEF TypeOK, Places
  <1>c. run \in Seq(Others) /\ scan \in 1 .. N /\ next \in 0 .. Len(run) /\ fresh \subseteq Core
      BY DEF TypeOK
  <1> USE <1>b, <1>c DEF roundVars, kernelVars, guestVars, Goto, MainAt, OtherAt, InRound, Places
  <1>1. CASE Scan
    <2>1. At'
      BY <1>1 DEF At, Scan
    <2>2. Rising'
      <3>1. CASE Found(scan)
        <4>1. scan \in Others /\ run' = Append(run, scan) /\ scan' = scan + 1
            BY <1>1, <3>1 DEF Scan
        <4>2. Len(run') = Len(run) + 1 /\ run'[Len(run) + 1] = scan
              /\ \A i \in 1 .. Len(run) : run'[i] = run[i]
            BY <4>1
        <4>3. \A i \in 1 .. Len(run') : i = Len(run) + 1 \/ i \in 1 .. Len(run)
            BY <4>2
        <4> QED
            BY <4>1, <4>2, <4>3 DEF Rising
      <3>2. CASE ~Found(scan)
          BY <1>1, <3>2 DEF Scan, Rising
      <3> QED
          BY <3>1, <3>2
    <2>3. Linked'
      BY <1>1 DEF At, Linked, Scan
    <2> QED
      BY <2>1, <2>2, <2>3
  <1>2. CASE Scanned
    <2>1. CASE run = <<>>
      <3>1. pc' = [pc EXCEPT ![Main] = "slice"] /\ run' = run /\ scan' = scan /\ next' = next
            /\ done' = done /\ fresh' = fresh /\ scan = N
          BY <1>2, <2>1 DEF Scanned
      <3>2. At'
          BY <3>1 DEF At
      <3>3. Rising'
          BY <3>1 DEF Rising
      <3>4. Linked'
          BY <1>2, <2>1, <3>1, Zenon DEF At, Linked, Scanned
      <3> QED
          BY <3>2, <3>3, <3>4
    <2>2. CASE run # <<>>
      <3>1. /\ pc'[Main] = "release" /\ pc'[Net] = pc[Net]
            /\ \A k \in Others : pc'[k] = IF pc[k] = "none" THEN "take" ELSE pc[k]
          BY <1>2, <2>2, ScannedTo
      <3>2. /\ run' = run /\ scan' = scan /\ next' = next /\ done' = done /\ fresh' = fresh
            /\ scan = N /\ pc[Main] = "scan"
          BY <1>2 DEF Scanned
      <3>3. At'
          BY <3>1 DEF At
      <3>4. Rising'
          BY <3>2 DEF Rising
      <3>5. Linked'
          BY <2>2, <3>1, <3>2, Zenon DEF Linked
      <3> QED
          BY <3>3, <3>4, <3>5
    <2> QED
        BY <2>1, <2>2
  <1>3. CASE Release
    <2>1. At'
      BY <1>3 DEF At, Release
    <2>2. Rising'
      BY <1>3 DEF Rising, Release
    <2>3. Linked'
      BY <1>3, Zenon DEF At, Linked, Release
    <2> QED
      BY <2>1, <2>2, <2>3
  <1>4. CASE Released
    <2>1. At'
      BY <1>4 DEF At, Released
    <2>2. Rising'
      BY <1>4, Zenon DEF Rising, Released
    <2>3. Linked'
      BY <1>4, Zenon DEF At, Linked, Released
    <2> QED
      BY <2>1, <2>2, <2>3
  <1>5. CASE Sliced
    <2>1. At'
      BY <1>5 DEF At, Sliced
    <2>2. Rising'
      BY <1>5 DEF Rising, Sliced
    <2>3. Linked'
      BY <1>5 DEF At, Linked, Sliced
    <2> QED
      BY <2>1, <2>2, <2>3
  <1>6. CASE BarrierWait
    <2>1. At'
      BY <1>6 DEF At, BarrierWait, Wait
    <2>2. Rising'
      BY <1>6, Zenon DEF Rising, BarrierWait, Wait
    <2>3. Linked'
      BY <1>6, Zenon DEF At, Linked, BarrierWait, Wait
    <2> QED
      BY <2>1, <2>2, <2>3
  <1>7. CASE Barrier
    <2>1. At'
      BY <1>7 DEF At, Barrier
    <2>2. Rising'
      BY <1>7 DEF Rising, Barrier
    <2>3. Linked'
      BY <1>7, Zenon DEF At, Linked, Barrier
    <2> QED
      BY <2>1, <2>2, <2>3
  <1>8. CASE Sum
    <2>1. At'
      BY <1>8 DEF At, Sum
    <2>2. Rising'
      BY <1>8 DEF Rising, Sum
    <2>3. Linked'
      BY <1>8 DEF At, Linked, Sum
    <2> QED
      BY <2>1, <2>2, <2>3
  <1>9. CASE PollNone
    <2>1. At'
      BY <1>9 DEF At, PollNone, Returned, Again
    <2>2. Rising'
      BY <1>9 DEF Rising, PollNone, Returned, Again
    <2>3. Linked'
      BY <1>9 DEF At, Linked, PollNone, Returned, Again
    <2> QED
      BY <2>1, <2>2, <2>3
  <1>10. CASE Poll
    <2>1. At'
      BY <1>10, SMTT(30) DEF At, Poll, Returned
    <2>2. Rising'
      BY <1>10 DEF Rising, Poll, Returned
    <2>3. Linked'
      BY <1>10 DEF At, Linked, Poll, Returned
    <2> QED
      BY <2>1, <2>2, <2>3
  <1>11. CASE CallWait
    <2>1. At'
      BY <1>11 DEF At, CallWait, Wait
    <2>2. Rising'
      BY <1>11 DEF Rising, CallWait, Wait
    <2>3. Linked'
      BY <1>11, Zenon DEF At, Linked, CallWait, Wait
    <2> QED
      BY <2>1, <2>2, <2>3
  <1>12. CASE CallDone
    <2>1. At'
      BY <1>12 DEF At, CallDone, Again
    <2>2. Rising'
      BY <1>12 DEF Rising, CallDone, Again
    <2>3. Linked'
      BY <1>12 DEF At, Linked, CallDone, Again
    <2> QED
      BY <2>1, <2>2, <2>3
  <1>13. CASE NetWait
    <2>1. At'
      BY <1>13 DEF At, NetWait, Wait
    <2>2. Rising'
      BY <1>13, Zenon DEF Rising, NetWait, Wait
    <2>3. Linked'
      BY <1>13, Zenon DEF At, Linked, NetWait, Wait
    <2> QED
      BY <2>1, <2>2, <2>3
  <1>14. CASE NetJob
    <2>1. At'
      BY <1>14 DEF At, NetJob
    <2>2. Rising'
      BY <1>14, Zenon DEF Rising, NetJob
    <2>3. Linked'
      BY <1>14 DEF At, Linked, NetJob
    <2> QED
      BY <2>1, <2>2, <2>3
  <1>15. ASSUME NEW k \in Others, CoreWait(k) PROVE At' /\ Rising' /\ Linked'
    <2>1. At'
      BY <1>15, Zenon DEF At, CoreWait, Wait
    <2>2. Rising'
      BY <1>15, Zenon DEF Rising, CoreWait, Wait
    <2>3. Linked'
      BY <1>15, Zenon DEF At, Linked, CoreWait, Wait
    <2> QED
      BY <2>1, <2>2, <2>3, Zenon
  <1>16. ASSUME NEW k \in Others, CoreTake(k) PROVE At' /\ Rising' /\ Linked'
    <2>1. At'
      BY <1>16 DEF At, CoreTake
    <2>2. Rising'
      BY <1>16, Zenon DEF Rising, CoreTake
    <2>3. Linked'
      BY <1>16 DEF At, Linked, CoreTake
    <2> QED
      BY <2>1, <2>2, <2>3
  <1>17. ASSUME NEW k \in Others, CoreGive(k) PROVE At' /\ Rising' /\ Linked'
    <2>1. At'
      BY <1>17 DEF At, CoreGive
    <2>2. Rising'
      BY <1>17, Zenon DEF Rising, CoreGive
    <2>3. Linked'
      BY <1>17 DEF At, Linked, CoreGive
    <2> QED
      BY <2>1, <2>2, <2>3
  <1>18. ASSUME NEW k \in Core, SliceStart(k) PROVE At' /\ Rising' /\ Linked'
    <2>1. At'
      BY <1>18, SMTT(30) DEF At, SliceStart
    <2>2. Rising'
      BY <1>18 DEF Rising, SliceStart
    <2>3. Linked'
      BY <1>18 DEF At, Linked, SliceStart
    <2> QED
      BY <2>1, <2>2, <2>3, Zenon
  <1>19. ASSUME NEW k \in Core, GuestStop(k) PROVE At' /\ Rising' /\ Linked'
    <2>1. At'
      BY <1>19 DEF At, GuestStop
    <2>2. Rising'
      BY <1>19, Zenon DEF Rising, GuestStop
    <2>3. Linked'
      BY <1>19 DEF At, Linked, GuestStop
    <2> QED
      BY <2>1, <2>2, <2>3
  <1>20. ASSUME NEW k \in Core, NEW j \in Core \ {k}, GuestPoke(k, j)
         PROVE  At' /\ Rising' /\ Linked'
    <2>1. At'
      BY <1>20, Zenon DEF At, GuestPoke
    <2>2. Rising'
      BY <1>20, Zenon DEF Rising, GuestPoke
    <2>3. Linked'
      BY <1>20, Zenon DEF At, Linked, GuestPoke
    <2> QED
      BY <2>1, <2>2, <2>3, Zenon
  <1>21. CASE UNCHANGED vars
      BY <1>21 DEF vars, At, Rising, Linked
  <1> QED
      BY <1>1, <1>2, <1>3, <1>4, <1>5, <1>6, <1>7, <1>8, <1>9, <1>10, <1>11, <1>12,
         <1>13, <1>14, <1>15, <1>16, <1>17, <1>18, <1>19, <1>20, <1>21, Zenon
      DEF Next, MainStep, NetStep, CoreStep, SliceStep, Ended

-----------------------------------------------------------------------------
(* The kernel's ready list, and who is on it. *)

\* Tasks join the list behind those on it, and leave it without changing the
\* order of the rest.
LEMMA MakeReadyQueue ==
  ASSUME KernelTyped, smp \in BOOLEAN, smp' = smp, Queue, NEW T \in SUBSET Task, MakeReady(T)
  PROVE  Queue'
  <1>1. ready' = ready \cup T
      BY DEF MakeReady
  <1>2. \A t \in Task : ahead'[t] = IF ~smp /\ t \in T \ ready
                                    THEN ready \cup {u \in T \ ready : u < t} ELSE ahead[t]
      BY DEF MakeReady
  <1>3. ready \subseteq Task /\ \A t \in Task : ahead[t] \subseteq ready
      BY DEF KernelTyped
  <1>4. \A t \in Task : t \notin ready' => ahead'[t] = {}
      BY <1>1, <1>2, Zenon DEF Queue
  <1>5. ASSUME NEW t \in Task PROVE t \notin ahead'[t]
    <2>1. CASE ~smp /\ t \in T \ ready
      <3>1. ahead'[t] = ready \cup {u \in T \ ready : u < t}
          BY <1>2, <2>1, Zenon
      <3>2. ~(t < t)
          OBVIOUS
      <3> QED
          BY <2>1, <3>1, <3>2, Zenon
    <2>2. CASE ~(~smp /\ t \in T \ ready)
        BY <1>2, <2>2, Zenon DEF Queue
    <2> QED
        BY <2>1, <2>2
  <1>6. smp' => \A t \in Task : ahead'[t] = {}
      BY <1>2 DEF Queue
  <1>7. ASSUME ~smp, NEW t \in ready', NEW u \in ready', t # u
        PROVE  t \in ahead'[u] \/ u \in ahead'[t]
    <2>1. t \in Task /\ u \in Task
        BY <1>1, <1>3, <1>7
    <2>2. CASE t \in ready /\ u \in ready
        BY <1>2, <1>7, <2>1, <2>2, Zenon DEF Queue
    <2>3. CASE t \in ready /\ u \notin ready
        BY <1>1, <1>2, <1>7, <2>1, <2>3, Zenon
    <2>4. CASE t \notin ready /\ u \in ready
        BY <1>1, <1>2, <1>7, <2>1, <2>4, Zenon
    <2>5. CASE t \notin ready /\ u \notin ready
      <3>1. t < u \/ u < t
          BY <1>7, <2>1
      <3> QED
          BY <1>1, <1>2, <1>7, <2>1, <2>5, <3>1, Zenon
    <2> QED
        BY <2>2, <2>3, <2>4, <2>5
  <1> QED
      BY <1>4, <1>5, <1>6, <1>7 DEF Queue

LEMMA WaitQueue ==
  ASSUME KernelTyped, smp \in BOOLEAN, smp' = smp, Queue, NEW t \in Task, Wait(t)
  PROVE  Queue'
  <1>1. ready' = ready \ {t}
      BY DEF Wait
  <1>2. \A u \in Task : ahead'[u] = IF u = t THEN {} ELSE ahead[u] \ {t}
      BY DEF Wait
  <1>3. ready \subseteq Task
      BY DEF KernelTyped
  <1>4. \A u \in Task : u \notin ready' => ahead'[u] = {}
      BY <1>1, <1>2 DEF Queue
  <1>5. \A u \in Task : u \notin ahead'[u]
      BY <1>2, Zenon DEF Queue
  <1>6. smp' => \A u \in Task : ahead'[u] = {}
      BY <1>2 DEF Queue
  <1>7. ASSUME ~smp, NEW u \in ready', NEW v \in ready', u # v
        PROVE  u \in ahead'[v] \/ v \in ahead'[u]
    <2>1. u \in ready /\ v \in ready /\ u # t /\ v # t
        BY <1>1, <1>7
    <2>2. u \in ahead[v] \/ v \in ahead[u]
        BY <1>7, <2>1 DEF Queue
    <2> QED
        BY <1>2, <1>3, <2>1, <2>2, Zenon
  <1> QED
      BY <1>4, <1>5, <1>6, <1>7 DEF Queue

LEMMA QueueNext == Shape /\ Queue /\ [Next]_vars => Queue'
  <1> SUFFICES ASSUME Shape, Queue, [Next]_vars PROVE Queue'
      OBVIOUS
  <1>a. KernelTyped /\ smp \in BOOLEAN /\ run \in Seq(Others) /\ next \in Nat
      BY TypeParts, SMTT(30) DEF Shape, RestTyped, RoundTyped
  <1> USE <1>a, MakeReadyQueue, WaitQueue DEF roundVars, kernelVars, guestVars
  <1>1. CASE Scan
      BY <1>1, Zenon DEF Scan, Queue
  <1>2. CASE Scanned
    <2>1. CASE run = <<>>
        BY <1>2, <2>1 DEF Scanned, Queue
    <2>2. CASE run # <<>>
        BY <1>2, <2>2 DEF Scanned
    <2> QED
        BY <2>1, <2>2
  <1>3. CASE Release
    <2>1. run[next + 1] \in Task
        BY <1>3, SMTT(30) DEF Release
    <2> QED
        BY <1>3, <2>1, Zenon DEF Release, Give
  <1>4. CASE Released
      BY <1>4, Zenon DEF Released, Queue
  <1>5. CASE Sliced
      BY <1>5 DEF Sliced, Queue
  <1>6. CASE BarrierWait
      BY <1>6 DEF BarrierWait
  <1>7. CASE Barrier
      BY <1>7, Zenon DEF Barrier, Queue
  <1>8. CASE Sum
      BY <1>8, Zenon DEF Sum, Queue
  <1>9. CASE PollNone
      BY <1>9 DEF PollNone, Queue
  <1>10. CASE Poll
      BY <1>10 DEF Poll, Give
  <1>11. CASE CallWait
      BY <1>11 DEF CallWait
  <1>12. CASE CallDone
      BY <1>12 DEF CallDone, Queue
  <1>13. CASE NetWait
      BY <1>13 DEF NetWait
  <1>14. CASE NetJob
      BY <1>14 DEF NetJob
  <1>15. ASSUME NEW k \in Others, CoreWait(k) PROVE Queue'
      BY <1>15, SMTT(30) DEF CoreWait
  <1>16. ASSUME NEW k \in Others, CoreTake(k) PROVE Queue'
      BY <1>16, Zenon DEF CoreTake, Queue
  <1>17. ASSUME NEW k \in Others, CoreGive(k) PROVE Queue'
      BY <1>17 DEF CoreGive, Give
  <1>18. ASSUME NEW k \in Core, SliceStart(k) PROVE Queue'
      BY <1>18, Zenon DEF SliceStart, Queue
  <1>19. ASSUME NEW k \in Core, GuestStop(k) PROVE Queue'
      BY <1>19, Zenon DEF GuestStop, Queue
  <1>20. ASSUME NEW k \in Core, NEW j \in Core \ {k}, GuestPoke(k, j) PROVE Queue'
      BY <1>20, Zenon DEF GuestPoke, Queue
  <1>21. CASE UNCHANGED vars
      BY <1>21, Zenon DEF vars, Queue
  <1> QED
      BY <1>1, <1>2, <1>3, <1>4, <1>5, <1>6, <1>7, <1>8, <1>9, <1>10, <1>11, <1>12,
         <1>13, <1>14, <1>15, <1>16, <1>17, <1>18, <1>19, <1>20, <1>21, Zenon
      DEF Next, MainStep, NetStep, CoreStep, SliceStep, Ended

LEMMA AwakeNext == Shape /\ Queue /\ Awake /\ [Next]_vars => Awake'
  <1> SUFFICES ASSUME Shape, Queue, Awake, [Next]_vars PROVE Awake'
      OBVIOUS
  <1>a. KernelTyped /\ pc \in [Task -> Places] /\ At /\ run \in Seq(Others) /\ next \in Nat
      BY TypeParts DEF Shape, RestTyped, RoundTyped, Places
  <1> USE <1>a DEF roundVars, kernelVars, guestVars, Goto, Busy, At, MainAt, OtherAt, KernelTyped
  <1>1. CASE Scan
      BY <1>1 DEF Scan, Awake, Places
  <1>2. CASE Scanned
    <2>1. CASE run = <<>>
        BY <1>2, <2>1 DEF Scanned, Awake, Places
    <2>2. CASE run # <<>>
      <3>1. /\ pc'[Main] = "release" /\ pc'[Net] = pc[Net] /\ note' = note
            /\ \A k \in Others : pc'[k] = IF pc[k] = "none" THEN "take" ELSE pc[k]
          BY <1>2, <2>2, ScannedTo DEF Scanned
      <3>2. ready' = ready \cup {k \in Others : pc[k] = "none"}
          BY <1>2, <2>2 DEF Scanned, MakeReady
      <3> QED
          BY <1>2, <3>1, <3>2, Zenon DEF Scanned, Awake
    <2> QED
        BY <2>1, <2>2
  <1>3. CASE Release
    <2>1. PICK k \in Others : k = run[next + 1]
        BY <1>3 DEF Release
    <2>2. /\ pc' = pc /\ ready' = ready \cup {k} /\ \A j \in Others : pc[j] # "none"
          /\ \A t \in Task : t # k => note'[t] = note[t]
        BY <1>3, <2>1, Zenon DEF Release, Give, MakeReady, Shape, Linked
    <2> QED
        BY <2>1, <2>2, SMTT(30) DEF Awake
  <1>4. CASE Released
      BY <1>4 DEF Released, Awake, Places
  <1>5. CASE Sliced
      BY <1>5 DEF Sliced, Awake, Places
  <1>6. CASE BarrierWait
      BY <1>6 DEF BarrierWait, Wait, Awake, Places
  <1>7. CASE Barrier
    <2>1. /\ pc' = pc /\ ready' = ready /\ note'[Net] = note[Net]
          /\ \A k \in Others : note'[k] = note[k]
        BY <1>7 DEF Barrier
    <2>2. Main \in ready
        BY <1>7, Zenon DEF Barrier, OnCpu
    <2> QED
        BY <2>1, <2>2, Zenon DEF Awake
  <1>8. CASE Sum
      BY <1>8 DEF Sum, Awake, Places, OnCpu
  <1>9. CASE PollNone
      BY <1>9 DEF PollNone, Returned, Again, Awake, Places
  <1>10. CASE Poll
      BY <1>10, SMTT(30) DEF Poll, Returned, Give, MakeReady, Awake, Places
  <1>11. CASE CallWait
      BY <1>11 DEF CallWait, Wait, Awake, Places
  <1>12. CASE CallDone
      BY <1>12 DEF CallDone, Again, Awake, Places
  <1>13. CASE NetWait
      BY <1>13 DEF NetWait, Wait, Awake, Places
  <1>14. CASE NetJob
      BY <1>14, SMTT(30) DEF NetJob, MakeReady, Awake, Places
  <1>15. ASSUME NEW k \in Others, CoreWait(k) PROVE Awake'
      BY <1>15 DEF CoreWait, Wait, Awake, Places
  <1>16. ASSUME NEW k \in Others, CoreTake(k) PROVE Awake'
      BY <1>16 DEF CoreTake, Awake, Places
  <1>17. ASSUME NEW k \in Others, CoreGive(k) PROVE Awake'
      BY <1>17 DEF CoreGive, Give, MakeReady, Awake, Places
  <1>18. ASSUME NEW k \in Core, SliceStart(k) PROVE Awake'
      BY <1>18, SMTT(30) DEF SliceStart, Awake, Places
  <1>19. ASSUME NEW k \in Core, GuestStop(k) PROVE Awake'
      BY <1>19 DEF GuestStop, Awake, Places
  <1>20. ASSUME NEW k \in Core, NEW j \in Core \ {k}, GuestPoke(k, j) PROVE Awake'
      BY <1>20, Zenon DEF GuestPoke, Awake, Places
  <1>21. CASE UNCHANGED vars
      BY <1>21, Zenon DEF vars, Awake
  <1> QED
      BY <1>1, <1>2, <1>3, <1>4, <1>5, <1>6, <1>7, <1>8, <1>9, <1>10, <1>11, <1>12,
         <1>13, <1>14, <1>15, <1>16, <1>17, <1>18, <1>19, <1>20, <1>21, Zenon
      DEF Next, MainStep, NetStep, CoreStep, SliceStep, Ended

-----------------------------------------------------------------------------
(* The hand-overs. *)

\* A step that touches none of it keeps it.
LEMMA HandedSame ==
  ASSUME Handed, pc \in [Task -> Places], UNCHANGED <<run, next, fresh>>,
         \A k \in Others : pc'[k] = pc[k] /\ note'[k] = note[k]
  PROVE  Handed'
  <1>1. \A k \in Core : (Sent(k)' <=> Sent(k)) /\ (Out(k)' <=> Out(k))
      BY DEF Sent, Out
  <1>2. \A k \in Others : k \in Core
      OBVIOUS
  <1> QED
      BY <1>1, <1>2 DEF Handed, Sent

\* A task with a slice is out.
LEMMA BusyOut ==
  ASSUME Handed, NEW k \in Others, pc[k] \in Busy
  PROVE  Out(k) /\ note[k] = 0
  BY DEF Handed, Busy

\* When the results are read nobody is.
LEMMA NoneOut ==
  ASSUME Shape, Tally, pc[Main] = "poll"
  PROVE  \A k \in Others : ~Out(k)
  <1>1. next = Len(run) /\ Answered = 1 .. Len(run)
      BY DEF Shape, Linked, InRound, Tally
  <1>2. \A i \in 1 .. next : run[i] \in fresh
      BY <1>1, Zenon DEF Answered
  <1> QED
      BY <1>2 DEF Out, Sent

LEMMA HandedNext == Shape /\ Handed /\ Tally /\ [Next]_vars => Handed'
  <1> SUFFICES ASSUME Shape, Handed, Tally, [Next]_vars PROVE Handed'
      BY Zenon
  <1>a. /\ pc \in [Task -> Places] /\ note \in [Task -> Nat] /\ run \in Seq(Others)
        /\ next \in 0 .. Len(run) /\ fresh \subseteq Core
      BY Zenon DEF Shape, TypeOK, Places
  <1>b. At /\ Rising /\ Linked
      BY DEF Shape
  <1> USE <1>a, HandedSame DEF roundVars, kernelVars, guestVars, Goto
  <1>1. CASE Scan
    <2>1. next = 0 /\ next' = 0 /\ fresh' = fresh /\ pc' = pc /\ note' = note
        BY <1>1, <1>b, Zenon DEF Scan, Linked, InRound
    <2> QED
        BY <2>1 DEF Handed, Out, Sent
  <1>2. CASE Scanned
    <2>1. CASE run = <<>>
        BY <1>2, <2>1 DEF Scanned
    <2>2. CASE run # <<>>
      <3>1. next = 0 /\ next' = 0 /\ fresh' = fresh /\ note' = note
          BY <1>2, <1>b, Zenon DEF Scanned, Linked, InRound
      <3>2. \A k \in Others : pc'[k] = IF pc[k] = "none" THEN "take" ELSE pc[k]
          BY <1>2, <2>2, ScannedTo, Zenon
      <3> QED
          BY <3>1, <3>2 DEF Handed, Out, Sent
    <2> QED
        BY <2>1, <2>2
  <1>3. CASE Release
    <2>1. PICK k \in Others : k = run[next + 1]
        BY <1>3 DEF Release
    <2>2. /\ pc' = pc /\ run' = run /\ next' = next + 1 /\ fresh' = fresh /\ next < Len(run)
          /\ note' = [note EXCEPT ![k] = @ + 1] /\ pc[k] # "none"
        BY <1>3, <1>b, <2>1, Zenon DEF Release, Give, Linked
    <2>3. ~Sent(k)
      <3> SUFFICES ASSUME NEW i \in 1 .. next, run[i] = k PROVE FALSE
          BY Zenon DEF Sent
      <3>1. i \in 1 .. Len(run) /\ next + 1 \in 1 .. Len(run) /\ i < next + 1
          BY <2>2, SMTT(30)
      <3>2. run[i] < run[next + 1]
          BY <1>b, <3>1, Zenon DEF Rising
      <3> QED
          BY <2>1, <3>2, SMTT(30)
    <2>4. \A j \in Core : Sent(j)' <=> (Sent(j) \/ j = k)
      <3>1. 1 .. next' = (1 .. next) \cup {next + 1}
          BY <2>2, SMTT(30)
      <3> QED
          BY <2>1, <2>2, <3>1, Zenon DEF Sent
    <2>5. k \notin fresh /\ pc[k] = "take" /\ note[k] = 0 /\ note'[k] = 1
        BY <2>2, <2>3 DEF Handed, Out
    <2>6. ASSUME NEW j \in Others, j # k
          PROVE  (Out(j)' <=> Out(j)) /\ pc'[j] = pc[j] /\ note'[j] = note[j]
        BY <2>2, <2>4, <2>6 DEF Out
    <2>7. Out(k)' /\ pc'[k] = "take"
        BY <2>2, <2>4, <2>5 DEF Out
    <2>8. \A j \in Others : Out(j)' => \/ pc'[j] = "take" /\ note'[j] = 1
                                       \/ pc'[j] \in Busy /\ note'[j] = 0
      <3> TAKE j \in Others
      <3>1. CASE j = k
          BY <2>5, <2>7, <3>1, Zenon
      <3>2. CASE j # k
          BY <2>6, <3>2, Zenon DEF Handed
      <3> QED
          BY <3>1, <3>2
    <2>9. \A j \in Others : ~Out(j)' => pc'[j] \in {"none", "take"} /\ note'[j] = 0
        BY <2>6, <2>7, Zenon DEF Handed
    <2>10. \A j \in fresh' : j = 0 \/ Sent(j)'
        BY <2>2, <2>4, Zenon DEF Handed
    <2> QED
        BY <2>8, <2>9, <2>10, Zenon DEF Handed
  <1>4. CASE Released
      BY <1>4, SMTT(30) DEF Released
  <1>5. CASE Sliced
    <2>1. /\ \A k \in Others : pc'[k] = pc[k] /\ (k \in fresh' <=> k \in fresh)
          /\ note' = note /\ run' = run /\ next' = next /\ fresh' = fresh \cup {0}
        BY <1>5 DEF Sliced
    <2>2. \A k \in Core : Sent(k)' <=> Sent(k)
        BY <2>1, Zenon DEF Sent
    <2>3. \A k \in Others : (Out(k)' <=> Out(k)) /\ k \in Core
        BY <2>1, <2>2 DEF Out
    <2> QED
        BY <2>1, <2>2, <2>3, Zenon DEF Handed
  <1>6. CASE BarrierWait
      BY <1>6, Zenon DEF BarrierWait, Wait
  <1>7. CASE Barrier
      BY <1>7 DEF Barrier
  <1>8. CASE Sum
      BY <1>8, SMTT(30) DEF Sum
  <1>9. CASE PollNone
    <2>1. /\ next' = 0 /\ fresh' = {} /\ pc[Main] = "poll"
          /\ \A k \in Others : pc'[k] = pc[k] /\ note'[k] = note[k]
        BY <1>9 DEF PollNone, Returned, Give
    <2>2. \A k \in Others : ~Out(k)
        BY <2>1, NoneOut, Zenon
    <2> QED
        BY <2>1, <2>2, SMTT(30) DEF Handed, Out, Sent
  <1>10. CASE Poll
    <2>1. /\ next' = 0 /\ fresh' = {} /\ pc[Main] = "poll"
          /\ \A k \in Others : pc'[k] = pc[k] /\ note'[k] = note[k]
        BY <1>10, SMTT(30) DEF Poll, Returned, Give
    <2>2. \A k \in Others : ~Out(k)
        BY <2>1, NoneOut
    <2> QED
        BY <2>1, <2>2 DEF Handed, Out, Sent
  <1>11. CASE CallWait
      BY <1>11, Zenon DEF CallWait, Wait
  <1>12. CASE CallDone
      BY <1>12 DEF CallDone, Again
  <1>13. CASE NetWait
      BY <1>13, Zenon DEF NetWait, Wait
  <1>14. CASE NetJob
      BY <1>14 DEF NetJob
  <1>15. ASSUME NEW k \in Others, CoreWait(k) PROVE Handed'
      BY <1>15, Zenon DEF CoreWait, Wait
  <1>16. ASSUME NEW k \in Others, CoreTake(k) PROVE Handed'
    <2>1. /\ UNCHANGED <<run, next, fresh>> /\ note' = [note EXCEPT ![k] = 0]
          /\ pc' = [pc EXCEPT ![k] = "slice"] /\ note[k] > 0
        BY <1>16 DEF CoreTake
    <2>2. \A j \in Core : (Sent(j)' <=> Sent(j)) /\ (Out(j)' <=> Out(j))
        BY <2>1 DEF Sent, Out
    <2>3. Out(k) /\ pc'[k] \in Busy /\ note'[k] = 0
        BY <2>1 DEF Handed, Busy
    <2>4. \A j \in Others : j # k => pc'[j] = pc[j] /\ note'[j] = note[j]
        BY <2>1
    <2>5. fresh' = fresh /\ \A j \in Others : j \in Core
        BY <2>1, SMTT(30)
    <2> QED
        BY <2>2, <2>3, <2>4, <2>5, Zenon DEF Handed
  <1>17. ASSUME NEW k \in Others, CoreGive(k) PROVE Handed'
    <2>1. /\ run' = run /\ next' = next /\ fresh' = fresh \cup {k} /\ pc[k] = "sliced"
          /\ pc' = [pc EXCEPT ![k] = "take"] /\ \A j \in Others : note'[j] = note[j]
        BY <1>17 DEF CoreGive, Give
    <2>2. Sent(k) /\ note[k] = 0
        BY <2>1, Zenon DEF Handed, Out
    <2>3. \A j \in Core : Sent(j)' <=> Sent(j)
        BY <2>1, Zenon DEF Sent
    <2>4. ~Out(k)' /\ pc'[k] = "take" /\ k \in Core
        BY <2>1 DEF Out
    <2>5. \A j \in Others : j # k => (Out(j)' <=> Out(j)) /\ pc'[j] = pc[j]
        BY <2>1, <2>3, SMTT(30) DEF Out
    <2>6. \A j \in fresh' : j = 0 \/ Sent(j)'
        BY <2>1, <2>2, <2>3, <2>4, Zenon DEF Handed
    <2> QED
        BY <2>1, <2>2, <2>4, <2>5, <2>6, SMTT(30) DEF Handed
  <1>18. ASSUME NEW k \in Core, SliceStart(k) PROVE Handed'
    <2>1. /\ UNCHANGED <<run, next, fresh, note>> /\ pc[k] \in Busy
          /\ pc' = [pc EXCEPT ![k] = (IF Runnable(k) THEN "guest" ELSE "sliced")]
        BY <1>18, Zenon DEF SliceStart, kernelVars, Busy
    <2>2. CASE k = Main
        BY <2>1, <2>2, SMTT(30)
    <2>3. CASE k # Main
      <3>1. \A j \in Core : (Sent(j)' <=> Sent(j)) /\ (Out(j)' <=> Out(j))
          BY <2>1 DEF Sent, Out
      <3>2. k \in Others /\ Out(k) /\ pc'[k] \in Busy /\ note[k] = 0
        <4>1. k \in Others /\ pc'[k] \in Busy
            BY <2>1, <2>3 DEF Busy
        <4> QED
            BY <2>1, <4>1, BusyOut
      <3>3. \A j \in Others : j # k => pc'[j] = pc[j]
          BY <2>1
      <3>4. fresh' = fresh /\ note' = note /\ \A j \in Others : j \in Core
          BY <2>1
      <3> QED
          BY <3>1, <3>2, <3>3, <3>4, Zenon DEF Handed
    <2> QED
        BY <2>2, <2>3, Zenon
  <1>19. ASSUME NEW k \in Core, GuestStop(k) PROVE Handed'
    <2>1. /\ UNCHANGED <<run, next, fresh, note>> /\ pc[k] \in Busy
          /\ pc' = [pc EXCEPT ![k] = "sliced"]
        BY <1>19, Zenon DEF GuestStop, kernelVars, Busy
    <2>2. CASE k = Main
        BY <2>1, <2>2, SMTT(30)
    <2>3. CASE k # Main
      <3>1. \A j \in Core : (Sent(j)' <=> Sent(j)) /\ (Out(j)' <=> Out(j))
          BY <2>1, Zenon DEF Sent, Out
      <3>2. k \in Others /\ Out(k) /\ pc'[k] \in Busy /\ note[k] = 0
        <4>1. k \in Others /\ pc'[k] \in Busy
            BY <2>1, <2>3 DEF Busy
        <4> QED
            BY <2>1, <4>1, BusyOut, Zenon
      <3>3. \A j \in Others : j # k => pc'[j] = pc[j]
          BY <2>1
      <3>4. fresh' = fresh /\ note' = note /\ \A j \in Others : j \in Core
          BY <2>1
      <3> QED
          BY <3>1, <3>2, <3>3, <3>4, Zenon DEF Handed
    <2> QED
        BY <2>2, <2>3
  <1>20. ASSUME NEW k \in Core, NEW j \in Core \ {k}, GuestPoke(k, j) PROVE Handed'
      BY <1>20, Zenon DEF GuestPoke
  <1>21. CASE UNCHANGED vars
      BY <1>21 DEF vars
  <1> QED
      BY <1>1, <1>2, <1>3, <1>4, <1>5, <1>6, <1>7, <1>8, <1>9, <1>10, <1>11, <1>12,
         <1>13, <1>14, <1>15, <1>16, <1>17, <1>18, <1>19, <1>20, <1>21, Zenon
      DEF Next, MainStep, NetStep, CoreStep, SliceStep, Ended

\* There are as many answers as releases only when all have answered.
LEMMA AnsweredFinite ==
  ASSUME run \in Seq(Others)
  PROVE  /\ IsFiniteSet(Answered) /\ Cardinality(Answered) \in Nat
         /\ Cardinality(Answered) <= Len(run)
         /\ Cardinality(Answered) = Len(run) => Answered = 1 .. Len(run)
  <1>1. IsFiniteSet(1 .. Len(run)) /\ Cardinality(1 .. Len(run)) = Len(run)
      BY FS_Interval
  <1>2. Answered \subseteq 1 .. Len(run)
      BY DEF Answered
  <1>3. IsFiniteSet(Answered) /\ Cardinality(Answered) <= Cardinality(1 .. Len(run))
        /\ (Cardinality(Answered) = Cardinality(1 .. Len(run)) => Answered = 1 .. Len(run))
      BY <1>1, <1>2, FS_Subset, Zenon
  <1>4. Cardinality(Answered) \in Nat
      BY <1>3, FS_CardinalityType
  <1> QED
      BY <1>1, <1>3, <1>4

\* A slice runs in a round that has not ended.
LEMMA BusyInRound ==
  ASSUME Shape, Handed, Tally, NEW k \in Core, pc[k] \in Busy
  PROVE  pc[Main] \in InRound \ {"poll"}
  <1>1. CASE k = Main
      BY <1>1 DEF Busy, InRound
  <1>2. CASE k # Main
    <2>1. k \in Others /\ Out(k)
        BY <1>2, BusyOut
    <2>2. pc[Main] # "poll"
        BY <2>1, NoneOut
    <2>3. PICK i \in 1 .. next : run[i] = k
        BY <2>1, Zenon DEF Out, Sent
    <2>4. next \in Nat /\ next # 0
        BY <2>3 DEF Shape, TypeOK
    <2>5. pc[Main] \in InRound
        BY <2>4 DEF Shape, Linked
    <2> QED
        BY <2>2, <2>5
  <1> QED
      BY <1>1, <1>2

LEMMA RunCores ==
  ASSUME run \in Seq(Others)
  PROVE  \A i \in 1 .. Len(run) : run[i] \in Others /\ run[i] # 0
  OBVIOUS

\* No core's task has anything to do while the coordinator scans.
LEMMA ScanFresh ==
  ASSUME Shape, Handed, pc[Main] = "scan"
  PROVE  \A k \in Others : ~Out(k) /\ k \notin fresh /\ pc[k] \notin Busy
  <1> SUFFICES ASSUME NEW k \in Others PROVE ~Out(k) /\ k \notin fresh /\ pc[k] \notin Busy
      BY Zenon
  <1>1. next = 0
      BY DEF Shape, Linked, InRound
  <1>2. ~Sent(k) /\ k # 0
      BY <1>1 DEF Sent
  <1> QED
      BY <1>2, BusyOut, Zenon DEF Out, Handed

LEMMA TallySame ==
  ASSUME Tally, UNCHANGED <<run, fresh, done>>, pc'[Main] = pc[Main],
         note'[Main] = note[Main], note'[Net] = note[Net]
  PROVE  Tally'
  <1>1. Answered' = Answered
      BY Zenon DEF Answered
  <1> QED
      BY <1>1, Zenon DEF Tally

LEMMA TallyNext == Shape /\ Handed /\ Tally /\ [Next]_vars => Tally'
  <1> SUFFICES ASSUME Shape, Handed, Tally, [Next]_vars PROVE Tally'
      OBVIOUS
  <1>a. /\ pc \in [Task -> Places] /\ note \in [Task -> Nat] /\ run \in Seq(Others)
        /\ next \in 0 .. Len(run) /\ fresh \subseteq Core /\ done \in Nat
      BY Zenon DEF Shape, TypeOK, Places
  <1>b. At /\ Rising /\ Linked
      BY DEF Shape
  <1>c. Cardinality({}) = 0
      BY FS_EmptySet
  <1> USE <1>a DEF roundVars, kernelVars, guestVars, Goto
  <1>1. CASE Scan
    <2>1. next = 0 /\ fresh' = fresh /\ pc' = pc /\ note' = note /\ done' = done /\ 0 \notin fresh
          /\ pc[Main] = "scan"
        BY <1>1, <1>b, Zenon DEF Scan, Linked, InRound
    <2>2. fresh = {}
        BY <2>1 DEF Handed, Sent
    <2>3. Answered = {} /\ Answered' = {}
        BY <2>1, <2>2, Zenon DEF Answered
    <2> QED
        BY <2>1, <2>3, Zenon DEF Tally
  <1>2. CASE Scanned
    <2>1. run' = run /\ fresh' = fresh /\ done' = done /\ note' = note /\ pc[Main] = "scan"
          /\ pc'[Main] \in {"slice", "release"}
        BY <1>2, ScannedTo DEF Scanned
    <2>2. Answered' = Answered
        BY <2>1, Zenon DEF Answered
    <2> QED
        BY <2>1, <2>2 DEF Tally
  <1>3. CASE Release
    <2>1. PICK k \in Others : k = run[next + 1]
        BY <1>3 DEF Release
    <2> QED
        BY <1>3, <2>1, TallySame DEF Release, Give
  <1>4. CASE Released
    <2>1. run' = run /\ fresh' = fresh /\ done' = done /\ note' = note /\ pc[Main] = "release"
          /\ pc'[Main] = "slice"
        BY <1>4 DEF Released
    <2>2. Answered' = Answered
        BY <2>1, Zenon DEF Answered
    <2> QED
        BY <2>1, <2>2, Zenon DEF Tally
  <1>5. CASE Sliced
    <2>1. /\ run' = run /\ fresh' = fresh \cup {0} /\ done' = done /\ note' = note
          /\ pc[Main] = "sliced"
          /\ pc'[Main] = "barrier"
        BY <1>5 DEF Sliced
    <2>2. \A i \in 1 .. Len(run) : run[i] # 0
        BY RunCores, Zenon
    <2>3. Answered' = Answered
        BY <2>1, <2>2, Zenon DEF Answered
    <2> QED
        BY <2>1, <2>3, Zenon DEF Tally
  <1>6. CASE BarrierWait
      BY <1>6, TallySame, Zenon DEF BarrierWait, Wait
  <1>7. CASE Barrier
    <2>1. /\ run' = run /\ fresh' = fresh /\ pc' = pc /\ pc[Main] = "barrier"
          /\ done' = done + note[Main] /\ note'[Main] = 0 /\ note'[Net] = note[Net]
        BY <1>7 DEF Barrier
    <2>2. Answered' = Answered
        BY <2>1, Zenon DEF Answered
    <2> QED
        BY <2>1, <2>2 DEF Tally
  <1>8. CASE Sum
    <2>1. run' = run /\ fresh' = fresh /\ done' = done /\ note' = note /\ pc[Main] = "barrier"
          /\ pc'[Main] = "poll" /\ done >= Len(run)
        BY <1>8 DEF Sum, Arrived
    <2>2. Answered' = Answered
        BY <2>1, Zenon DEF Answered
    <2>3. done + note[Main] = Cardinality(Answered) /\ note[Net] = 0 /\ note[Main] \in Nat
        BY <2>1 DEF Tally
    <2>4. note[Main] = 0 /\ Cardinality(Answered) = Len(run)
        BY <2>1, <2>3, AnsweredFinite
    <2>5. Answered = 1 .. Len(run)
        BY <2>4, AnsweredFinite, Zenon
    <2> QED
        BY <2>1, <2>2, <2>3, <2>4, <2>5, Zenon DEF Tally
  <1>9. CASE PollNone
    <2>1. /\ note' = note /\ pc[Main] = "poll" /\ pc'[Main] \in {"end", "scan"}
          /\ run' = <<>> /\ done' = 0
        BY <1>9 DEF PollNone, Returned, Again
    <2>2. Answered' = {}
        BY <2>1 DEF Answered
    <2> QED
        BY <1>c, <2>1, <2>2 DEF Tally
  <1>10. CASE Poll
    <2>1. /\ pc[Main] = "poll" /\ pc'[Main] = "net"
          /\ note'[Main] = note[Main] /\ note'[Net] = note[Net] + 1
        BY <1>10 DEF Poll, Give
    <2> QED
        BY <2>1 DEF Tally
  <1>11. CASE CallWait
      BY <1>11, TallySame, Zenon DEF CallWait, Wait
  <1>12. CASE CallDone
    <2>1. /\ run' = run /\ done' = done /\ pc[Main] = "net" /\ pc'[Main] \in {"end", "scan"}
          /\ note[Main] > 0 /\ note'[Main] = 0 /\ note'[Net] = note[Net]
        BY <1>12 DEF CallDone, Again
    <2>2. run = <<>> /\ done = 0 /\ note[Net] = 0
        BY <1>b, <2>1 DEF Linked, InRound, Tally
    <2>3. Answered' = {}
        BY <2>1, <2>2 DEF Answered
    <2> QED
        BY <1>c, <2>1, <2>2, <2>3 DEF Tally
  <1>13. CASE NetWait
      BY <1>13, TallySame, Zenon DEF NetWait, Wait
  <1>14. CASE NetJob
    <2>1. /\ pc' = pc /\ note[Net] > 0 /\ note'[Net] = 0 /\ note'[Main] = note[Main] + 1
        BY <1>14 DEF NetJob
    <2>2. note[Net] = 1 /\ note[Main] = 0 /\ pc[Main] = "net"
        BY <2>1, SMTT(30) DEF Tally
    <2> QED
        BY <2>1, <2>2 DEF Tally
  <1>15. ASSUME NEW k \in Others, CoreWait(k) PROVE Tally'
      BY <1>15, TallySame, Zenon DEF CoreWait, Wait
  <1>16. ASSUME NEW k \in Others, CoreTake(k) PROVE Tally'
      BY <1>16, TallySame, SMTT(30) DEF CoreTake
  <1>17. ASSUME NEW k \in Others, CoreGive(k) PROVE Tally'
    <2>1. /\ run' = run /\ fresh' = fresh \cup {k} /\ done' = done /\ pc[k] = "sliced"
          /\ pc'[Main] = pc[Main] /\ note'[Main] = note[Main] + 1 /\ note'[Net] = note[Net]
        BY <1>17 DEF CoreGive, Give
    <2>2. Out(k)
        BY <2>1, BusyOut, Zenon DEF Busy
    <2>3. PICK i \in 1 .. next : run[i] = k /\ k \notin fresh
        BY <2>2, Zenon DEF Out, Sent
    <2>4. pc[Main] \in InRound \ {"poll"}
        BY <2>1, BusyInRound DEF Busy
    <2>5. i \in 1 .. Len(run) /\ \A j \in 1 .. Len(run) : run[j] = k => j = i
      <3>1. i \in 1 .. Len(run)
          OBVIOUS
      <3>2. ASSUME NEW j \in 1 .. Len(run), run[j] = k, j # i PROVE FALSE
        <4>1. j < i \/ i < j
            BY <3>1, <3>2
        <4>2. run[j] < run[i] \/ run[i] < run[j]
            BY <1>b, <3>1, <4>1, Zenon DEF Rising
        <4> QED
            BY <2>3, <3>2, <4>2
      <3> QED
          BY <3>1, <3>2, Zenon
    <2>6. i \notin Answered /\ Answered' = Answered \cup {i}
        BY <2>1, <2>3, <2>5, Zenon DEF Answered
    <2>7. Cardinality(Answered') = Cardinality(Answered) + 1
        BY <2>6, AnsweredFinite, FS_AddElement, Zenon
    <2>8. pc[Main] # "net" /\ pc[Main] # "poll"
        BY <2>4, Zenon DEF InRound
    <2>9. done + note[Main] = Cardinality(Answered) /\ note[Net] = 0 /\ note[Main] \in Nat
        BY <2>8 DEF Tally
    <2>10. done' + note'[Main] = Cardinality(Answered') /\ note'[Net] = 0
        BY <2>1, <2>7, <2>9, SMTT(30)
    <2> QED
        BY <2>1, <2>8, <2>10, Zenon DEF Tally
  <1>18. ASSUME NEW k \in Core, SliceStart(k) PROVE Tally'
    <2>1. /\ run' = run /\ fresh' = fresh /\ done' = done /\ note' = note
          /\ pc'[Main] = pc[Main] \/ (pc[Main] \in Busy /\ pc'[Main] \in Busy)
        BY <1>18 DEF SliceStart, Busy
    <2>2. Answered' = Answered
        BY <2>1, Zenon DEF Answered
    <2> QED
        BY <2>1, <2>2, Zenon DEF Tally, Busy
  <1>19. ASSUME NEW k \in Core, GuestStop(k) PROVE Tally'
    <2>1. /\ run' = run /\ fresh' = fresh /\ done' = done /\ note' = note
          /\ pc'[Main] = pc[Main] \/ (pc[Main] \in Busy /\ pc'[Main] \in Busy)
        BY <1>19, SMTT(30) DEF GuestStop, Busy
    <2>2. Answered' = Answered
        BY <2>1 DEF Answered
    <2> QED
        BY <2>1, <2>2 DEF Tally, Busy
  <1>20. ASSUME NEW k \in Core, NEW j \in Core \ {k}, GuestPoke(k, j) PROVE Tally'
      BY <1>20, TallySame, Zenon DEF GuestPoke
  <1>21. CASE UNCHANGED vars
      BY <1>21, TallySame DEF vars
  <1> QED
      BY <1>1, <1>2, <1>3, <1>4, <1>5, <1>6, <1>7, <1>8, <1>9, <1>10, <1>11, <1>12,
         <1>13, <1>14, <1>15, <1>16, <1>17, <1>18, <1>19, <1>20, <1>21, Zenon
      DEF Next, MainStep, NetStep, CoreStep, SliceStep, Ended

-----------------------------------------------------------------------------
(* Who lives. *)

\* Only cores the scan found start.
LEMMA StartedInRun ==
  ASSUME Shape, Handed, NEW k \in Others, Started(k)
  PROVE  InRun(k)
  <1>1. k # 0 /\ (k \in fresh \/ pc[k] \in Busy)
      BY DEF Started, Busy
  <1>2. Sent(k)
      BY <1>1, BusyOut, Zenon DEF Handed, Out
  <1>3. next \in 0 .. Len(run)
      BY DEF Shape, TypeOK
  <1> QED
      BY <1>2, <1>3 DEF Sent, InRun

\* A step that touches none of it keeps it.
LEMMA LivesSame ==
  ASSUME Scanning, StillQuiet, GuestsLive, Ends, UNCHANGED <<state, irq, live, scan, run, idle>>,
         pc'[Main] = pc[Main], \A k \in Core : Started(k)' <=> Started(k),
         \A k \in Core : pc'[k] = "guest" => pc[k] = "guest"
  PROVE  Scanning' /\ StillQuiet' /\ GuestsLive' /\ Ends'
  <1>1. \A k : (Runnable(k)' <=> Runnable(k)) /\ (InRun(k)' <=> InRun(k))
      BY Zenon DEF Runnable, InRun
  <1>2. Scanning'
      BY <1>1, Zenon DEF Scanning
  <1>3. 0 \in Core /\ \A k \in Others : k \in Core
      OBVIOUS
  <1>4. Quiet' <=> Quiet
      BY Zenon DEF Quiet
  <1>5. StillQuiet'
      BY <1>1, <1>3, <1>4, Zenon DEF StillQuiet
  <1>6. GuestsLive'
      BY DEF GuestsLive
  <1>7. Ends'
      BY <1>1, Zenon DEF Ends
  <1> QED
      BY <1>2, <1>5, <1>6, <1>7, Zenon

\* The step that matters is the start of a slice: in a quiet round a core that
\* was found can still run, so it lives and the round is quiet no more.
LEMMA LivesNext ==
    /\ Shape /\ Handed /\ Tally /\ Tally'
    /\ Scanning /\ StillQuiet /\ GuestsLive /\ Ends /\ [Next]_vars
    => Scanning' /\ StillQuiet' /\ GuestsLive' /\ Ends'
  <1> DEFINE Goal == Scanning' /\ StillQuiet' /\ GuestsLive' /\ Ends'
  <1> SUFFICES ASSUME Shape, Handed, Tally, Tally',
                      Scanning, StillQuiet, GuestsLive, Ends, [Next]_vars
               PROVE  Goal
      BY Zenon
  <1>a. /\ pc \in [Task -> Places] /\ run \in Seq(Others) /\ scan \in 1 .. N
        /\ next \in 0 .. Len(run) /\ fresh \subseteq Core /\ live \in [Core -> BOOLEAN]
        /\ state \in [Core -> {"run", "wfi", "held", "halted"}] /\ irq \subseteq Core
        /\ idle \in BOOLEAN
      BY Zenon DEF Shape, TypeOK, Places
  <1>b. At /\ Rising /\ Linked
      BY DEF Shape
  <1>c. \A k \in Core : k \in Task
      OBVIOUS
  <1> USE <1>a, <1>c DEF roundVars, kernelVars, guestVars, Goto
  <1>1. CASE Scan
    <2>1. /\ UNCHANGED <<state, irq, live, idle, fresh, pc>> /\ pc[Main] = "scan" /\ scan < N
          /\ scan' = scan + 1 /\ run' = IF Runnable(scan) THEN Append(run, scan) ELSE run
        BY <1>1, Zenon DEF Scan, Found
    <2>2. \A k : Runnable(k)' <=> Runnable(k)
        BY <2>1, Zenon DEF Runnable
    <2>3. \A i \in 1 .. Len(run) : run[i] < scan
        BY <1>b, Zenon DEF Rising
    <2>4. \A k \in 1 .. scan : InRun(k)' <=> InRun(k) \/ (k = scan /\ Runnable(scan))
      <3>1. CASE Runnable(scan)
        <4>1. /\ Len(run') = Len(run) + 1 /\ run'[Len(run) + 1] = scan
              /\ \A i \in 1 .. Len(run) : run'[i] = run[i]
            BY <2>1, <3>1
        <4>2. 1 .. Len(run') = (1 .. Len(run)) \cup {Len(run) + 1}
            BY <4>1
        <4> QED
            BY <3>1, <4>1, <4>2, Zenon DEF InRun
      <3>2. CASE ~Runnable(scan)
          BY <2>1, <3>2, Zenon DEF InRun
      <3> QED
          BY <3>1, <3>2
    <2>5. ~InRun(scan)
        BY <2>3 DEF InRun
    <2>6. ASSUME NEW k \in 1 .. scan' - 1 PROVE Runnable(k)' <=> InRun(k)'
      <3>1. k \in 1 .. scan /\ (k = scan \/ k \in 1 .. scan - 1)
          BY <2>1
      <3> QED
          BY <2>1, <2>2, <2>4, <2>5, <3>1, Zenon DEF Scanning
    <2>7. Scanning'
        BY <2>6, Zenon DEF Scanning
    <2> QED
        BY <2>1, <2>7, Zenon DEF StillQuiet, GuestsLive, Ends, InRound
  <1>2. CASE Scanned
    <2>1. /\ UNCHANGED <<state, irq, live, idle, run, fresh>> /\ pc[Main] = "scan" /\ scan = N
          /\ pc'[Main] \in {"slice", "release"}
          /\ \A k \in Others : pc'[k] = pc[k] \/ pc'[k] = "take"
      <3>1. CASE run = <<>>
          BY <1>2, <3>1 DEF Scanned
      <3>2. CASE run # <<>>
          BY <1>2, <3>2, ScannedTo, Zenon DEF Scanned
      <3> QED
          BY <3>1, <3>2
    <2>2. \A k : (Runnable(k)' <=> Runnable(k)) /\ (InRun(k)' <=> InRun(k))
        BY <2>1, Zenon DEF Runnable, InRun
    <2>3. \A k \in Others : Runnable(k) <=> InRun(k)
        BY <2>1, Zenon DEF Scanning
    <2>4. \A k \in Others : ~Out(k) /\ k \notin fresh
        BY <1>b, <2>1 DEF Linked, InRound, Out, Sent, Handed
    <2>5. \A k \in Others : pc[k] \notin Busy
        BY <2>4, BusyOut, Zenon
    <2>6. \A k \in Others : ~Started(k)'
        BY <2>1, <2>4, <2>5, Zenon DEF Started, Busy
    <2>7. ~Started(Main)'
        BY <2>1 DEF Started
    <2>8. StillQuiet'
        BY <2>2, <2>3, <2>6, <2>7, Zenon DEF StillQuiet
    <2>9. \A k \in Core : pc'[k] # "guest"
      <3>1. \A k \in Core : k = 0 \/ k \in Others
          OBVIOUS
      <3>2. pc'[0] # "guest" /\ \A k \in Others : pc'[k] # "guest"
          BY <2>1, <2>5, Zenon DEF Busy
      <3> QED
          BY <3>1, <3>2, Zenon
    <2> QED
        BY <2>1, <2>8, <2>9, Zenon DEF Scanning, GuestsLive, Ends
  <1>3. CASE Release
      BY <1>3, LivesSame, SMTT(30) DEF Release, Give, Started
  <1>4. CASE Released
    <2>1. /\ UNCHANGED <<state, irq, live, idle, run, fresh>> /\ pc[Main] = "release"
          /\ pc' = [pc EXCEPT ![Main] = "slice"]
        BY <1>4, Zenon DEF Released
    <2>2. \A k : (Runnable(k)' <=> Runnable(k)) /\ (InRun(k)' <=> InRun(k))
        BY <2>1, Zenon DEF Runnable, InRun
    <2>3. \A k \in Core : Started(k)' <=> Started(k)
        BY <2>1 DEF Started
    <2>4. Quiet' <=> Quiet
        BY <2>1, <2>3, Zenon DEF Quiet
    <2>5. \A k \in Others : k \in Core
        OBVIOUS
    <2>6. StillQuiet'
        BY <2>1, <2>2, <2>3, <2>4, <2>5, SMTT(30) DEF StillQuiet, InRound
    <2> QED
        BY <2>1, <2>6 DEF Scanning, GuestsLive, Ends
  <1>5. CASE Sliced
    <2>1. /\ UNCHANGED <<state, irq, live, idle, run>> /\ pc[Main] = "sliced"
          /\ pc' = [pc EXCEPT ![Main] = "barrier"] /\ fresh' = fresh \cup {0}
        BY <1>5, Zenon DEF Sliced
    <2>2. \A k : (Runnable(k)' <=> Runnable(k)) /\ (InRun(k)' <=> InRun(k))
        BY <2>1, Zenon DEF Runnable, InRun
    <2>3. \A k \in Core : Started(k)' <=> Started(k)
        BY <2>1 DEF Started
    <2>4. Quiet' <=> Quiet
        BY <2>1, <2>3, Zenon DEF Quiet
    <2>5. \A k \in Others : k \in Core
        OBVIOUS
    <2>6. StillQuiet'
        BY <2>1, <2>2, <2>3, <2>4, <2>5, SMTT(30) DEF StillQuiet, InRound
    <2> QED
        BY <2>1, <2>6, Zenon DEF Scanning, GuestsLive, Ends
  <1>6. CASE BarrierWait
      BY <1>6, LivesSame, Zenon DEF BarrierWait, Wait, Started
  <1>7. CASE Barrier
      BY <1>7, LivesSame, Zenon DEF Barrier, Started
  <1>8. CASE Sum
    <2>1. /\ UNCHANGED <<state, irq, live, run, fresh>> /\ pc[Main] = "barrier"
          /\ pc' = [pc EXCEPT ![Main] = "poll"] /\ idle' = AllIdle
        BY <1>8, Zenon DEF Sum
    <2>2. \A k : (Runnable(k)' <=> Runnable(k)) /\ (InRun(k)' <=> InRun(k))
        BY <2>1, Zenon DEF Runnable, InRun
    <2>3. \A k \in Core : Started(k)' <=> Started(k)
        BY <2>1 DEF Started
    <2>4. Quiet' <=> Quiet
        BY <2>1, <2>3, Zenon DEF Quiet
    <2>5. \A k \in Others : k \in Core
        OBVIOUS
    <2>6. StillQuiet'
        BY <2>1, <2>2, <2>3, <2>4, <2>5, SMTT(30) DEF StillQuiet, InRound
    <2>7. ASSUME idle' PROVE \A k \in Core : ~Runnable(k)'
      <3>1. ~live[0] /\ \A k \in Others : InRun(k) => ~live[k]
          BY <2>1, <2>7, Zenon DEF AllIdle, InRun
      <3>2. \A k \in Core : k = 0 \/ k \in Others
          OBVIOUS
      <3>3. Quiet
          BY <3>1, <3>2, StartedInRun, Zenon DEF Quiet
      <3>4. \A i \in 1 .. Len(run) : run[i] \in fresh
        <4>1. pc'[Main] = "poll"
            BY <2>1, SMTT(30)
        <4>2. Answered' = 1 .. Len(run')
            BY <4>1, Zenon DEF Tally
        <4> QED
            BY <2>1, <4>2, Zenon DEF Answered
      <3>5. \A k \in Others : InRun(k) => Started(k)
          BY <3>4 DEF InRun, Started
      <3>6. Started(Main) /\ pc[Main] \in InRound
          BY <2>1, Zenon DEF Started, InRound
      <3> QED
          BY <2>2, <3>2, <3>3, <3>5, <3>6, Zenon DEF StillQuiet
    <2> QED
        BY <2>1, <2>6, <2>7, Zenon DEF Scanning, GuestsLive, Ends
  <1>9. CASE PollNone
    <2>1. /\ UNCHANGED <<state, irq, idle>> /\ pc[Main] \in {"poll", "net"}
          /\ pc'[Main] \in {"end", "scan"} /\ (pc'[Main] = "end" => idle)
          /\ \A k \in Others : pc'[k] = pc[k] /\ live'[k] = live[k]
      <3>1. UNCHANGED <<state, irq, idle>> /\ pc[Main] \in {"poll", "net"}
          BY <1>9, Zenon DEF PollNone, Returned
      <3>2. pc'[Main] \in {"end", "scan"} /\ (pc'[Main] = "end" => idle)
          BY <1>9 DEF PollNone, Again
      <3>3. \A k \in Others : pc'[k] = pc[k]
          BY <1>9 DEF PollNone
      <3>4. \A k \in Others : live'[k] = live[k]
        <4>1. live' = live \/ live' = [live EXCEPT ![0] = FALSE]
            BY <1>9, Zenon DEF PollNone, Returned
        <4>2. \A k \in Others : k \in Core /\ k # 0
            OBVIOUS
        <4> QED
            BY <4>1, <4>2, Zenon
      <3> QED
          BY <3>1, <3>2, <3>3, <3>4, Zenon
    <2>2. \A k : Runnable(k)' <=> Runnable(k)
        BY <2>1, Zenon DEF Runnable
    <2>3. pc'[Main] = "scan" => scan' = 1
        BY <1>9, <1>b, <2>1, Zenon DEF PollNone, Returned, Linked
    <2>4. Scanning'
        BY <2>3 DEF Scanning
    <2>5. GuestsLive'
        BY <2>1, SMTT(30) DEF GuestsLive
    <2>6. Ends'
        BY <2>1, <2>2, Zenon DEF Ends
    <2> QED
        BY <2>1, <2>4, <2>5, <2>6, Zenon DEF StillQuiet, InRound
  <1>10. CASE Poll
    <2>1. /\ UNCHANGED <<state, irq, idle>> /\ pc[Main] \in {"poll", "net"}
          /\ pc'[Main] \in {"net"} /\ (pc'[Main] = "end" => idle)
          /\ \A k \in Others : pc'[k] = pc[k] /\ live'[k] = live[k]
      <3>1. UNCHANGED <<state, irq, idle>> /\ pc[Main] \in {"poll", "net"}
          BY <1>10, Zenon DEF Poll, Returned
      <3>2. pc'[Main] \in {"net"} /\ (pc'[Main] = "end" => idle)
          BY <1>10 DEF Poll, Again
      <3>3. \A k \in Others : pc'[k] = pc[k]
          BY <1>10, SMTT(30) DEF Poll
      <3>4. \A k \in Others : live'[k] = live[k]
        <4>1. live' = live \/ live' = [live EXCEPT ![0] = FALSE]
            BY <1>10, Zenon DEF Poll, Returned
        <4>2. \A k \in Others : k \in Core /\ k # 0
            OBVIOUS
        <4> QED
            BY <4>1, <4>2, Zenon
      <3> QED
          BY <3>1, <3>2, <3>3, <3>4, Zenon
    <2>2. \A k : Runnable(k)' <=> Runnable(k)
        BY <2>1, Zenon DEF Runnable
    <2>3. pc'[Main] = "scan" => scan' = 1
        BY <1>10, <1>b, <2>1, Zenon DEF Poll, Returned, Linked
    <2>4. Scanning'
        BY <2>3 DEF Scanning
    <2>5. GuestsLive'
        BY <2>1, SMTT(30) DEF GuestsLive
    <2>6. Ends'
        BY <2>1, <2>2, Zenon DEF Ends
    <2> QED
        BY <2>1, <2>4, <2>5, <2>6, Zenon DEF StillQuiet, InRound
  <1>11. CASE CallWait
      BY <1>11, LivesSame, Zenon DEF CallWait, Wait, Started
  <1>12. CASE CallDone
    <2>1. /\ UNCHANGED <<state, irq, idle>> /\ pc[Main] \in {"poll", "net"}
          /\ pc'[Main] \in {"end", "scan"} /\ (pc'[Main] = "end" => idle)
          /\ \A k \in Others : pc'[k] = pc[k] /\ live'[k] = live[k]
      <3>1. UNCHANGED <<state, irq, idle>> /\ pc[Main] \in {"poll", "net"}
          BY <1>12, Zenon DEF CallDone
      <3>2. pc'[Main] \in {"end", "scan"} /\ (pc'[Main] = "end" => idle)
          BY <1>12, SMTT(30) DEF CallDone, Again
      <3>3. \A k \in Others : pc'[k] = pc[k]
          BY <1>12, SMTT(30) DEF CallDone
      <3>4. \A k \in Others : live'[k] = live[k]
        <4>1. live' = live \/ live' = [live EXCEPT ![0] = FALSE]
            BY <1>12, Zenon DEF CallDone
        <4>2. \A k \in Others : k \in Core /\ k # 0
            OBVIOUS
        <4> QED
            BY <4>1, <4>2, Zenon
      <3> QED
          BY <3>1, <3>2, <3>3, <3>4
    <2>2. \A k : Runnable(k)' <=> Runnable(k)
        BY <2>1 DEF Runnable
    <2>3. pc'[Main] = "scan" => scan' = 1
        BY <1>12, <1>b, <2>1, Zenon DEF CallDone, Linked
    <2>4. Scanning'
        BY <2>3 DEF Scanning
    <2>5. GuestsLive'
        BY <2>1 DEF GuestsLive
    <2>6. Ends'
        BY <2>1, <2>2 DEF Ends
    <2> QED
        BY <2>1, <2>4, <2>5, <2>6 DEF StillQuiet, InRound
  <1>13. CASE NetWait
      BY <1>13, LivesSame, Zenon DEF NetWait, Wait, Started
  <1>14. CASE NetJob
      BY <1>14, LivesSame, Zenon DEF NetJob, Started
  <1>15. ASSUME NEW k \in Others, CoreWait(k) PROVE Goal
      BY <1>15, LivesSame, Zenon DEF CoreWait, Wait, Started
  <1>16. ASSUME NEW k \in Others, CoreTake(k) PROVE Goal
    <2>1. /\ UNCHANGED <<state, irq, live, scan, run, idle, fresh>> /\ pc[k] = "take"
          /\ pc' = [pc EXCEPT ![k] = "slice"]
        BY <1>16, Zenon DEF CoreTake
    <2>2. \A j \in Core : Started(j)' <=> Started(j)
        BY <2>1, Zenon DEF Started
    <2> QED
        BY <2>1, <2>2, LivesSame, SMTT(30)
  <1>17. ASSUME NEW k \in Others, CoreGive(k) PROVE Goal
    <2>1. /\ UNCHANGED <<state, irq, live, scan, run, idle>> /\ pc[k] = "sliced"
          /\ pc' = [pc EXCEPT ![k] = "take"] /\ fresh' = fresh \cup {k}
        BY <1>17, Zenon DEF CoreGive
    <2>2. \A j \in Core : Started(j)' <=> Started(j)
        BY <2>1 DEF Started
    <2> QED
        BY <2>1, <2>2, LivesSame, SMTT(30)
  <1>18. ASSUME NEW k \in Core, SliceStart(k) PROVE Goal
    <2>1. /\ UNCHANGED <<irq, scan, run, idle, fresh>> /\ pc[k] = "slice"
          /\ pc' = [pc EXCEPT ![k] = IF Runnable(k) THEN "guest" ELSE "sliced"]
          /\ live' = [live EXCEPT ![k] = Runnable(k)]
          /\ ~Runnable(k) => state' = state
        BY <1>18, Zenon DEF SliceStart
    <2>2. pc[Main] \in InRound \ {"poll"} /\ pc'[Main] \in InRound \ {"poll"}
      <3>1. pc[Main] \in InRound \ {"poll"}
          BY <2>1, BusyInRound, Zenon DEF Busy
      <3> QED
          BY <2>1, <3>1 DEF InRound
    <2>3. ~Started(k) /\ (k # Main => InRun(k))
      <3>1. k # Main => k \in Others /\ Out(k)
          BY <2>1, BusyOut, SMTT(30) DEF Busy
      <3> QED
          BY <2>1, <3>1, SMTT(30) DEF Started, Out, Sent, InRun
    <2>4. \A j \in Core : j # k => (Started(j)' <=> Started(j)) /\ live'[j] = live[j]
        BY <2>1, Zenon DEF Started
    <2>5. Started(k)' /\ (live'[k] <=> Runnable(k))
        BY <2>1, Zenon DEF Started
    <2>6. StillQuiet'
      <3> SUFFICES ASSUME Quiet'
                   PROVE  /\ \A j \in Others : (Runnable(j)' <=> InRun(j)') /\ ~Started(j)'
                          /\ Started(Main)' => ~Runnable(Main)'
          BY DEF StillQuiet
      <3>1. Quiet
          BY <2>3, <2>4, Zenon DEF Quiet
      <3>2. ~Runnable(k) /\ state' = state
          BY <2>1, <2>5, Zenon DEF Quiet
      <3>3. \A j : (Runnable(j)' <=> Runnable(j)) /\ (InRun(j)' <=> InRun(j))
          BY <2>1, <3>2, Zenon DEF Runnable, InRun
      <3>4. \A j \in Others : (Runnable(j) <=> InRun(j)) /\ ~Started(j)
          BY <2>2, <3>1, Zenon DEF StillQuiet
      <3>5. k = Main
          BY <2>3, <3>2, <3>4
      <3>6. \A j \in Others : j \in Core /\ j # k
          BY <3>5
      <3> QED
          BY <2>4, <3>2, <3>3, <3>4, <3>5, <3>6, Zenon
    <2>7. GuestsLive'
        BY <2>1, Zenon DEF GuestsLive
    <2> QED
        BY <2>2, <2>6, <2>7, Zenon DEF Scanning, Ends, InRound
  <1>19. ASSUME NEW k \in Core, GuestStop(k) PROVE Goal
    <2>1. UNCHANGED <<live, fresh>> /\ pc[k] = "guest" /\ pc' = [pc EXCEPT ![k] = "sliced"]
        BY <1>19, Zenon DEF GuestStop
    <2>2. pc[Main] \in InRound \ {"poll"} /\ pc'[Main] \in InRound \ {"poll"}
      <3>1. pc[Main] \in InRound \ {"poll"}
          BY <2>1, BusyInRound, Zenon DEF Busy
      <3> QED
          BY <2>1, <3>1 DEF InRound
    <2>3. Started(k)' /\ live'[k]
        BY <2>1, Zenon DEF Started, GuestsLive
    <2>4. ~Quiet'
        BY <2>3, Zenon DEF Quiet
    <2>5. GuestsLive'
        BY <2>1, Zenon DEF GuestsLive
    <2> QED
        BY <2>2, <2>4, <2>5, Zenon DEF StillQuiet, Scanning, Ends, InRound
  <1>20. ASSUME NEW k \in Core, NEW j \in Core \ {k}, GuestPoke(k, j) PROVE Goal
    <2>1. UNCHANGED <<live, fresh>> /\ pc[k] = "guest" /\ pc' = pc
        BY <1>20, Zenon DEF GuestPoke
    <2>2. pc[Main] \in InRound \ {"poll"} /\ pc'[Main] \in InRound \ {"poll"}
      <3>1. pc[Main] \in InRound \ {"poll"}
          BY <2>1, BusyInRound, Zenon DEF Busy
      <3> QED
          BY <2>1, <3>1, Zenon DEF InRound
    <2>3. Started(k)' /\ live'[k]
        BY <2>1, Zenon DEF Started, GuestsLive
    <2>4. ~Quiet'
        BY <2>3, Zenon DEF Quiet
    <2>5. GuestsLive'
        BY <2>1, Zenon DEF GuestsLive
    <2> QED
        BY <2>2, <2>4, <2>5, Zenon DEF StillQuiet, Scanning, Ends, InRound
  <1>21. CASE UNCHANGED vars
      BY <1>21, LivesSame, Zenon DEF vars, Started
  <1> QED
      BY <1>1, <1>2, <1>3, <1>4, <1>5, <1>6, <1>7, <1>8, <1>9, <1>10, <1>11, <1>12,
         <1>13, <1>14, <1>15, <1>16, <1>17, <1>18, <1>19, <1>20, <1>21, Zenon
      DEF Next, MainStep, NetStep, CoreStep, SliceStep, Ended

-----------------------------------------------------------------------------

LEMMA RoundInit == Init => RoundInv
  <1> SUFFICES ASSUME Init PROVE RoundInv
      OBVIOUS
  <1>1. Shape
      BY ShapeInit, Zenon
  <1>2. pc[Main] = "scan" /\ \A k \in Others : pc[k] = "none"
    <2>1. pc = [t \in Task |-> IF t = 0 THEN "scan" ELSE "none"]
        BY DEF Init
    <2>2. 0 \in Task /\ \A k \in Others : k \in Task /\ k # 0
        OBVIOUS
    <2> QED
        BY <2>1, <2>2, Zenon
  <1>3. /\ \A t \in Task : note[t] = 0 /\ ahead[t] = {}
        /\ scan = 1 /\ run = <<>> /\ next = 0 /\ done = 0 /\ fresh = {} /\ ready = {Main}
      BY Zenon DEF Init
  <1>4. Queue
      BY <1>3, Zenon DEF Queue
  <1>5. Awake
      BY <1>2, <1>3, SMTT(30) DEF Awake, Busy
  <1>6. Handed
      BY <1>2, <1>3, SMTT(30) DEF Handed, Out, Sent
  <1>7. Tally
    <2>1. Answered = {}
        BY <1>3, Zenon DEF Answered
    <2> QED
        BY <1>2, <1>3, <2>1, FS_EmptySet, SMTT(30) DEF Tally
  <1>8. Scanning /\ StillQuiet /\ Ends
      BY <1>2, <1>3 DEF Scanning, StillQuiet, Ends, InRound
  <1>9. GuestsLive
    <2>1. \A k \in Core : k = 0 \/ k \in Others
        BY SMTT(30)
    <2> QED
        BY <1>2, <2>1, Zenon DEF GuestsLive
  <1> QED
      BY <1>1, <1>4, <1>5, <1>6, <1>7, <1>8, <1>9, Zenon DEF RoundInv

LEMMA RoundNext == RoundInv /\ [Next]_vars => RoundInv'
  <1> SUFFICES ASSUME RoundInv, [Next]_vars PROVE RoundInv'
      OBVIOUS
  <1>1. Shape' /\ Queue' /\ Awake'
      BY ShapeNext, QueueNext, AwakeNext, Zenon DEF RoundInv
  <1>2. Handed' /\ Tally'
      BY HandedNext, TallyNext, Zenon DEF RoundInv
  <1>3. Scanning' /\ StillQuiet' /\ GuestsLive' /\ Ends'
      BY <1>2, LivesNext, Zenon DEF RoundInv
  <1> QED
      BY <1>1, <1>2, <1>3, Zenon DEF RoundInv

LEMMA RoundBarrier == RoundInv => BarrierHolds
  <1> SUFFICES ASSUME RoundInv PROVE BarrierHolds
      OBVIOUS
  <1>1. TypeOK /\ At /\ Linked /\ Handed /\ Tally
      BY Zenon DEF RoundInv, Shape
  <1>2. run \in Seq(Others) /\ next \in 0 .. Len(run) /\ done \in Nat /\ note[Main] \in Nat
      BY <1>1 DEF TypeOK
  <1>3. done <= Len(run)
    <2>1. CASE pc[Main] = "net"
        BY <1>1, <1>2, <2>1, SMTT(30) DEF Linked, InRound
    <2>2. CASE pc[Main] # "net"
        BY <1>1, <1>2, <2>2, AnsweredFinite, SMTT(30) DEF Tally
    <2> QED
        BY <2>1, <2>2, Zenon
  <1>4. ASSUME pc[Main] \in {"scan", "end"} PROVE note[Main] = 0
    <2>1. Answered = {}
      <3>1. CASE pc[Main] = "scan"
          BY <1>2, <3>1, ScanFresh, RunCores, Zenon DEF RoundInv, Answered
      <3>2. CASE pc[Main] = "end"
          BY <1>1, <3>2, SMTT(30) DEF Linked, Answered
      <3> QED
          BY <1>4, <3>1, <3>2, Zenon
    <2> QED
        BY <1>1, <1>2, <1>4, <2>1, FS_EmptySet DEF Tally
  <1>5. ASSUME pc[Main] = "poll"
        PROVE  note[Main] = 0 /\ 0 \in fresh /\ \A i \in 1 .. Len(run) : run[i] \in fresh
      BY <1>1, <1>5, Zenon DEF Tally, Linked, Answered
  <1>6. ASSUME pc[Main] \in {"scan", "poll", "net", "end"}
        PROVE  \A k \in Others : pc[k] \in {"none", "take"} /\ note[k] = 0
    <2>1. CASE pc[Main] = "poll"
        BY <1>1, <2>1, NoneOut, Zenon DEF RoundInv, Handed
    <2>2. CASE pc[Main] # "poll"
      <3>1. next = 0
          BY <1>1, <1>6, <2>2, Zenon DEF Linked, InRound
      <3> QED
          BY <1>1, <3>1 DEF Handed, Out, Sent
    <2> QED
        BY <2>1, <2>2, Zenon
  <1> QED
      BY <1>1, <1>3, <1>4, <1>5, <1>6, Zenon DEF BarrierHolds

LEMMA RoundAlways == Spec => []RoundInv
  BY RoundInit, RoundNext, PTL DEF Spec

\* emu_os_system_step's wait is a barrier, for any number of cores and in both
\* builds: nothing is counted twice or left over, the results read are this
\* round's, and outside a round no core's task has work.
THEOREM TheBarrierHolds == Spec => []BarrierHolds
  BY RoundAlways, RoundBarrier, PTL

\* emu_run_system ends a run only when no core could run, whoever interrupted
\* or started whom in the last round.
THEOREM IdleIsTheEnd == Spec => []IdleIsTrue
  <1>1. RoundInv => IdleIsTrue
      BY DEF RoundInv, Ends, IdleIsTrue
  <1> QED
      BY RoundAlways, <1>1, PTL
============================================================================
