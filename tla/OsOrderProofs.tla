--------------------------- MODULE OsOrderProofs ---------------------------
(***************************************************************************)
(* The order of a round of OsRound on one FreeRTOS core, for every number  *)
(* of cores: core 0 and then the released cores, lowest first.             *)
(*                                                                         *)
(* On top of the round's own invariant (RoundInv of OsRoundProofs): the    *)
(* coordinator keeps the CPU until it blocks (MainFirst), those it         *)
(* released stand in its order (InOrder, Releasing), it comes behind them  *)
(* when it blocks (Behind), and so the turns are taken in that order       *)
(* (Numbered).                                                             *)
(***************************************************************************)
EXTENDS OsRoundProofs

\* ensure_core_tasks creates them all.
Created == (\A k \in Others : pc[k] = "none") \/ (\A k \in Others : pc[k] # "none")

\* The i-th core released has taken its turn.
Taken(i) == pc[run[i]] \in Busy \/ run[i] \in fresh

\* The cores' tasks stand in the order of their numbers.
InOrder == ~smp => \A j, k \in Others : j \in ready /\ k \in ready /\ j < k => j \in ahead[k]

\* The coordinator keeps the CPU until it blocks.
MainFirst == ~smp /\ pc[Main] \notin {"barrier", "net"} => OnCpu(Main)

\* Between rounds, and in one with nobody to release, the cores' tasks wait.
Resting == ~smp /\ (pc[Main] \notin InRound \ {"poll"} \/ run = <<>>) =>
              \A k \in Others : k \notin ready

\* While it releases: the tasks are new and all ready, or those released are;
\* nobody has taken a turn.
Releasing ==
    ~smp /\ pc[Main] = "release" =>
        /\ (\A k \in Others : k \in ready) \/ (\A k \in Others : k \in ready => Out(k))
        /\ roundPos = 0
        /\ \A i \in 1 .. Len(run) : ~Taken(i)

\* Nobody answers before it blocks, and once it has it is behind them all.
Behind ==
    ~smp =>
        /\ pc[Main] \in Busy \cup {"release"} => note[Main] = 0 /\ done = 0
        /\ pc[Main] = "barrier" =>
              \/ OnCpu(Main) /\ note[Main] = 0 /\ done = 0
              \/ Main \in ready =>
                      \A k \in Others : k \in ready => k \in ahead[Main]

\* The turns taken are the first ones, and each has its number.
Numbered ==
    ~smp /\ pc[Main] \in InRound \ {"release"} /\ run # <<>> =>
        /\ pos[0] = 0 /\ roundPos >= 1
        /\ \A i \in 1 .. Len(run) : (Taken(i) <=> i < roundPos) /\ (Taken(i) => pos[run[i]] = i)

\* The inductive invariant.
OrderInv ==
    /\ RoundInv
    /\ Created /\ InOrder /\ MainFirst /\ Resting /\ Releasing /\ Behind /\ Numbered

-----------------------------------------------------------------------------

USE RoundAssumption DEF Main, Net, Core, Others, Task

LEMMA CreatedNext == Shape /\ Created /\ [Next]_vars => Created'
  <1> SUFFICES ASSUME Shape, Created, [Next]_vars PROVE Created'
      OBVIOUS
  <1>a. pc \in [Task -> Places] /\ At
      BY DEF Shape, TypeOK, Places
  <1>b. ASSUME \A k \in Others : pc'[k] = "none" <=> pc[k] = "none" PROVE Created'
      BY <1>b, Zenon DEF Created
  <1> USE <1>a, <1>b DEF roundVars, kernelVars, guestVars, Goto
  <1>1. CASE Scan
      BY <1>1 DEF Scan
  <1>2. CASE Scanned
    <2>1. CASE run = <<>>
        BY <1>2, <2>1 DEF Scanned
    <2>2. CASE run # <<>>
        BY <1>2, <2>2, ScannedTo, Zenon DEF Created
    <2> QED
        BY <2>1, <2>2
  <1>3. CASE Release
      BY <1>3, Zenon DEF Release
  <1>4. CASE Released
      BY <1>4 DEF Released
  <1>5. CASE Sliced
      BY <1>5 DEF Sliced
  <1>6. CASE BarrierWait
      BY <1>6, Zenon DEF BarrierWait, Wait
  <1>7. CASE Barrier
      BY <1>7, Zenon DEF Barrier
  <1>8. CASE Sum
      BY <1>8 DEF Sum
  <1>9. CASE PollNone
      BY <1>9 DEF PollNone, Returned
  <1>10. CASE Poll
      BY <1>10 DEF Poll, Returned
  <1>11. CASE CallWait
      BY <1>11, Zenon DEF CallWait, Wait
  <1>12. CASE CallDone
      BY <1>12 DEF CallDone
  <1>13. CASE NetWait
      BY <1>13, Zenon DEF NetWait, Wait
  <1>14. CASE NetJob
      BY <1>14, Zenon DEF NetJob
  <1>15. ASSUME NEW k \in Others, CoreWait(k) PROVE Created'
      BY <1>15, Zenon DEF CoreWait, Wait
  <1>16. ASSUME NEW k \in Others, CoreTake(k) PROVE Created'
      BY <1>16 DEF CoreTake
  <1>17. ASSUME NEW k \in Others, CoreGive(k) PROVE Created'
      BY <1>17 DEF CoreGive
  <1>18. ASSUME NEW k \in Core, SliceStart(k) PROVE Created'
      BY <1>18 DEF SliceStart
  <1>19. ASSUME NEW k \in Core, GuestStop(k) PROVE Created'
      BY <1>19 DEF GuestStop
  <1>20. ASSUME NEW k \in Core, NEW j \in Core \ {k}, GuestPoke(k, j) PROVE Created'
      BY <1>20, Zenon DEF GuestPoke
  <1>21. CASE UNCHANGED vars
      BY <1>21 DEF vars, Created
  <1> QED
      BY <1>1, <1>2, <1>3, <1>4, <1>5, <1>6, <1>7, <1>8, <1>9, <1>10, <1>11, <1>12,
         <1>13, <1>14, <1>15, <1>16, <1>17, <1>18, <1>19, <1>20, <1>21, Zenon
      DEF Next, MainStep, NetStep, CoreStep, SliceStep, Ended

\* Another task has the CPU only when the coordinator has blocked.
LEMMA OnlyMain ==
  ASSUME KernelTyped, ~smp, Queue, MainFirst, NEW t \in Task, t # Main, OnCpu(t)
  PROVE  ~OnCpu(Main) /\ pc[Main] \in {"barrier", "net"}
  <1>1. ~OnCpu(Main)
    <2> SUFFICES ASSUME OnCpu(Main) PROVE FALSE
        OBVIOUS
    <2>1. t \in ready /\ ahead[t] = {} /\ Main \in ready /\ ahead[Main] = {}
        BY Zenon DEF OnCpu
    <2>2. t \in ahead[Main] \/ Main \in ahead[t]
        BY <2>1, Zenon DEF Queue
    <2> QED
        BY <2>1, <2>2
  <1> QED
      BY <1>1, Zenon DEF MainFirst

\* What Wait and MakeReady do to the others.
LEMMA WaitKernel ==
  ASSUME KernelTyped, NEW t \in Task, Wait(t)
  PROVE  /\ ready' = ready \ {t} /\ pc' = pc /\ note' = note
         /\ \A u \in Task : u # t => ahead'[u] = ahead[u] \ {t}
  BY Zenon DEF Wait

LEMMA ReadyOne ==
  ASSUME KernelTyped, NEW t \in Task, MakeReady({t})
  PROVE  /\ ready' = ready \cup {t}
         /\ \A u \in Task : u # t => ahead'[u] = ahead[u]
         /\ smp \/ t \in ready => ahead' = ahead
         /\ ~smp /\ t \notin ready => ahead'[t] = ready
  <1>1. ready' = ready \cup {t}
      BY Zenon DEF MakeReady
  <1>2. ahead' = [u \in Task |-> IF ~smp /\ u \in {t} \ ready
                                 THEN ready \cup {v \in {t} \ ready : v < u} ELSE ahead[u]]
      BY Zenon DEF MakeReady
  <1>3. \A u \in Task : u # t => ahead'[u] = ahead[u]
      BY <1>2, Zenon
  <1>4. ASSUME smp \/ t \in ready PROVE ahead' = ahead
    <2>1. ahead' = [u \in Task |-> ahead[u]]
        BY <1>2, <1>4
    <2> QED
        BY <2>1, Zenon DEF KernelTyped
  <1>5. ASSUME ~smp, t \notin ready PROVE ahead'[t] = ready
    <2>1. ahead'[t] = ready \cup {v \in {t} \ ready : v < t}
        BY <1>2, <1>5, Zenon
    <2>2. \A v \in {t} : ~(v < t)
        BY SMTT(30)
    <2> QED
        BY <2>1, <2>2, Zenon
  <1> QED
      BY <1>1, <1>3, <1>4, <1>5, Zenon

\* A release keeps the order: either the task is on the list already, or all
\* those on it were released before and have smaller numbers.
LEMMA InOrderNext ==
    Shape /\ Handed /\ Resting /\ Releasing /\ InOrder /\ [Next]_vars => InOrder'
  <1> SUFFICES ASSUME Shape, Handed, Resting, Releasing, InOrder, [Next]_vars PROVE InOrder'
      BY Zenon
  <1>a. /\ KernelTyped /\ smp \in BOOLEAN /\ pc \in [Task -> Places] /\ run \in Seq(Others)
        /\ next \in 0 .. Len(run)
      BY TypeParts DEF Shape, RestTyped, RoundTyped, Places
  <1>b. At /\ Rising /\ Linked
      BY DEF Shape
  <1>c. Net \in Task /\ Net \notin Others /\ Main \in Task /\ Main \notin Others
        /\ \A k \in Others : k \in Task
      BY SMTT(30)
  <1> USE <1>a, <1>c DEF roundVars, kernelVars, guestVars
  <1>1. CASE Scan
      BY <1>1, Zenon DEF Scan, InOrder
  <1>2. CASE Scanned
    <2>1. CASE run = <<>>
        BY <1>2, <2>1, Zenon DEF Scanned, InOrder
    <2>2. CASE run # <<>>
      <3> DEFINE T == {k \in Others : pc[k] = "none"}
      <3>1. MakeReady(T) /\ smp' = smp /\ pc[Main] = "scan"
          BY <1>2, <2>2 DEF Scanned
      <3>2. ASSUME ~smp PROVE \A k \in Others : k \notin ready
          BY <3>1, <3>2 DEF Resting, InRound
      <3>3. ready' = ready \cup T
          BY <3>1 DEF MakeReady
      <3>4. ASSUME ~smp, NEW k \in T \ ready PROVE {u \in T \ ready : u < k} \subseteq ahead'[k]
          BY <3>1, <3>4, Zenon DEF MakeReady
      <3> QED
          BY <3>1, <3>2, <3>3, <3>4, Zenon DEF InOrder
    <2> QED
        BY <2>1, <2>2
  <1>3. CASE Release
    <2>1. PICK k \in Others : k = run[next + 1]
        BY <1>3 DEF Release
    <2>2. MakeReady({k}) /\ smp' = smp /\ pc[Main] = "release" /\ next < Len(run)
        BY <1>3, <2>1, Zenon DEF Release, Give
    <2>3. CASE smp
        BY <2>2, <2>3, Zenon DEF InOrder
    <2>4. CASE ~smp /\ k \in ready
      <3>1. ready' = ready /\ ahead' = ahead
        <4>1. ready' = ready \cup {k} /\ ahead' = ahead
            BY <1>c, <2>2, <2>4, ReadyOne, Zenon
        <4> QED
            BY <2>4, <4>1
      <3> QED
          BY <2>2, <3>1, Zenon DEF InOrder
    <2>5. CASE ~smp /\ k \notin ready
      <3>1. /\ ready' = ready \cup {k} /\ ahead'[k] = ready
            /\ \A u \in Task : u # k => ahead'[u] = ahead[u]
          BY <2>2, <2>5, ReadyOne, Zenon
      <3>2. ASSUME NEW j \in Others, j \in ready PROVE j < k
        <4>1. Out(j)
            BY <2>2, <2>5, <3>2, Zenon DEF Releasing
        <4>2. PICK i \in 1 .. next : run[i] = j
            BY <4>1, Zenon DEF Out, Sent
        <4>3. i \in 1 .. Len(run) /\ next + 1 \in 1 .. Len(run) /\ i < next + 1
            BY <2>2
        <4> QED
            BY <1>b, <2>1, <4>2, <4>3, Zenon DEF Rising
      <3>3. ASSUME NEW j \in Others, NEW l \in Others, j \in ready', l \in ready', j < l
            PROVE  j \in ahead'[l]
        <4>1. CASE l = k
            BY <3>1, <3>3, <4>1, SMTT(30)
        <4>2. CASE l # k
          <5>1. l \in ready /\ l < k
              BY <3>1, <3>2, <3>3, <4>2, Zenon
          <5>2. j # k
              BY <3>3, <5>1, SMTT(30)
          <5> QED
              BY <2>5, <3>1, <3>3, <4>2, <5>1, <5>2, Zenon DEF InOrder
        <4> QED
            BY <4>1, <4>2, Zenon
      <3> QED
          BY <3>3, Zenon DEF InOrder
    <2> QED
        BY <2>3, <2>4, <2>5, Zenon
  <1>4. CASE Released
      BY <1>4, Zenon DEF Released, InOrder
  <1>5. CASE Sliced
      BY <1>5, Zenon DEF Sliced, InOrder
  <1>6. CASE BarrierWait
    <2>1. ready' = ready \ {Main} /\ \A u \in Task : u # Main => ahead'[u] = ahead[u] \ {Main}
        BY <1>6, WaitKernel, Zenon DEF BarrierWait
    <2>2. smp' = smp
        BY <1>6, Zenon DEF BarrierWait
    <2> QED
        BY <2>1, <2>2, Zenon DEF InOrder
  <1>7. CASE Barrier
      BY <1>7, Zenon DEF Barrier, InOrder
  <1>8. CASE Sum
      BY <1>8, Zenon DEF Sum, InOrder
  <1>9. CASE PollNone
      BY <1>9, Zenon DEF PollNone, InOrder
  <1>10. CASE Poll
    <2>1. ready' = ready \cup {Net} /\ \A u \in Task : u # Net => ahead'[u] = ahead[u]
        BY <1>10, ReadyOne, Zenon DEF Poll, Give
    <2>2. smp' = smp
        BY <1>10, Zenon DEF Poll
    <2> QED
        BY <2>1, <2>2, Zenon DEF InOrder
  <1>11. CASE CallWait
    <2>1. ready' = ready \ {Main} /\ \A u \in Task : u # Main => ahead'[u] = ahead[u] \ {Main}
        BY <1>11, WaitKernel, Zenon DEF CallWait
    <2>2. smp' = smp
        BY <1>11, Zenon DEF CallWait
    <2> QED
        BY <2>1, <2>2, Zenon DEF InOrder
  <1>12. CASE CallDone
      BY <1>12, Zenon DEF CallDone, InOrder
  <1>13. CASE NetWait
    <2>1. ready' = ready \ {Net} /\ \A u \in Task : u # Net => ahead'[u] = ahead[u] \ {Net}
        BY <1>13, WaitKernel, Zenon DEF NetWait
    <2>2. smp' = smp
        BY <1>13, Zenon DEF NetWait
    <2> QED
        BY <2>1, <2>2, Zenon DEF InOrder
  <1>14. CASE NetJob
    <2>1. ready' = ready \cup {Main} /\ \A u \in Task : u # Main => ahead'[u] = ahead[u]
        BY <1>14, ReadyOne, Zenon DEF NetJob
    <2>2. smp' = smp
        BY <1>14, Zenon DEF NetJob
    <2> QED
        BY <2>1, <2>2, Zenon DEF InOrder
  <1>15. ASSUME NEW k \in Others, CoreWait(k) PROVE InOrder'
    <2>1. ready' = ready \ {k} /\ \A u \in Task : u # k => ahead'[u] = ahead[u] \ {k}
        BY <1>15, WaitKernel, Zenon DEF CoreWait
    <2>2. smp' = smp
        BY <1>15, Zenon DEF CoreWait
    <2> QED
        BY <2>1, <2>2, Zenon DEF InOrder
  <1>16. ASSUME NEW k \in Others, CoreTake(k) PROVE InOrder'
      BY <1>16, Zenon DEF CoreTake, InOrder
  <1>17. ASSUME NEW k \in Others, CoreGive(k) PROVE InOrder'
    <2>1. ready' = ready \cup {Main} /\ \A u \in Task : u # Main => ahead'[u] = ahead[u]
        BY <1>17, ReadyOne, Zenon DEF CoreGive, Give
    <2>2. smp' = smp
        BY <1>17, Zenon DEF CoreGive
    <2> QED
        BY <2>1, <2>2, Zenon DEF InOrder
  <1>18. ASSUME NEW k \in Core, SliceStart(k) PROVE InOrder'
      BY <1>18, Zenon DEF SliceStart, InOrder
  <1>19. ASSUME NEW k \in Core, GuestStop(k) PROVE InOrder'
      BY <1>19, Zenon DEF GuestStop, InOrder
  <1>20. ASSUME NEW k \in Core, NEW j \in Core \ {k}, GuestPoke(k, j) PROVE InOrder'
      BY <1>20, Zenon DEF GuestPoke, InOrder
  <1>21. CASE UNCHANGED vars
      BY <1>21, Zenon DEF vars, InOrder
  <1> QED
      BY <1>1, <1>2, <1>3, <1>4, <1>5, <1>6, <1>7, <1>8, <1>9, <1>10, <1>11, <1>12,
         <1>13, <1>14, <1>15, <1>16, <1>17, <1>18, <1>19, <1>20, <1>21, Zenon
      DEF Next, MainStep, NetStep, CoreStep, SliceStep, Ended

LEMMA MainFirstNext == Shape /\ Queue /\ MainFirst /\ [Next]_vars => MainFirst'
  <1> SUFFICES ASSUME Shape, Queue, MainFirst, [Next]_vars PROVE MainFirst'
      OBVIOUS
  <1>a. /\ KernelTyped /\ smp \in BOOLEAN /\ pc \in [Task -> Places] /\ run \in Seq(Others)
        /\ next \in 0 .. Len(run)
      BY TypeParts DEF Shape, RestTyped, RoundTyped, Places
  <1>b. At /\ Rising /\ Linked
      BY DEF Shape
  <1>c. Net \in Task /\ Net \notin Others /\ Main \in Task /\ Main \notin Others /\ Net # Main
        /\ \A k \in Others : k \in Task /\ k # Main
      OBVIOUS
  <1>d. ASSUME NEW t \in Task, t # Main, OnCpu(t), smp' = smp, pc'[Main] = pc[Main]
        PROVE  MainFirst'
      BY <1>a, <1>d, OnlyMain, Zenon DEF MainFirst
  <1>e. ASSUME OnCpu(Main), UNCHANGED <<ready, ahead>> PROVE MainFirst'
      BY <1>e, Zenon DEF MainFirst, OnCpu
  <1> USE <1>a, <1>c DEF roundVars, kernelVars, guestVars, Goto
  <1>1. CASE Scan
      BY <1>1, <1>e, Zenon DEF Scan
  <1>2. CASE Scanned
    <2>1. CASE run = <<>>
        BY <1>2, <1>e, <2>1, Zenon DEF Scanned
    <2>2. CASE run # <<>>
      <3>1. MakeReady({k \in Others : pc[k] = "none"}) /\ OnCpu(Main)
          BY <1>2, <2>2, Zenon DEF Scanned
      <3>2. ready \subseteq ready' /\ ahead'[Main] = ahead[Main]
          BY <3>1, Zenon DEF MakeReady
      <3> QED
          BY <3>1, <3>2 DEF MainFirst, OnCpu
    <2> QED
        BY <2>1, <2>2, Zenon
  <1>3. CASE Release
    <2>1. PICK k \in Others : k = run[next + 1]
        BY <1>3, SMTT(30) DEF Release
    <2>2. MakeReady({k}) /\ OnCpu(Main)
        BY <1>3, <2>1, Zenon DEF Release, Give
    <2>3. ready' = ready \cup {k} /\ ahead'[Main] = ahead[Main]
        BY <2>2, ReadyOne, Zenon
    <2> QED
        BY <2>2, <2>3, Zenon DEF MainFirst, OnCpu
  <1>4. CASE Released
      BY <1>4, <1>e DEF Released
  <1>5. CASE Sliced
      BY <1>5, <1>e DEF Sliced
  <1>6. CASE BarrierWait
      BY <1>6, WaitKernel, Zenon DEF BarrierWait, MainFirst
  <1>7. CASE Barrier
      BY <1>7, <1>e, Zenon DEF Barrier
  <1>8. CASE Sum
      BY <1>8, <1>e, Zenon DEF Sum
  <1>9. CASE PollNone
      BY <1>9, <1>e, Zenon DEF PollNone
  <1>10. CASE Poll
      BY <1>10, Zenon DEF Poll, MainFirst
  <1>11. CASE CallWait
      BY <1>11, WaitKernel, Zenon DEF CallWait, MainFirst
  <1>12. CASE CallDone
      BY <1>12, <1>e, Zenon DEF CallDone
  <1>13. CASE NetWait
      BY <1>13, <1>d, Zenon DEF NetWait, Wait
  <1>14. CASE NetJob
      BY <1>14, <1>d, Zenon DEF NetJob
  <1>15. ASSUME NEW k \in Others, CoreWait(k) PROVE MainFirst'
      BY <1>15, <1>d, Zenon DEF CoreWait, Wait
  <1>16. ASSUME NEW k \in Others, CoreTake(k) PROVE MainFirst'
      BY <1>16, <1>d, Zenon DEF CoreTake
  <1>17. ASSUME NEW k \in Others, CoreGive(k) PROVE MainFirst'
      BY <1>17, <1>d, Zenon DEF CoreGive
  <1>18. ASSUME NEW k \in Core, SliceStart(k) PROVE MainFirst'
    <2>1. CASE k = Main
        BY <1>18, <1>e, <2>1, Zenon DEF SliceStart
    <2>2. CASE k # Main
        BY <1>18, <1>d, <2>2, SMTT(30) DEF SliceStart
    <2> QED
        BY <2>1, <2>2, Zenon
  <1>19. ASSUME NEW k \in Core, GuestStop(k) PROVE MainFirst'
    <2>1. CASE k = Main
        BY <1>19, <1>e, <2>1, Zenon DEF GuestStop
    <2>2. CASE k # Main
        BY <1>19, <1>d, <2>2 DEF GuestStop
    <2> QED
        BY <2>1, <2>2
  <1>20. ASSUME NEW k \in Core, NEW j \in Core \ {k}, GuestPoke(k, j) PROVE MainFirst'
    <2>1. CASE k = Main
        BY <1>20, <1>e, <2>1, Zenon DEF GuestPoke
    <2>2. CASE k # Main
        BY <1>20, <1>d, <2>2, SMTT(30) DEF GuestPoke
    <2> QED
        BY <2>1, <2>2, Zenon
  <1>21. CASE UNCHANGED vars
      BY <1>21, Zenon DEF vars, MainFirst, OnCpu
  <1> QED
      BY <1>1, <1>2, <1>3, <1>4, <1>5, <1>6, <1>7, <1>8, <1>9, <1>10, <1>11, <1>12,
         <1>13, <1>14, <1>15, <1>16, <1>17, <1>18, <1>19, <1>20, <1>21, Zenon
      DEF Next, MainStep, NetStep, CoreStep, SliceStep, Ended

\* When the coordinator goes on after the barrier it is behind all the others,
\* so there are none.
LEMMA RestingNext ==
    Shape /\ Queue /\ Resting /\ Behind /\ [Next]_vars => Resting'
  <1> SUFFICES ASSUME Shape, Queue, Resting, Behind, [Next]_vars PROVE Resting'
      BY Zenon
  <1>a. /\ KernelTyped /\ smp \in BOOLEAN /\ pc \in [Task -> Places] /\ run \in Seq(Others)
        /\ next \in 0 .. Len(run)
      BY TypeParts DEF Shape, RestTyped, RoundTyped, Places
  <1>b. At /\ Rising /\ Linked
      BY DEF Shape
  <1>c. Net \in Task /\ Net \notin Others /\ Main \in Task /\ Main \notin Others /\ Net # Main
        /\ \A k \in Others : k \in Task /\ k # Main
      OBVIOUS
  <1>d. ASSUME UNCHANGED <<smp, run>>, \A k \in Others : k \in ready' => k \in ready,
               pc'[Main] \notin InRound \ {"poll"} => pc[Main] \notin InRound \ {"poll"}
        PROVE  Resting'
      BY <1>d, Zenon DEF Resting
  <1> USE <1>a, <1>c, <1>d DEF roundVars, kernelVars, guestVars, Goto, InRound
  <1>1. CASE Scan
      BY <1>1, Zenon DEF Scan, Resting
  <1>2. CASE Scanned
    <2>1. CASE run = <<>>
        BY <1>2, <2>1, Zenon DEF Scanned, Resting
    <2>2. CASE run # <<>>
        BY <1>2, <2>2, ScannedTo, Zenon DEF Scanned, Resting
    <2> QED
        BY <2>1, <2>2
  <1>3. CASE Release
      BY <1>3, <1>b, Zenon DEF Release, Linked, Resting
  <1>4. CASE Released
      BY <1>4, Zenon DEF Released
  <1>5. CASE Sliced
      BY <1>5, Zenon DEF Sliced
  <1>6. CASE BarrierWait
      BY <1>6, WaitKernel, Zenon DEF BarrierWait
  <1>7. CASE Barrier
      BY <1>7, Zenon DEF Barrier
  <1>8. CASE Sum
    <2>1. OnCpu(Main) /\ pc[Main] = "barrier" /\ done >= Len(run) /\ UNCHANGED <<ready, smp>>
        BY <1>8, Zenon DEF Sum, Arrived
    <2>2. ASSUME ~smp PROVE \A k \in Others : k \notin ready
      <3>1. CASE done = 0
        <4>1. run = <<>>
            BY <2>1, <3>1, SMTT(30)
        <4> QED
            BY <2>2, <4>1, Zenon DEF Resting
      <3>2. CASE Main \in ready =>
                      \A k \in Others : k \in ready => k \in ahead[Main]
          BY <2>1, <3>2, Zenon DEF OnCpu
      <3> QED
          BY <2>1, <2>2, <3>1, <3>2, Zenon DEF Behind
    <2> QED
        BY <2>1, <2>2, Zenon DEF Resting
  <1>9. CASE PollNone
      BY <1>9, Zenon DEF PollNone, Resting
  <1>10. CASE Poll
      BY <1>10, ReadyOne, Zenon DEF Poll, Give, Resting
  <1>11. CASE CallWait
      BY <1>11, WaitKernel, Zenon DEF CallWait
  <1>12. CASE CallDone
    <2>1. pc[Main] = "net" /\ UNCHANGED <<ready, smp>>
        BY <1>12, Zenon DEF CallDone
    <2> QED
        BY <2>1, Zenon DEF Resting
  <1>13. CASE NetWait
      BY <1>13, WaitKernel, Zenon DEF NetWait
  <1>14. CASE NetJob
      BY <1>14, ReadyOne, SMTT(30) DEF NetJob
  <1>15. ASSUME NEW k \in Others, CoreWait(k) PROVE Resting'
      BY <1>15, WaitKernel, Zenon DEF CoreWait
  <1>16. ASSUME NEW k \in Others, CoreTake(k) PROVE Resting'
      BY <1>16, Zenon DEF CoreTake
  <1>17. ASSUME NEW k \in Others, CoreGive(k) PROVE Resting'
      BY <1>17, ReadyOne, SMTT(30) DEF CoreGive, Give
  <1>18. ASSUME NEW k \in Core, SliceStart(k) PROVE Resting'
      BY <1>18, Zenon DEF SliceStart
  <1>19. ASSUME NEW k \in Core, GuestStop(k) PROVE Resting'
      BY <1>19, Zenon DEF GuestStop
  <1>20. ASSUME NEW k \in Core, NEW j \in Core \ {k}, GuestPoke(k, j) PROVE Resting'
      BY <1>20, Zenon DEF GuestPoke
  <1>21. CASE UNCHANGED vars
      BY <1>21, Zenon DEF vars
  <1> QED
      BY <1>1, <1>2, <1>3, <1>4, <1>5, <1>6, <1>7, <1>8, <1>9, <1>10, <1>11, <1>12,
         <1>13, <1>14, <1>15, <1>16, <1>17, <1>18, <1>19, <1>20, <1>21, Zenon
      DEF Next, MainStep, NetStep, CoreStep, SliceStep, Ended

LEMMA ReleasingNext ==
    Shape /\ Queue /\ Handed /\ Created /\ MainFirst /\ Resting /\ Releasing /\ [Next]_vars
    => Releasing'
  <1> SUFFICES ASSUME Shape, Queue, Handed, Created, MainFirst, Resting, Releasing, [Next]_vars
               PROVE  Releasing'
      BY Zenon
  <1>a. /\ KernelTyped /\ smp \in BOOLEAN /\ pc \in [Task -> Places] /\ run \in Seq(Others)
        /\ next \in 0 .. Len(run) /\ done \in Nat /\ roundPos \in Nat /\ pos \in [Core -> Nat]
      BY TypeParts DEF Shape, RestTyped, RoundTyped, Places
  <1>b. At /\ Rising /\ Linked
      BY Zenon DEF Shape
  <1>c. Net \in Task /\ Net \notin Others /\ Main \in Task /\ Main \notin Others /\ Net # Main
        /\ \A k \in Others : k \in Task /\ k # Main
      BY SMTT(30)
  <1>d. ASSUME NEW t \in Task, t # Main, OnCpu(t), smp' = smp, pc'[Main] = pc[Main]
        PROVE  Releasing'
      BY <1>a, <1>d, OnlyMain, Zenon DEF Releasing
  <1>e. ASSUME pc'[Main] # "release" PROVE Releasing'
      BY <1>e, Zenon DEF Releasing
  <1> USE <1>a, <1>c DEF roundVars, kernelVars, guestVars, Goto
  <1>1. CASE Scan
      BY <1>1, <1>e, Zenon DEF Scan
  <1>2. CASE Scanned
    <2>1. CASE run = <<>>
        BY <1>2, <1>e, <2>1, Zenon DEF Scanned
    <2>2. CASE run # <<>>
      <3> SUFFICES ASSUME ~smp
                   PROVE  /\ \/ \A k \in Others : k \in ready'
                             \/ \A k \in Others : k \in ready' => Out(k)'
                          /\ roundPos' = 0
                          /\ \A i \in 1 .. Len(run') : ~Taken(i)'
          BY <1>2 DEF Scanned, Releasing
      <3>1. /\ pc[Main] = "scan" /\ roundPos' = 0 /\ UNCHANGED <<run, fresh>>
            /\ ready' = ready \cup {k \in Others : pc[k] = "none"}
          BY <1>2, <2>2 DEF Scanned, MakeReady
      <3>2. (\A k \in Others : k \in ready') \/ (\A k \in Others : k \notin ready')
        <4>1. \A k \in Others : k \notin ready
            BY <3>1, Zenon DEF Resting, InRound
        <4>2. \A k \in Others : k \in ready' <=> pc[k] = "none"
            BY <3>1, <4>1, Zenon
        <4> QED
            BY <4>2, Zenon DEF Created
      <3>3. \A k \in Others : k \notin fresh
          BY <3>1, ScanFresh, Zenon
      <3>4. \A k \in Others : pc[k] \notin Busy
          BY <3>1, ScanFresh, Zenon
      <3>5. \A k \in Others : pc'[k] \notin Busy
          BY <1>2, <2>2, <3>4, ScannedTo, Zenon DEF Busy
      <3>6. \A i \in 1 .. Len(run') : run'[i] \in Others
          BY <3>1, RunCores
      <3> QED
          BY <3>1, <3>2, <3>3, <3>5, <3>6, Zenon DEF Taken
    <2> QED
        BY <2>1, <2>2
  <1>3. CASE Release
    <2>1. PICK k \in Others : k = run[next + 1]
        BY <1>3, SMTT(30) DEF Release
    <2>2. /\ MakeReady({k}) /\ pc[Main] = "release" /\ next < Len(run) /\ next' = next + 1
          /\ UNCHANGED <<smp, pc, run, fresh, roundPos>>
        BY <1>3, <2>1, Zenon DEF Release, Give
    <2>3. ready' = ready \cup {k}
        BY <2>2, ReadyOne, Zenon
    <2>4. k \notin fresh
      <3>1. ~Sent(k)
        <4> SUFFICES ASSUME NEW i \in 1 .. next, run[i] = k PROVE FALSE
            BY DEF Sent
        <4>1. i \in 1 .. Len(run) /\ next + 1 \in 1 .. Len(run) /\ i < next + 1
            BY <2>2, SMTT(30)
        <4>2. run[i] < run[next + 1]
            BY <1>b, <4>1, Zenon DEF Rising
        <4> QED
            BY <2>1, <4>2, SMTT(30)
      <3> QED
          BY <3>1, Zenon DEF Handed
    <2>5. 1 .. next' = (1 .. next) \cup {next + 1}
        BY <2>2, SMTT(30)
    <2>6. \A j \in Others : (Out(j) => Out(j)') /\ (j = k => Out(j)')
        BY <2>1, <2>2, <2>4, <2>5, Zenon DEF Out, Sent
    <2>7. \A i \in 1 .. Len(run) : Taken(i)' <=> Taken(i)
        BY <2>2, Zenon DEF Taken
    <2> QED
        BY <2>2, <2>3, <2>6, <2>7, Zenon DEF Releasing
  <1>4. CASE Released
      BY <1>4, <1>e, Zenon DEF Released
  <1>5. CASE Sliced
      BY <1>5, <1>e, Zenon DEF Sliced
  <1>6. CASE BarrierWait
      BY <1>6, <1>e, Zenon DEF BarrierWait, Wait
  <1>7. CASE Barrier
      BY <1>7, <1>e, Zenon DEF Barrier
  <1>8. CASE Sum
      BY <1>8, <1>e, Zenon DEF Sum
  <1>9. CASE PollNone
      BY <1>9, <1>e, Zenon DEF PollNone, Again
  <1>10. CASE Poll
      BY <1>10, <1>e, Zenon DEF Poll
  <1>11. CASE CallWait
      BY <1>11, <1>e, Zenon DEF CallWait, Wait
  <1>12. CASE CallDone
      BY <1>12, <1>e, Zenon DEF CallDone, Again
  <1>13. CASE NetWait
      BY <1>13, <1>d, Zenon DEF NetWait, Wait
  <1>14. CASE NetJob
      BY <1>14, <1>d, Zenon DEF NetJob
  <1>15. ASSUME NEW k \in Others, CoreWait(k) PROVE Releasing'
      BY <1>15, <1>d, Zenon DEF CoreWait, Wait
  <1>16. ASSUME NEW k \in Others, CoreTake(k) PROVE Releasing'
      BY <1>16, <1>d, Zenon DEF CoreTake
  <1>17. ASSUME NEW k \in Others, CoreGive(k) PROVE Releasing'
      BY <1>17, <1>d, Zenon DEF CoreGive
  <1>18. ASSUME NEW k \in Core, SliceStart(k) PROVE Releasing'
    <2>1. CASE k = Main
        BY <1>18, <1>e, <2>1, Zenon DEF SliceStart
    <2>2. CASE k # Main
        BY <1>18, <1>d, <2>2, SMTT(30) DEF SliceStart
    <2> QED
        BY <2>1, <2>2, Zenon
  <1>19. ASSUME NEW k \in Core, GuestStop(k) PROVE Releasing'
    <2>1. CASE k = Main
        BY <1>19, <1>e, <2>1, Zenon DEF GuestStop
    <2>2. CASE k # Main
        BY <1>19, <1>d, <2>2, SMTT(30) DEF GuestStop
    <2> QED
        BY <2>1, <2>2
  <1>20. ASSUME NEW k \in Core, NEW j \in Core \ {k}, GuestPoke(k, j) PROVE Releasing'
    <2>1. CASE k = Main
        BY <1>20, <1>e, <2>1, Zenon DEF GuestPoke
    <2>2. CASE k # Main
        BY <1>20, <1>d, <2>2, SMTT(30) DEF GuestPoke
    <2> QED
        BY <2>1, <2>2, Zenon
  <1>21. CASE UNCHANGED vars
      BY <1>21, Zenon DEF vars, Releasing, Out, Sent, Taken
  <1> QED
      BY <1>1, <1>2, <1>3, <1>4, <1>5, <1>6, <1>7, <1>8, <1>9, <1>10, <1>11, <1>12,
         <1>13, <1>14, <1>15, <1>16, <1>17, <1>18, <1>19, <1>20, <1>21, Zenon
      DEF Next, MainStep, NetStep, CoreStep, SliceStep, Ended

LEMMA BehindNext ==
    Shape /\ Queue /\ Handed /\ Tally /\ MainFirst /\ Behind /\ [Next]_vars => Behind'
  <1> SUFFICES ASSUME Shape, Queue, Handed, Tally, MainFirst, Behind, [Next]_vars PROVE Behind'
      BY Zenon
  <1>a. /\ KernelTyped /\ smp \in BOOLEAN /\ pc \in [Task -> Places] /\ run \in Seq(Others)
        /\ next \in 0 .. Len(run) /\ done \in Nat /\ roundPos \in Nat /\ pos \in [Core -> Nat]
      BY TypeParts DEF Shape, RestTyped, RoundTyped, Places
  <1>b. At /\ Rising /\ Linked
      BY DEF Shape
  <1>c. Net \in Task /\ Net \notin Others /\ Main \in Task /\ Main \notin Others /\ Net # Main
        /\ \A k \in Others : k \in Task /\ k # Main
      BY SMTT(30)
  <1>d. ASSUME pc'[Main] \notin Busy \cup {"release", "barrier"} PROVE Behind'
      BY <1>d, Zenon DEF Behind
  <1>e. ASSUME NEW t \in Task, t # Main, OnCpu(t), ~smp
        PROVE  /\ pc[Main] \notin Busy \cup {"release"}
               /\ pc[Main] = "barrier" /\ Main \in ready =>
                      \A k \in Others : k \in ready => k \in ahead[Main]
      BY <1>a, <1>e, OnlyMain, Zenon DEF Behind, Busy
  <1>f. note \in [Task -> Nat]
      BY <1>a, Zenon DEF KernelTyped
  <1> USE <1>a, <1>c, <1>f DEF roundVars, kernelVars, guestVars, Goto
  <1>1. CASE Scan
      BY <1>1, <1>d, Zenon DEF Scan, Busy
  <1>2. CASE Scanned
    <2>1. UNCHANGED <<smp, note, done>> /\ pc[Main] = "scan"
        BY <1>2 DEF Scanned
    <2>2. pc'[Main] \in {"slice", "release"}
      <3>1. CASE run = <<>>
          BY <1>2, <3>1, Zenon DEF Scanned
      <3>2. CASE run # <<>>
          BY <1>2, <3>2, ScannedTo, Zenon
      <3> QED
          BY <3>1, <3>2
    <2>3. \A k \in Others : k \notin fresh
        BY <2>1, ScanFresh, Zenon
    <2>4. \A i \in 1 .. Len(run) : run[i] \in Others
        BY RunCores, Zenon
    <2>5. Answered = {}
        BY <2>3, <2>4, Zenon DEF Answered
    <2>6. done + note[Main] = 0
        BY <2>1, <2>5, FS_EmptySet, Zenon DEF Tally
    <2>7. done = 0 /\ note[Main] = 0
        BY <2>6, SMTT(30)
    <2> QED
        BY <2>1, <2>2, <2>7, Zenon DEF Behind
  <1>3. CASE Release
    <2>1. PICK k \in Others : k = run[next + 1]
        BY <1>3, SMTT(30) DEF Release
    <2>2. pc' = pc /\ pc[Main] = "release" /\ note'[Main] = note[Main] /\ done' = done /\ smp' = smp
        BY <1>3, <2>1, Zenon DEF Release, Give
    <2> QED
        BY <2>2, Zenon DEF Behind
  <1>4. CASE Released
    <2>1. pc[Main] = "release" /\ pc'[Main] = "slice" /\ UNCHANGED <<smp, note, done>>
        BY <1>4, Zenon DEF Released
    <2> QED
        BY <2>1, Zenon DEF Behind
  <1>5. CASE Sliced
    <2>1. /\ pc[Main] = "sliced" /\ pc'[Main] = "barrier" /\ OnCpu(Main)
          /\ UNCHANGED <<smp, note, done, ready, ahead>>
        BY <1>5, Zenon DEF Sliced
    <2> QED
        BY <2>1, Zenon DEF Behind, Busy, OnCpu
  <1>6. CASE BarrierWait
    <2>1. ready' = ready \ {Main} /\ pc' = pc /\ pc[Main] = "barrier"
        BY <1>6, WaitKernel, Zenon DEF BarrierWait
    <2> QED
        BY <2>1, Zenon DEF Behind, Busy
  <1>7. CASE Barrier
    <2>1. pc' = pc /\ pc[Main] = "barrier" /\ note[Main] > 0 /\ UNCHANGED <<smp, ready, ahead>>
        BY <1>7, Zenon DEF Barrier
    <2> QED
        BY <2>1, SMTT(30) DEF Behind, Busy
  <1>8. CASE Sum
      BY <1>8, <1>d, Zenon DEF Sum, Busy
  <1>9. CASE PollNone
      BY <1>9, <1>d, Zenon DEF PollNone, Again, Busy
  <1>10. CASE Poll
      BY <1>10, <1>d, Zenon DEF Poll, Busy
  <1>11. CASE CallWait
      BY <1>11, <1>d, Zenon DEF CallWait, Wait, Busy
  <1>12. CASE CallDone
      BY <1>12, <1>d, Zenon DEF CallDone, Again, Busy
  <1>13. CASE NetWait
    <2>1. /\ ready' = ready \ {Net} /\ ahead'[Main] = ahead[Main] \ {Net}
          /\ OnCpu(Net) /\ smp' = smp /\ pc' = pc
        BY <1>13, WaitKernel, Zenon DEF NetWait
    <2> QED
        BY <1>e, <2>1, Zenon DEF Behind
  <1>14. CASE NetJob
    <2>1. note[Net] > 0 /\ pc' = pc
        BY <1>14, Zenon DEF NetJob
    <2>2. pc[Main] = "net"
        BY <2>1, SMTT(30) DEF Tally
    <2> QED
        BY <1>d, <2>1, <2>2, Zenon DEF Busy
  <1>15. ASSUME NEW k \in Others, CoreWait(k) PROVE Behind'
    <2>1. /\ ready' = ready \ {k} /\ ahead'[Main] = ahead[Main] \ {k}
          /\ OnCpu(k) /\ smp' = smp /\ pc' = pc
        BY <1>15, WaitKernel, Zenon DEF CoreWait
    <2> QED
        BY <1>e, <2>1, Zenon DEF Behind
  <1>16. ASSUME NEW k \in Others, CoreTake(k) PROVE Behind'
    <2>1. /\ UNCHANGED <<ready, ahead, smp>> /\ OnCpu(k) /\ pc'[Main] = pc[Main]
        BY <1>16, Zenon DEF CoreTake
    <2> QED
        BY <1>e, <2>1, Zenon DEF Behind
  <1>17. ASSUME NEW k \in Others, CoreGive(k) PROVE Behind'
    <2>1. /\ MakeReady({Main}) /\ OnCpu(k) /\ smp' = smp /\ pc'[Main] = pc[Main]
        BY <1>17, Zenon DEF CoreGive, Give
    <2>2. CASE Main \in ready
      <3>1. ready' = ready \cup {Main} /\ ahead' = ahead
          BY <2>1, <2>2, ReadyOne, Zenon
      <3> QED
          BY <1>e, <2>1, <2>2, <3>1, Zenon DEF Behind
    <2>3. CASE Main \notin ready
      <3>1. ready' = ready \cup {Main} /\ (~smp => ahead'[Main] = ready)
          BY <2>1, <2>3, ReadyOne, Zenon
      <3> QED
          BY <1>e, <2>1, <3>1, Zenon DEF Behind
    <2> QED
        BY <2>2, <2>3, Zenon
  <1>18. ASSUME NEW k \in Core, SliceStart(k) PROVE Behind'
    <2>1. UNCHANGED <<smp, note, ready, ahead, done>>
        BY <1>18, Zenon DEF SliceStart
    <2>2. pc'[Main] = pc[Main] \/ (pc[Main] \in Busy /\ pc'[Main] \in Busy)
        BY <1>18, Zenon DEF SliceStart, Busy
    <2> QED
        BY <2>1, <2>2, Zenon DEF Behind, OnCpu, Busy
  <1>19. ASSUME NEW k \in Core, GuestStop(k) PROVE Behind'
    <2>1. UNCHANGED <<smp, note, ready, ahead, done>>
        BY <1>19, Zenon DEF GuestStop
    <2>2. pc'[Main] = pc[Main] \/ (pc[Main] \in Busy /\ pc'[Main] \in Busy)
        BY <1>19, Zenon DEF GuestStop, Busy
    <2> QED
        BY <2>1, <2>2, SMTT(30) DEF Behind, OnCpu, Busy
  <1>20. ASSUME NEW k \in Core, NEW j \in Core \ {k}, GuestPoke(k, j) PROVE Behind'
    <2>1. UNCHANGED <<smp, note, ready, ahead, done>>
        BY <1>20, Zenon DEF GuestPoke
    <2>2. pc'[Main] = pc[Main] \/ (pc[Main] \in Busy /\ pc'[Main] \in Busy)
        BY <1>20, Zenon DEF GuestPoke, Busy
    <2> QED
        BY <2>1, <2>2, Zenon DEF Behind, OnCpu, Busy
  <1>21. CASE UNCHANGED vars
      BY <1>21, Zenon DEF vars, Behind, OnCpu
  <1> QED
      BY <1>1, <1>2, <1>3, <1>4, <1>5, <1>6, <1>7, <1>8, <1>9, <1>10, <1>11, <1>12,
         <1>13, <1>14, <1>15, <1>16, <1>17, <1>18, <1>19, <1>20, <1>21, Zenon
      DEF Next, MainStep, NetStep, CoreStep, SliceStep, Ended

LEMMA NumberedSame ==
  ASSUME Numbered, UNCHANGED <<smp, run, pos, roundPos>>,
         pc'[Main] \in InRound \ {"release"} => pc[Main] \in InRound \ {"release"},
         \A i \in 1 .. Len(run) : Taken(i)' <=> Taken(i)
  PROVE  Numbered'
  BY Zenon DEF Numbered

\* The task that takes its turn is first on the list, so those released before
\* it have had theirs: its number is the next.
LEMMA NumberedNext ==
    /\ Shape /\ Queue /\ Awake /\ Handed
    /\ MainFirst /\ InOrder /\ Releasing /\ Numbered /\ [Next]_vars
    => Numbered'
  <1> SUFFICES ASSUME Shape, Queue, Awake, Handed,
                      MainFirst, InOrder, Releasing, Numbered, [Next]_vars
               PROVE  Numbered'
      BY Zenon
  <1>a. /\ KernelTyped /\ smp \in BOOLEAN /\ pc \in [Task -> Places] /\ run \in Seq(Others)
        /\ next \in 0 .. Len(run) /\ roundPos \in Nat /\ pos \in [Core -> Nat]
      BY TypeParts DEF Shape, RestTyped, RoundTyped, Places
  <1>b. At /\ Rising /\ Linked
      BY Zenon DEF Shape
  <1>c. \A i \in 1 .. Len(run) :
            run[i] \in Others /\ run[i] \in Task /\ run[i] \in Core /\ run[i] # 0
      BY <1>a, RunCores, SMTT(30)
  <1>d. ASSUME pc'[Main] \notin InRound \ {"release"} PROVE Numbered'
      BY <1>d DEF Numbered
  <1>e. ASSUME UNCHANGED <<run, fresh>>, \A k \in Others : pc'[k] \in Busy <=> pc[k] \in Busy
        PROVE  \A i \in 1 .. Len(run) : Taken(i)' <=> Taken(i)
      BY <1>c, <1>e, Zenon DEF Taken
  <1> USE DEF roundVars, kernelVars, guestVars, Goto
  <1>1. CASE Scan
      BY <1>1, <1>a, <1>d, Zenon DEF Scan, InRound
  <1>2. CASE Scanned
    <2>1. CASE run = <<>>
        BY <1>2, <2>1, Zenon DEF Scanned, Numbered
    <2>2. CASE run # <<>>
        BY <1>2, <1>d, <2>2, ScannedTo, Zenon
    <2> QED
        BY <2>1, <2>2
  <1>3. CASE Release
      BY <1>3, <1>a, <1>d, Zenon DEF Release, InRound
  <1>4. CASE Released
    <2>1. pc[Main] = "release" /\ UNCHANGED <<smp, run, fresh>> /\ \A k \in Others : pc'[k] = pc[k]
        BY <1>4, <1>a, SMTT(30) DEF Released
    <2>2. \A i \in 1 .. Len(run) : Taken(i)' <=> Taken(i)
        BY <1>e, <2>1, Zenon
    <2>3. ASSUME ~smp PROVE roundPos' = 1 /\ pos'[0] = 0 /\ \A i \in 1 .. Len(run) : ~Taken(i)
      <3>1. roundPos = 0 /\ \A i \in 1 .. Len(run) : ~Taken(i)
          BY <2>1, <2>3, Zenon DEF Releasing
      <3>2. pos' = [pos EXCEPT ![0] = roundPos] /\ roundPos' = roundPos + 1
          BY <1>4, <2>3, Zenon DEF Released
      <3> QED
          BY <1>a, <3>1, <3>2, SMTT(30)
    <2>4. \A i \in 1 .. Len(run) : ~(i < 1)
        OBVIOUS
    <2> QED
        BY <2>1, <2>2, <2>3, <2>4, SMTT(30) DEF Numbered
  <1>5. CASE Sliced
    <2>1. /\ UNCHANGED <<smp, run, pos, roundPos>> /\ pc[Main] = "sliced" /\ fresh' = fresh \cup {0}
          /\ \A k \in Others : pc'[k] = pc[k]
        BY <1>5, <1>a, SMTT(30) DEF Sliced
    <2>2. \A i \in 1 .. Len(run) : Taken(i)' <=> Taken(i)
        BY <1>c, <2>1, Zenon DEF Taken
    <2> QED
        BY <2>1, <2>2, NumberedSame, Zenon DEF InRound
  <1>6. CASE BarrierWait
    <2>1. UNCHANGED <<smp, run, fresh, pos, roundPos>> /\ \A k \in Others : pc'[k] = pc[k]
        BY <1>6, <1>a, Zenon DEF BarrierWait, Wait
    <2>2. pc'[Main] \in InRound \ {"release"} => pc[Main] \in InRound \ {"release"}
        BY <1>6, <1>a, Zenon DEF BarrierWait, Wait, InRound
    <2> QED
        BY <1>e, <2>1, <2>2, NumberedSame, Zenon
  <1>7. CASE Barrier
    <2>1. UNCHANGED <<smp, run, fresh, pos, roundPos>> /\ \A k \in Others : pc'[k] = pc[k]
        BY <1>7, <1>a, Zenon DEF Barrier
    <2>2. pc'[Main] \in InRound \ {"release"} => pc[Main] \in InRound \ {"release"}
        BY <1>7, <1>a, Zenon DEF Barrier, InRound
    <2> QED
        BY <1>e, <2>1, <2>2, NumberedSame
  <1>8. CASE Sum
    <2>1. UNCHANGED <<smp, run, fresh, pos, roundPos>> /\ \A k \in Others : pc'[k] = pc[k]
        BY <1>8, <1>a, SMTT(30) DEF Sum
    <2>2. pc'[Main] \in InRound \ {"release"} => pc[Main] \in InRound \ {"release"}
        BY <1>8, <1>a, Zenon DEF Sum, InRound
    <2> QED
        BY <1>e, <2>1, <2>2, NumberedSame
  <1>9. CASE PollNone
      BY <1>9, <1>a, <1>d, SMTT(30) DEF PollNone, Again, InRound
  <1>10. CASE Poll
      BY <1>10, <1>a, <1>d, SMTT(30) DEF Poll, InRound
  <1>11. CASE CallWait
    <2>1. UNCHANGED <<smp, run, fresh, pos, roundPos>> /\ \A k \in Others : pc'[k] = pc[k]
        BY <1>11, <1>a, Zenon DEF CallWait, Wait
    <2>2. pc'[Main] \in InRound \ {"release"} => pc[Main] \in InRound \ {"release"}
        BY <1>11, <1>a, Zenon DEF CallWait, Wait, InRound
    <2> QED
        BY <1>e, <2>1, <2>2, NumberedSame
  <1>12. CASE CallDone
      BY <1>12, <1>a, <1>d, Zenon DEF CallDone, Again, InRound
  <1>13. CASE NetWait
    <2>1. UNCHANGED <<smp, run, fresh, pos, roundPos>> /\ \A k \in Others : pc'[k] = pc[k]
        BY <1>13, <1>a, Zenon DEF NetWait, Wait
    <2>2. pc'[Main] \in InRound \ {"release"} => pc[Main] \in InRound \ {"release"}
        BY <1>13, <1>a, Zenon DEF NetWait, Wait, InRound
    <2> QED
        BY <1>e, <2>1, <2>2, NumberedSame
  <1>14. CASE NetJob
    <2>1. UNCHANGED <<smp, run, fresh, pos, roundPos>> /\ \A k \in Others : pc'[k] = pc[k]
        BY <1>14, <1>a, Zenon DEF NetJob
    <2>2. pc'[Main] \in InRound \ {"release"} => pc[Main] \in InRound \ {"release"}
        BY <1>14, <1>a, Zenon DEF NetJob, InRound
    <2> QED
        BY <1>e, <2>1, <2>2, NumberedSame
  <1>15. ASSUME NEW k \in Others, CoreWait(k) PROVE Numbered'
    <2>1. UNCHANGED <<smp, run, fresh, pos, roundPos>> /\ \A o \in Others : pc'[o] = pc[o]
        BY <1>15, <1>a, Zenon DEF CoreWait, Wait
    <2>2. pc'[Main] \in InRound \ {"release"} => pc[Main] \in InRound \ {"release"}
        BY <1>15, <1>a, Zenon DEF CoreWait, Wait, InRound
    <2> QED
        BY <1>e, <2>1, <2>2, NumberedSame, Zenon
  <1>16. ASSUME NEW k \in Others, CoreTake(k) PROVE Numbered'
    <2>1. CASE smp
        BY <1>16, <2>1, Zenon DEF CoreTake, Numbered
    <2>2. CASE ~smp
      <3>1. /\ UNCHANGED <<smp, run, fresh>> /\ OnCpu(k) /\ pc[k] = "take" /\ note[k] > 0
            /\ pos' = [pos EXCEPT ![k] = roundPos] /\ roundPos' = roundPos + 1
            /\ pc' = [pc EXCEPT ![k] = "slice"]
          BY <1>16, <2>2, Zenon DEF CoreTake
      <3>2. pc[Main] \in {"barrier", "net"}
          BY <1>a, <2>2, <3>1, OnlyMain, SMTT(30)
      <3>3. Out(k)
          BY <3>1 DEF Handed
      <3>4. PICK i \in 1 .. next : run[i] = k
          BY <3>3, Zenon DEF Out, Sent
      <3>5. pc[Main] = "barrier" /\ i \in 1 .. Len(run) /\ run # <<>>
          BY <1>a, <1>b, <3>2, <3>4, SMTT(30) DEF Linked, InRound
      <3>6. /\ pos[0] = 0 /\ roundPos >= 1
            /\ \A m \in 1 .. Len(run) : (Taken(m) <=> m < roundPos) /\ (Taken(m) => pos[run[m]] = m)
          BY <2>2, <3>5, Zenon DEF Numbered, InRound
      <3>7. ~Taken(i)
          BY <3>1, <3>3, <3>4, Zenon DEF Taken, Out, Busy
      <3>8. roundPos = i
        <4>1. ~(i < roundPos)
            BY <3>5, <3>6, <3>7, Zenon
        <4>2. ASSUME roundPos < i PROVE FALSE
          <5>1. roundPos \in 1 .. Len(run) /\ roundPos \in 1 .. next /\ ~(roundPos < roundPos)
              BY <1>a, <3>4, <3>5, <3>6, <4>2, SMTT(30)
          <5>2. ~Taken(roundPos)
              BY <3>6, <5>1, Zenon
          <5>3. run[roundPos] \in Others /\ run[roundPos] < k
              BY <1>b, <1>c, <3>4, <3>5, <4>2, <5>1, Zenon DEF Rising
          <5>4. Out(run[roundPos])
              BY <5>1, <5>2, Zenon DEF Taken, Out, Sent
          <5>5. note[run[roundPos]] = 1
              BY <5>2, <5>3, <5>4, Zenon DEF Taken, Handed
          <5>6. run[roundPos] \in ready /\ k \in ready /\ ahead[k] = {}
              BY <3>1, <5>3, <5>5, SMTT(30) DEF Awake, OnCpu
          <5> QED
              BY <2>2, <5>3, <5>6, Zenon DEF InOrder
        <4> QED
            BY <1>a, <3>4, <4>1, <4>2, SMTT(30)
      <3>9. \A m \in 1 .. Len(run) : m # i => run[m] # k
        <4> TAKE m \in 1 .. Len(run)
        <4> HAVE m # i
        <4>1. m < i \/ i < m
            BY <3>5
        <4>2. run[m] < run[i] \/ run[i] < run[m]
            BY <1>b, <3>5, <4>1, Zenon DEF Rising
        <4> QED
            BY <1>c, <3>4, <3>5, <4>2
      <3>10. \A m \in 1 .. Len(run) : Taken(m)' <=> (Taken(m) \/ m = i)
        <4> TAKE m \in 1 .. Len(run)
        <4>1. CASE m = i
            BY <1>a, <3>1, <3>4, <4>1, SMTT(30) DEF Taken, Busy
        <4>2. CASE m # i
          <5>1. pc'[run[m]] = pc[run[m]]
              BY <1>a, <1>c, <3>1, <3>9, <4>2, Zenon
          <5> QED
              BY <3>1, <4>2, <5>1, Zenon DEF Taken
        <4> QED
            BY <4>1, <4>2, Zenon
      <3>11. \A m \in 1 .. Len(run) :
                 (Taken(m)' <=> m < roundPos') /\ (Taken(m)' => pos'[run[m]] = m)
        <4> TAKE m \in 1 .. Len(run)
        <4>1. Taken(m)' <=> m < roundPos'
            BY <1>a, <3>1, <3>6, <3>8, <3>10, SMTT(30)
        <4>2. CASE m = i
            BY <1>a, <3>1, <3>4, <3>8, <4>1, <4>2, SMTT(30)
        <4>3. CASE m # i
            BY <1>a, <1>c, <3>1, <3>6, <3>9, <3>10, <4>1, <4>3, Zenon
        <4> QED
            BY <4>1, <4>2, <4>3, Zenon
      <3>12. pos'[0] = 0 /\ roundPos' >= 1
          BY <1>a, <3>1, <3>6, SMTT(30)
      <3> QED
          BY <3>1, <3>11, <3>12, Zenon DEF Numbered
    <2> QED
        BY <1>a, <2>1, <2>2, Zenon
  <1>17. ASSUME NEW k \in Others, CoreGive(k) PROVE Numbered'
    <2>1. /\ UNCHANGED <<smp, run, pos, roundPos>> /\ fresh' = fresh \cup {k} /\ pc[k] = "sliced"
          /\ pc'[Main] = pc[Main] /\ \A j \in Others : j # k => pc'[j] = pc[j]
        BY <1>17, <1>a, SMTT(30) DEF CoreGive
    <2>2. \A i \in 1 .. Len(run) : Taken(i)' <=> Taken(i)
        BY <1>c, <2>1, Zenon DEF Taken, Busy
    <2> QED
        BY <2>1, <2>2, NumberedSame, Zenon
  <1>18. ASSUME NEW k \in Core, SliceStart(k) PROVE Numbered'
    <2>1. UNCHANGED <<smp, run, fresh, pos, roundPos>>
        BY <1>18, Zenon DEF SliceStart
    <2>2. pc[k] \in Busy /\ pc'[k] \in Busy /\ \A j \in Core : j # k => pc'[j] = pc[j]
        BY <1>18, <1>a, SMTT(30) DEF SliceStart, Busy
    <2>3. \A j \in Others : pc'[j] \in Busy <=> pc[j] \in Busy
        BY <2>2
    <2>4. pc'[Main] \in InRound \ {"release"} => pc[Main] \in InRound \ {"release"}
        BY <2>2, SMTT(30) DEF InRound, Busy
    <2> QED
        BY <1>e, <2>1, <2>3, <2>4, NumberedSame, Zenon
  <1>19. ASSUME NEW k \in Core, GuestStop(k) PROVE Numbered'
    <2>1. UNCHANGED <<smp, run, fresh, pos, roundPos>>
        BY <1>19, Zenon DEF GuestStop
    <2>2. pc[k] \in Busy /\ pc'[k] \in Busy /\ \A j \in Core : j # k => pc'[j] = pc[j]
        BY <1>19, <1>a, SMTT(30) DEF GuestStop, Busy
    <2>3. \A j \in Others : pc'[j] \in Busy <=> pc[j] \in Busy
        BY <2>2
    <2>4. pc'[Main] \in InRound \ {"release"} => pc[Main] \in InRound \ {"release"}
        BY <2>2 DEF InRound, Busy
    <2> QED
        BY <1>e, <2>1, <2>3, <2>4, NumberedSame
  <1>20. ASSUME NEW k \in Core, NEW j \in Core \ {k}, GuestPoke(k, j) PROVE Numbered'
    <2>1. UNCHANGED <<smp, run, fresh, pos, roundPos>> /\ \A o \in Others : pc'[o] = pc[o]
        BY <1>20, <1>a, Zenon DEF GuestPoke
    <2>2. pc'[Main] \in InRound \ {"release"} => pc[Main] \in InRound \ {"release"}
        BY <1>20, <1>a, Zenon DEF GuestPoke, InRound
    <2> QED
        BY <1>e, <2>1, <2>2, NumberedSame, Zenon
  <1>21. CASE UNCHANGED vars
      BY <1>21 DEF vars, Numbered, Taken
  <1> QED
      BY <1>1, <1>2, <1>3, <1>4, <1>5, <1>6, <1>7, <1>8, <1>9, <1>10, <1>11, <1>12,
         <1>13, <1>14, <1>15, <1>16, <1>17, <1>18, <1>19, <1>20, <1>21, Zenon
      DEF Next, MainStep, NetStep, CoreStep, SliceStep, Ended

-----------------------------------------------------------------------------

LEMMA OrderInit == Init => OrderInv
  <1> SUFFICES ASSUME Init PROVE OrderInv
      OBVIOUS
  <1>1. RoundInv
      BY RoundInit, Zenon
  <1>2. pc[Main] = "scan" /\ \A k \in Others : pc[k] = "none"
    <2>1. pc = [t \in Task |-> IF t = 0 THEN "scan" ELSE "none"]
        BY DEF Init
    <2>2. 0 \in Task /\ \A k \in Others : k \in Task /\ k # 0
        OBVIOUS
    <2> QED
        BY <2>1, <2>2, Zenon
  <1>3. /\ \A t \in Task : note[t] = 0 /\ ahead[t] = {}
        /\ scan = 1 /\ run = <<>> /\ next = 0 /\ done = 0 /\ fresh = {} /\ ready = {Main}
      BY Zenon DEF Init
  <1>4. Created /\ InOrder /\ Resting /\ Releasing /\ Behind /\ Numbered
      BY <1>2, <1>3, Zenon DEF Created, InOrder, Resting, Releasing, Behind, Numbered, Busy, InRound
  <1>5. MainFirst
      BY <1>3, SMTT(30) DEF MainFirst, OnCpu
  <1> QED
      BY <1>1, <1>4, <1>5, Zenon DEF OrderInv

LEMMA OrderNext == OrderInv /\ [Next]_vars => OrderInv'
  <1> SUFFICES ASSUME OrderInv, [Next]_vars PROVE OrderInv'
      OBVIOUS
  <1>1. RoundInv'
      BY RoundNext, Zenon DEF OrderInv
  <1>2. Created' /\ InOrder' /\ MainFirst'
      BY CreatedNext, InOrderNext, MainFirstNext, Zenon DEF OrderInv, RoundInv
  <1>3. Resting' /\ Releasing'
      BY RestingNext, ReleasingNext, Zenon DEF OrderInv, RoundInv
  <1>4. Behind' /\ Numbered'
      BY BehindNext, NumberedNext, Zenon DEF OrderInv, RoundInv
  <1> QED
      BY <1>1, <1>2, <1>3, <1>4, Zenon DEF OrderInv

LEMMA OrderAtPoll == OrderInv => OrderKept
  <1> SUFFICES ASSUME OrderInv, ~smp, pc[Main] = "poll", run # <<>>
               PROVE  pos[0] = 0 /\ \A i \in 1 .. Len(run) : pos[run[i]] = i
      BY Zenon DEF OrderKept
  <1>1. \A i \in 1 .. Len(run) : run[i] \in fresh
      BY Zenon DEF OrderInv, RoundInv, Tally, Answered
  <1>2. \A i \in 1 .. Len(run) : Taken(i)
      BY <1>1 DEF Taken
  <1> QED
      BY <1>2, Zenon DEF OrderInv, RoundInv, Numbered, InRound

LEMMA OrderAlways == Spec => []OrderInv
  BY OrderInit, OrderNext, PTL DEF Spec

\* The two configASSERTs of emu_os_system_step cannot fail, for any number of
\* cores: a round is core 0 and then the released cores in order.
THEOREM TheOrderIsKept == Spec => []OrderKept
  BY OrderAlways, OrderAtPoll, PTL
=============================================================================
