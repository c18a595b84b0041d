------------------------------ MODULE OsRound ------------------------------
(***************************************************************************)
(* A round of a multicore guest as FreeRTOS tasks (emu_os_system_step,     *)
(* core_task and the IP stack's net_task in                                *)
(* src/src/platform/common/emu_os.c, emu_core_slice in                     *)
(* src/src/emu/emu_cpu.c), and the loop that runs rounds until every core  *)
(* is idle (emu_run_system).                                               *)
(*                                                                         *)
(* The first task runs core 0 and releases a task for each other core that *)
(* would run; notifications are the kernel's counting ones.  With smp the  *)
(* tasks run at once, otherwise one runs until it blocks and the others    *)
(* take their turn in the order they became ready.                         *)
(*                                                                         *)
(* A guest core is what emu_core_status says of it.  What its slice does   *)
(* to others is to interrupt them or to start one held at reset.           *)
(***************************************************************************)
EXTENDS Integers, Sequences

CONSTANTS
    N               \* sys->ncores, at least 2: one core never comes here

ASSUME RoundAssumption == N \in Nat /\ N > 1

Core == 0 .. N - 1
Others == 1 .. N - 1
Main == 0           \* main_task, which is the coordinator and runs core 0
Net == N            \* net_task
Task == 0 .. N

VARIABLES
    smp,            \* configNUMBER_OF_CORES > 1: one of the two builds
    state,          \* emu_cpu_status_t::state of each core
    irq,            \* the cores an interrupt could reach: `wakeable' if in WFI
    pc,             \* where each task is; "none" before it is created
    note,           \* its notification value (net's pair has an index of its own)
    scan,           \* the core the scan has come to
    run,            \* the cores it found, in order
    next,           \* how many of them have been released
    done,           \* how many have answered
    live,           \* core_task_t::live; live[0] is the coordinator's local
    fresh,          \* the cores whose did and live are this round's
    pos, roundPos,  \* core_task_t::pos, g_round_pos: one FreeRTOS core only
    idle,           \* what the last round reported
    job,            \* g_net_fn: "none", "asked", "ran"
    ready,          \* kernel: the tasks that could run
    ahead           \* those of them that became ready before a task did: one core only

guestVars == <<state, irq>>
roundVars == <<scan, run, next, done, fresh>>
kernelVars == <<note, ready, ahead>>
vars == <<smp, guestVars, pc, kernelVars, roundVars, live, pos, roundPos, idle, job>>

\* emu_core_runnable, and emu_core_slice's three early returns.
Runnable(k) == state[k] = "run" \/ (state[k] = "wfi" /\ k \in irq)

Init ==
    /\ smp \in BOOLEAN
    /\ state \in {f \in [Core -> {"run", "held"}] : f[0] = "run"}
    /\ irq = {}
    /\ pc = [t \in Task |-> IF t = Main THEN "scan" ELSE "none"]
    /\ note = [t \in Task |-> 0]
    /\ scan = 1 /\ run = <<>> /\ next = 0 /\ done = 0 /\ fresh = {}
    /\ live = [k \in Core |-> FALSE]
    /\ pos = [k \in Core |-> 0] /\ roundPos = 0
    /\ idle = FALSE
    /\ job = "none"
    /\ ready = {Main} /\ ahead = [t \in Task |-> {}]

-----------------------------------------------------------------------------
(* The kernel. *)

\* A task may take a step: it has a core under SMP, it is the running one
\* otherwise.
OnCpu(t) == t \in ready /\ ahead[t] = {}

Goto(t, where) == pc' = [pc EXCEPT ![t] = where]

\* Mutation: the ready list hands out the newest first.
MakeReady_Newest(T) ==
    /\ ready' = ready \cup T
    /\ ahead' = [t \in Task |->
                    CASE smp \/ t \notin ready \cup T -> {}
                      [] t \in T \ ready -> {u \in ready : OnCpu(u)} \cup {u \in T \ ready : u < t}
                      [] OTHER -> IF OnCpu(t) THEN {} ELSE ahead[t] \cup (T \ ready)]

\* Tasks become ready, one by one, behind the others.  Under SMP those that
\* could run all do: there is no order.
MakeReady(T) ==
    /\ ready' = ready \cup T
    /\ ahead' = [t \in Task |-> IF ~smp /\ t \in T \ ready
                                THEN ready \cup {u \in T \ ready : u < t}
                                ELSE ahead[t]]

\* xTaskNotifyGive: a task that waits for it becomes ready.
Give(t) ==
    /\ note' = [note EXCEPT ![t] = @ + 1]
    /\ MakeReady({t})

\* Mutation: it asks without waiting, and asks again.
Wait_Poll(t) == note[t] = 0 /\ UNCHANGED <<kernelVars, pc>>

\* ulTaskNotifyTake finding nothing: the task waits.
Wait(t) ==
    /\ note[t] = 0
    /\ ready' = ready \ {t}
    /\ ahead' = [u \in Task |-> IF u = t THEN {} ELSE ahead[u] \ {t}]
    /\ UNCHANGED <<note, pc>>

-----------------------------------------------------------------------------
(* emu_core_slice. *)

SliceStart(k) ==
    /\ OnCpu(k)
    /\ pc[k] = "slice"
    /\ live' = [live EXCEPT ![k] = Runnable(k)]
    /\ IF Runnable(k)
       THEN Goto(k, "guest") /\ state' = [state EXCEPT ![k] = "run"]
       ELSE Goto(k, "sliced") /\ UNCHANGED state
    /\ UNCHANGED <<smp, irq, kernelVars, roundVars, pos, roundPos, idle, job>>

\* The guest interrupts a core, or starts one.
GuestPoke(k, j) ==
    /\ OnCpu(k)
    /\ pc[k] = "guest"
    /\ \/ state[j] # "halted" /\ irq' = irq \cup {j} /\ UNCHANGED state
       \/ state[j] = "held" /\ state' = [state EXCEPT ![j] = "run"] /\ UNCHANGED irq
    /\ UNCHANGED <<smp, pc, kernelVars, roundVars, live, pos, roundPos, idle, job>>

\* The slice is over: it ran out, the core parked or it stopped for good.  An
\* interrupt has been taken, or is still to be; nothing reaches a stopped core.
GuestStop(k) ==
    /\ OnCpu(k)
    /\ pc[k] = "guest"
    /\ \E s \in {"run", "wfi", "halted"} :
          /\ state' = [state EXCEPT ![k] = s]
          /\ irq' \in {irq, irq \ {k}}
          /\ s = "halted" => k \notin irq'
    /\ Goto(k, "sliced")
    /\ UNCHANGED <<smp, kernelVars, roundVars, live, pos, roundPos, idle, job>>

-----------------------------------------------------------------------------
(* core_task. *)

CoreWait(k) ==
    /\ OnCpu(k)
    /\ pc[k] = "take"
    /\ Wait(k)
    /\ UNCHANGED <<smp, guestVars, roundVars, live, pos, roundPos, idle, job>>

CoreTake(k) ==
    /\ OnCpu(k)
    /\ pc[k] = "take" /\ note[k] > 0
    /\ note' = [note EXCEPT ![k] = 0]
    /\ IF smp THEN UNCHANGED <<pos, roundPos>>
       ELSE pos' = [pos EXCEPT ![k] = roundPos] /\ roundPos' = roundPos + 1
    /\ Goto(k, "slice")
    /\ UNCHANGED <<smp, guestVars, ready, ahead, roundVars, live, idle, job>>

\* did and live are written, and the coordinator is told.
CoreGive(k) ==
    /\ OnCpu(k)
    /\ pc[k] = "sliced"
    /\ fresh' = fresh \cup {k}
    /\ Give(Main)
    /\ Goto(k, "take")
    /\ UNCHANGED <<smp, guestVars, scan, run, next, done, live, pos, roundPos, idle, job>>

-----------------------------------------------------------------------------
(* emu_os_system_step. *)

\* Mutation: the table is asked one core off.
Found_Off(k) == Runnable(k - 1)

\* Mutation: the scan stops at the first core it finds.
Found_First(k) == Runnable(k) /\ run = <<>>

Found(k) == Runnable(k)

Scan ==
    /\ OnCpu(Main)
    /\ pc[Main] = "scan" /\ scan < N
    /\ run' = IF Found(scan) THEN Append(run, scan) ELSE run
    /\ scan' = scan + 1
    /\ UNCHANGED <<smp, guestVars, pc, kernelVars, next, done, fresh, live, pos, roundPos,
                   idle, job>>

\* Nobody else would run: core 0 here, with no task.  Otherwise the tasks are
\* there, or ensure_core_tasks creates them.
Scanned ==
    /\ OnCpu(Main)
    /\ pc[Main] = "scan" /\ scan = N
    /\ IF run = <<>>
       THEN Goto(Main, "slice") /\ UNCHANGED <<roundPos, ready, ahead>>
       ELSE /\ pc' = [t \in Task |-> CASE t = Main -> "release"
                                       [] t \in Others /\ pc[t] = "none" -> "take"
                                       [] OTHER -> pc[t]]
            /\ MakeReady({k \in Others : pc[k] = "none"})
            /\ roundPos' = IF smp THEN roundPos ELSE 0
    /\ UNCHANGED <<smp, guestVars, note, roundVars, live, pos, idle, job>>

Release ==
    /\ OnCpu(Main)
    /\ pc[Main] = "release" /\ next < Len(run)
    /\ Give(run[next + 1])
    /\ next' = next + 1
    /\ UNCHANGED <<smp, guestVars, pc, scan, run, done, fresh, live, pos, roundPos, idle, job>>

\* pos[0] is the code's pos0.
Released ==
    /\ OnCpu(Main)
    /\ pc[Main] = "release" /\ next = Len(run)
    /\ IF smp THEN UNCHANGED <<pos, roundPos>>
       ELSE pos' = [pos EXCEPT ![0] = roundPos] /\ roundPos' = roundPos + 1
    /\ Goto(Main, "slice")
    /\ UNCHANGED <<smp, guestVars, kernelVars, roundVars, live, idle, job>>

Sliced ==
    /\ OnCpu(Main)
    /\ pc[Main] = "sliced"
    /\ fresh' = fresh \cup {0}
    /\ Goto(Main, "barrier")
    /\ UNCHANGED <<smp, guestVars, kernelVars, scan, run, next, done, live, pos, roundPos,
                   idle, job>>

\* done += ulTaskNotifyTake(pdTRUE, ...), which waits for one and takes all
\* there are.
BarrierWait ==
    /\ OnCpu(Main)
    /\ pc[Main] = "barrier" /\ done < Len(run)
    /\ Wait(Main)
    /\ UNCHANGED <<smp, guestVars, roundVars, live, pos, roundPos, idle, job>>

Barrier ==
    /\ OnCpu(Main)
    /\ pc[Main] = "barrier" /\ done < Len(run)
    /\ note[Main] > 0
    /\ done' = done + note[Main]
    /\ note' = [note EXCEPT ![Main] = 0]
    /\ UNCHANGED <<smp, guestVars, pc, ready, ahead, scan, run, next, fresh, live, pos,
                   roundPos, idle, job>>

\* Mutation: the results are read at once.
Arrived_Always == TRUE

Arrived == done >= Len(run)

\* Mutation: only core 0 is asked whether it lives.
AllIdle_Core0 == ~live[0]

AllIdle == ~live[0] /\ \A i \in 1 .. Len(run) : ~live[run[i]]

\* The sums, and emu_run_system: an idle round ends the run, and between
\* rounds the IP stack gets its turn.
Sum ==
    /\ OnCpu(Main)
    /\ pc[Main] = "barrier" /\ Arrived
    /\ idle' = AllIdle
    /\ Goto(Main, "poll")
    /\ UNCHANGED <<smp, guestVars, kernelVars, roundVars, live, pos, roundPos, job>>

-----------------------------------------------------------------------------
(* emu_os_net_call and net_task. *)

\* The step has returned, its locals are gone.
Returned ==
    /\ scan' = 1 /\ run' = <<>> /\ next' = 0 /\ done' = 0 /\ fresh' = {}
    /\ live' = [live EXCEPT ![0] = FALSE]

Again == IF idle THEN "end" ELSE "scan"

\* The platform's work does not need the stack,
PollNone ==
    /\ OnCpu(Main)
    /\ pc[Main] = "poll"
    /\ Goto(Main, Again)
    /\ Returned
    /\ UNCHANGED <<smp, guestVars, kernelVars, pos, roundPos, idle, job>>

\* or it does: the stack's task is there, or is created, and is handed a job.
Poll ==
    /\ OnCpu(Main)
    /\ pc[Main] = "poll"
    /\ job' = "asked"
    /\ Give(Net)
    /\ pc' = [pc EXCEPT ![Main] = "net", ![Net] = "take"]
    /\ Returned
    /\ UNCHANGED <<smp, guestVars, pos, roundPos, idle>>

NetWait ==
    /\ OnCpu(Net)
    /\ pc[Net] = "take"
    /\ Wait(Net)
    /\ UNCHANGED <<smp, guestVars, roundVars, live, pos, roundPos, idle, job>>

\* The job, and the hand-over back.
NetJob ==
    /\ OnCpu(Net)
    /\ pc[Net] = "take" /\ note[Net] > 0
    /\ job' = "ran"
    /\ note' = [note EXCEPT ![Net] = 0, ![Main] = @ + 1]
    /\ MakeReady({Main})
    /\ UNCHANGED <<smp, guestVars, pc, roundVars, live, pos, roundPos, idle>>

CallWait ==
    /\ OnCpu(Main)
    /\ pc[Main] = "net"
    /\ Wait(Main)
    /\ UNCHANGED <<smp, guestVars, roundVars, live, pos, roundPos, idle, job>>

CallDone ==
    /\ OnCpu(Main)
    /\ pc[Main] = "net" /\ note[Main] > 0
    /\ note' = [note EXCEPT ![Main] = 0]
    /\ job' = "none"
    /\ Goto(Main, Again)
    /\ UNCHANGED <<smp, guestVars, ready, ahead, roundVars, live, pos, roundPos, idle>>

Ended == pc[Main] = "end" /\ UNCHANGED vars

MainStep ==
    \/ Scan \/ Scanned \/ Release \/ Released \/ Sliced \/ BarrierWait \/ Barrier \/ Sum
    \/ PollNone \/ Poll \/ CallWait \/ CallDone
NetStep == NetWait \/ NetJob
CoreStep(k) == CoreWait(k) \/ CoreTake(k) \/ CoreGive(k)
SliceStep(k) == SliceStart(k) \/ GuestStop(k)

Next ==
    \/ MainStep \/ NetStep \/ Ended
    \/ \E k \in Others : CoreStep(k)
    \/ \E k \in Core : SliceStep(k) \/ \E j \in Core \ {k} : GuestPoke(k, j)

Spec == Init /\ [][Next]_vars

\* Tasks that may run do, and a slice comes to its end (JitSlice).
FairSpec ==
    /\ Spec
    /\ WF_vars(MainStep \/ SliceStep(0))
    /\ WF_vars(NetStep)
    /\ \A k \in Others : WF_vars(CoreStep(k) \/ SliceStep(k))

-----------------------------------------------------------------------------
(* Properties. *)

TypeOK ==
    /\ smp \in BOOLEAN
    /\ state \in [Core -> {"run", "wfi", "held", "halted"}]
    /\ irq \subseteq Core
    /\ pc \in [Task -> {"none", "scan", "release", "slice", "guest", "sliced", "barrier",
                        "poll", "net", "end", "take"}]
    /\ note \in [Task -> Nat]
    /\ scan \in 1 .. N /\ run \in Seq(Others) /\ next \in 0 .. Len(run) /\ done \in Nat
    /\ live \in [Core -> BOOLEAN] /\ fresh \subseteq Core
    /\ pos \in [Core -> Nat] /\ roundPos \in Nat
    /\ idle \in BOOLEAN /\ job \in {"none", "asked", "ran"}
    /\ ready \subseteq Task /\ ahead \in [Task -> SUBSET ready]

\* The wait is the barrier: no answer is counted twice or left for the next
\* round, when the coordinator reads the cores' results they are this round's,
\* and outside a round no core runs.
BarrierHolds ==
    /\ TypeOK
    /\ done <= Len(run)
    /\ pc[Main] \in {"scan", "poll", "end"} => note[Main] = 0
    /\ pc[Main] = "poll" => 0 \in fresh /\ \A i \in 1 .. Len(run) : run[i] \in fresh
    /\ pc[Main] \in {"scan", "poll", "net", "end"} =>
          \A k \in Others : pc[k] \in {"none", "take"} /\ note[k] = 0

\* emu_os_system_step's two configASSERTs: under the cooperative scheduler a
\* round is core 0 and then the released cores in order.
OrderKept ==
    (~smp /\ pc[Main] = "poll" /\ run # <<>>)
    => pos[0] = 0 /\ \A i \in 1 .. Len(run) : pos[run[i]] = i

\* "A multicore guest ends when the last live core does": a run that ends
\* leaves no core that could still run.
IdleIsTrue == pc[Main] = "end" => \A k \in Core : ~Runnable(k)

\* A core that could run does, in this round or the next, or it stops being
\* able to: none is left out for good.
NoneLeftOut == \A k \in Core : []<>(~Runnable(k) \/ pc[k] = "guest")

\* Every round comes to its end, and so does every call of the IP stack.
RoundsEnd == []<>(pc[Main] \in {"poll", "end"})
=============================================================================
