------------------------------ MODULE SmpPort ------------------------------
(***************************************************************************)
(* FreeRTOS SMP on POSIX threads (src/src/platform/host/freertos_smp/      *)
(* port.c): one host thread per task, several cores, a yield requested of  *)
(* another core by a flag and a signal, an idle core that watches its flag *)
(* and needs no signal, and the hand-over of a core between threads.       *)
(*                                                                         *)
(* The kernel is outside the repository and is here as it is used: it      *)
(* chooses a core's next task and calls portTASK_SWITCH_HOOK, and asks a   *)
(* core that runs an idle task to yield when a task becomes ready, both    *)
(* with its locks held.  Ticks are left out: nothing waits on time and     *)
(* time slicing is off, so a tick never switches.  Events are one-shot     *)
(* flags here (PortEvent has what they are made of).                       *)
(***************************************************************************)
EXTENDS Integers, FiniteSets

CONSTANTS
    Cores,
    Core0,          \* the core the first task starts on
    Idles,          \* the kernel's idle tasks, one for each core
    Workers,        \* main_task and the core tasks
    Nobody,         \* no thread
    Nowhere         \* no core, and no place in the code

Threads == Idles \cup Workers

ASSUME PortAssumption ==
    /\ IsFiniteSet(Cores) /\ IsFiniteSet(Idles) /\ IsFiniteSet(Workers)
    /\ Cardinality(Idles) = Cardinality(Cores)
    /\ Cardinality(Workers) <= Cardinality(Cores)
    /\ Workers # {} /\ Idles \cap Workers = {} /\ Nobody \notin Threads
    /\ Core0 \in Cores /\ Nowhere \notin Cores

VARIABLES
    pc,             \* where each thread is
    saved,          \* where its signal handler returns to; Nowhere outside one
    tcore,          \* t_core; Nowhere while it waits, when nothing reads it
    ev,             \* its event, unset (Nowhere) or set with thread_t::core
    irqOff,         \* the threads with t_irq_off set
    sig,            \* the threads SIG_YIELD is pending for
    icore,          \* vPortIdleWait's core; Nowhere once nothing reads it
    running,        \* s_running
    yieldPending,   \* the cores with s_yield_pending set
    idlePolling,    \* the cores with s_idle_polling set
    ready,          \* kernel: tasks that are ready or running
    asked,          \* kernel: cores whose task is scheduled to yield
    target          \* the core a holder of the kernel's locks asks to yield

vars == <<pc, saved, tcore, ev, irqOff, sig, icore, running, yieldPending,
          idlePolling, ready, asked, target>>

Goto(t, where) == pc' = [pc EXCEPT ![t] = where]
Home(t) == IF t \in Workers THEN "work" ELSE "idle"
Unlocked == target = Nowhere

\* xPortStartScheduler: the first task on core 0, idle tasks on the others.
Init ==
    /\ running \in [Cores -> Threads]
    /\ \A c, d \in Cores : running[c] = running[d] => c = d
    /\ \A c \in Cores : running[c] \in Workers <=> c = Core0
    /\ ev = [t \in Threads |->
               IF \E c \in Cores : running[c] = t
               THEN CHOOSE c \in Cores : running[c] = t ELSE Nowhere]
    /\ pc = [t \in Threads |-> "wait"]
    /\ saved = [t \in Threads |-> Nowhere]
    /\ tcore = [t \in Threads |-> Nowhere]
    /\ irqOff = Threads
    /\ sig = {}
    /\ icore = [t \in Threads |-> Nowhere]
    /\ yieldPending = {} /\ idlePolling = {}
    /\ ready = Idles \cup {running[c] : c \in Cores}
    /\ asked = {} /\ target = Nowhere

-----------------------------------------------------------------------------
(* A worker: it releases others and blocks. *)

\* A worker makes another ready, and the kernel asks an idle core to take it,
\* if one is not asked already: vPortYieldCore, up to its first store.
Release(t, w) ==
    /\ pc[t] = "work"
    /\ Unlocked
    /\ w \in Workers \ ready
    /\ ready' = ready \cup {w}
    /\ irqOff' = irqOff \cup {t}
    /\ \/ \E c \in Cores \ asked :
            /\ running[c] \in Idles
            /\ target' = c
            /\ asked' = asked \cup {c}
            /\ yieldPending' = yieldPending \cup {c}
            /\ Goto(t, "request")
       \/ /\ \A c \in Cores \ asked : running[c] \in Workers
          /\ Goto(t, "enable")
          /\ UNCHANGED <<target, asked, yieldPending>>
    /\ UNCHANGED <<saved, tcore, ev, sig, icore, running, idlePolling>>

\* The rest of it: an idle core that watches needs no signal.
Request(t) ==
    /\ pc[t] = "request"
    /\ sig' = IF target \in idlePolling THEN sig ELSE sig \cup {running[target]}
    /\ target' = Nowhere
    /\ Goto(t, "enable")
    /\ UNCHANGED <<saved, tcore, ev, irqOff, icore, running, yieldPending,
                   idlePolling, ready, asked>>

\* It waits for a notification, and somebody is left to give one: vPortYield.
Block(t) ==
    /\ pc[t] = "work"
    /\ Unlocked
    /\ ready \cap Workers # {t}
    /\ ready' = ready \ {t}
    /\ irqOff' = irqOff \cup {t}
    /\ Goto(t, "switch")
    /\ UNCHANGED <<saved, tcore, ev, sig, icore, running, yieldPending,
                   idlePolling, asked, target>>

-----------------------------------------------------------------------------
(* switch_on_this_core. *)

\* vTaskSwitchContext takes a ready worker that no other core runs, or else
\* an idle task, and calls vPortTaskSwitchHook, under the kernel's locks.
Choices(c) ==
    LET free == {x \in ready : \A d \in Cores \ {c} : running[d] # x}
    IN IF free \cap Workers # {} THEN free \cap Workers ELSE free

Switch(t) ==
    /\ pc[t] = "switch"
    /\ Unlocked
    /\ \E next \in Choices(tcore[t]) :
          /\ running' = [running EXCEPT ![tcore[t]] = next]
          /\ Goto(t, IF next = t THEN "enable" ELSE "hand")
    /\ yieldPending' = yieldPending \ {tcore[t]}
    /\ asked' = asked \ {tcore[t]}
    /\ UNCHANGED <<saved, tcore, ev, irqOff, sig, icore, idlePolling, ready, target>>

\* Mutation: a thread that does not wait yet misses the event.
Resumed_IfWaiting(t, c) == IF pc[t] = "wait" THEN c ELSE Nowhere

Resumed(t, c) == c

\* The core is handed over; this thread waits to be handed one.
Hand(t) ==
    /\ pc[t] = "hand"
    /\ LET next == running[tcore[t]]
       IN ev' = [ev EXCEPT ![next] = Resumed(next, tcore[t])]
    /\ tcore' = [tcore EXCEPT ![t] = Nowhere]
    /\ Goto(t, "wait")
    /\ UNCHANGED <<saved, irqOff, sig, icore, running, yieldPending, idlePolling,
                   ready, asked, target>>

\* Mutation: it goes on where it was first put.
CoreOf_First(t) == Core0

CoreOf(t) == ev[t]

\* event_wait returns: in switch_on_this_core, or in thread_start.
Wake(t) ==
    /\ pc[t] = "wait"
    /\ ev[t] # Nowhere
    /\ ev' = [ev EXCEPT ![t] = Nowhere]
    /\ tcore' = [tcore EXCEPT ![t] = CoreOf(t)]
    /\ Goto(t, "enable")
    /\ UNCHANGED <<saved, irqOff, sig, icore, running, yieldPending, idlePolling,
                   ready, asked, target>>

\* Out of a switch or a critical section.  A handler returns; otherwise
\* vPortEnableInterrupts serves a request before it returns (service_pending).
Enable(t) ==
    /\ pc[t] = "enable"
    /\ \/ /\ saved[t] # Nowhere
          /\ Goto(t, saved[t])
          /\ saved' = [saved EXCEPT ![t] = Nowhere]
          /\ irqOff' = irqOff \ {t}
          /\ UNCHANGED yieldPending
       \/ /\ saved[t] = Nowhere /\ tcore[t] \notin yieldPending
          /\ Goto(t, Home(t))
          /\ irqOff' = irqOff \ {t}
          /\ UNCHANGED <<saved, yieldPending>>
       \/ /\ saved[t] = Nowhere /\ tcore[t] \in yieldPending
          /\ yieldPending' = yieldPending \ {tcore[t]}
          /\ Goto(t, "switch")
          /\ UNCHANGED <<saved, irqOff>>
    /\ UNCHANGED <<tcore, ev, sig, icore, running, idlePolling, ready, asked, target>>

\* Mutation: a handler leaves interrupts on.
HandlerMasks_Not(t) == irqOff

HandlerMasks(t) == irqOff \cup {t}

\* yield_handler.  Masked, the request stays in s_yield_pending; late, what
\* was asked for has happened.  A signal ends a sleep in any case.
Deliver(t) ==
    /\ t \in sig /\ saved[t] = Nowhere
    /\ sig' = sig \ {t}
    /\ LET back == IF pc[t] = "sleep" THEN "yield" ELSE pc[t] IN
       IF t \notin irqOff /\ tcore[t] \in yieldPending
       THEN /\ saved' = [saved EXCEPT ![t] = back]
            /\ irqOff' = HandlerMasks(t)
            /\ yieldPending' = yieldPending \ {tcore[t]}
            /\ Goto(t, "switch")
       ELSE /\ Goto(t, back)
            /\ UNCHANGED <<saved, irqOff, yieldPending>>
    /\ UNCHANGED <<tcore, ev, icore, running, idlePolling, ready, asked, target>>

-----------------------------------------------------------------------------
(* vPortIdleWait.  Interrupts are on: a handler may move the thread to     *)
(* another core between any two of its steps.                              *)

IdleStart(t) ==
    /\ pc[t] = "idle"
    /\ icore' = [icore EXCEPT ![t] = tcore[t]]
    /\ Goto(t, "mark")
    /\ UNCHANGED <<saved, tcore, ev, irqOff, sig, running, yieldPending,
                   idlePolling, ready, asked, target>>

\* It says that it watches, for the core it was on.
IdleMark(t) ==
    /\ pc[t] = "mark"
    /\ idlePolling' = idlePolling \cup {icore[t]}
    /\ Goto(t, "poll")
    /\ UNCHANGED <<saved, tcore, ev, irqOff, sig, icore, running, yieldPending,
                   ready, asked, target>>

\* It is asked, or it has watched for long enough.
IdlePoll(t) ==
    /\ pc[t] = "poll"
    /\ Goto(t, IF icore[t] \in yieldPending THEN "stopAsked" ELSE "stop")
    /\ UNCHANGED <<saved, tcore, ev, irqOff, sig, icore, running, yieldPending,
                   idlePolling, ready, asked, target>>

IdleStop(t) ==
    /\ pc[t] \in {"stop", "stopAsked"}
    /\ idlePolling' = idlePolling \ {icore[t]}
    /\ Goto(t, IF pc[t] = "stopAsked" THEN "yield" ELSE "look")
    /\ icore' = [icore EXCEPT ![t] = IF pc[t] = "stopAsked" THEN Nowhere ELSE @]
    /\ UNCHANGED <<saved, tcore, ev, irqOff, sig, running, yieldPending,
                   ready, asked, target>>

IdleLook(t) ==
    /\ pc[t] = "look"
    /\ Goto(t, IF icore[t] \in yieldPending THEN "yield" ELSE "sleep")
    /\ icore' = [icore EXCEPT ![t] = Nowhere]
    /\ UNCHANGED <<saved, tcore, ev, irqOff, sig, running, yieldPending,
                   idlePolling, ready, asked, target>>

\* taskYIELD, at once or when the millisecond has passed.
IdleYield(t) ==
    /\ pc[t] \in {"sleep", "yield"}
    /\ irqOff' = irqOff \cup {t}
    /\ Goto(t, "switch")
    /\ UNCHANGED <<saved, tcore, ev, sig, icore, running, yieldPending, idlePolling,
                   ready, asked, target>>

Step(t) ==
    \/ Request(t) \/ Switch(t) \/ Hand(t) \/ Wake(t) \/ Enable(t)
    \/ IdleStart(t) \/ IdleMark(t) \/ IdlePoll(t) \/ IdleStop(t) \/ IdleLook(t)
    \/ IdleYield(t)

Next ==
    \E t \in Threads :
        Step(t) \/ Deliver(t) \/ Block(t) \/ \E w \in Workers : Release(t, w)

Spec == Init /\ [][Next]_vars

\* The host runs every thread and delivers every signal.  Nothing is asked of
\* the kernel's spin locks: a thread need not get one that is taken again and
\* again.
FairSpec == Spec /\ \A t \in Threads : WF_vars(Step(t)) /\ WF_vars(Deliver(t))

-----------------------------------------------------------------------------
(* Properties. *)

Places == {"work", "request", "switch", "hand", "wait", "enable",
           "idle", "mark", "poll", "stop", "stopAsked", "look", "sleep", "yield"}

\* The types, and that a thread has a core unless it waits for one, and that
\* switch_on_this_core is "called with interrupts disabled".
TypeOK ==
    /\ pc \in [Threads -> Places] /\ saved \in [Threads -> Places \cup {Nowhere}]
    /\ tcore \in [Threads -> Cores \cup {Nowhere}]
    /\ icore \in [Threads -> Cores \cup {Nowhere}]
    /\ ev \in [Threads -> Cores \cup {Nowhere}]
    /\ running \in [Cores -> Threads]
    /\ irqOff \subseteq Threads /\ sig \subseteq Threads /\ ready \subseteq Threads
    /\ yieldPending \subseteq Cores /\ idlePolling \subseteq Cores
    /\ asked \subseteq Cores /\ target \in Cores \cup {Nowhere}
    /\ \A t \in Threads : tcore[t] = Nowhere <=> pc[t] = "wait"
    /\ \A t \in Threads :
          pc[t] \in {"request", "switch", "hand", "wait", "enable"} <=> t \in irqOff

\* A thread that executes is the one its core records (vPortTaskSwitchHook):
\* no two threads are on one core, and a request reaches the thread it is
\* for.  A thread that hands its core over does nothing else until it is
\* resumed, even when another core resumes it before it has begun to wait.
Executes(t) == pc[t] \notin {"wait", "hand"}
WhoRuns == TypeOK /\ \A t \in Threads : Executes(t) => running[tcore[t]] = t

\* "A request is either seen by the loop or signalled" (port.c, above
\* s_idle_polling): no core sleeps over a request made of it.
NoSleepOnRequest ==
    \A c \in Cores :
        (c \in yieldPending /\ Unlocked /\ pc[running[c]] = "sleep")
        => running[c] \in sig

\* A task that is made ready runs, on some core: none stays ready for ever
\* without running, so no hand-over and no request is lost for good.
ReadyRuns ==
    \A w \in Workers : []<>(w \notin ready \/ pc[w] = "work")
=============================================================================
