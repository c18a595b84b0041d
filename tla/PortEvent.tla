----------------------------- MODULE PortEvent -----------------------------
(***************************************************************************)
(* event_signal and event_wait (src/src/platform/host/freertos_smp/port.c) *)
(* one atomic operation at a time: the flag, the note that the waiter      *)
(* sleeps, the mutex and the condition variable.  One thread waits on an   *)
(* event; whoever hands it a core signals it, once for each wait, and a    *)
(* signaller may still be in event_signal when the thread it woke has run, *)
(* has been switched out again and is being resumed by another.            *)
(***************************************************************************)
EXTENDS Naturals

CONSTANTS
    Signallers,     \* threads that may hand the owner a core
    Owner,          \* the thread that waits
    Nobody          \* holder of a free mutex

ASSUME EventAssumption == Owner \notin Signallers /\ Nobody \notin Signallers \cup {Owner}

VARIABLES
    set, sleeping,  \* port_event_t
    mutex,          \* who holds m
    onCond,         \* the owner is blocked on c
    wpc,            \* where the owner is in event_wait
    spc             \* where each signaller is in event_signal

vars == <<set, sleeping, mutex, onCond, wpc, spc>>

Init ==     \* event_init
    /\ set = 0 /\ sleeping = 0
    /\ mutex = Nobody /\ onCond = FALSE
    /\ wpc = "run"
    /\ spc = [s \in Signallers |-> "run"]

-----------------------------------------------------------------------------
(* event_signal. *)

SGoto(s, where) == spc' = [spc EXCEPT ![s] = where]

Outstanding == set = 1

\* The kernel resumes a task that it took off its core after the last time.
MaySignal(s) == spc[s] = "run" /\ ~Outstanding /\ wpc \notin {"awake", "unlock"}

\* Mutation: the look at `sleeping' comes before the store.
SigPost_LookFirst(s) ==
    /\ \/ /\ MaySignal(s)
          /\ IF sleeping # 0
             THEN set' = 1 /\ SGoto(s, "lock")
             ELSE SGoto(s, "look") /\ UNCHANGED set
       \/ /\ spc[s] = "look"
          /\ set' = 1 /\ SGoto(s, "run")
    /\ UNCHANGED <<sleeping, mutex, onCond, wpc>>

\* The store, then the look.
SigPost(s) ==
    /\ \/ /\ MaySignal(s)
          /\ set' = 1 /\ SGoto(s, "look")
       \/ /\ spc[s] = "look"
          /\ SGoto(s, IF sleeping # 0 THEN "lock" ELSE "run")
          /\ UNCHANGED set
    /\ UNCHANGED <<sleeping, mutex, onCond, wpc>>

\* Mutation: the wake-up is sent without the mutex.
SigLock_Free(s) ==
    /\ spc[s] = "lock"
    /\ SGoto(s, "wake")
    /\ UNCHANGED <<set, sleeping, mutex, onCond, wpc>>

SigLock(s) ==
    /\ spc[s] = "lock"
    /\ mutex = Nobody
    /\ mutex' = s
    /\ SGoto(s, "wake")
    /\ UNCHANGED <<set, sleeping, onCond, wpc>>

\* pthread_cond_signal: lost if nobody is on the condition variable.
SigWake(s) ==
    /\ spc[s] = "wake"
    /\ onCond' = FALSE
    /\ SGoto(s, "unlock")
    /\ UNCHANGED <<set, sleeping, mutex, wpc>>

SigUnlock(s) ==
    /\ spc[s] = "unlock"
    /\ mutex' = Nobody
    /\ SGoto(s, "run")
    /\ UNCHANGED <<set, sleeping, onCond, wpc>>

-----------------------------------------------------------------------------
(* event_wait. *)

WGoto(where) == wpc' = where

WaitCall ==
    /\ wpc = "run"
    /\ WGoto("spin")
    /\ UNCHANGED <<set, sleeping, mutex, onCond, spc>>

\* The spin: the flag is taken, or the spin is over.
WaitSpin ==
    /\ wpc = "spin"
    /\ set' = 0
    /\ WGoto(IF set # 0 THEN "run" ELSE "lock")
    /\ UNCHANGED <<sleeping, mutex, onCond, spc>>

WaitLock ==
    /\ wpc = "lock"
    /\ mutex = Nobody
    /\ mutex' = Owner
    /\ WGoto("sleeping")
    /\ UNCHANGED <<set, sleeping, onCond, spc>>

WaitSleeping ==
    /\ wpc = "sleeping"
    /\ sleeping' = 1
    /\ WGoto("take")
    /\ UNCHANGED <<set, mutex, onCond, spc>>

WaitTake ==
    /\ wpc = "take"
    /\ set' = 0
    /\ WGoto(IF set # 0 THEN "awake" ELSE "cond")
    /\ UNCHANGED <<sleeping, mutex, onCond, spc>>

\* pthread_cond_wait: releases the mutex and blocks in one step ...
WaitCond ==
    /\ wpc = "cond"
    /\ onCond' = TRUE
    /\ mutex' = Nobody
    /\ WGoto("blocked")
    /\ UNCHANGED <<set, sleeping, spc>>

\* Mutation: a wake-up is taken to be the signal.
AfterCond_Awake == "awake"

\* The loop looks at the flag again.
AfterCond == "take"

\* ... and returns with the mutex, woken or not (POSIX allows either).
WaitWoken ==
    /\ wpc = "blocked"
    /\ ~onCond
    /\ mutex = Nobody
    /\ mutex' = Owner
    /\ WGoto(AfterCond)
    /\ UNCHANGED <<set, sleeping, onCond, spc>>

Spurious ==
    /\ wpc = "blocked" /\ onCond
    /\ onCond' = FALSE
    /\ UNCHANGED <<set, sleeping, mutex, wpc, spc>>

\* Mutation: a waiter goes on as a sleeper.
WaitAwake_StillSleeping ==
    /\ wpc = "awake"
    /\ WGoto("unlock")
    /\ UNCHANGED <<set, sleeping, mutex, onCond, spc>>

WaitAwake ==
    /\ wpc = "awake"
    /\ sleeping' = 0
    /\ WGoto("unlock")
    /\ UNCHANGED <<set, mutex, onCond, spc>>

WaitUnlock ==
    /\ wpc = "unlock"
    /\ mutex' = Nobody
    /\ WGoto("run")
    /\ UNCHANGED <<set, sleeping, onCond, spc>>

Signal(s) == SigPost(s) \/ SigLock(s) \/ SigWake(s) \/ SigUnlock(s)
Wait == WaitSpin \/ WaitLock \/ WaitSleeping \/ WaitTake \/ WaitCond
        \/ WaitWoken \/ WaitAwake \/ WaitUnlock

Next == WaitCall \/ Wait \/ Spurious \/ \E s \in Signallers : Signal(s)

Spec == Init /\ [][Next]_vars

\* Threads run, and a mutex that is freed again and again is obtained.  A
\* signaller need not signal, and there need be no spurious wake-up.
Fairness ==
    /\ SF_vars(Wait)
    /\ \A s \in Signallers :
          /\ WF_vars(spc[s] = "look" /\ SigPost(s)) /\ SF_vars(SigLock(s))
          /\ WF_vars(SigWake(s)) /\ WF_vars(SigUnlock(s))

FairSpec == Spec /\ Fairness

-----------------------------------------------------------------------------
(* Properties. *)

\* The types, and who holds the mutex where.
TypeOK ==
    /\ set \in {0, 1} /\ sleeping \in {0, 1}
    /\ onCond \in BOOLEAN
    /\ wpc \in {"run", "spin", "lock", "sleeping", "take", "cond", "blocked",
               "awake", "unlock"}
    /\ spc \in [Signallers -> {"run", "look", "lock", "wake", "unlock"}]
    /\ mutex = Owner <=> wpc \in {"sleeping", "take", "cond", "awake", "unlock"}
    /\ \A s \in Signallers : mutex = s <=> spc[s] \in {"wake", "unlock"}

\* "Both sequentially consistent, so at least one of them sees the other's
\* store": whenever the owner is blocked with its flag set, a signaller that
\* has seen it sleep, or has yet to look, is on its way to wake it, or it is
\* woken already.
SleeperIsWoken ==
    (wpc \in {"cond", "blocked"} /\ Outstanding)
    => \/ wpc = "blocked" /\ ~onCond
       \/ \E s \in Signallers : spc[s] \in {"look", "lock", "wake"}

\* `sleeping' stands for a sleeper and no longer: when the owner runs, no
\* signaller takes the mutex for its sake.
SleepingIsTrue == sleeping = 1 <=> wpc \in {"take", "cond", "blocked", "awake"}

InWait == wpc \notin {"run", "awake", "unlock"}
Abs == INSTANCE AbsEvent WITH posted <- Outstanding, waiting <- InWait

\* The event is the one-shot wake-up its comment says it is: no wait returns
\* without a signal, no signal serves two waits, and no wait with a signal
\* goes on for ever.
OneShot == Abs!Spec
\* No wake-up is lost between the spin, the flag and the condition variable,
\* and the mutex and the flag say who is where.
NoWakeupLost == TypeOK /\ SleepingIsTrue /\ SleeperIsWoken
=============================================================================
