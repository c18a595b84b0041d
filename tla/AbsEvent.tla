------------------------------ MODULE AbsEvent ------------------------------
(***************************************************************************)
(* What a thread's event promises (port.c, port_event_t): "a one-shot      *)
(* wakeup: event_signal before event_wait is not lost".                    *)
(***************************************************************************)
VARIABLES
    posted,     \* a signal was given that no wait has taken
    waiting     \* the owner is in event_wait

vars == <<posted, waiting>>

Init == posted = FALSE /\ waiting = FALSE

Signal == ~posted /\ posted' = TRUE /\ UNCHANGED waiting
Call   == ~waiting /\ waiting' = TRUE /\ UNCHANGED posted
Return == posted /\ waiting /\ posted' = FALSE /\ waiting' = FALSE

Next == Signal \/ Call \/ Return

\* A wait returns only for a signal, each signal is good for one wait, and a
\* wait that has its signal returns.
Spec == Init /\ [][Next]_vars /\ WF_vars(Return)
=============================================================================
