---------------------------- MODULE MCCoreSync ----------------------------
(* What threads do to each other's state: the event of a thread that three *)
(* others may signal, and the reservations of two PowerPC cores.  One of   *)
(* the two in a behaviour.                                                 *)
EXTENDS PortEvent, PpcAtomic

VARIABLE shown

SyncInit ==
    /\ shown \in {"event", "reservation"}
    /\ Init /\ ResvInit
    /\ shown = "event" => word = [w \in SwapWords |-> 0]
SyncNext ==
    \/ shown = "event" /\ Next /\ UNCHANGED <<shown, resvVars>>
    \/ shown = "reservation" /\ ResvNext /\ UNCHANGED <<shown, vars>>
SyncSpec == SyncInit /\ [][SyncNext]_<<shown, vars, resvVars>> /\ Fairness
===========================================================================
