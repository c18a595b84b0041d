------------------------------ MODULE G4mhIntc ------------------------------
(***************************************************************************)
(* How a G4MH core is interrupted: its controller (g4mh_intc.c: INTC1, the *)
(* shared INTC2, TPTMSEL and FENMI), the flag that says there may be       *)
(* something to take (irq_dirty), the acceptance (g4mh_interp.c, g4mh_ir.c *)
(* and g4mh_cpu.c) and the priority ceiling.                               *)
(*                                                                         *)
(* One core in full, on a host of several (EMU_SMP).  Other cores and the  *)
(* devices, on threads of their own, raise requests and write INTC2        *)
(* between any two of its steps; g4mh_sys_lock makes each such call one    *)
(* step.  On a board the lock is empty, and the host's interrupt handlers, *)
(* which nothing keeps out of the middle of a call, are not modelled.      *)
(*                                                                         *)
(* A channel's word is its request and its mask.  Its priority (EIP) and   *)
(* its vector method (EITB), which a guest sets up once, are constants;    *)
(* EIOV, which no code reads, is left out; EICT, which no code sets, is    *)
(* clear, so every channel is an edge.  The guest's handlers save and      *)
(* restore what an entry overwrites: `frames' is what is saved, innermost  *)
(* last.  The guest leaves PSW.NP and PSW.EP to the core, and sets up      *)
(* INTCFG and EIMASK outside its handlers.                                 *)
(***************************************************************************)
EXTENDS Integers, Sequences, FiniteSets

CONSTANTS
    Own,            \* channels of INTC1, this core's
    Shared,         \* channels of INTC2, each bound to a core
    Eip,            \* [Own \cup Shared -> 0..63], smaller is more urgent
    TptmChan,       \* G4MH_TPTM_EI_CHANNEL
    Eitb,           \* the channels that use the table reference method
    Banked,         \* RBCR0.BE: the priorities with a register bank, 15 and up as 15
    BankOpen,       \* those of which RBCR1.NC leaves PSW.ID clear
    Ulnr,           \* INTCFG.ULNR: a bank beyond it is a system error
    Configs,        \* the INTCFG settings the guest uses: [epl, ispc]
    Plms,           \* the PLMR settings it uses
    MaxDepth        \* bound: how deep the guest's handlers nest by its doing

Chans == Own \cup Shared
Levels == 16        \* G4MH_ISPR_LEVELS

ASSUME IntcAssumption ==
    /\ Own \cap Shared = {} /\ Own \cup Shared \subseteq Nat
    /\ Eip \in [Own \cup Shared -> 0..63]
    /\ TptmChan \in Own /\ Eitb \subseteq Own \cup Shared
    /\ Banked \subseteq 0..15 /\ BankOpen \subseteq Banked
    /\ Ulnr \in 0..63 /\ MaxDepth \in Nat
    /\ Configs \subseteq [epl : BOOLEAN, ispc : BOOLEAN] /\ Plms \subseteq 0..63

VARIABLES
    rf, mk,         \* the channels with EIRF, with EIMK set
    pend,           \* the summary: INTC1's pend and INTC2's
    eibd,           \* the channels of INTC2 bound to this core
    feint, fenmi, tptmsel,
    dirty,          \* irq_dirty
    psw, ispr,      \* [id, np, ep : BOOLEAN, eimask : 0..63], ISPR's bits
    cfg, plm, bn,   \* INTCFG, PLMR, RBNR
    frames,         \* [kind : {"ei", "trap", "fe"}, ch, psw, bank]
    state,          \* "running" or "wfi"
    at,             \* "run", or how far an evaluation has come: "fe", "ei", "take"
    got             \* the channel an evaluation found

intc == <<rf, mk, pend, eibd, feint, fenmi, tptmsel>>
core == <<psw, ispr, cfg, plm, bn, frames, state, at, got>>
vars == <<intc, dirty, core>>

NoChan == -1

-----------------------------------------------------------------------------
(* The controller. *)

Requested(c) == c \in rf /\ c \notin mk

\* Mutation: a request that is masked keeps its bit in the summary.
ChanPut_Stays(C, r, m) ==
    /\ rf' = (rf \ C) \cup (C \cap r) /\ mk' = (mk \ C) \cup (C \cap m)
    /\ pend' = (pend \ (C \ r)) \cup (C \cap (r \ m))

\* chan_put for each channel of C: its word becomes the one r and m have for
\* it, and its bit is set or cleared; the other bits stay as they are.
ChanPut(C, r, m) ==
    /\ rf' = (rf \ C) \cup (C \cap r) /\ mk' = (mk \ C) \cup (C \cap m)
    /\ pend' = (pend \ C) \cup (C \cap (r \ m))

\* notify: a core's own channel is its news, a shared one everybody's.
Notify == dirty' = TRUE

\* g4mh_intc_raise, from any thread.
Raise(c) ==
    /\ ChanPut({c}, rf \cup {c}, mk)
    /\ Notify
    /\ UNCHANGED <<eibd, feint, fenmi, tptmsel, core>>

\* EICn or EEICn, by this guest or by another core's for a shared channel.
WriteChan(c) ==
    /\ \E r, m \in SUBSET {c} : ChanPut({c}, r, m)
    /\ Notify
    /\ UNCHANGED <<eibd, feint, fenmi, tptmsel, core>>

\* IMRm: the masks of 32 channels; those that change are stored, one by one.
WriteImr(m) ==
    \E masks \in SUBSET {c \in Chans : c \div 32 = m} :
        LET changed == {c \in Chans : c \div 32 = m /\ (c \in mk <=> c \notin masks)} IN
        /\ ChanPut(changed, rf, masks)
        /\ dirty' = (dirty \/ changed # {})
        /\ UNCHANGED <<eibd, feint, fenmi, tptmsel, core>>

\* EIBDn: a pending request may now be another core's, or this one's.
WriteEibd(c) ==
    /\ eibd' = IF c \in eibd THEN eibd \ {c} ELSE eibd \cup {c}
    /\ Notify
    /\ UNCHANGED <<rf, mk, pend, feint, fenmi, tptmsel, core>>

\* The timer of this core: on its channel or, unless TPTMSEL says so, as FEINT.
RaiseTptm ==
    \/ tptmsel /\ Raise(TptmChan)
    \/ /\ ~tptmsel
       /\ Len(frames) < MaxDepth
       /\ feint' = TRUE
       /\ dirty' = TRUE
       /\ UNCHANGED <<rf, mk, pend, eibd, fenmi, tptmsel, core>>

WriteTptmsel ==
    /\ tptmsel' \in BOOLEAN
    /\ UNCHANGED <<rf, mk, pend, eibd, feint, fenmi, dirty, core>>

\* The NMI pin, which reaches every core.
RaiseNmi ==
    /\ Len(frames) < MaxDepth
    /\ fenmi' = TRUE
    /\ dirty' = TRUE
    /\ UNCHANGED <<rf, mk, pend, eibd, feint, tptmsel, core>>

\* The candidates of a search: what the summary shows that is this core's.
Mine == {c \in pend : c \in Own \cup eibd}

\* g4mh_intc_pending_pri: the most urgent, the lowest number among equals.
Best(c) ==
    /\ c \in Mine
    /\ \A d \in Mine : Eip[c] < Eip[d] \/ (Eip[c] = Eip[d] /\ c <= d)

\* g4mh_intc_wakeable: could any channel of this core's ever request?
Wakeable == \E c \in Own \cup eibd : c \notin mk

-----------------------------------------------------------------------------
(* The ceiling. *)

IsprMode == ~cfg.epl /\ ~cfg.ispc

\* Mutation: a level admits its own, too.
Admits_Equal(p) ==
    /\ p < plm
    /\ IF cfg.epl THEN p <= psw.eimask ELSE \A l \in ispr : p < Levels => l >= p

\* int_ceiling_admits.
Admits(p) ==
    /\ p < plm
    /\ IF cfg.epl THEN p < psw.eimask ELSE \A l \in ispr : l > p

\* g4mh_cpu_ack_priority, on the PSW the entry has left.
AckPriority(p, w) ==
    /\ psw' = IF cfg.epl THEN [w EXCEPT !.eimask = p] ELSE w
    /\ ispr' = IF IsprMode /\ p < Levels THEN ispr \cup {p} ELSE ispr

\* Mutation: a return from a trap lowers the ceiling as well.
EiretPriority_Always == {l \in ispr : IsprMode => \E h \in ispr : h < l}

\* g4mh_cpu_eiret_priority: an interrupt's return clears the most urgent bit.
EiretPriority ==
    IF IsprMode /\ ~psw.ep THEN {l \in ispr : \E h \in ispr : h < l} ELSE ispr

-----------------------------------------------------------------------------
(* Exceptions. *)

\* exception_to: the PSW an entry leaves.
EntryPsw(fe, ep) == [psw EXCEPT !.id = TRUE, !.np = @ \/ fe, !.ep = ep]

Frame(kind, c, bank) == [kind |-> kind, ch |-> c, psw |-> psw, bank |-> bank]

\* g4mh_cpu_exception for a cause that is no EI interrupt.
Exception(kind, ep) ==
    /\ psw' = EntryPsw(kind = "fe", ep)
    /\ frames' = Append(frames, Frame(kind, NoChan, FALSE))
    /\ dirty' = TRUE
    /\ UNCHANGED <<ispr, cfg, plm, bn>>

\* g4mh_cpu_pending_fe.
PendingFe == fenmi \/ (~psw.np /\ feint)

\* g4mh_cpu_pending_irq_pri.
PendingIrq(c) == ~psw.id /\ ~psw.np /\ Best(c) /\ Admits(Eip[c])

Deliverable == PendingFe \/ \E c \in Chans : PendingIrq(c)

-----------------------------------------------------------------------------
(* The acceptance, the same in interp_run and g4mh_jit_take_irq. *)

\* Mutation: the flag is cleared when the evaluation comes back empty.
Cleared_After == dirty' = (at = "run")

\* "Cleared before the evaluation, not after".
Cleared == dirty' = (at # "run" /\ dirty)

\* A slice reaches the head of the loop; emu_core_slice hands none to a core
\* that is parked and not wakeable.
Look ==
    /\ at = "run" /\ dirty
    /\ state = "running" \/ Wakeable
    /\ Cleared
    /\ at' = "fe"
    /\ UNCHANGED <<intc, psw, ispr, cfg, plm, bn, frames, state, got>>

\* g4mh_cpu_take_fe: FENMI ahead of FEINT.
TakeFe ==
    /\ at = "fe" /\ PendingFe
    /\ fenmi' = FALSE
    /\ feint' = (fenmi /\ feint)
    /\ Exception("fe", FALSE)
    /\ state' = "running" /\ at' = "run"
    /\ UNCHANGED <<rf, mk, pend, eibd, tptmsel, got>>

NoFe ==
    /\ at = "fe" /\ ~PendingFe
    /\ at' = "ei"
    /\ UNCHANGED <<intc, dirty, psw, ispr, cfg, plm, bn, frames, state, got>>

FoundEi(c) ==
    /\ at = "ei" /\ PendingIrq(c)
    /\ got' = c
    /\ state' = "running" /\ at' = "take"
    /\ UNCHANGED <<intc, dirty, psw, ispr, cfg, plm, bn, frames>>

NoEi ==
    /\ at = "ei" /\ \A c \in Chans : ~PendingIrq(c)
    /\ at' = "run"
    /\ Cleared
    /\ UNCHANGED <<intc, psw, ispr, cfg, plm, bn, frames, state, got>>

BankBit(p) == IF p < 15 THEN p ELSE 15
UsesBank(c) == c \in Eitb /\ BankBit(Eip[c]) \in Banked
\* Mutation: the last bank is thought free.
BankFull_Late == bn > Ulnr + 1 \/ bn = 63

BankFull == bn > Ulnr \/ bn = 63

\* Mutation: the controller is told before the vector is read.
Refused_Acked(c) == ChanPut({c}, {}, mk)

Refused(c) == UNCHANGED <<rf, mk, pend>>

\* g4mh_cpu_take_eiint gives up: no bank is left, or the MPU refuses the read
\* of the table or the save.
GiveUp ==
    /\ at = "take"
    /\ got \in Eitb
    /\ Refused(got)
    /\ Exception("fe", TRUE)
    /\ at' = "run" /\ got' = NoChan
    /\ UNCHANGED <<eibd, feint, fenmi, tptmsel, state>>

\* ... or accepts.
TakeEi ==
    /\ at = "take"
    /\ ~(UsesBank(got) /\ BankFull)
    /\ ChanPut({got}, {}, mk)
    /\ LET open == UsesBank(got) /\ BankBit(Eip[got]) \in BankOpen IN
       AckPriority(Eip[got], [EntryPsw(FALSE, FALSE) EXCEPT !.id = ~open])
    /\ bn' = IF UsesBank(got) THEN bn + 1 ELSE bn
    /\ frames' = Append(frames, Frame("ei", got, UsesBank(got)))
    /\ dirty' = TRUE
    /\ at' = "run" /\ got' = NoChan
    /\ UNCHANGED <<eibd, feint, fenmi, tptmsel, cfg, plm, state>>

\* g4mh_jit_wake, when a slice of a parked core starts.
JitWake ==
    /\ at = "run" /\ state = "wfi"
    /\ Wakeable /\ Deliverable
    /\ state' = "running"
    /\ dirty' = TRUE
    /\ UNCHANGED <<intc, psw, ispr, cfg, plm, bn, frames, at, got>>

-----------------------------------------------------------------------------
(* The guest's instructions. *)

Executing == at = "run" /\ state = "running"
Top == frames[Len(frames)]
Pop == SubSeq(frames, 1, Len(frames) - 1)

\* Mutation: only a write of the PSW is looked at.
Told_Not == UNCHANGED dirty

\* A write of the interrupt bank (selID 2) may have lowered the ceiling.
Told == dirty' = TRUE

EI ==
    /\ Executing /\ Len(frames) < MaxDepth
    /\ psw' = [psw EXCEPT !.id = FALSE]
    /\ dirty' = TRUE
    /\ UNCHANGED <<intc, ispr, cfg, plm, bn, frames, state, at, got>>

DI ==
    /\ Executing
    /\ psw' = [psw EXCEPT !.id = TRUE]
    /\ UNCHANGED <<intc, dirty, ispr, cfg, plm, bn, frames, state, at, got>>

\* LDSR PSW: EIMASK is writable only with INTCFG.EPL.
LdsrPsw ==
    /\ Executing /\ frames = <<>> /\ cfg.epl
    /\ \E m \in Plms : psw' = [psw EXCEPT !.eimask = m]
    /\ dirty' = TRUE
    /\ UNCHANGED <<intc, ispr, cfg, plm, bn, frames, state, at, got>>

LdsrPlmr ==
    /\ Executing
    /\ plm' \in Plms
    /\ Told
    /\ UNCHANGED <<intc, psw, ispr, cfg, bn, frames, state, at, got>>

\* LDSR INTCFG: without EPL the PSW has no EIMASK.
LdsrIntcfg ==
    /\ Executing /\ frames = <<>>
    /\ cfg' \in Configs
    /\ psw' = IF cfg'.epl THEN psw ELSE [psw EXCEPT !.eimask = 0]
    /\ Told
    /\ UNCHANGED <<intc, ispr, plm, bn, frames, state, at, got>>

Trap ==
    /\ Executing /\ Len(frames) < MaxDepth
    /\ Exception("trap", TRUE)
    /\ UNCHANGED <<intc, state, at, got>>

\* RESBANK, at the end of a handler that was entered onto a bank.
Resbank ==
    /\ Executing /\ psw.id /\ frames # <<>> /\ Top.bank /\ bn > 0
    /\ bn' = bn - 1
    /\ frames' = [frames EXCEPT ![Len(frames)].bank = FALSE]
    /\ UNCHANGED <<intc, dirty, psw, ispr, cfg, plm, state, at, got>>

EiRet ==
    /\ Executing /\ frames # <<>>
    /\ Top.kind # "fe" /\ ~Top.bank
    /\ ispr' = EiretPriority
    /\ psw' = Top.psw
    /\ frames' = Pop
    /\ dirty' = TRUE
    /\ UNCHANGED <<intc, cfg, plm, bn, state, at, got>>

FeRet ==
    /\ Executing /\ frames # <<>> /\ Top.kind = "fe"
    /\ psw' = Top.psw
    /\ frames' = Pop
    /\ dirty' = TRUE
    /\ UNCHANGED <<intc, ispr, cfg, plm, bn, state, at, got>>

Halt ==
    /\ Executing
    /\ state' = "wfi"
    /\ UNCHANGED <<intc, dirty, psw, ispr, cfg, plm, bn, frames, at, got>>

-----------------------------------------------------------------------------
\* Reset: every channel masked, interrupts off, no ceiling.
Init ==
    /\ rf = {} /\ mk = Chans /\ pend = {} /\ eibd = {}
    /\ feint = FALSE /\ fenmi = FALSE /\ tptmsel = FALSE
    /\ dirty = TRUE
    /\ psw = [id |-> TRUE, np |-> FALSE, ep |-> FALSE, eimask |-> 0]
    /\ ispr = {} /\ cfg = [epl |-> FALSE, ispc |-> FALSE] /\ plm = 16 /\ bn = 0
    /\ frames = <<>>
    /\ state = "running" /\ at = "run" /\ got = NoChan

Controller ==
    \/ \E c \in Chans : Raise(c) \/ WriteChan(c) \/ WriteImr(c \div 32)
    \/ \E c \in Shared : WriteEibd(c)
    \/ RaiseTptm \/ WriteTptmsel \/ RaiseNmi

Acceptance ==
    \/ Look \/ TakeFe \/ NoFe \/ NoEi \/ GiveUp \/ TakeEi \/ JitWake
    \/ \E c \in Chans : FoundEi(c)

Guest ==
    \/ EI \/ DI \/ LdsrPsw \/ LdsrPlmr \/ LdsrIntcfg \/ Trap
    \/ Resbank \/ EiRet \/ FeRet \/ Halt

Next == Controller \/ Acceptance \/ Guest

Spec == Init /\ [][Next]_vars

-----------------------------------------------------------------------------
Psws == [id : BOOLEAN, np : BOOLEAN, ep : BOOLEAN, eimask : 0..63]
Frames == [kind : {"ei", "trap", "fe"}, ch : Chans \cup {NoChan},
           psw : Psws, bank : BOOLEAN]

\* Every word holds what its register can, and no more register banks are in
\* use than INTCFG.ULNR allows.
TypeOK ==
    /\ rf \subseteq Chans /\ mk \subseteq Chans /\ pend \subseteq Chans
    /\ eibd \subseteq Shared
    /\ feint \in BOOLEAN /\ fenmi \in BOOLEAN /\ tptmsel \in BOOLEAN
    /\ dirty \in BOOLEAN
    /\ psw \in Psws /\ ispr \subseteq 0..(Levels - 1)
    /\ cfg \in [epl : BOOLEAN, ispc : BOOLEAN] /\ plm \in 0..63
    /\ bn \in 0..63 /\ bn <= Ulnr + 1
    /\ \A i \in DOMAIN frames : frames[i] \in Frames
    /\ state \in {"running", "wfi"} /\ at \in {"run", "fe", "ei", "take"}
    /\ got \in Chans \cup {NoChan}

\* The summary the searches go by shows exactly the channels that request
\* and are not masked, whoever wrote the channel and through which window.
PendExact == TypeOK /\ pend = {c \in Chans : Requested(c)}

\* A core that is not told to look has nothing to take: whatever makes an
\* interrupt deliverable, a request, a mask, a binding, PSW, the ceiling or
\* the end of a handler, has the flag set until the core has looked.
NothingMissed == (at = "run" /\ ~dirty) => ~Deliverable

\* The request a step drops as it enters or leaves a handler is the one of the
\* interrupt it enters.
DropsOnlyTaken ==
    \A c \in Chans :
        (frames' # frames /\ c \in rf /\ c \notin rf')
            => /\ Len(frames') > Len(frames)
               /\ frames'[Len(frames')].kind = "ei"
               /\ frames'[Len(frames')].ch = c

\* A step that enters or leaves a handler drops no request but the one of the
\* interrupt it enters: "with the interrupt held", a bank overflow and a
\* refused table read leave it for the next evaluation.
RequestKept == [][DropsOnlyTaken]_vars

OpenEi == {i \in DOMAIN frames : frames[i].kind = "ei"}

\* ISPR has a bit for every open handler of one of the sixteen levels and no
\* other: traps and FE handlers that come and go in between, or handlers of
\* the levels it has no bit for, neither leave one behind nor take one.
CeilingIsOpenHandlers ==
    IsprMode => ispr = {Eip[frames[i].ch] : i \in OpenEi} \cap 0..(Levels - 1)

\* A handler of a level the ceiling knows is interrupted only by a more
\* urgent one, also after it has enabled interrupts itself, from within a
\* trap it makes, and after handlers that have come and gone.
NestedHigher ==
    \A i, j \in OpenEi :
        (i < j /\ (cfg.epl \/ (IsprMode /\ Eip[frames[i].ch] < Levels)))
            => Eip[frames[j].ch] < Eip[frames[i].ch]

\* "Parked in HALT with every channel masked means nothing can ever wake this
\* core": what the scheduler goes by when it gives a core no slice.
ParkedForGood == (state = "wfi" /\ ~Wakeable) => ~Deliverable
\* Handlers nest as the priorities say, and the ceiling is what they add up to.
HandlersNest == CeilingIsOpenHandlers /\ NestedHigher
=============================================================================
