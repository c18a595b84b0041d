--------------------------- MODULE G4mhIntcProofs ---------------------------
(***************************************************************************)
(* That a G4MH core misses no interrupt, drops no request and nests its    *)
(* handlers by priority, for every set of channels, their priorities,      *)
(* vector methods, register banks and configurations, and any depth.       *)
(***************************************************************************)
EXTENDS G4mhIntc, SequenceTheorems, TLAPS

-----------------------------------------------------------------------------
(* Types. *)

\* What an evaluation has found is a channel.
Typed == TypeOK /\ frames \in Seq(Frames) /\ (at = "take" => got \in Chans)

LEMMA Constant ==
    /\ Chans \subseteq Nat /\ NoChan = -1 /\ NoChan \notin Chans /\ TptmChan \in Chans
    /\ Own \subseteq Chans /\ Shared \subseteq Chans
    /\ \A c \in Chans : Eip[c] \in 0..63
    /\ Ulnr \in 0..63 /\ Plms \subseteq 0..63
    /\ Configs \subseteq [epl : BOOLEAN, ispc : BOOLEAN]
BY IntcAssumption DEF Chans, NoChan

\* Priorities and masks.
LEMMA Chain ==
    ASSUME NEW a \in 0..63, NEW b \in 0..63, NEW c \in 0..63
    PROVE  /\ a < b /\ b <= c => a < c /\ a <= c
           /\ a <= b /\ a # b => a < b
           /\ a < b => a # b /\ a <= b
           /\ a < Levels <=> a \in 0..(Levels - 1)
           /\ a < b /\ b < Levels => a < Levels
BY DEF Levels

\* A counter of six bits, at most one more than u.
LEMMA Counter ==
    ASSUME NEW u \in 0..63, NEW b \in 0..63, b <= u + 1
    PROVE  /\ b > 0 => b - 1 \in 0..63 /\ b - 1 <= u + 1
           /\ ~(b > u \/ b = 63) => b + 1 \in 0..63 /\ b + 1 <= u + 1
OBVIOUS

LEMMA Shorter ==
    ASSUME NEW n \in Nat \ {0}, NEW m, m = IF 1 <= n - 1 THEN n - 1 - 1 + 1 ELSE 0
    PROVE  m = n - 1
OBVIOUS

\* Pushing a frame.
LEMMA Pushed ==
    ASSUME NEW S, NEW s \in Seq(S), NEW e \in S
    PROVE  /\ Append(s, e) \in Seq(S) /\ Len(Append(s, e)) = Len(s) + 1
           /\ Append(s, e)[Len(s) + 1] = e /\ Append(s, e) # s
           /\ \A i \in 1 .. Len(s) : Append(s, e)[i] = s[i]
OBVIOUS

\* Popping one.
LEMMA Popped ==
    ASSUME NEW S, NEW s \in Seq(S), s # <<>>
    PROVE  /\ SubSeq(s, 1, Len(s) - 1) \in Seq(S) /\ Len(SubSeq(s, 1, Len(s) - 1)) = Len(s) - 1
           /\ \A i \in 1 .. Len(s) - 1 : SubSeq(s, 1, Len(s) - 1)[i] = s[i]
           /\ Len(s) \in Nat \ {0} /\ s[Len(s)] \in S
<1>1. Len(s) \in Nat \ {0} /\ \A i \in 1 .. Len(s) : s[i] \in S
  OBVIOUS
<1>2. /\ SubSeq(s, 1, Len(s) - 1) \in Seq(S)
      /\ Len(SubSeq(s, 1, Len(s) - 1)) = IF 1 <= Len(s) - 1 THEN Len(s) - 1 - 1 + 1 ELSE 0
      /\ \A i \in 1 .. Len(s) - 1 - 1 + 1 : SubSeq(s, 1, Len(s) - 1)[i] = s[1 + i - 1]
  BY <1>1, SubSeqProperties
<1>3. Len(SubSeq(s, 1, Len(s) - 1)) = Len(s) - 1
  BY <1>1, <1>2, Shorter, Zenon
<1>4. ASSUME NEW i \in 1 .. Len(s) - 1 PROVE SubSeq(s, 1, Len(s) - 1)[i] = s[i]
  <2>1. i \in 1 .. Len(s) - 1 - 1 + 1 /\ 1 + i - 1 = i
    BY <1>1
  <2> QED
    BY <1>2, <2>1
<1> QED
  BY <1>1, <1>2, <1>3, <1>4

\* Setting PSW.ID.
LEMMA PswPut ==
    ASSUME NEW w \in Psws, NEW b \in BOOLEAN
    PROVE  /\ [w EXCEPT !.id = b] \in Psws /\ [w EXCEPT !.id = b].id = b
           /\ [w EXCEPT !.id = b].np = w.np /\ [w EXCEPT !.id = b].ep = w.ep
           /\ [w EXCEPT !.id = b].eimask = w.eimask
BY DEF Psws

\* Setting PSW.EIMASK.
LEMMA MaskPut ==
    ASSUME NEW w \in Psws, NEW b \in 0..63
    PROVE  /\ [w EXCEPT !.eimask = b] \in Psws /\ [w EXCEPT !.eimask = b].eimask = b
           /\ [w EXCEPT !.eimask = b].ep = w.ep
BY DEF Psws

\* The PSW an entry leaves, and the frame it saves.
LEMMA EntryType ==
    ASSUME psw \in Psws, NEW kind \in {"ei", "trap", "fe"}, NEW ep \in BOOLEAN, NEW fe \in BOOLEAN,
           NEW c \in Chans \cup {NoChan}, NEW bank \in BOOLEAN
    PROVE  /\ EntryPsw(fe, ep) \in Psws
           /\ EntryPsw(fe, ep).eimask = psw.eimask /\ EntryPsw(fe, ep).ep = ep
           /\ Frame(kind, c, bank) \in Frames
<1>1. EntryPsw(fe, ep) \in Psws
  BY Zenon DEF EntryPsw, Psws
<1>2. EntryPsw(fe, ep).eimask = psw.eimask /\ EntryPsw(fe, ep).ep = ep
  BY DEF EntryPsw, Psws
<1>3. Frame(kind, c, bank) \in Frames
  BY DEF Frame, Frames
<1> QED
  BY <1>1, <1>2, <1>3

LEMMA TypeInit == Init => Typed
<1> SUFFICES ASSUME Init PROVE Typed
  OBVIOUS
<1>1. frames \in Seq(Frames) /\ \A i \in DOMAIN frames : frames[i] \in Frames
  BY DEF Init
<1>2. psw \in Psws /\ cfg \in [epl : BOOLEAN, ispc : BOOLEAN]
  BY DEF Init, Psws
<1>3. bn \in 0..63 /\ bn <= Ulnr + 1 /\ ispr \subseteq 0..(Levels - 1) /\ plm \in 0..63
  BY Constant DEF Init
<1> QED
  BY <1>1, <1>2, <1>3, Zenon DEF Init, Typed, TypeOK

\* An exception that is no EI interrupt.
LEMMA ExceptionType ==
    ASSUME psw \in Psws, frames \in Seq(Frames), NEW kind \in {"trap", "fe"}, NEW ep \in BOOLEAN,
           Exception(kind, ep)
    PROVE  /\ psw' \in Psws /\ frames' \in Seq(Frames) /\ dirty' = TRUE
           /\ UNCHANGED <<ispr, cfg, plm, bn>>
<1>1. EntryPsw(kind = "fe", ep) \in Psws /\ Frame(kind, NoChan, FALSE) \in Frames
  BY EntryType, Zenon
<1> QED
  BY <1>1, Pushed, Zenon DEF Exception

\* A write of IMRm stores the channels whose masks change.
LEMMA ImrIsPut ==
    ASSUME NEW m, WriteImr(m)
    PROVE  \E masks \in SUBSET Chans, changed \in SUBSET Chans :
              /\ ChanPut(changed, rf, masks) /\ dirty' = (dirty \/ changed # {})
              /\ UNCHANGED <<eibd, feint, fenmi, tptmsel, core>>
<1>1. PICK masks \in SUBSET {c \in Chans : c \div 32 = m} :
        /\ ChanPut({c \in Chans : c \div 32 = m /\ (c \in mk <=> c \notin masks)}, rf, masks)
        /\ dirty' = (dirty \/ {c \in Chans : c \div 32 = m /\ (c \in mk <=> c \notin masks)} # {})
        /\ UNCHANGED <<eibd, feint, fenmi, tptmsel, core>>
  BY Zenon DEF WriteImr
<1> DEFINE changed == {c \in Chans : c \div 32 = m /\ (c \in mk <=> c \notin masks)}
<1>2. masks \in SUBSET Chans /\ changed \in SUBSET Chans
  OBVIOUS
<1>3. ChanPut(changed, rf, masks) /\ dirty' = (dirty \/ changed # {}) /\ UNCHANGED <<eibd, feint, fenmi, tptmsel, core>>
  BY <1>1
<1> HIDE DEF changed
<1> QED
  BY <1>2, <1>3, Zenon

LEMMA TypeNext == Typed /\ [Next]_vars => Typed'
<1> SUFFICES ASSUME Typed, [Next]_vars PROVE Typed'
  OBVIOUS
<1>p. psw \in Psws
  BY DEF Typed, TypeOK
<1>b. bn \in 0..63 /\ bn <= Ulnr + 1 /\ Ulnr \in 0..63
  BY Constant DEF Typed, TypeOK
<1>a. ASSUME frames' \in Seq(Frames) PROVE \A i \in DOMAIN frames' : frames'[i] \in Frames
  BY <1>a
<1>1. CASE Controller
  <2>1. UNCHANGED core
    BY <1>1, Zenon DEF Controller, Raise, WriteChan, WriteImr, WriteEibd, RaiseTptm, WriteTptmsel, RaiseNmi
  <2>2. /\ rf' \subseteq Chans /\ mk' \subseteq Chans /\ pend' \subseteq Chans /\ eibd' \subseteq Shared
        /\ feint' \in BOOLEAN /\ fenmi' \in BOOLEAN /\ tptmsel' \in BOOLEAN /\ dirty' \in BOOLEAN
    <3>1. ASSUME NEW c \in Chans, Raise(c) \/ WriteChan(c)
          PROVE  rf' \subseteq Chans /\ mk' \subseteq Chans /\ pend' \subseteq Chans /\ dirty'
                 /\ UNCHANGED <<eibd, feint, fenmi, tptmsel>>
      BY <3>1 DEF Raise, WriteChan, ChanPut, Notify, Typed, TypeOK
    <3>4. ASSUME NEW m, WriteImr(m)
          PROVE  rf' \subseteq Chans /\ mk' \subseteq Chans /\ pend' \subseteq Chans /\ dirty' \in BOOLEAN
                 /\ UNCHANGED <<eibd, feint, fenmi, tptmsel>>
      <4>1. PICK masks \in SUBSET Chans, changed \in SUBSET Chans :
              ChanPut(changed, rf, masks) /\ dirty' = (dirty \/ changed # {}) /\ UNCHANGED <<eibd, feint, fenmi, tptmsel>>
        BY <3>4, ImrIsPut, Zenon
      <4>2. rf' \subseteq Chans /\ mk' \subseteq Chans /\ pend' \subseteq Chans
        BY <4>1 DEF ChanPut, Typed, TypeOK
      <4> QED
        BY <4>1, <4>2, Zenon
    <3>2. ASSUME NEW c \in Shared, WriteEibd(c)
          PROVE  eibd' \subseteq Shared /\ dirty' /\ UNCHANGED <<rf, mk, pend, feint, fenmi, tptmsel>>
      BY <3>2 DEF WriteEibd, Notify, Typed, TypeOK
    <3>3. CASE RaiseTptm \/ WriteTptmsel \/ RaiseNmi
      BY <3>1, <3>3, Constant, Zenon DEF RaiseTptm, WriteTptmsel, RaiseNmi, Typed, TypeOK
    <3> QED
      BY <1>1, <3>1, <3>2, <3>3, <3>4, Zenon DEF Controller, Typed, TypeOK
  <2> QED
    BY <2>1, <2>2 DEF core, Typed, TypeOK
<1>2. CASE Look \/ NoFe \/ NoEi \/ JitWake \/ EI \/ DI \/ Halt
  <2>1. UNCHANGED <<intc, ispr, cfg, plm, bn, frames, got>> /\ at' \in {"run", "fe", "ei", "take"}
        /\ (at' = "take" => at = "take") /\ state' \in {"running", "wfi"}
    BY <1>2 DEF Look, NoFe, NoEi, JitWake, EI, DI, Halt, Typed, TypeOK
  <2>2. psw' \in Psws
    BY <1>2, PswPut, Zenon DEF Look, NoFe, NoEi, JitWake, EI, DI, Halt, Typed, TypeOK
  <2>3. dirty' \in BOOLEAN
    BY <1>2, Zenon DEF Look, NoFe, NoEi, JitWake, EI, DI, Halt, Cleared, Typed, TypeOK
  <2> QED
    BY <2>1, <2>2, <2>3 DEF Typed, TypeOK, intc
<1>3. CASE TakeFe
  <2>1. psw' \in Psws /\ frames' \in Seq(Frames) /\ dirty' = TRUE /\ UNCHANGED <<ispr, cfg, plm, bn>>
    BY <1>3, ExceptionType, Zenon DEF TakeFe, Typed, TypeOK
  <2> QED
    BY <1>3, <2>1, <1>a, Zenon DEF TakeFe, Typed, TypeOK
<1>4. CASE \E c \in Chans : FoundEi(c)
  BY <1>4 DEF FoundEi, Typed, TypeOK, intc
<1>5. CASE GiveUp
  <2>1. psw' \in Psws /\ frames' \in Seq(Frames) /\ dirty' = TRUE /\ UNCHANGED <<ispr, cfg, plm, bn>>
    BY <1>5, ExceptionType, Zenon DEF GiveUp, Typed, TypeOK
  <2> QED
    BY <1>5, <2>1, <1>a DEF GiveUp, Refused, Typed, TypeOK
<1>6. CASE TakeEi
  <2>1. got \in Chans /\ Eip[got] \in 0..63
    BY <1>6, Constant DEF TakeEi, Typed
  <2>2. Frame("ei", got, UsesBank(got)) \in Frames /\ EntryPsw(FALSE, FALSE) \in Psws
    BY <2>1, EntryType, Zenon DEF UsesBank, Typed, TypeOK
  <2>3. frames' \in Seq(Frames)
    BY <1>6, <2>2 DEF TakeEi, Typed
  <2>4. psw' \in Psws /\ ispr' \subseteq 0..(Levels - 1)
    <3> DEFINE w == [EntryPsw(FALSE, FALSE) EXCEPT !.id = ~(UsesBank(got) /\ BankBit(Eip[got]) \in BankOpen)]
    <3>1. w \in Psws
      BY <2>2, PswPut, Zenon
    <3>2. AckPriority(Eip[got], w)
      BY <1>6 DEF TakeEi
    <3> HIDE DEF w
    <3>3. psw' \in Psws
      <4>1. Eip[got] \in 0..63 /\ (psw' = [w EXCEPT !.eimask = Eip[got]] \/ psw' = w)
        BY <2>1, <3>2 DEF AckPriority
      <4> QED
        BY <3>1, <4>1, MaskPut, Zenon
    <3>4. ispr' \subseteq 0..(Levels - 1)
      <4>1. ispr \subseteq 0..(Levels - 1) /\ (ispr' = ispr \/ (ispr' = ispr \cup {Eip[got]} /\ Eip[got] < Levels))
        BY <3>2 DEF AckPriority, Typed, TypeOK
      <4>2. Eip[got] < Levels => Eip[got] \in 0..(Levels - 1)
        BY <2>1 DEF Levels
      <4> QED
        BY <4>1, <4>2, Zenon
    <3> QED
      BY <3>3, <3>4
  <2>5. bn' \in 0..63 /\ bn' <= Ulnr + 1
    <3>1. bn' = bn \/ (bn' = bn + 1 /\ ~(bn > Ulnr \/ bn = 63))
      BY <1>6 DEF TakeEi, BankFull
    <3> QED
      BY <1>b, <3>1, Counter
  <2> QED
    BY <1>6, <2>3, <2>4, <2>5, <1>a DEF TakeEi, ChanPut, Typed, TypeOK
<1>7. CASE LdsrPsw \/ LdsrPlmr \/ LdsrIntcfg
  <2>1. UNCHANGED <<intc, ispr, bn, frames, state, at, got>> /\ dirty'
    BY <1>7, SMTT(30) DEF LdsrPsw, LdsrPlmr, LdsrIntcfg, Told
  <2>2. psw' \in Psws
    <3>1. psw' = psw \/ \E m \in 0..63 : psw' = [psw EXCEPT !.eimask = m]
      <4>1. Plms \subseteq 0..63 /\ 0 \in 0..63
        BY Constant
      <4>2. CASE LdsrPsw
        BY <4>1, <4>2, Zenon DEF LdsrPsw
      <4>3. CASE LdsrPlmr \/ LdsrIntcfg
        BY <4>1, <4>3 DEF LdsrPlmr, LdsrIntcfg
      <4> QED
        BY <1>7, <4>2, <4>3
    <3> QED
      BY <1>p, <3>1, MaskPut, Zenon
  <2>3. cfg' \in [epl : BOOLEAN, ispc : BOOLEAN] /\ plm' \in 0..63
    BY <1>7, Constant, Zenon DEF LdsrPsw, LdsrPlmr, LdsrIntcfg, Typed, TypeOK
  <2> QED
    BY <2>1, <2>2, <2>3 DEF Typed, TypeOK, intc
<1>8. CASE Trap
  <2>1. psw' \in Psws /\ frames' \in Seq(Frames) /\ dirty' = TRUE /\ UNCHANGED <<ispr, cfg, plm, bn>>
    BY <1>8, ExceptionType, Zenon DEF Trap, Typed, TypeOK
  <2> QED
    BY <1>8, <2>1, <1>a DEF Trap, Typed, TypeOK, intc
<1>9. CASE Resbank
  <2>1. frames' \in Seq(Frames)
    <3>1. frames[Len(frames)] \in Frames /\ Len(frames) \in 1 .. Len(frames)
      BY <1>9, Popped DEF Resbank, Typed
    <3>2. [frames[Len(frames)] EXCEPT !.bank = FALSE] \in Frames
      BY <3>1, Zenon DEF Frames
    <3>3. frames' = [frames EXCEPT ![Len(frames)] = [frames[Len(frames)] EXCEPT !.bank = FALSE]]
      BY <1>9 DEF Resbank
    <3> QED
      BY <3>1, <3>2, <3>3 DEF Typed
  <2>2. bn' \in 0..63 /\ bn' <= Ulnr + 1
    <3>1. bn > 0 /\ bn' = bn - 1
      BY <1>9 DEF Resbank
    <3> QED
      BY <1>b, <3>1, Counter
  <2> QED
    BY <1>9, <2>1, <2>2, <1>a DEF Resbank, Typed, TypeOK, intc
<1>10. CASE EiRet \/ FeRet
  <2>1. frames' \in Seq(Frames) /\ psw' \in Psws
    <3>1. frames # <<>> /\ frames' = Pop /\ psw' = Top.psw
      BY <1>10 DEF EiRet, FeRet
    <3>2. Pop \in Seq(Frames) /\ Top \in Frames
      BY <3>1, Popped DEF Typed, Pop, Top
    <3> QED
      BY <3>1, <3>2 DEF Frames
  <2>2. ispr' \subseteq ispr
    BY <1>10 DEF EiRet, FeRet, EiretPriority
  <2>3. UNCHANGED <<intc, cfg, plm, bn, state, at, got>> /\ dirty' = TRUE
    BY <1>10 DEF EiRet, FeRet
  <2>4. \A i \in DOMAIN frames' : frames'[i] \in Frames
    BY <2>1
  <2> QED
    BY <2>1, <2>2, <2>3, <2>4 DEF Typed, TypeOK, intc
<1>11. CASE UNCHANGED vars
  BY <1>11 DEF vars, intc, core, Typed, TypeOK
<1> QED
  BY <1>1, <1>2, <1>3, <1>4, <1>5, <1>6, <1>7, <1>8, <1>9, <1>10, <1>11 DEF Next, Acceptance, Guest

-----------------------------------------------------------------------------
(* Nothing is missed. *)

Summary == pend = {c \in Chans : Requested(c)}

\* Where an evaluation has come to with no news since it began, there is no
\* FE interrupt once it has looked for one.
Marked ==
    /\ NothingMissed
    /\ (at = "ei" /\ ~dirty) => ~PendingFe

LEMMA SummaryNext == Typed /\ Summary /\ [Next]_vars => Summary'
<1> SUFFICES ASSUME Typed, Summary, [Next]_vars PROVE Summary'
  OBVIOUS
<1> USE Constant DEF Summary, Requested
<1>1. CASE UNCHANGED <<rf, mk, pend>>
  BY <1>1
<1>2. ASSUME NEW C \in SUBSET Chans, NEW r, NEW m, ChanPut(C, r, m) PROVE Summary'
  <2> SUFFICES ASSUME NEW c \in Chans PROVE c \in pend' <=> c \in rf' /\ c \notin mk'
    <3>1. pend' \subseteq Chans
      BY <1>2 DEF ChanPut, Typed, TypeOK
    <3> QED
      BY <3>1
  <2>1. c \in pend <=> c \in rf /\ c \notin mk
    OBVIOUS
  \* The word of a channel that is put and its bit are written together ...
  <2>2. CASE c \in C
    BY <1>2, <2>2 DEF ChanPut
  \* ... and one that is not has the word and the bit it had.
  <2>3. CASE c \notin C
    BY <1>2, <2>1, <2>3 DEF ChanPut
  <2> QED
    BY <2>2, <2>3
<1>3. CASE Controller
  <2>1. ASSUME NEW c \in Chans, Raise(c) \/ WriteChan(c) PROVE Summary'
    BY <1>2, <2>1, Zenon DEF Raise, WriteChan
  <2>2. ASSUME NEW m, WriteImr(m) PROVE Summary'
    BY <1>2, <2>2, ImrIsPut, Zenon
  <2>3. CASE RaiseTptm
    BY <1>1, <2>1, <2>3, Zenon DEF RaiseTptm
  <2> QED
    BY <1>1, <1>3, <2>1, <2>2, <2>3, Zenon DEF Controller, WriteEibd, WriteTptmsel, RaiseNmi
<1>4. CASE Acceptance
  <2>1. CASE TakeEi
    BY <1>2, <2>1, Zenon DEF TakeEi, Typed
  <2> QED
    BY <1>1, <2>1, <1>4, Zenon DEF Acceptance, Look, TakeFe, NoFe, NoEi, GiveUp, Refused, JitWake, FoundEi, intc
<1>5. CASE Guest
  BY <1>1, <1>5, Zenon DEF Guest, EI, DI, LdsrPsw, LdsrPlmr, LdsrIntcfg, Trap, Resbank, EiRet, FeRet, Halt, intc
<1>6. CASE UNCHANGED vars
  BY <1>1, <1>6 DEF vars, intc
<1> QED
  BY <1>3, <1>4, <1>5, <1>6 DEF Next

\* The summary shows exactly the channels that request and are not masked,
\* although each way of writing a channel changes that channel's bit alone:
\* no sequence of raises, EIC, EEIC and IMR writes, acknowledgements and
\* refused acceptances makes a bit and its word drift apart (chan_put).
THEOREM SummaryExact == Spec => []PendExact
<1>1. Init => Typed /\ Summary
  BY TypeInit DEF Init, Summary, Requested
<1>2. Typed /\ Summary /\ [Next]_vars => (Typed /\ Summary)'
  BY TypeNext, SummaryNext
<1>3. Typed /\ Summary => PendExact
  BY DEF Typed, Summary, PendExact
<1> QED
  BY <1>1, <1>2, <1>3, PTL DEF Spec

\* What is deliverable depends on these alone.
LEMMA SameDeliverable ==
    ASSUME Typed, psw' \in Psws, psw'.np = psw.np, psw'.eimask = psw.eimask, psw.id => psw'.id,
           UNCHANGED <<pend, eibd, feint, fenmi, ispr, cfg, plm>>
    PROVE  (PendingFe' = PendingFe) /\ (~Deliverable => ~Deliverable')
<1>1. PendingFe' = PendingFe
  BY DEF PendingFe
<1>2. ASSUME NEW c \in Chans PROVE PendingIrq(c)' => PendingIrq(c)
  BY DEF PendingIrq, Best, Mine, Admits
<1> QED
  BY <1>1, <1>2 DEF Deliverable

LEMMA MarkedNext == Typed /\ Marked /\ [Next]_vars => Marked'
<1> SUFFICES ASSUME Typed, Marked, [Next]_vars PROVE Marked'
  OBVIOUS
<1> USE DEF Marked, NothingMissed
<1>t. Typed'
  BY TypeNext
<1>1. CASE dirty'
  BY <1>1
<1>2. CASE Controller
  <2>1. CASE WriteTptmsel
    <3>1. (PendingFe' = PendingFe) /\ (~Deliverable => ~Deliverable')
      BY <2>1, SameDeliverable DEF WriteTptmsel, core, Typed, TypeOK
    <3> QED
      BY <2>1, <3>1 DEF WriteTptmsel, core
  <2>2. ASSUME NEW m, WriteImr(m) PROVE Marked'
    <3>1. PICK masks \in SUBSET Chans, changed \in SUBSET Chans :
            ChanPut(changed, rf, masks) /\ dirty' = (dirty \/ changed # {}) /\ UNCHANGED <<eibd, feint, fenmi, tptmsel, core>>
      BY <2>2, ImrIsPut, Zenon
    \* With no mask changed, nothing is.
    <3>2. CASE changed = {}
      <4>1. pend' = pend /\ UNCHANGED <<eibd, feint, fenmi, core>>
        BY <3>1, <3>2 DEF ChanPut
      <4>2. dirty' = dirty
        BY <3>1, <3>2, Zenon DEF Typed, TypeOK
      <4>3. (PendingFe' = PendingFe) /\ (~Deliverable => ~Deliverable')
        BY <4>1, SameDeliverable DEF core, Typed, TypeOK
      <4> QED
        BY <4>1, <4>2, <4>3 DEF core
    <3> QED
      BY <1>1, <3>1, <3>2, Zenon
  <2> QED
    BY <1>1, <1>2, <2>1, <2>2, Zenon DEF Controller, Raise, WriteChan, WriteEibd, RaiseTptm, RaiseNmi, Notify
<1>3. CASE Look
  BY <1>3 DEF Look
<1>4. CASE NoFe
  BY <1>4 DEF NoFe, PendingFe, intc
<1>5. CASE NoEi
  <2>1. ~dirty' => ~dirty
    BY <1>5 DEF NoEi, Cleared, Typed, TypeOK
  <2>2. ~dirty => ~Deliverable
    BY <1>5 DEF NoEi, Deliverable
  <2>3. ~Deliverable => ~Deliverable'
    BY <1>5, SameDeliverable DEF NoEi, intc, Typed, TypeOK
  <2> QED
    BY <1>5, <2>1, <2>2, <2>3 DEF NoEi
<1>6. CASE \E c \in Chans : FoundEi(c)
  BY <1>6 DEF FoundEi
<1>7. CASE DI \/ Resbank \/ Halt
  <2>1. ~Deliverable => ~Deliverable'
    BY <1>7, <1>t, SameDeliverable DEF DI, Resbank, Halt, intc, Typed, TypeOK, Psws
  <2> QED
    BY <1>7, <2>1 DEF DI, Resbank, Halt, Executing
<1>8. CASE UNCHANGED vars
  <2>1. (PendingFe' = PendingFe) /\ (~Deliverable => ~Deliverable')
    BY <1>8, SameDeliverable DEF vars, intc, core, Typed, TypeOK
  <2> QED
    BY <1>8, <2>1 DEF vars, core
<1>9. CASE TakeFe \/ GiveUp \/ TakeEi \/ JitWake \/ EI \/ LdsrPsw \/ LdsrPlmr \/ LdsrIntcfg \/ Trap \/ EiRet \/ FeRet
  BY <1>1, <1>9, Zenon DEF TakeFe, GiveUp, TakeEi, JitWake, EI, LdsrPsw, LdsrPlmr, LdsrIntcfg, Trap, EiRet, FeRet, Exception, Told
<1> QED
  BY <1>2, <1>3, <1>4, <1>5, <1>6, <1>7, <1>8, <1>9 DEF Next, Acceptance, Guest

\* A core that is not told to look has nothing to take (irq_dirty).
THEOREM NeverMissed == Spec => []NothingMissed
<1>1. Init => Typed /\ Marked
  BY TypeInit DEF Init, Marked, NothingMissed
<1>2. Typed /\ Marked /\ [Next]_vars => (Typed /\ Marked)'
  BY TypeNext, MarkedNext
<1>3. Marked => NothingMissed
  BY DEF Marked
<1> QED
  BY <1>1, <1>2, <1>3, PTL DEF Spec

\* A step that enters or leaves a handler drops no request but the one of the
\* interrupt it enters (g4mh_cpu_take_eiint).
THEOREM NoRequestDropped == Spec => RequestKept
<1> DEFINE Kept(c) ==
      (frames' # frames /\ c \in rf /\ c \notin rf')
        => /\ Len(frames') > Len(frames)
           /\ frames'[Len(frames')].kind = "ei" /\ frames'[Len(frames')].ch = c
<1>1. ASSUME Typed, [Next]_vars, NEW c \in Chans PROVE Kept(c)
  <2>1. CASE frames' = frames \/ rf \subseteq rf'
    BY <2>1
  <2>2. CASE TakeEi
    <3>1. got \in Chans /\ Frame("ei", got, UsesBank(got)) \in Frames
      BY <1>1, <2>2, EntryType, Zenon DEF TakeEi, UsesBank, Typed, TypeOK
    <3>2. /\ Len(frames') = Len(frames) + 1 /\ Len(frames) \in Nat
          /\ frames'[Len(frames) + 1] = Frame("ei", got, UsesBank(got))
      BY <1>1, <2>2, <3>1, Pushed DEF TakeEi, Typed
    <3>3. rf' = rf \ {got}
      BY <2>2 DEF TakeEi, ChanPut
    <3> QED
      BY <3>2, <3>3 DEF Frame
  <2>3. CASE Controller
    BY <2>1, <2>3, Zenon DEF Controller, Raise, WriteChan, WriteImr, WriteEibd, RaiseTptm, WriteTptmsel, RaiseNmi, core
  <2>4. CASE Acceptance /\ ~TakeEi
    BY <2>1, <2>4, Zenon DEF Acceptance, Look, TakeFe, NoFe, NoEi, GiveUp, Refused, JitWake, FoundEi, intc
  <2>5. CASE Guest
    BY <2>1, <2>5, Zenon DEF Guest, EI, DI, LdsrPsw, LdsrPlmr, LdsrIntcfg, Trap, Resbank, EiRet, FeRet, Halt, intc
  <2>6. CASE UNCHANGED vars
    BY <2>1, <2>6 DEF vars, core
  <2> QED
    BY <1>1, <2>2, <2>3, <2>4, <2>5, <2>6 DEF Next
<1>2. Typed /\ [Next]_vars => [DropsOnlyTaken]_vars
  BY <1>1 DEF DropsOnlyTaken
<1>3. Spec => []Typed
  BY TypeInit, TypeNext, PTL DEF Spec
<1> QED
  BY <1>2, <1>3, PTL DEF Spec, RequestKept

-----------------------------------------------------------------------------
(* Handlers nest. *)

\* The PSW a handler ran with when it was last interrupted, or runs with.
PswIn(i) == IF i = Len(frames) THEN psw ELSE frames[i + 1].psw

\* ISPR is only used in its own mode; PSW.EP tells how a handler was entered;
\* in EPL mode no mask inside a handler is above its priority; and what an
\* evaluation has found was admitted by the ceiling, which stands until it is
\* taken.
Nest ==
    /\ HandlersNest
    /\ ~IsprMode => ispr = {}
    /\ \A i \in 1 .. Len(frames) :
         /\ frames[i].kind = "ei" => ~PswIn(i).ep /\ frames[i].ch \in Chans
         /\ frames[i].kind = "trap" => PswIn(i).ep
    /\ cfg.epl => \A i \in 1 .. Len(frames) : frames[i].kind = "ei" =>
         /\ psw.eimask <= Eip[frames[i].ch]
         /\ \A k \in i + 1 .. Len(frames) : frames[k].psw.eimask <= Eip[frames[i].ch]
    /\ at = "take" => Admits(Eip[got])

\* The ceiling, level by level.
LEMMA Ceiling ==
    ASSUME NEW fs \in Seq(Frames), NEW is \in SUBSET (0..(Levels - 1))
    PROVE  is = {Eip[fs[i].ch] : i \in {i \in DOMAIN fs : fs[i].kind = "ei"}} \cap 0..(Levels - 1)
           <=> \A l \in 0..(Levels - 1) :
                 l \in is <=> \E i \in 1 .. Len(fs) : fs[i].kind = "ei" /\ Eip[fs[i].ch] = l
<1> DEFINE Open(l) == \E i \in 1 .. Len(fs) : fs[i].kind = "ei" /\ Eip[fs[i].ch] = l
           Levs == {Eip[fs[i].ch] : i \in {i \in DOMAIN fs : fs[i].kind = "ei"}}
<1>1. DOMAIN fs = 1 .. Len(fs)
  OBVIOUS
<1>2. \A l : l \in Levs <=> Open(l)
  BY <1>1
<1> HIDE DEF Open, Levs
<1>3. is = Levs \cap 0..(Levels - 1) <=> \A l \in 0..(Levels - 1) : l \in is <=> Open(l)
  BY <1>2, Zenon
<1> QED
  BY <1>3, SMTT(30) DEF Open, Levs

LEMMA CeilingLevels ==
    ASSUME Typed
    PROVE  CeilingIsOpenHandlers <=>
             (IsprMode => \A l \in 0..(Levels - 1) :
                l \in ispr <=> \E i \in 1 .. Len(frames) : frames[i].kind = "ei" /\ Eip[frames[i].ch] = l)
<1>1. frames \in Seq(Frames) /\ ispr \in SUBSET (0..(Levels - 1))
  BY DEF Typed, TypeOK
<1> QED
  BY <1>1, Ceiling, Zenon DEF CeilingIsOpenHandlers, OpenEi

LEMMA CeilingLevelsNext ==
    ASSUME Typed'
    PROVE  CeilingIsOpenHandlers' <=>
             (IsprMode' => \A l \in 0..(Levels - 1) :
                l \in ispr' <=> \E i \in 1 .. Len(frames') : frames'[i].kind = "ei" /\ Eip[frames'[i].ch] = l)
<1>1. frames' \in Seq(Frames) /\ ispr' \in SUBSET (0..(Levels - 1))
  BY DEF Typed, TypeOK
<1> QED
  BY <1>1, Ceiling, Zenon DEF CeilingIsOpenHandlers, OpenEi

LEMMA PswTyped == ASSUME Typed PROVE psw \in Psws /\ psw.eimask \in 0..63
<1>1. psw \in Psws
  BY SMTT(30) DEF Typed, TypeOK
<1> QED
  BY <1>1 DEF Psws

\* What does not touch the frames, the ceiling or the masks keeps them.
LEMMA NestKept ==
    ASSUME Typed, Nest, Typed', UNCHANGED <<ispr, cfg>>,
           Len(frames') = Len(frames),
           \A i \in 1 .. Len(frames) : /\ frames'[i].kind = frames[i].kind /\ frames'[i].ch = frames[i].ch
                                       /\ frames'[i].psw = frames[i].psw,
           psw'.ep = psw.ep, psw'.eimask = psw.eimask,
           at' = "take" => Admits(Eip[got])'
    PROVE  Nest'
<1>1. CeilingIsOpenHandlers'
  BY CeilingLevels, CeilingLevelsNext, SMTT(30) DEF Nest, HandlersNest, IsprMode
<1>2. NestedHigher'
  BY DEF Nest, HandlersNest, NestedHigher, OpenEi, IsprMode, Typed
<1>3. Len(frames) \in Nat
  BY SMTT(30) DEF Typed
<1>4. \A i \in 1 .. Len(frames') :
         /\ frames'[i].kind = "ei" => ~PswIn(i)'.ep /\ frames'[i].ch \in Chans
         /\ frames'[i].kind = "trap" => PswIn(i)'.ep
  BY <1>3 DEF Nest, PswIn
<1>5. cfg'.epl => \A i \in 1 .. Len(frames') : frames'[i].kind = "ei" =>
         /\ psw'.eimask <= Eip[frames'[i].ch]
         /\ \A k \in i + 1 .. Len(frames') : frames'[k].psw.eimask <= Eip[frames'[i].ch]
  BY <1>3, SMTT(30) DEF Nest
<1> QED
  BY <1>1, <1>2, <1>4, <1>5 DEF Nest, HandlersNest, IsprMode

\* An exception that is no EI interrupt, on top of the handlers there are.
LEMMA NestPushed ==
    ASSUME Typed, Nest, Typed', NEW f \in Frames, frames' = Append(frames, f),
           f.kind \in {"trap", "fe"}, f.psw = psw, UNCHANGED <<ispr, cfg>>,
           psw'.eimask = psw.eimask, f.kind = "trap" => psw'.ep, at' = "run"
    PROVE  Nest'
<1>1. /\ Len(frames) \in Nat /\ Len(frames') = Len(frames) + 1 /\ frames'[Len(frames) + 1] = f
      /\ \A i \in 1 .. Len(frames) : frames'[i] = frames[i]
  BY Pushed DEF Typed
<1>2. CeilingIsOpenHandlers'
  BY <1>1, CeilingLevels, CeilingLevelsNext, SMTT(30) DEF Nest, HandlersNest, IsprMode
<1>3. NestedHigher'
  BY <1>1 DEF Nest, HandlersNest, NestedHigher, OpenEi, IsprMode, Typed
<1>4. \A i \in 1 .. Len(frames') :
         /\ frames'[i].kind = "ei" => ~PswIn(i)'.ep /\ frames'[i].ch \in Chans
         /\ frames'[i].kind = "trap" => PswIn(i)'.ep
  BY <1>1 DEF Nest, PswIn
<1>5. cfg'.epl => \A i \in 1 .. Len(frames') : frames'[i].kind = "ei" =>
         /\ psw'.eimask <= Eip[frames'[i].ch]
         /\ \A k \in i + 1 .. Len(frames') : frames'[k].psw.eimask <= Eip[frames'[i].ch]
  BY <1>1 DEF Nest
<1> QED
  BY <1>2, <1>3, <1>4, <1>5 DEF Nest, HandlersNest, IsprMode

\* An EI interrupt, which the ceiling has admitted.
LEMMA NestTaken == ASSUME Typed, Nest, Typed', TakeEi PROVE Nest'
<1> DEFINE p == Eip[got]
           n == Len(frames) + 1
<1>1. got \in Chans /\ p \in 0..63 /\ Admits(p) /\ cfg' = cfg /\ at' = "run"
  BY Constant DEF TakeEi, Typed, Nest
<1>2. /\ Len(frames) \in Nat /\ Len(frames') = n
      /\ frames'[n].kind = "ei" /\ frames'[n].ch = got /\ frames'[n].psw = psw
      /\ \A i \in 1 .. Len(frames) : frames'[i] = frames[i]
  <2>1. Frame("ei", got, UsesBank(got)) \in Frames
    BY <1>1, EntryType, Zenon DEF UsesBank, Typed, TypeOK
  <2> QED
    BY <2>1, Pushed, SMTT(30) DEF TakeEi, Frame, Typed
<1>3. /\ ~psw'.ep /\ psw'.eimask = (IF cfg.epl THEN p ELSE psw.eimask)
      /\ ispr' = IF IsprMode /\ p < Levels THEN ispr \cup {p} ELSE ispr
  <2> DEFINE w == [EntryPsw(FALSE, FALSE) EXCEPT !.id = ~(UsesBank(got) /\ BankBit(Eip[got]) \in BankOpen)]
  <2>1. w \in Psws /\ ~w.ep /\ w.eimask = psw.eimask
    BY PswTyped, EntryType, PswPut, Zenon
  <2>2. AckPriority(p, w)
    BY DEF TakeEi
  <2> HIDE DEF w
  <2>3. /\ psw' = IF cfg.epl THEN [w EXCEPT !.eimask = p] ELSE w
        /\ ispr' = IF IsprMode /\ p < Levels THEN ispr \cup {p} ELSE ispr
    BY <2>2 DEF AckPriority
  <2>4. p \in 0..63
    BY <1>1
  <2>5. w \in Psws /\ [w EXCEPT !.eimask = p].eimask = p /\ [w EXCEPT !.eimask = p].ep = w.ep
    BY <2>1, <2>4, MaskPut, Zenon
  <2>6. psw'.ep = w.ep /\ psw'.eimask = IF cfg.epl THEN p ELSE w.eimask
    BY <2>3, <2>5, Zenon
  <2> QED
    BY <2>1, <2>3, <2>6, Zenon
<1> HIDE DEF p, n
<1>4. CeilingIsOpenHandlers'
  <2> SUFFICES ASSUME IsprMode, NEW l \in 0..(Levels - 1)
               PROVE  l \in ispr' <=> \E i \in 1 .. Len(frames') : frames'[i].kind = "ei" /\ Eip[frames'[i].ch] = l
    BY <1>1, CeilingLevelsNext DEF IsprMode
  <2>1. l \in ispr <=> \E i \in 1 .. Len(frames) : frames[i].kind = "ei" /\ Eip[frames[i].ch] = l
    BY CeilingLevels DEF Nest, HandlersNest
  <2>2. l \in ispr' <=> l \in ispr \/ l = p
    BY <1>3 DEF Levels
  <2>3. (\E i \in 1 .. Len(frames') : frames'[i].kind = "ei" /\ Eip[frames'[i].ch] = l)
        <=> (l = p \/ \E i \in 1 .. Len(frames) : frames[i].kind = "ei" /\ Eip[frames[i].ch] = l)
    BY <1>2 DEF p, n
  <2> QED
    BY <2>1, <2>2, <2>3
<1>5. NestedHigher'
  <2> SUFFICES ASSUME NEW i \in 1 .. Len(frames'), NEW j \in 1 .. Len(frames'),
                      frames'[i].kind = "ei", frames'[j].kind = "ei", i < j,
                      cfg.epl \/ (IsprMode /\ Eip[frames'[i].ch] < Levels)
               PROVE  Eip[frames'[j].ch] < Eip[frames'[i].ch]
    BY <1>1, SMTT(30) DEF NestedHigher, OpenEi, IsprMode, Typed
  <2>1. CASE j # n
    <3>1. i \in 1 .. Len(frames) /\ j \in 1 .. Len(frames)
      BY <1>2, <2>1 DEF n
    <3> QED
      BY <1>2, <3>1 DEF Nest, HandlersNest, NestedHigher, OpenEi, Typed
  <2>2. CASE j = n
    <3>1. i \in 1 .. Len(frames) /\ frames[i].kind = "ei" /\ frames'[i] = frames[i] /\ frames'[j].ch = got
      BY <1>2, <2>2, SMTT(30) DEF n
    <3>2. frames[i].ch \in Chans /\ Eip[frames[i].ch] \in 0..63
      BY <3>1, Constant, Zenon DEF Nest
    <3>3. CASE cfg.epl
      <4>1. p < psw.eimask /\ psw.eimask <= Eip[frames[i].ch] /\ psw.eimask \in 0..63
        BY <1>1, <3>1, <3>3, PswTyped DEF Nest, Admits
      <4> QED
        <5>1. p < Eip[frames[i].ch]
          BY <1>1, <3>2, <4>1, Chain, Zenon
        <5> QED
          BY <3>1, <5>1 DEF p
    <3>4. CASE ~cfg.epl /\ IsprMode /\ Eip[frames[i].ch] < Levels
      <4>1. Eip[frames[i].ch] \in ispr
        <5>1. Eip[frames[i].ch] \in 0..(Levels - 1)
          BY <3>2, <3>4, Chain, Zenon
        <5> QED
          BY <3>1, <3>4, <5>1, CeilingLevels DEF Nest, HandlersNest
      <4> QED
        BY <1>1, <3>1, <3>4, <4>1, SMTT(30) DEF Admits, p
    <3> QED
      BY <3>1, <3>3, <3>4
  <2> QED
    BY <2>1, <2>2
<1>6. \A i \in 1 .. Len(frames') :
         /\ frames'[i].kind = "ei" => ~PswIn(i)'.ep /\ frames'[i].ch \in Chans
         /\ frames'[i].kind = "trap" => PswIn(i)'.ep
  BY <1>1, <1>2, <1>3 DEF Nest, PswIn, n
<1>7. cfg'.epl => \A i \in 1 .. Len(frames') : frames'[i].kind = "ei" =>
         /\ psw'.eimask <= Eip[frames'[i].ch]
         /\ \A k \in i + 1 .. Len(frames') : frames'[k].psw.eimask <= Eip[frames'[i].ch]
  <2> SUFFICES ASSUME cfg.epl, NEW i \in 1 .. Len(frames'), frames'[i].kind = "ei"
               PROVE  /\ psw'.eimask <= Eip[frames'[i].ch]
                      /\ \A k \in i + 1 .. Len(frames') : frames'[k].psw.eimask <= Eip[frames'[i].ch]
    BY <1>1
  <2>1. p < psw.eimask /\ psw'.eimask = p /\ psw.eimask \in 0..63
    BY <1>1, <1>3, PswTyped DEF Admits
  <2>2. CASE i = n
    <3>1. Eip[frames'[i].ch] = p
      BY <1>2, <2>2 DEF p
    <3>2. i + 1 .. Len(frames') = {}
      BY <1>2, <2>2 DEF n
    <3> QED
      BY <1>1, <2>1, <3>1, <3>2
  <2>3. CASE i # n
    <3>1. i \in 1 .. Len(frames) /\ frames'[i] = frames[i] /\ Eip[frames[i].ch] \in 0..63
      <4>1. i \in 1 .. Len(frames)
        BY <1>2, <2>3 DEF n
      <4>2. frames'[i] = frames[i] /\ frames[i].ch \in Chans
        BY <1>2, <4>1 DEF Nest
      <4> QED
        BY <4>1, <4>2, Constant, Zenon
    <3>2. psw.eimask <= Eip[frames[i].ch] /\ \A k \in i + 1 .. Len(frames) : frames[k].psw.eimask <= Eip[frames[i].ch]
      BY <3>1, Zenon DEF Nest
    <3>3. psw'.eimask <= Eip[frames[i].ch]
      BY <1>1, <2>1, <3>1, <3>2, Chain, Zenon
    <3>4. ASSUME NEW k \in i + 1 .. Len(frames') PROVE frames'[k].psw.eimask <= Eip[frames[i].ch]
      <4>1. CASE k = n
        BY <1>2, <3>2, <4>1
      <4>2. CASE k # n
        <5>1. k \in i + 1 .. Len(frames) /\ k \in 1 .. Len(frames)
          BY <1>2, <3>1, <4>2 DEF n
        <5> QED
          BY <1>2, <3>2, <5>1
      <4> QED
        BY <4>1, <4>2
    <3> QED
      BY <3>1, <3>3, <3>4
  <2> QED
    BY <2>2, <2>3
<1>8. ~IsprMode' => ispr' = {}
  BY <1>1, <1>3, SMTT(30) DEF Nest, IsprMode
<1> QED
  BY <1>1, <1>4, <1>5, <1>6, <1>7, <1>8 DEF Nest, HandlersNest

\* A return, with the ceiling it leaves: the masks are those of the handler
\* below.
LEMMA NestPopped ==
    ASSUME Typed, Nest, Typed', frames # <<>>, frames' = Pop, psw' = Top.psw, cfg' = cfg,
           ispr' \subseteq ispr, CeilingIsOpenHandlers', at' = "run"
    PROVE  Nest'
<1>1. /\ Len(frames) \in Nat \ {0} /\ Len(frames') = Len(frames) - 1
      /\ \A i \in 1 .. Len(frames) - 1 : frames'[i] = frames[i]
      /\ psw' = frames[Len(frames)].psw
  BY Popped, SMTT(30) DEF Typed, Pop, Top
<1>2. NestedHigher'
  <2> SUFFICES ASSUME NEW i \in 1 .. Len(frames'), NEW j \in 1 .. Len(frames'),
                      frames'[i].kind = "ei", frames'[j].kind = "ei", i < j,
                      cfg.epl \/ (IsprMode /\ Eip[frames'[i].ch] < Levels)
               PROVE  Eip[frames'[j].ch] < Eip[frames'[i].ch]
    BY SMTT(30) DEF NestedHigher, OpenEi, IsprMode, Typed
  <2>1. /\ i \in 1 .. Len(frames) /\ j \in 1 .. Len(frames)
        /\ frames'[i] = frames[i] /\ frames'[j] = frames[j]
    BY <1>1
  <2> QED
    BY <2>1 DEF Nest, HandlersNest, NestedHigher, OpenEi, Typed
<1>3. \A i \in 1 .. Len(frames') :
         /\ frames'[i].kind = "ei" => ~PswIn(i)'.ep /\ frames'[i].ch \in Chans
         /\ frames'[i].kind = "trap" => PswIn(i)'.ep
  <2> SUFFICES ASSUME NEW i \in 1 .. Len(frames')
               PROVE  PswIn(i)' = PswIn(i) /\ i \in 1 .. Len(frames) /\ frames'[i] = frames[i]
    BY DEF Nest
  <2> QED
    BY <1>1 DEF PswIn
<1>4. cfg'.epl => \A i \in 1 .. Len(frames') : frames'[i].kind = "ei" =>
         /\ psw'.eimask <= Eip[frames'[i].ch]
         /\ \A k \in i + 1 .. Len(frames') : frames'[k].psw.eimask <= Eip[frames'[i].ch]
  <2> SUFFICES ASSUME cfg.epl, NEW i \in 1 .. Len(frames'), frames'[i].kind = "ei"
               PROVE  /\ psw'.eimask <= Eip[frames'[i].ch]
                      /\ \A k \in i + 1 .. Len(frames') : frames'[k].psw.eimask <= Eip[frames'[i].ch]
    OBVIOUS
  <2>1. i \in 1 .. Len(frames) /\ frames'[i] = frames[i] /\ Len(frames) \in i + 1 .. Len(frames)
    BY <1>1
  <2>2. \A k \in i + 1 .. Len(frames) : frames[k].psw.eimask <= Eip[frames[i].ch]
    BY <2>1 DEF Nest
  <2>3. psw'.eimask <= Eip[frames'[i].ch]
    BY <1>1, <2>1, <2>2
  <2>4. ASSUME NEW k \in i + 1 .. Len(frames')
        PROVE  frames'[k].psw.eimask <= Eip[frames'[i].ch]
    <3>1. k \in i + 1 .. Len(frames) /\ frames'[k] = frames[k]
      BY <1>1
    <3> QED
      BY <2>1, <2>2, <3>1
  <2> QED
    BY <2>3, <2>4
<1> QED
  BY <1>2, <1>3, <1>4 DEF Nest, HandlersNest, IsprMode

\* EIRET: the most urgent bit is the innermost handler's, if it has one.
LEMMA NestReturned == ASSUME Typed, Nest, Typed', EiRet PROVE Nest'
<1> DEFINE n == Len(frames)
           p == Eip[frames[n].ch]
<1>1. /\ frames # <<>> /\ frames' = Pop /\ psw' = Top.psw /\ cfg' = cfg /\ at' = "run"
      /\ ispr' = EiretPriority /\ frames[n].kind \in {"ei", "trap"}
  <2>1. /\ frames # <<>> /\ frames' = Pop /\ psw' = Top.psw /\ cfg' = cfg /\ at' = "run"
        /\ ispr' = EiretPriority /\ frames[n].kind # "fe"
    BY DEF EiRet, Executing, Top
  <2>2. frames[n].kind \in {"ei", "trap", "fe"}
    <3>1. frames[n] \in Frames
      BY <2>1, Popped DEF Typed
    <3> QED
      BY <3>1 DEF Frames
  <2> QED
    BY <2>1, <2>2
<1>2. /\ n \in Nat \ {0} /\ Len(frames') = n - 1 /\ PswIn(n) = psw
      /\ \A i \in 1 .. n - 1 : frames'[i] = frames[i]
  BY <1>1, Popped DEF Typed, Pop, PswIn
<1> HIDE DEF n
<1>3. ispr' \subseteq ispr
  BY <1>1 DEF EiretPriority
<1>4. CeilingIsOpenHandlers'
  <2> SUFFICES ASSUME IsprMode, NEW l \in 0..(Levels - 1)
               PROVE  l \in ispr' <=> \E i \in 1 .. n - 1 : frames[i].kind = "ei" /\ Eip[frames[i].ch] = l
    <3>1. \A k : (\E i \in 1 .. Len(frames') : frames'[i].kind = "ei" /\ Eip[frames'[i].ch] = k)
                 <=> \E i \in 1 .. n - 1 : frames[i].kind = "ei" /\ Eip[frames[i].ch] = k
      BY <1>2
    <3> QED
      BY <1>1, <3>1, CeilingLevelsNext DEF IsprMode
  <2>1. \A k \in 0..(Levels - 1) :
          k \in ispr <=> \E i \in 1 .. n : frames[i].kind = "ei" /\ Eip[frames[i].ch] = k
    BY CeilingLevels, Zenon DEF Nest, HandlersNest, n
  <2>0. n \in 1 .. Len(frames)
    BY <1>2 DEF n
  <2>2. CASE frames[n].kind = "trap"
    <3>1. ispr' = ispr
      BY <1>1, <1>2, <2>0, <2>2 DEF Nest, EiretPriority
    <3> QED
      BY <1>2, <2>1, <2>2, <3>1
  <2>3. CASE frames[n].kind = "ei"
    <3>1. ~psw.ep /\ frames[n].ch \in Chans /\ p \in 0..63
      <4>2. ~PswIn(n).ep /\ frames[n].ch \in Chans
        BY <2>0, <2>3 DEF Nest
      <4> QED
        BY <1>2, <4>2, Constant, Zenon
    <3>2. ispr' = {k \in ispr : \E h \in ispr : h < k}
      BY <1>1, <3>1 DEF EiretPriority
    <3>3. ASSUME NEW i \in 1 .. n - 1, frames[i].kind = "ei", Eip[frames[i].ch] < Levels
          PROVE  p < Eip[frames[i].ch]
      <4>1. i \in DOMAIN frames /\ n \in DOMAIN frames /\ i < n
        BY <1>2 DEF n, Typed
      <4> QED
        BY <2>3, <3>3, <4>1, Zenon DEF Nest, HandlersNest, NestedHigher, OpenEi
    <3>4. ASSUME NEW h \in ispr PROVE p <= h /\ h \in 0..(Levels - 1)
      <4>1. h \in 0..(Levels - 1)
        BY DEF Typed, TypeOK
      <4>2. PICK i \in 1 .. n : frames[i].kind = "ei" /\ Eip[frames[i].ch] = h
        BY <2>1, <4>1, SMTT(30)
      <4>3. CASE i = n
        BY <3>1, <4>1, <4>2, <4>3, SMTT(30)
      <4>4. CASE i # n
        <5>1. i \in 1 .. n - 1 /\ Eip[frames[i].ch] < Levels
          BY <1>2, <4>1, <4>2, <4>4 DEF Levels
        <5>2. p < h
          BY <3>3, <4>2, <5>1
        <5> QED
          BY <3>1, <4>1, <5>2 DEF Levels
      <4> QED
        BY <4>3, <4>4
    <3>5. l \in ispr' <=> l \in ispr /\ l # p
      <4>1. ASSUME l \in ispr, l # p PROVE \E h \in ispr : h < l
        <5>0. p <= l
          BY <3>4, <4>1
        <5>1. p < l
          BY <3>1, <4>1, <5>0, SMTT(30) DEF Levels
        <5>2. p \in 0..(Levels - 1)
          BY <3>1, <5>1 DEF Levels
        <5>3. p \in ispr
          BY <1>2, <2>1, <2>3, <5>2, SMTT(30)
        <5> QED
          BY <5>1, <5>3
      <4>2. ASSUME l \in ispr, NEW h \in ispr, h < l PROVE l # p
        BY <3>1, <3>4, <4>2 DEF Levels
      <4> QED
        BY <3>2, <4>1, <4>2
    <3>6. (\E i \in 1 .. n - 1 : frames[i].kind = "ei" /\ Eip[frames[i].ch] = l)
          <=> l # p /\ \E i \in 1 .. n : frames[i].kind = "ei" /\ Eip[frames[i].ch] = l
      <4>1. \A i \in 1 .. n : i # n => i \in 1 .. n - 1
        BY <1>2
      <4>2. ASSUME NEW i \in 1 .. n - 1, frames[i].kind = "ei", Eip[frames[i].ch] = l
            PROVE  l # p /\ i \in 1 .. n
        <5>1. p < l
          BY <3>3, <4>2 DEF Levels
        <5>2. i \in 1 .. n
          BY <1>2
        <5> QED
          BY <3>1, <5>1, <5>2
      <4> QED
        BY <4>1, <4>2
    <3> QED
      BY <2>1, <3>5, <3>6, SMTT(30)
  <2> QED
    BY <1>1, <2>2, <2>3
<1> QED
  BY <1>1, <1>3, <1>4, NestPopped

LEMMA NestNext == Typed /\ Nest /\ [Next]_vars => Nest'
<1> SUFFICES ASSUME Typed, Nest, [Next]_vars PROVE Nest'
  OBVIOUS
<1>t. Typed'
  BY TypeNext, SMTT(30)
<1>1. CASE Controller \/ UNCHANGED vars
  <2>1. UNCHANGED core
    BY <1>1, Zenon DEF Controller, Raise, WriteChan, WriteImr, WriteEibd, RaiseTptm, WriteTptmsel, RaiseNmi, vars
  <2> QED
    BY <1>t, <2>1, NestKept, Zenon DEF core, Nest, Admits
<1>2. CASE Look \/ NoFe \/ NoEi \/ JitWake \/ EI \/ DI \/ LdsrPlmr \/ Halt
  <2>1. /\ UNCHANGED <<ispr, cfg, frames>> /\ psw'.ep = psw.ep /\ psw'.eimask = psw.eimask
        /\ at' # "take"
    BY <1>2 DEF Look, NoFe, NoEi, JitWake, EI, DI, LdsrPlmr, Halt, Executing, Typed, TypeOK, Psws
  <2> QED
    BY <1>t, <2>1, NestKept
<1>3. CASE \E c \in Chans : FoundEi(c)
  BY <1>t, <1>3, NestKept DEF FoundEi, PendingIrq, Admits
<1>4. CASE Resbank
  <2>1. /\ UNCHANGED <<psw, ispr, cfg>> /\ at' # "take"
        /\ frames' = [frames EXCEPT ![Len(frames)].bank = FALSE] /\ frames # <<>>
    BY <1>4 DEF Resbank, Executing
  <2>2. Len(frames') = Len(frames) /\ Len(frames) \in Nat
    BY <2>1 DEF Typed
  <2>3. ASSUME NEW i \in 1 .. Len(frames)
        PROVE  /\ frames'[i].kind = frames[i].kind /\ frames'[i].ch = frames[i].ch
               /\ frames'[i].psw = frames[i].psw
    <3>1. frames[i] \in Frames /\ i \in DOMAIN frames
      BY DEF Typed
    <3>2. frames' = [frames EXCEPT ![Len(frames)] = [frames[Len(frames)] EXCEPT !.bank = FALSE]]
      BY <2>1
    <3>3. frames'[i] = IF i = Len(frames) THEN [frames[i] EXCEPT !.bank = FALSE] ELSE frames[i]
      BY <3>1, <3>2, Zenon
    <3> QED
      BY <3>1, <3>3 DEF Frames
  <2> QED
    BY <1>t, <2>1, <2>2, <2>3, NestKept
<1>5. ASSUME NEW kind \in {"trap", "fe"}, NEW ep \in BOOLEAN, Exception(kind, ep), kind = "trap" => ep, at' = "run"
      PROVE  Nest'
  <2>1. Frame(kind, NoChan, FALSE) \in Frames /\ Frame(kind, NoChan, FALSE).kind = kind
        /\ Frame(kind, NoChan, FALSE).psw = psw
    <3>1. Frame(kind, NoChan, FALSE) \in Frames
      BY PswTyped, EntryType, Zenon
    <3> QED
      BY <3>1 DEF Frame
  <2>2. psw'.eimask = psw.eimask /\ psw'.ep = ep
    BY <1>5, PswTyped, EntryType, Zenon DEF Exception
  <2>3. frames' = Append(frames, Frame(kind, NoChan, FALSE)) /\ UNCHANGED <<ispr, cfg>>
    BY <1>5 DEF Exception
  <2> QED
    BY <1>t, <1>5, <2>1, <2>2, <2>3, NestPushed, Zenon
<1>6. CASE TakeFe \/ GiveUp \/ Trap
  BY <1>5, <1>6, Zenon DEF TakeFe, GiveUp, Trap, Executing
<1>7. CASE TakeEi
  BY <1>t, <1>7, NestTaken
<1>8. CASE EiRet
  BY <1>t, <1>8, NestReturned
<1>9. CASE FeRet
  <2>1. /\ frames # <<>> /\ frames' = Pop /\ psw' = Top.psw /\ cfg' = cfg /\ at' = "run" /\ ispr' = ispr
        /\ frames[Len(frames)].kind = "fe"
    BY <1>9 DEF FeRet, Executing, Top
  <2>2. /\ Len(frames) \in Nat \ {0} /\ Len(frames') = Len(frames) - 1
        /\ \A i \in 1 .. Len(frames) - 1 : frames'[i] = frames[i]
    BY <2>1, Popped DEF Typed, Pop
  <2>3. CeilingIsOpenHandlers'
    BY <1>t, <2>1, <2>2, CeilingLevels, CeilingLevelsNext, SMTT(30) DEF Nest, HandlersNest, IsprMode
  <2> QED
    BY <1>t, <2>1, <2>3, NestPopped
<1>10. CASE LdsrPsw \/ LdsrIntcfg
  <2>1. frames = <<>> /\ frames' = <<>> /\ ispr' = ispr /\ at' # "take"
    BY <1>10 DEF LdsrPsw, LdsrIntcfg, Executing
  <2>2. Len(frames') = 0 /\ Len(frames) = 0 /\ DOMAIN frames' = {}
    BY <2>1, SMTT(30)
  <2>3. ispr = {}
    <3>1. IsprMode => \A l \in 0..(Levels - 1) : l \notin ispr
      BY <2>2, CeilingLevels, SMTT(30) DEF Nest, HandlersNest
    <3> QED
      BY <3>1, SMTT(30) DEF Nest, Typed, TypeOK
  <2>4. CeilingIsOpenHandlers' /\ NestedHigher'
    BY <2>1, <2>2, <2>3 DEF CeilingIsOpenHandlers, NestedHigher, OpenEi
  <2> QED
    BY <2>1, <2>2, <2>3, <2>4 DEF Nest, HandlersNest
<1> QED
  BY <1>1, <1>2, <1>3, <1>4, <1>6, <1>7, <1>8, <1>9, <1>10 DEF Next, Acceptance, Guest

\* ISPR has a bit for every open handler of its levels and no other, and a
\* handler is interrupted only by a more urgent one (int_ceiling_admits,
\* g4mh_cpu_ack_priority, g4mh_cpu_eiret_priority), however traps, FE
\* interrupts and bank overflows come in between.
THEOREM NestingHolds == Spec => []HandlersNest
<1>1. Init => Typed /\ Nest
  <2> SUFFICES ASSUME Init PROVE Nest
    BY TypeInit
  <2>1. frames = <<>> /\ ispr = {} /\ at = "run" /\ Len(frames) = 0 /\ DOMAIN frames = {}
    BY DEF Init
  <2> QED
    BY <2>1 DEF Nest, HandlersNest, CeilingIsOpenHandlers, NestedHigher, OpenEi
<1>2. Typed /\ Nest /\ [Next]_vars => (Typed /\ Nest)'
  BY TypeNext, NestNext
<1>3. Nest => HandlersNest
  BY DEF Nest
<1> QED
  BY <1>1, <1>2, <1>3, PTL DEF Spec
=============================================================================
