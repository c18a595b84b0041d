--------------------------- MODULE SmpPortProofs ----------------------------
(***************************************************************************)
(* That a thread which executes is the one its core records, for any       *)
(* number of cores and tasks.                                              *)
(***************************************************************************)
EXTENDS SmpPort, TLAPS

Masked == {"request", "switch", "hand", "wait", "enable"}

\* A handler returns to where interrupts are enabled, and one thread at a time
\* asks a core to yield.
Sane ==
    /\ TypeOK
    /\ \A t \in Threads : saved[t] # Nowhere => saved[t] \in Places \ Masked
    /\ \A t \in Threads : pc[t] = "request" => target \in Cores
    /\ \A t, u \in Threads : pc[t] = "request" /\ pc[u] = "request" => t = u

\* Only a handler is returned from, and an idle task that is about to mark a
\* core, or that a handler interrupted there, knows which.
Marks ==
    \A t \in Threads :
        /\ saved[t] # Nowhere => pc[t] \in Masked
        /\ saved[t] # Nowhere /\ saved[t] = "mark" => icore[t] \in Cores
        /\ pc[t] = "mark" => icore[t] \in Cores

\* A core is with the one thread that has it or whose event carries it; that
\* thread is the one the core records, unless it is handing the core over.
Held ==
    /\ \A t, u \in Threads : tcore[t] = tcore[u] /\ tcore[t] # Nowhere => t = u
    /\ \A t, u \in Threads : tcore[t] = ev[u] => tcore[t] = Nowhere
    /\ \A t, u \in Threads : ev[t] = ev[u] /\ ev[t] # Nowhere => t = u
    /\ \A t \in Threads : Executes(t) => running[tcore[t]] = t
    /\ \A t \in Threads : ev[t] # Nowhere => running[ev[t]] = t
    /\ \A c, d \in Cores : running[c] = running[d] => c = d

-----------------------------------------------------------------------------
(* Where a thread is. *)

LEMMA Constant ==
    /\ Core0 \in Cores /\ Nowhere \notin Cores /\ Workers \subseteq Threads /\ Idles \subseteq Threads
    /\ \A t \in Threads : Home(t) \in Places \ Masked /\ Home(t) # "wait"
BY PortAssumption DEF Threads, Home, Places, Masked

\* Where interrupts are masked, and where they are not.
LEMMA Named ==
    /\ "request" \in Places /\ "request" \in Masked
    /\ "switch" \in Places /\ "switch" \in Masked
    /\ "hand" \in Places /\ "hand" \in Masked
    /\ "wait" \in Places /\ "wait" \in Masked
    /\ "enable" \in Places /\ "enable" \in Masked
    /\ "work" \in Places /\ "work" \notin Masked
    /\ "idle" \in Places /\ "idle" \notin Masked
    /\ "mark" \in Places /\ "mark" \notin Masked
    /\ "poll" \in Places /\ "poll" \notin Masked
    /\ "stop" \in Places /\ "stop" \notin Masked
    /\ "stopAsked" \in Places /\ "stopAsked" \notin Masked
    /\ "look" \in Places /\ "look" \notin Masked
    /\ "sleep" \in Places /\ "sleep" \notin Masked
    /\ "yield" \in Places /\ "yield" \notin Masked
BY DEF Places, Masked

\* One thread moves, and its mask and its core with it.
LEMMA Moves ==
    ASSUME TypeOK, NEW t \in Threads, NEW p \in Places, Goto(t, p),
           tcore' \in [Threads -> Cores \cup {Nowhere}], irqOff' \subseteq Threads,
           \A u \in Threads \ {t} : tcore'[u] = tcore[u] /\ (u \in irqOff' <=> u \in irqOff),
           tcore'[t] = Nowhere <=> p = "wait", t \in irqOff' <=> p \in Masked
    PROVE  /\ pc' \in [Threads -> Places]
           /\ \A u \in Threads : pc'[u] = IF u = t THEN p ELSE pc[u]
           /\ \A u \in Threads : tcore'[u] = Nowhere <=> pc'[u] = "wait"
           /\ \A u \in Threads :
                pc'[u] \in {"request", "switch", "hand", "wait", "enable"} <=> u \in irqOff'
<1>1. pc' \in [Threads -> Places] /\ \A u \in Threads : pc'[u] = IF u = t THEN p ELSE pc[u]
  BY DEF Goto, TypeOK
<1> QED
  BY <1>1 DEF TypeOK, Masked

\* A step that changes no core, no event and no record.
LEMMA HeldKept ==
    ASSUME Held, UNCHANGED <<tcore, ev, running>>, NEW t \in Threads,
           \A u \in Threads \ {t} : pc'[u] = pc[u], Executes(t)
    PROVE  Held'
<1>1. \A u \in Threads : Executes(u)' => Executes(u)
  BY DEF Executes
<1> QED
  BY <1>1 DEF Held

LEMMA SaneMoves ==
    ASSUME Sane, NEW t \in Threads, NEW p \in Places, Goto(t, p),
           tcore' \in [Threads -> Cores \cup {Nowhere}], irqOff' \subseteq Threads,
           \A u \in Threads \ {t} : tcore'[u] = tcore[u] /\ (u \in irqOff' <=> u \in irqOff),
           tcore'[t] = Nowhere <=> p = "wait", t \in irqOff' <=> p \in Masked,
           saved' \in [Threads -> Places \cup {Nowhere}],
           \A u \in Threads : saved'[u] # Nowhere => saved'[u] \in Places \ Masked,
           icore' \in [Threads -> Cores \cup {Nowhere}], ev' \in [Threads -> Cores \cup {Nowhere}],
           running' \in [Cores -> Threads], sig' \subseteq Threads, ready' \subseteq Threads,
           yieldPending' \subseteq Cores, idlePolling' \subseteq Cores, asked' \subseteq Cores,
           target' \in Cores \cup {Nowhere},
           p = "request" => target' \in Cores /\ target \notin Cores,
           p # "request" => target' = target \/ pc[t] = "request"
    PROVE  Sane'
<1>1. TypeOK
  BY DEF Sane
<1>2. /\ pc' \in [Threads -> Places]
      /\ \A u \in Threads : pc'[u] = IF u = t THEN p ELSE pc[u]
      /\ \A u \in Threads : tcore'[u] = Nowhere <=> pc'[u] = "wait"
      /\ \A u \in Threads :
           pc'[u] \in {"request", "switch", "hand", "wait", "enable"} <=> u \in irqOff'
  BY <1>1, Moves
<1>3. TypeOK'
  BY <1>2 DEF TypeOK
<1>4. \A u \in Threads : pc'[u] = "request" => target' \in Cores
  BY <1>2 DEF Sane
<1>5. \A u, v \in Threads : pc'[u] = "request" /\ pc'[v] = "request" => u = v
  BY <1>2 DEF Sane
<1> QED
  BY <1>3, <1>4, <1>5 DEF Sane

\* What a thread may read of its own state.
LEMMA Here ==
    ASSUME Sane, NEW t \in Threads
    PROVE  /\ pc[t] \in Places
           /\ pc[t] # "wait" => tcore[t] \in Cores
           /\ t \in irqOff <=> pc[t] \in Masked
BY DEF Sane, TypeOK, Masked

-----------------------------------------------------------------------------
(* Who has a core. *)

\* Another thread stays where it is, and nobody begins to execute unnoticed.
LEMMA HeldStep ==
    ASSUME Sane, Held, NEW t \in Threads,
           Step(t) \/ Deliver(t) \/ Block(t) \/ \E w \in Workers : Release(t, w)
    PROVE  Held'
<1>t. TypeOK
  BY DEF Sane
<1>h. pc[t] \in Places /\ (pc[t] # "wait" => tcore[t] \in Cores) /\ (t \in irqOff <=> pc[t] \in Masked)
  BY Here
<1>p. ASSUME NEW p, Goto(t, p) PROVE \A u \in Threads : pc'[u] = IF u = t THEN p ELSE pc[u]
  BY <1>t, <1>p DEF Goto, TypeOK
<1>1. CASE \/ \E w \in Workers : Release(t, w)
           \/ Block(t) \/ Request(t) \/ Enable(t) \/ IdleStart(t) \/ IdleMark(t)
           \/ IdlePoll(t) \/ IdleStop(t) \/ IdleLook(t) \/ IdleYield(t)
  <2>1. Executes(t) /\ UNCHANGED <<tcore, ev, running>> /\ \E p : Goto(t, p)
    BY <1>1 DEF Release, Block, Request, Enable, IdleStart, IdleMark, IdlePoll, IdleStop, IdleLook,
                IdleYield, Executes
  <2> QED
    BY <1>p, <2>1, HeldKept, SMTT(30)
<1>2. CASE Deliver(t)
  <2>1. UNCHANGED <<tcore, ev, running>> /\ \E p : Goto(t, p)
    BY <1>2, Zenon DEF Deliver
  <2>2. CASE Executes(t)
    BY <1>p, <2>1, <2>2, HeldKept
  <2>3. CASE ~Executes(t)
    <3>1. t \in irqOff /\ pc[t] # "sleep"
      BY <1>h, <2>3, SMTT(30) DEF Executes, Masked
    <3>2. Goto(t, pc[t])
      BY <1>2, <3>1, SMTT(30) DEF Deliver
    <3>3. \A u \in Threads : pc'[u] = IF u = t THEN pc[t] ELSE pc[u]
      BY <1>p, <3>2, Zenon
    <3>4. \A u \in Threads : pc'[u] = pc[u]
      BY <3>3, Zenon
    <3> QED
      BY <2>1, <3>4 DEF Held, Executes
  <2> QED
    BY <2>2, <2>3, Zenon
<1>3. CASE Switch(t)
  <2> DEFINE c == tcore[t]
  <2>1. PICK next \in Choices(c) :
          running' = [running EXCEPT ![c] = next] /\ Goto(t, IF next = t THEN "enable" ELSE "hand")
    BY <1>3, Zenon DEF Switch
  <2>2. c \in Cores /\ UNCHANGED <<tcore, ev>> /\ next \in Threads /\ \A d \in Cores \ {c} : running[d] # next
    BY <1>t, <1>h, <1>3, <2>1 DEF Switch, Choices, TypeOK
  <2>3. \A d \in Cores : running'[d] = IF d = c THEN next ELSE running[d]
    BY <1>t, <2>1 DEF TypeOK
  <2>4. \A u \in Threads \ {t} : tcore[u] # c /\ ev[u] # c
    BY <1>t, <2>2, Constant DEF Held
  <2>5. ev[t] # c
    BY <2>2, Constant, SMTT(30) DEF Held
  <2>6. \A d, e \in Cores : running'[d] = running'[e] => d = e
    BY <2>2, <2>3 DEF Held
  <2> HIDE DEF c
  <2>7. \A u \in Threads : ev'[u] # Nowhere => running'[ev'[u]] = u
    BY <1>t, <2>2, <2>3, <2>4, <2>5 DEF Held, TypeOK
  <2>8. ASSUME NEW u \in Threads, Executes(u)' PROVE running'[tcore'[u]] = u
    <3>1. CASE u = t
      BY <1>p, <2>1, <2>2, <2>3, <2>8, <3>1 DEF Executes, c
    <3>2. CASE u # t
      <4>1. Executes(u) /\ tcore[u] \in Cores /\ tcore[u] # c
        BY <1>p, <2>1, <2>4, <2>8, <3>2, Here, SMTT(30) DEF Executes
      <4> QED
        BY <2>2, <2>3, <4>1 DEF Held
    <3> QED
      BY <3>1, <3>2
  <2> QED
    BY <2>2, <2>6, <2>7, <2>8, SMTT(30) DEF Held
<1>4. CASE Hand(t)
  <2> DEFINE c == tcore[t]
             next == running[c]
  <2>1. /\ c \in Cores /\ next \in Threads /\ running' = running
        /\ \A u \in Threads : ev'[u] = IF u = next THEN c ELSE ev[u]
        /\ \A u \in Threads : tcore'[u] = IF u = t THEN Nowhere ELSE tcore[u]
    BY <1>t, <1>h, <1>4, SMTT(30) DEF Hand, Resumed, TypeOK
  <2>2. \A u \in Threads : pc'[u] = IF u = t THEN "wait" ELSE pc[u]
    BY <1>p, <1>4, Zenon DEF Hand
  <2>3. \A u \in Threads : (u # t => tcore[u] # c) /\ ev[u] # c
    BY <2>1, Constant DEF Held
  <2>4. \A u \in Threads : ev'[u] # Nowhere => running'[ev'[u]] = u
    BY <2>1, SMTT(30) DEF Held
  <2>5. \A u \in Threads : Executes(u)' => running'[tcore'[u]] = u
    BY <2>1, <2>2, SMTT(30) DEF Held, Executes
  <2> HIDE DEF c, next
  <2>6. /\ \A u, v \in Threads : tcore'[u] = tcore'[v] /\ tcore'[u] # Nowhere => u = v
        /\ \A u, v \in Threads : tcore'[u] = ev'[v] => tcore'[u] = Nowhere
        /\ \A u, v \in Threads : ev'[u] = ev'[v] /\ ev'[u] # Nowhere => u = v
    BY <2>1, <2>3 DEF Held
  <2> QED
    BY <2>1, <2>4, <2>5, <2>6, SMTT(30) DEF Held
<1>5. CASE Wake(t)
  <2> DEFINE c == ev[t]
  <2>1. /\ c \in Cores /\ running' = running
        /\ \A u \in Threads : ev'[u] = IF u = t THEN Nowhere ELSE ev[u]
        /\ \A u \in Threads : tcore'[u] = IF u = t THEN c ELSE tcore[u]
    BY <1>t, <1>5, SMTT(30) DEF Wake, CoreOf, TypeOK
  <2>2. \A u \in Threads : pc'[u] = IF u = t THEN "enable" ELSE pc[u]
    BY <1>p, <1>5, Zenon DEF Wake
  <2>3. \A u \in Threads : (u # t => ev[u] # c) /\ tcore[u] # c
    BY <2>1, Constant DEF Held
  <2>4. running[c] = t
    BY <2>1, Constant DEF Held
  <2> HIDE DEF c
  <2>5. \A u \in Threads : ev'[u] # Nowhere => running'[ev'[u]] = u
    BY <2>1, SMTT(30) DEF Held
  <2>6. \A u \in Threads : Executes(u)' => running'[tcore'[u]] = u
    BY <2>1, <2>2, <2>4, SMTT(30) DEF Held, Executes
  <2>7. /\ \A u, v \in Threads : tcore'[u] = tcore'[v] /\ tcore'[u] # Nowhere => u = v
        /\ \A u, v \in Threads : tcore'[u] = ev'[v] => tcore'[u] = Nowhere
        /\ \A u, v \in Threads : ev'[u] = ev'[v] /\ ev'[u] # Nowhere => u = v
    BY <2>1, <2>3 DEF Held
  <2> QED
    BY <2>1, <2>5, <2>6, <2>7 DEF Held
<1> QED
  BY <1>1, <1>2, <1>3, <1>4, <1>5 DEF Step

-----------------------------------------------------------------------------
(* What a step does to the types. *)

\* A thread elsewhere than at a mark, or that keeps what it knows.
LEMMA MarksMoves ==
    ASSUME Sane, Marks, NEW t \in Threads, NEW p, Goto(t, p),
           \A u \in Threads \ {t} : saved'[u] = saved[u] /\ icore'[u] = icore[u],
           saved'[t] # Nowhere => p \in Masked,
           saved'[t] # Nowhere /\ saved'[t] = "mark" => icore'[t] \in Cores,
           p = "mark" => icore'[t] \in Cores
    PROVE  Marks'
<1>1. \A u \in Threads : pc'[u] = IF u = t THEN p ELSE pc[u]
  BY DEF Goto, Sane, TypeOK
<1> QED
  BY <1>1, SMTT(30) DEF Marks

LEMMA MarksStep ==
    ASSUME Sane, Marks, NEW t \in Threads,
           Step(t) \/ Deliver(t) \/ Block(t) \/ \E w \in Workers : Release(t, w)
    PROVE  Marks'
<1>t. TypeOK
  BY DEF Sane
<1>h. pc[t] \in Places /\ (pc[t] # "wait" => tcore[t] \in Cores) /\ (t \in irqOff <=> pc[t] \in Masked)
  BY Here
<1>m. /\ saved[t] # Nowhere => pc[t] \in Masked
      /\ saved[t] # Nowhere /\ saved[t] = "mark" => icore[t] \in Cores
      /\ pc[t] = "mark" => icore[t] \in Cores
  BY DEF Marks
<1>1. CASE \/ \E w \in Workers : Release(t, w)
           \/ Block(t) \/ Request(t) \/ Switch(t) \/ Hand(t) \/ Wake(t) \/ IdleYield(t)
  <2>1. PICK p \in Masked : Goto(t, p)
    BY <1>1 DEF Release, Block, Request, Switch, Hand, Wake, IdleYield, Masked
  <2>2. p # "mark" /\ UNCHANGED <<saved, icore>>
    BY <1>1, <2>1, Named DEF Release, Block, Request, Switch, Hand, Wake, IdleYield
  <2> QED
    BY <1>m, <2>1, <2>2, MarksMoves
<1>2. CASE Enable(t)
  <2>1. CASE /\ saved[t] # Nowhere /\ Goto(t, saved[t]) /\ saved' = [saved EXCEPT ![t] = Nowhere]
             /\ UNCHANGED icore
    <3>1. /\ \A u \in Threads \ {t} : saved'[u] = saved[u] /\ icore'[u] = icore[u]
          /\ saved'[t] = Nowhere /\ icore'[t] = icore[t]
      BY <1>t, <2>1 DEF TypeOK
    <3> QED
      BY <1>m, <2>1, <3>1, MarksMoves
  <2>2. CASE saved[t] = Nowhere /\ Goto(t, Home(t)) /\ UNCHANGED <<saved, icore>>
    <3>1. Home(t) # "mark"
      BY DEF Home
    <3> QED
      BY <1>m, <2>2, <3>1, MarksMoves
  <2>3. CASE saved[t] = Nowhere /\ Goto(t, "switch") /\ UNCHANGED <<saved, icore>>
    BY <1>m, <2>3, MarksMoves
  <2> QED
    BY <1>2, <2>1, <2>2, <2>3 DEF Enable
<1>3. CASE Deliver(t)
  <2> DEFINE back == IF pc[t] = "sleep" THEN "yield" ELSE pc[t]
  <2>1. saved[t] = Nowhere /\ UNCHANGED icore
    BY <1>3 DEF Deliver
  <2>2. CASE saved' = [saved EXCEPT ![t] = back] /\ Goto(t, "switch")
    <3>1. saved'[t] = back /\ \A u \in Threads \ {t} : saved'[u] = saved[u]
      BY <1>t, <2>2 DEF TypeOK
    <3> QED
      BY <1>m, <2>1, <2>2, <3>1, Named, MarksMoves
  <2>3. CASE UNCHANGED saved /\ Goto(t, back)
    BY <1>m, <2>1, <2>3, MarksMoves
  <2> QED
    BY <1>3, <2>2, <2>3 DEF Deliver
<1>4. CASE IdleStart(t)
  <2>1. /\ pc[t] = "idle" /\ UNCHANGED saved /\ Goto(t, "mark")
        /\ icore'[t] = tcore[t] /\ \A u \in Threads \ {t} : icore'[u] = icore[u]
    BY <1>t, <1>4 DEF IdleStart, TypeOK
  <2>2. saved[t] = Nowhere /\ tcore[t] \in Cores
    BY <1>h, <1>m, <2>1, Named
  <2> QED
    BY <2>1, <2>2, MarksMoves
<1>5. CASE IdleMark(t) \/ IdlePoll(t) \/ IdleStop(t) \/ IdleLook(t)
  <2>1. /\ pc[t] \in {"mark", "poll", "stop", "stopAsked", "look"} /\ UNCHANGED saved
        /\ \A u \in Threads \ {t} : icore'[u] = icore[u]
    BY <1>t, <1>5 DEF IdleMark, IdlePoll, IdleStop, IdleLook, TypeOK
  <2>2. PICK p \in {"poll", "stop", "stopAsked", "yield", "look", "sleep"} : Goto(t, p)
    BY <1>5 DEF IdleMark, IdlePoll, IdleStop, IdleLook
  <2>3. saved[t] = Nowhere /\ p # "mark"
    BY <1>m, <2>1, <2>2, Named
  <2> QED
    BY <2>1, <2>2, <2>3, MarksMoves
<1> QED
  BY <1>1, <1>2, <1>3, <1>4, <1>5 DEF Step

\* Every step, a thread at a time.
LEMMA SaneStep ==
    ASSUME Sane, Marks, NEW t \in Threads, Step(t) \/ Block(t) \/ \E w \in Workers : Release(t, w)
    PROVE  Sane'
<1>t. TypeOK
  BY DEF Sane
<1>h. pc[t] \in Places /\ (pc[t] # "wait" => tcore[t] \in Cores) /\ (t \in irqOff <=> pc[t] \in Masked)
  BY Here
<1>1. CASE \E w \in Workers : Release(t, w)
  <2>1. /\ pc[t] = "work" /\ target \notin Cores /\ ready' \subseteq Threads /\ irqOff' = irqOff \cup {t}
        /\ UNCHANGED <<saved, tcore, ev, sig, icore, running, idlePolling>>
    BY <1>t, <1>1, Constant DEF Release, Unlocked, TypeOK
  <2>2. \/ Goto(t, "request") /\ target' \in Cores /\ asked' \subseteq Cores /\ yieldPending' \subseteq Cores
        \/ Goto(t, "enable") /\ UNCHANGED <<target, asked, yieldPending>>
    BY <1>t, <1>1, SMTT(30) DEF Release, TypeOK
  <2>3. CASE Goto(t, "request") /\ target' \in Cores /\ asked' \subseteq Cores /\ yieldPending' \subseteq Cores
    BY <1>t, <1>h, <2>1, <2>3, Named, SaneMoves, ZenonT(20) DEF Sane, TypeOK
  <2>4. CASE Goto(t, "enable") /\ UNCHANGED <<target, asked, yieldPending>>
    BY <1>t, <1>h, <2>1, <2>4, Named, SaneMoves, ZenonT(20) DEF Sane, TypeOK
  <2> QED
    BY <2>2, <2>3, <2>4
<1>2. CASE Block(t)
  BY <1>t, <1>h, <1>2, Named, SaneMoves, ZenonT(20) DEF Block, Sane, TypeOK
<1>3. CASE Request(t)
  <2>1. target \in Cores /\ sig' \subseteq Threads
    BY <1>t, <1>3 DEF Request, Sane, TypeOK
  <2> QED
    BY <1>t, <1>h, <1>3, <2>1, Named, SaneMoves, ZenonT(20) DEF Request, Sane, TypeOK
<1>4. CASE Switch(t)
  <2>1. PICK next \in Choices(tcore[t]) :
          running' = [running EXCEPT ![tcore[t]] = next] /\ Goto(t, IF next = t THEN "enable" ELSE "hand")
    BY <1>4, Zenon DEF Switch
  <2>2. next \in Threads
    BY <1>t, <2>1 DEF Choices, TypeOK
  <2>3. running' \in [Cores -> Threads]
    BY <1>t, <2>1, <2>2, Zenon DEF TypeOK
  <2>4. /\ pc[t] = "switch" /\ yieldPending' \subseteq Cores /\ asked' \subseteq Cores
        /\ UNCHANGED <<saved, tcore, ev, irqOff, sig, icore, idlePolling, ready, target>>
    BY <1>t, <1>4 DEF Switch, TypeOK
  <2> QED
    BY <1>t, <1>h, <2>1, <2>3, <2>4, Named, SaneMoves, ZenonT(20) DEF Sane, TypeOK
<1>5. CASE Hand(t)
  <2>1. ev' \in [Threads -> Cores \cup {Nowhere}]
    BY <1>t, <1>h, <1>5 DEF Hand, Resumed, TypeOK
  <2>2. /\ tcore' \in [Threads -> Cores \cup {Nowhere}] /\ tcore'[t] = Nowhere
        /\ \A u \in Threads \ {t} : tcore'[u] = tcore[u]
    BY <1>t, <1>5 DEF Hand, TypeOK
  <2>3. /\ pc[t] = "hand" /\ Goto(t, "wait")
        /\ UNCHANGED <<saved, irqOff, sig, icore, running, yieldPending, idlePolling, ready, asked, target>>
    BY <1>5 DEF Hand
  <2> QED
    BY <1>t, <1>h, <2>1, <2>2, <2>3, Named, SaneMoves, ZenonT(20) DEF Sane, TypeOK
<1>6. CASE Wake(t)
  <2>1. ev' \in [Threads -> Cores \cup {Nowhere}]
    BY <1>t, <1>6 DEF Wake, TypeOK
  <2>2. /\ tcore' \in [Threads -> Cores \cup {Nowhere}] /\ tcore'[t] # Nowhere
        /\ \A u \in Threads \ {t} : tcore'[u] = tcore[u]
    BY <1>t, <1>6 DEF Wake, CoreOf, TypeOK
  <2>3. /\ pc[t] = "wait" /\ Goto(t, "enable")
        /\ UNCHANGED <<saved, irqOff, sig, icore, running, yieldPending, idlePolling, ready, asked, target>>
    BY <1>6 DEF Wake
  <2> QED
    BY <1>t, <1>h, <2>1, <2>2, <2>3, Named, SaneMoves, ZenonT(20) DEF Sane, TypeOK
<1>7. CASE Enable(t)
  <2>0. pc[t] = "enable" /\ UNCHANGED <<tcore, ev, sig, icore, running, idlePolling, ready, asked, target>>
    BY <1>7 DEF Enable
  <2>1. CASE /\ saved[t] # Nowhere /\ Goto(t, saved[t]) /\ saved' = [saved EXCEPT ![t] = Nowhere]
             /\ irqOff' = irqOff \ {t} /\ UNCHANGED yieldPending
    BY <1>t, <1>h, <2>0, <2>1, Named, SaneMoves, ZenonT(20) DEF Sane, TypeOK
  <2>2. CASE Goto(t, Home(t)) /\ irqOff' = irqOff \ {t} /\ UNCHANGED <<saved, yieldPending>>
    BY <1>t, <1>h, <2>0, <2>2, Named, SaneMoves, Constant, ZenonT(20) DEF Sane, TypeOK
  <2>3. CASE Goto(t, "switch") /\ yieldPending' = yieldPending \ {tcore[t]} /\ UNCHANGED <<saved, irqOff>>
    BY <1>t, <1>h, <2>0, <2>3, Named, SaneMoves, ZenonT(20) DEF Sane, TypeOK
  <2> QED
    BY <1>7, <2>1, <2>2, <2>3 DEF Enable
<1>8. CASE IdleStart(t)
  BY <1>t, <1>h, <1>8, Named, SaneMoves, ZenonT(20) DEF IdleStart, Goto, Sane, TypeOK
<1>9. CASE IdleMark(t)
  <2>1. icore[t] \in Cores /\ idlePolling' \subseteq Cores
    BY <1>t, <1>9 DEF IdleMark, Marks, TypeOK
  <2> QED
    BY <1>t, <1>h, <1>9, <2>1, Named, SaneMoves, ZenonT(20) DEF IdleMark, Sane, TypeOK
<1>10. CASE IdlePoll(t) \/ IdleStop(t) \/ IdleLook(t)
  <2>1. PICK p \in {"stop", "stopAsked", "yield", "look", "sleep"} : Goto(t, p)
    BY <1>10 DEF IdlePoll, IdleStop, IdleLook
  <2>2. p \in Places /\ p \notin Masked /\ p # "wait" /\ p # "request"
    BY <2>1, Named
  <2>3. /\ pc[t] \in {"poll", "stop", "stopAsked", "look"} /\ idlePolling' \subseteq Cores
        /\ icore' \in [Threads -> Cores \cup {Nowhere}]
        /\ UNCHANGED <<saved, tcore, ev, irqOff, sig, running, yieldPending, ready, asked, target>>
    BY <1>t, <1>10 DEF IdlePoll, IdleStop, IdleLook, TypeOK
  <2>4. pc[t] \notin Masked /\ pc[t] # "wait"
    BY <2>3, Named
  <2> QED
    BY <1>t, <1>h, <2>1, <2>2, <2>3, <2>4, SaneMoves, ZenonT(20) DEF Sane, TypeOK
<1>11. CASE IdleYield(t)
  BY <1>t, <1>h, <1>11, Named, SaneMoves, ZenonT(20) DEF IdleYield, Goto, Sane, TypeOK
<1> QED
  BY <1>1, <1>2, <1>3, <1>4, <1>5, <1>6, <1>7, <1>8, <1>9, <1>10, <1>11 DEF Step

\* A signal, handled or not.
LEMMA SaneDeliver == ASSUME Sane, NEW t \in Threads, Deliver(t) PROVE Sane'
<1> DEFINE back == IF pc[t] = "sleep" THEN "yield" ELSE pc[t]
<1>t. TypeOK
  BY DEF Sane
<1>h. pc[t] \in Places /\ (pc[t] # "wait" => tcore[t] \in Cores) /\ (t \in irqOff <=> pc[t] \in Masked)
  BY Here
<1>1. sig' \subseteq Threads /\ UNCHANGED <<tcore, ev, icore, running, idlePolling, ready, asked, target>>
  BY <1>t DEF Deliver, TypeOK
<1>2. /\ back \in Places /\ (back \in Masked <=> pc[t] \in Masked) /\ (back = "wait" <=> pc[t] = "wait")
      /\ (back = "request" <=> pc[t] = "request")
  BY <1>h DEF Places, Masked
<1>3. CASE t \notin irqOff /\ tcore[t] \in yieldPending
  <2>1. /\ saved' = [saved EXCEPT ![t] = back] /\ irqOff' = irqOff \cup {t}
        /\ yieldPending' = yieldPending \ {tcore[t]} /\ Goto(t, "switch")
    BY <1>3 DEF Deliver, HandlerMasks
  <2> HIDE DEF back
  <2>2. back \in Places \ Masked
    BY <1>h, <1>2, <1>3
  <2>3. /\ saved' \in [Threads -> Places \cup {Nowhere}]
        /\ \A u \in Threads : saved'[u] # Nowhere => saved'[u] \in Places \ Masked
    BY <2>1, <2>2 DEF Sane, TypeOK
  <2>4. pc[t] # "wait" /\ "switch" \in Places /\ "switch" \in Masked
    BY <1>h, <1>3 DEF Places, Masked
  <2>5. /\ irqOff' \subseteq Threads /\ t \in irqOff' /\ yieldPending' \subseteq Cores
        /\ \A u \in Threads \ {t} : u \in irqOff' <=> u \in irqOff
    BY <1>t, <2>1 DEF TypeOK
  <2>6. /\ tcore \in [Threads -> Cores \cup {Nowhere}] /\ tcore[t] # Nowhere
        /\ icore \in [Threads -> Cores \cup {Nowhere}] /\ ev \in [Threads -> Cores \cup {Nowhere}]
        /\ running \in [Cores -> Threads] /\ ready \subseteq Threads
        /\ idlePolling \subseteq Cores /\ asked \subseteq Cores /\ target \in Cores \cup {Nowhere}
    BY <1>t, <2>4 DEF TypeOK
  <2> QED
    BY <1>1, <2>1, <2>3, <2>4, <2>5, <2>6, SaneMoves, ZenonT(20)
<1>4. CASE ~(t \notin irqOff /\ tcore[t] \in yieldPending)
  <2>1. Goto(t, back) /\ UNCHANGED <<saved, irqOff, yieldPending>>
    BY <1>4 DEF Deliver
  <2>2. CASE pc[t] = "request"
    <3>1. pc' = pc /\ UNCHANGED <<saved, irqOff, yieldPending>>
      BY <1>t, <2>1, <2>2 DEF Goto, TypeOK
    <3> QED
      BY <1>1, <3>1, SMTT(30) DEF Sane, TypeOK
  <2>3. CASE pc[t] # "request"
    <3> HIDE DEF back
    <3> QED
      BY <1>t, <1>h, <1>1, <1>2, <2>1, <2>3, SaneMoves, ZenonT(20) DEF Sane, TypeOK
  <2> QED
    BY <2>2, <2>3, SMTT(30)
<1> QED
  BY <1>3, <1>4

LEMMA HoldsInit == Init => Sane /\ Marks /\ Held
<1> SUFFICES ASSUME Init PROVE Sane /\ Marks /\ Held
  OBVIOUS
<1>1. \A t \in Threads : ev[t] # Nowhere => ev[t] \in Cores /\ running[ev[t]] = t
  BY DEF Init
<1>2. ev \in [Threads -> Cores \cup {Nowhere}]
  BY <1>1 DEF Init
<1>3. TypeOK
  BY <1>2, Constant DEF Init, TypeOK, Places
<1> QED
  BY <1>1, <1>3 DEF Init, Sane, Marks, Held, Executes

\* A thread that executes is the one its core records (vPortTaskSwitchHook,
\* switch_on_this_core): no two threads are ever on one core, whatever the
\* order in which threads hand cores over, wait and are resumed.
THEOREM ThreadsHaveCores == Spec => []WhoRuns
<1>1. Init => Sane /\ Marks /\ Held
  BY HoldsInit
<1>2. Sane /\ Marks /\ Held /\ [Next]_vars => (Sane /\ Marks /\ Held)'
  <2> SUFFICES ASSUME Sane, Marks, Held, [Next]_vars PROVE Sane' /\ Marks' /\ Held'
    OBVIOUS
  <2>1. CASE Next
    BY <2>1, SaneStep, SaneDeliver, MarksStep, HeldStep DEF Next
  <2>2. CASE UNCHANGED vars
    BY <2>2 DEF vars, Sane, TypeOK, Marks, Held, Executes
  <2> QED
    BY <2>1, <2>2
<1>3. Sane /\ Held => WhoRuns
  BY DEF Sane, Held, WhoRuns
<1> QED
  BY <1>1, <1>2, <1>3, PTL DEF Spec
=============================================================================
