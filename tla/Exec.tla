-------------------------------- MODULE Exec --------------------------------
(* Guest code run both ways.  A program of a few instructions is translated *)
(* from where it starts, optimised and run as a block, and interpreted one  *)
(* instruction at a time from the same state; the two must agree.           *)
EXTENDS EmuIr

CONSTANTS
    Guests,              \* a sequence of [cpus, first, rest, max]: the starting
                         \* states, the first and later instructions, the length
    Executed(_, _),          \* one instruction of a guest, interpreted
    Translation(_, _),   \* the block made of a program: [block, count, ...]
    Trapped(_),          \* it has taken a trap (no starting state has)
    LengthOf(_, _),      \* how many bytes an instruction has
    Entered(_), Leaves(_),  \* the CPU as a block runs on it, and as it is afterwards
    Unprivileged(_),     \* it runs user code
    Protected(_),        \* what user code may not change: system state, memory
    Handlers(_),         \* where the exceptions it can take are handled
    Faulted(_, _),       \* an instruction has just taken a protection fault, and can be retried
    Opened(_),           \* the protection unit refuses nothing any more
    Returned(_),         \* the handler of a fault has returned
    Visible(_)           \* what a program sees, what describes a fault apart
AllGuests == Guests

VARIABLES who, program
vars == <<who, program>>

\* The instruction at pc of a program that starts at base, or 0.
Offset(cpu, p, i) ==
    LET f[k \in 0 .. Len(p)] == IF k = 0 THEN 0 ELSE f[k - 1] + LengthOf(cpu, p[k]) IN f[i - 1]
IndexAt(cpu, p, pc) ==
    LET I == {i \in DOMAIN p : Add(cpu.pc, Offset(cpu, p, i)) = pc} IN IF I = {} THEN 0 ELSE CHOOSE i \in I : TRUE

\* k instructions, interpreted; NoCpu when the program is left before.
Interpret(cpu, p, k) ==
    LET run[n \in 0 .. k] ==
          IF n = 0 THEN cpu
          ELSE LET c == run[n - 1] IN
               IF c = NoCpu THEN NoCpu
               ELSE LET i == IndexAt(cpu, p, c.pc) IN IF i = 0 THEN NoCpu ELSE Executed(c, p[i])
    IN run[k]

Init == who \in DOMAIN AllGuests /\ program = <<>>
Extend1 ==
    /\ Len(program) < AllGuests[who].max
    /\ LET V == IF program = <<>> THEN AllGuests[who].first ELSE AllGuests[who].rest IN
       \E in \in V : program' = Append(program, in)
    /\ UNCHANGED who
Full == Len(program) = AllGuests[who].max /\ UNCHANGED vars
Next == Extend1 \/ Full
Spec == Init /\ [][Next]_vars

\* A translated block leaves the CPU where interpreting as many
\* instructions as it says it retired does, one more when it ended in a
\* trap: registers, memory, pc, flags and the whole of the trap state.
Agree(cpu) ==
    \A in \in {Entered(cpu)} : \A t \in {Translation(in, program)} :
    t.count > 0 /\ ~t.block.overflow =>
    \A b \in {Optimise(t.block, in)} : \A c \in {RunBlock(b, in)} :
    c # NoCpu =>
    LET n == c.retired + Bool(Trapped(c))
        k == Interpret([cpu EXCEPT !.retired = 0], program, n)
    IN n > 0 /\ k # NoCpu /\ Leaves([c EXCEPT !.retired = 0]) = Leaves([k EXCEPT !.retired = 0])
TranslationAgrees == \A i \in DOMAIN AllGuests[who].cpus : Agree(AllGuests[who].cpus[i])

\* An instruction of user code, interpreted, either leaves every privileged
\* register, table and protected byte as it was and goes on as user code, or
\* it enters one of the handlers; nothing else makes a core privileged.
Confined ==
    Len(program) = 1 =>
    \A i \in DOMAIN AllGuests[who].cpus : \A cpu \in {AllGuests[who].cpus[i]} :
    Unprivileged(cpu) =>
    \A n \in {Executed(cpu, program[1])} :
    IF Unprivileged(n) THEN Protected(n) = Protected(cpu) ELSE n.pc \in Handlers(cpu)

\* A fault can be mended.  An instruction that the protection unit refused,
\* perhaps with some of its accesses made, and that is executed again when
\* the handler has opened the memory and returned, ends as it would have had
\* nothing been refused: no base register or stack pointer is moved early, no
\* register the rest of it needs is loaded over.
Restartable ==
    Len(program) = 1 =>
    \A i \in DOMAIN AllGuests[who].cpus : \A cpu \in {AllGuests[who].cpus[i]} :
    \A n \in {Executed(cpu, program[1])} :
    Faulted(n, program[1]) =>
    \A again \in {Executed(Returned(Opened(n)), program[1])} : Visible(again) = Visible(Executed(Opened(cpu), program[1]))
=============================================================================
