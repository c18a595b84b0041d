-------------------------------- MODULE G4Cpu --------------------------------
(* A G4MH core: its memory protection unit, and after it the core itself,  *)
(* its registers, memory accesses and exceptions (g4mh_cpu.c).             *)
(*                                                                         *)
(* The memory protection unit of a G4MH core (g4mh_mpu.c, g4mh_mpu.h).     *)
(*                                                                         *)
(* An entry's attributes are sets: at the permission bits with E, RG and   *)
(* WG, rm and wm the RMPID and WMPID masks.  A word of 8 bits has no room  *)
(* for the upper half of MPAT: in a word written to MPAT, bit 6 (reserved  *)
(* in the code) stands for RG and WG together, and the masks are left.     *)
EXTENDS Words, FiniteSetsExt, TLC, SequencesExt

CONSTANTS
    G4Entries,      \* G4MH_MPU_ENTRIES
    G4Mpids         \* how many MPID registers there are (8)

G4AtBits == <<"UR", "UW", "UX", "SR", "SW", "SX", "G", "E">>
G4BitsOf(names, v) == {names[i] : i \in {j \in DOMAIN names : Bit(v, j - 1) = 1}}
G4WordOf(names, on) == MapThenSumSet(LAMBDA i : 2 ^ (i - 1), {j \in DOMAIN names : names[j] \in on})

G4NoEntry == [la |-> 0, ua |-> 0, at |-> {}, rm |-> {}, wm |-> {}]
\* g4mh_mpu_t after g4mh_mpu_reset.
G4MpuReset ==
    [ent |-> [i \in 0 .. G4Entries - 1 |-> G4NoEntry], mpid |-> [i \in 0 .. G4Mpids - 1 |-> 0],
     mpm |-> {}, mpidx |-> 0, mca |-> 0, mcs |-> 0, mcr |-> {}, mci |-> 0]
\* g4mh_mpu_is_active.
G4MpuActive(m) == "MPE" \in m.mpm

\* spid_permits.
G4SpidPermits(m, e, write, spid) ==
    \/ "G" \in e.at
    \/ \E i \in (IF write THEN e.wm ELSE e.rm) : m.mpid[i] = spid

\* An entry that is on and holds lo to hi.
G4Covers(e, lo, hi) == "E" \in e.at /\ lo >= e.la - (e.la % 4) /\ hi <= Or(e.ua, 3)
G4Need(acc, user) ==
    CASE acc = "FETCH" -> (IF user THEN "UX" ELSE "SX")
      [] acc = "WRITE" -> (IF user THEN "UW" ELSE "SW")
      [] OTHER         -> (IF user THEN "UR" ELSE "SR")

\* g4mh_mpu_permits: some entry holds all of it and grants it.
G4Permits(m, addr, size, acc, user, spid) ==
    LET last == Add(addr, size - 1) IN
    \/ ~user /\ "SVP" \notin m.mpm
    \/ /\ last >= addr
       /\ \E i \in DOMAIN m.ent :
             /\ G4Covers(m.ent[i], addr, last)
             /\ G4Need(acc, user) \in m.ent[i].at
             /\ G4SpidPermits(m, m.ent[i], acc = "WRITE", spid)

\* check_span: what MCC leaves in MCR.
G4CheckSpan(m) ==
    LET all == {"UR", "UW", "UX", "SR", "SW", "SX"}
        lo == m.mca
        hi == Add(m.mca, Sub(m.mcs, 1))
        free == IF "SVP" \in m.mpm THEN {} ELSE {"SX", "SW", "SR"}
        Of(e) == (IF G4SpidPermits(m, e, FALSE, m.mci) THEN e.at \cap {"SX", "SR", "UX", "UR"} ELSE {})
                 \cup (IF G4SpidPermits(m, e, TRUE, m.mci) THEN e.at \cap {"SW", "UW"} ELSE {})
    IN CASE ~G4MpuActive(m) -> all
         [] hi < lo \/ (lo < SignBit /\ hi >= SignBit) -> {"OV"} \cup free
         [] OTHER -> free \cup UNION {Of(m.ent[i]) : i \in {j \in DOMAIN m.ent : G4Covers(m.ent[j], lo, hi)}}

\* g4mh_mpu_reg_protects: MPID registers are <<"MPID", n>> here.
G4MpuProtects(r) == r[1] \in {"MPM", "MPLA", "MPUA", "MPAT", "MPID"}

\* g4mh_mpu_sr_read; an entry MPIDX names that does not exist reads as zero.
G4MpuRead(m, r) ==
    LET has == m.mpidx \in DOMAIN m.ent
        e == m.ent[m.mpidx]
    IN CASE r[1] = "MPM"   -> G4WordOf(<<"MPE", "SVP">>, m.mpm)
         [] r[1] = "MPCFG" -> G4Entries - 1
         [] r[1] = "MPIDX" -> m.mpidx
         [] r[1] = "MCA"   -> m.mca
         [] r[1] = "MCS"   -> m.mcs
         [] r[1] = "MCR"   -> G4WordOf(G4AtBits, m.mcr)
         [] r[1] = "MCI"   -> m.mci
         [] r[1] = "MPID"  -> m.mpid[r[2]]
         [] r[1] = "MPLA" /\ has -> e.la
         [] r[1] = "MPUA" /\ has -> e.ua
         [] r[1] = "MPAT" /\ has -> G4WordOf(G4AtBits, e.at)
         [] OTHER -> 0

\* g4mh_mpu_entry_write.
G4EntryWrite(m, i, r, val) ==
    CASE i \notin DOMAIN m.ent -> m
      [] r[1] = "MPLA" -> [m EXCEPT !.ent[i].la = val - (val % 4)]
      [] r[1] = "MPUA" -> [m EXCEPT !.ent[i].ua = val - (val % 4)]
      [] OTHER         -> [m EXCEPT !.ent[i].at = G4BitsOf(G4AtBits, val)]

\* g4mh_mpu_sr_write.
G4MpuWrite(m, r, val) ==
    CASE r[1] = "MPM"   -> [m EXCEPT !.mpm = G4BitsOf(<<"MPE", "SVP">>, val)]
      [] r[1] = "MPIDX" -> [m EXCEPT !.mpidx = val % 32]
      [] r[1] = "MCA"   -> [m EXCEPT !.mca = val]
      [] r[1] = "MCS"   -> [m EXCEPT !.mcs = val]
      [] r[1] = "MCC"   -> [m EXCEPT !.mcr = G4CheckSpan(m)]
      [] r[1] = "MCR"   -> [m EXCEPT !.mcr = G4BitsOf(G4AtBits, val) \ {"G", "E"}]
      [] r[1] = "MCI"   -> [m EXCEPT !.mci = val % 32]
      [] r[1] = "MPID"  -> [m EXCEPT !.mpid[r[2]] = val % 32]
      [] r[1] \in {"MPLA", "MPUA", "MPAT"} -> G4EntryWrite(m, m.mpidx, r, val)
      [] OTHER -> m

------------------------------------------------------------------------------
(* One G4MH core: registers, memory through the protection unit, the       *)
(* reservation, exceptions and the system registers (g4mh_cpu.c,           *)
(* g4mh_cpu.h, g4mh_decode.c).                                             *)
(*                                                                         *)
(* PSW is the set fw of the bits that are one, among them the flags the    *)
(* translated code knows; a word of 8 bits has no room for all of it, so   *)
(* UM sits where EP is, and EP, EBV and CU0 are left as they are when a    *)
(* word is written to a PSW.  A cause is a code with the set of detail     *)
(* bits above it, MEI the tuple of its fields and FPSR the record of its:  *)
(* an instruction sees the low 8 bits of them.                             *)

CONSTANTS
    G4Map,               \* the memory map
    G4VecUnit,           \* bytes between two vectors (0x10)
    G4SpidList           \* the SPIDs SPIDLIST allows

G4SP == 3
G4EP == 30
G4LP == 31
G4PswBits == <<"Z", "S", "V", "C", "SAT", "ID", "UM", "NP">>
G4Arith == {"Z", "S", "V", "C"}
G4User(c) == "UM" \in c.fw

\* The codes of causes, G4MH_EXC_*.
G4Exc == [SYSERR |-> 16, FETRAP |-> 48, TRAP0 |-> 64, TRAP1 |-> 80, RIE |-> 96, FPP |-> 113, FXE |-> 117, UCPOP |-> 128,
          MIP |-> 144, MDP |-> 145, PIE |-> 160, MAE |-> 192, FENMI |-> 224, FEINT |-> 240, SYSCALL |-> 32768]
G4None == [code |-> -1, det |-> {}]
G4Raise(code) == [code |-> code, det |-> {}]

\* g4mh_cond.
G4Cond(cond, fw) ==
    LET z == "Z" \in fw  s == "S" \in fw  v == "V" \in fw  y == "C" \in fw IN
    CASE cond = 0 -> v          [] cond = 1 -> y          [] cond = 2 -> z         [] cond = 3 -> y \/ z
      [] cond = 4 -> s          [] cond = 5 -> TRUE       [] cond = 6 -> s # v     [] cond = 7 -> s # v \/ z
      [] cond = 8 -> ~v         [] cond = 9 -> ~y         [] cond = 10 -> ~z       [] cond = 11 -> ~(y \/ z)
      [] cond = 12 -> ~s        [] cond = 13 -> "SAT" \in fw
      [] cond = 14 -> s = v     [] OTHER -> s = v /\ ~z

-----------------------------------------------------------------------------
(* What an access that is refused leaves in MEI for an emulating handler:  *)
(* length, register, size, unsigned, kind, write (g4mh_mei).               *)

G4Mei(w, block) ==
    LET Mei(reg, ds, u, kind, rw) == <<w.len, reg, ds, u, kind, rw>>
        ds == CASE w.size = 1 -> 0 [] w.size = 2 -> 1 [] w.size = 4 -> 2 [] OTHER -> 3
        form == CASE w.len = 2 -> 0 [] w.len = 4 -> 1 [] OTHER -> 2
    IN CASE w.op = "SWITCH"  -> Mei(0, 1, 0, 16, 0)
         [] w.op = "CALLT"   -> Mei(0, 1, 1, 17, 0)
         [] w.op = "LD" -> Mei(w.r2, ds, Bool(~w.signed /\ w.size < 4), form, 0)
         [] w.op = "ST" -> Mei(w.r2, ds, 0, form, 1)
         [] w.op = "LDDW" -> Mei(w.r2 - (w.r2 % 2), 3, 0, 2, 0)
         [] w.op = "STDW" -> Mei(w.r2 - (w.r2 % 2), 3, 0, 2, 1)
         [] w.op = "PREPARE" -> Mei(block, 2, 0, 12, 1)
         [] w.op = "DISPOSE" -> Mei(block, 2, 0, 12, 0)
         [] w.op = "BITOP"   -> Mei(0, 0, 0, 9, 0)
         [] w.op = "CAXI"    -> Mei(w.r3, 2, 0, 8, 0)
         [] w.op = "LDL"     -> Mei(w.r3, ds, Bool(w.size < 4 /\ ~w.signed), <<7, 4, 5>>[w.imm + 1], 0)
         [] w.op = "STC"     -> Mei(w.r3, ds, 0, <<7, 4, 5>>[w.imm + 1], 1)
         [] w.op = "STMMP"   -> Mei(0, 2, 0, 15, 1)
         [] w.op = "LDMMP"   -> Mei(0, 2, 0, 15, 0)
         [] w.op = "PUSHSP"  -> Mei(block, 2, 0, 13, 1)
         [] w.op = "POPSP"   -> Mei(block, 2, 0, 13, 0)
         [] w.op = "SYSCALL" -> Mei(0, 2, 0, 18, 0)
         [] w.op = "RESBANK" -> Mei(0, 2, 0, 22, 0)
         [] w.op = "CACHE"   -> Mei(0, 0, 0, 20, 0)
         [] OTHER -> <<>>
\* mei_for: an instruction that has no MEI leaves the register.
G4MeiFor(c, w) == LET t == G4Mei(w, c.mei_reg) IN IF t = <<>> THEN c.sr.MEI ELSE t

-----------------------------------------------------------------------------
(* Exceptions. *)

\* g4mh_exc_is_fe.
G4IsFe(code) ==
    \/ code \div 16 = 1
    \/ code \in {G4Exc.MIP, G4Exc.MDP, G4Exc.MDP + 4, G4Exc.RIE, G4Exc.MAE, G4Exc.PIE, G4Exc.FENMI}
                \cup G4Exc.UCPOP .. G4Exc.UCPOP + 2
    \/ code \div 16 \in {3, 15}

\* handler_address, interrupts apart: code 0xNN goes to vector 0xN0.
G4VecOf(code) ==
    IF code \div 16 \in {3, 4, 5, 15} \/ code \in {G4Exc[e] : e \in DOMAIN G4Exc} \cup {129, 130, 149}
    THEN (code % 256) \div 16 ELSE 1
G4Table(c) == IF "EBV" \in c.fw THEN c.sr.EBASE ELSE c.sr.RBASE
G4Handler(c, code) == Add(G4Table(c), G4VecUnit * G4VecOf(code))

\* g4mh_ll_drop, g4mh_ll_take, g4mh_ll_break; one core.
G4Drop(c) == [c EXCEPT !.ll_valid = FALSE]
G4Take(c, addr) == [c EXCEPT !.ll_valid = TRUE, !.ll_addr = addr - (addr % 4)]
G4Break(c, addr) == IF c.ll_valid /\ c.ll_addr = addr - (addr % 4) THEN G4Drop(c) ELSE c

\* g4mh_jit_ctx_refresh.
G4CtxRefresh(c) == [c EXCEPT !.jit_ctx = Bool(G4User(c))]
G4Bump(c) == [c EXCEPT !.gen = @ + 1]

\* exception_to (g4mh_cpu_exception_at): w is the instruction at ret.
G4ExceptionAt(c, cause, ret, handler, w) ==
    LET code == cause.code
        noted == CASE code \in {G4Exc.MDP, G4Exc.MAE} -> [c EXCEPT !.sr.MEI = G4MeiFor(c, w)]
                   [] code = G4Exc.FPP -> [c EXCEPT !.sr.FPEPC = ret - (ret % 2)]
                   [] OTHER -> c
        irq == code = G4Exc.FENMI \/ code \div 16 = 15
        inFe == [noted EXCEPT !.sr.FEPC = ret, !.sr.FEPSW = c.fw, !.sr.FEIC = cause,
                              !.fw = ((@ \cup {"NP", "EP", "ID"}) \ {"UM"}) \ (IF irq THEN {"EP"} ELSE {})]
        inEi == [noted EXCEPT !.sr.EIPC = ret, !.sr.EIPSW = c.fw, !.sr.EIIC = cause,
                              !.fw = ((@ \cup {"ID"}) \ {"UM", "EP"})
                                     \cup (IF code \in 4096 .. 32767 THEN {} ELSE {"EP"})]
    IN G4Drop([G4CtxRefresh(IF G4IsFe(code) THEN inFe ELSE inEi) EXCEPT !.pc = handler, !.irq_dirty = TRUE])
\* g4mh_cpu_exception.
G4Exception(c, cause, ret, w) == G4ExceptionAt(c, cause, ret, G4Handler(c, cause.code), w)

-----------------------------------------------------------------------------
(* Memory.  An access answers the cause, the core and the value. *)

G4Fault(c, cause, addr) == [exc |-> cause, cpu |-> [c EXCEPT !.sr.MEA = addr], val |-> 0]
G4Good(c, v) == [exc |-> G4None, cpu |-> c, val |-> v]

\* g4mh_mdp.
G4Mdp(c, rd, wr, kind) ==
    [code |-> G4Exc.MDP,
     det |-> kind \cup (IF rd THEN {IF G4User(c) THEN "UR" ELSE "SR"} ELSE {})
                  \cup (IF wr THEN {IF G4User(c) THEN "UW" ELSE "SW"} ELSE {})]
\* The protection unit on, and what it refuses.
G4MpuOn(c) == G4MpuActive(c.mpu)
G4Refused(c, addr, size, acc) == G4MpuOn(c) /\ ~G4Permits(c.mpu, addr, size, acc, G4User(c), c.spid)

\* g4mh_load and g4mh_store; an unmapped address is a protection fault with
\* no detail (g4mh_exc_from_fault).
G4BusLoad(c, addr, size) ==
    IF Readable(G4Map, addr, size) THEN G4Good(c, LoadLe(c.mem, addr, size)) ELSE G4Fault(c, G4Raise(G4Exc.MDP), addr)
G4Load(c, addr, size, sext) ==
    CASE addr % size # 0 -> G4Fault(c, G4Raise(G4Exc.MAE), addr)
      [] G4Refused(c, addr, size, "READ") -> G4Fault(c, G4Mdp(c, TRUE, FALSE, {}), addr)
      [] OTHER -> LET r == G4BusLoad(c, addr, size) IN
                  IF sext /\ size < 4 /\ r.exc = G4None THEN [r EXCEPT !.val = Sext(@, size * ByteBits)] ELSE r
G4Store(c, addr, size, val) ==
    CASE addr % size # 0 -> G4Fault(c, G4Raise(G4Exc.MAE), addr)
      [] G4Refused(c, addr, size, "WRITE") -> G4Fault(c, G4Mdp(c, FALSE, TRUE, {}), addr)
      [] ~Writable(G4Map, addr, size) -> G4Fault(c, G4Raise(G4Exc.MDP), addr)
      [] OTHER -> G4Good(G4Break([c EXCEPT !.mem = StoreLe(@, addr, size, val)], addr), 0)

\* g4mh_load_sv: with the supervisor's rights.
G4LoadSv(c, addr) ==
    LET r == G4Load([c EXCEPT !.fw = @ \ {"UM"}], addr, 4, FALSE) IN [r EXCEPT !.cpu.fw = c.fw]

\* g4mh_rmw_ptr, for what it refuses: both rights asked at once.
G4RmwRefused(c, addr, size, write) ==
    LET rd == G4Refused(c, addr, size, "READ")
        wr == write /\ G4Refused(c, addr, size, "WRITE")
    IN CASE addr % size # 0 -> G4Fault(c, G4Raise(G4Exc.MAE), addr)
         [] rd \/ wr -> G4Fault(c, G4Mdp(c, rd, wr, {"RMW"}), addr)
         [] OTHER -> G4Good(c, 0)

\* Two accesses one after the other; the second only when the first is good.
G4Then(r, Op(_)) == IF r.exc = G4None THEN Op(r) ELSE r

\* span_refused, dw_refused, g4mh_load_dw and g4mh_store_dw; val is <<lo, hi>>.
G4Twice(r) == [r EXCEPT !.val = <<0, 0>>]
G4LoadDw(c, addr) ==
    CASE addr % 4 # 0 -> G4Twice(G4Fault(c, G4Raise(G4Exc.MAE), addr))
      [] G4Refused(c, addr, 8, "READ") ->
             G4Twice(G4Fault(c, G4Mdp(c, TRUE, FALSE, IF addr % 8 # 0 THEN {"MS"} ELSE {}), addr))
      [] OTHER -> LET lo == G4BusLoad(c, addr, 4)
                      hi == G4BusLoad(lo.cpu, Add(addr, 4), 4)
                  IN IF lo.exc # G4None THEN G4Twice(lo) ELSE [hi EXCEPT !.val = <<lo.val, hi.val>>]
G4StoreDw(c, addr, lo, hi) ==
    CASE addr % 4 # 0 -> G4Fault(c, G4Raise(G4Exc.MAE), addr)
      [] G4Refused(c, addr, 8, "WRITE") -> G4Fault(c, G4Mdp(c, FALSE, TRUE, IF addr % 8 # 0 THEN {"MS"} ELSE {}), addr)
      [] OTHER -> G4Then(G4Store(c, addr, 4, lo), LAMBDA r : G4Store(r.cpu, Add(addr, 4), 4, hi))

-----------------------------------------------------------------------------
(* System registers, <<name, n>>. *)

G4MpuRegs == {"MPM", "MPCFG", "MCA", "MCS", "MCC", "MCR", "MCI", "MPIDX", "MPBK", "MPLA", "MPUA", "MPAT", "MPID"}
G4FpWindows == {"FPST", "FPCC", "FPCFG"}
G4XpBits == <<"I", "U", "O", "Z", "V">>

\* g4mh_sr_access.
G4SrAccess(c, r) ==
    LET fp == r[1] \in {"FPSR", "FPEPC"} \cup G4FpWindows
        user == r[1] \in {"PSW", "CTPC", "CTPSW", "CTBP", "HTCFG0"} \cup G4FpWindows
    IN CASE fp /\ "CU0" \notin c.fw -> G4Raise(G4Exc.UCPOP)
         [] G4User(c) /\ ~user -> G4Raise(G4Exc.PIE)
         [] OTHER -> G4None

\* window_read and window_write: FPST, FPCC and FPCFG over FPSR, whose fields
\* xp, xe and xc are the sticky, enabled and last exceptions.
G4WindowRead(f, r) ==
    CASE r = "FPST"  -> G4WordOf(G4XpBits \o <<"IF">>, f.xp \cup f.if)
      [] r = "FPCC"  -> MapThenSumSet(LAMBDA i : 2 ^ i, f.cc)
      [] r = "FPCFG" -> G4WordOf(G4XpBits, f.xe)
G4WindowWrite(f, r, v) ==
    CASE r = "FPST"  -> [f EXCEPT !.xp = G4BitsOf(G4XpBits, v), !.if = IF Bit(v, 5) = 1 THEN {"IF"} ELSE {}]
      [] r = "FPCC"  -> [f EXCEPT !.cc = {i \in 0 .. 7 : Bit(v, i) = 1}]
      [] r = "FPCFG" -> [f EXCEPT !.xe = G4BitsOf(G4XpBits, v)]

\* g4mh_sr_read.
G4SrRead(c, r) ==
    CASE r[1] = "PSW" -> G4WordOf(G4PswBits, c.fw)
      [] r[1] \in {"EIPSW", "FEPSW", "CTPSW"} -> G4WordOf(G4PswBits, c.sr[r[1]])
      [] r[1] \in {"EIIC", "FEIC"} -> Low(c.sr[r[1]].code, 8)
      [] r[1] = "MEI" -> IF c.sr.MEI = <<>> THEN 0 ELSE 2 * c.sr.MEI[5] + c.sr.MEI[6]
      [] r[1] = "SPIDLIST" -> AllOnes
      [] r[1] = "SPID" -> c.spid
      [] r[1] \in G4MpuRegs -> G4MpuRead(c.mpu, r)
      [] r[1] \in G4FpWindows -> G4WindowRead(c.sr.FPSR, r[1])
      [] r[1] = "FPSR" -> G4WordOf(G4XpBits, c.sr.FPSR.xp)
                          + 32 * Low(G4WordOf(G4XpBits, c.sr.FPSR.xe), 3)
      [] OTHER -> c.sr[r[1]]

\* psw_writable and sr_writable; words whose upper bits alone can be written
\* keep every bit here but the ones the mask clears below bit 8.
G4SrWritable(r) ==
    CASE r[1] = "CTPSW" -> 31
      [] r[1] \in {"CTBP", "FPEPC"} -> AllOnes - 1
      [] r[1] \in {"RBASE", "PID", "HTCFG0"} -> 0
      [] r[1] = "MCTL" -> 1
      [] r[1] = "SCBP" -> AllOnes - 3
      [] r[1] = "INTCFG" -> 3
      [] OTHER -> AllOnes

\* The PSW a word stands for, on top of the one there was.
G4PswOf(old, v) == (old \ {G4PswBits[i] : i \in DOMAIN G4PswBits}) \cup G4BitsOf(G4PswBits, v)
\* What SVLOCK keeps from being written.
G4Locked(c, r) == c.sr.SVLOCK = 1 /\ r[1] \in {"SPID", "MPM", "MPBK", "MPLA", "MPUA", "MPAT", "MPID"}

\* g4mh_sr_write.
G4SrWrite(c, r, word) ==
    LET m == G4SrWritable(r)
        v == Or(And(G4SrRead(c, r), Not(m)), And(word, m))
        put == CASE r[1] \in {"EIPSW", "FEPSW"} -> [c EXCEPT !.sr[r[1]] = G4PswOf(@, v)]
                 [] r[1] = "CTPSW" -> [c EXCEPT !.sr.CTPSW = G4BitsOf(G4PswBits, v)]
                 [] r[1] \in {"EIIC", "FEIC"} -> [c EXCEPT !.sr[r[1]] = G4Raise(v)]
                 [] r[1] = "MEI" -> [c EXCEPT !.sr.MEI = <<0, 0, 0, 0, v \div 2, v % 2>>]
                 [] r[1] = "FPSR" -> [c EXCEPT !.sr.FPSR.xp = G4BitsOf(G4XpBits, v),
                                               !.sr.FPSR.xe = (@ \ {"I", "U", "O"}) \cup G4BitsOf(G4XpBits, Shr(v, 5))]
                 [] OTHER -> [c EXCEPT !.sr[r[1]] = v]
    IN CASE r[1] = "PSW" -> [c EXCEPT !.fw = G4PswOf(@, v), !.irq_dirty = TRUE]
         [] G4Locked(c, r) \/ r[1] = "SPIDLIST" -> c
         [] r[1] = "SPID" -> IF v % 32 \notin G4SpidList \/ v % 32 = c.spid THEN c
                             ELSE G4Bump([c EXCEPT !.spid = v % 32])
         [] r[1] = "SVLOCK" -> [c EXCEPT !.sr.SVLOCK = v % 2]
         [] r[1] \in G4MpuRegs ->
                LET w == [c EXCEPT !.mpu = G4MpuWrite(@, r, v)] IN IF G4MpuProtects(r) THEN G4Bump(w) ELSE w
         [] r[1] \in G4FpWindows -> [c EXCEPT !.sr.FPSR = G4WindowWrite(@, r[1], v)]
         [] r[1] \in {"INTCFG", "ISPR", "PLMR"} -> [put EXCEPT !.irq_dirty = TRUE]
         [] OTHER -> put

\* g4mh_ldsr and g4mh_stsr: a user's write of PSW reaches the flags alone.
G4Ldsr(c, r, val) ==
    LET e == G4SrAccess(c, r)
        v == IF r[1] = "PSW" /\ G4User(c) THEN G4SrRead(c, r) - Low(G4SrRead(c, r), 5) + Low(val, 5) ELSE val
    IN IF e # G4None THEN [exc |-> e, cpu |-> c, val |-> 0] ELSE G4Good(G4SrWrite(c, r, v), 0)
G4Stsr(c, r) ==
    LET e == G4SrAccess(c, r) IN
    IF e # G4None THEN [exc |-> e, cpu |-> c, val |-> 0] ELSE G4Good(c, G4SrRead(c, r))

-----------------------------------------------------------------------------
(* Instructions both ways of running code share. *)

\* wr: register 0 stays zero.
G4Wr(c, n, v) == IF n = 0 THEN c ELSE [c EXCEPT !.reg[n] = v]

\* g4mh_bitop, not shared memory: with the protection unit on, both rights
\* are asked before anything is read.
G4Bitop(c, op, addr, bit) ==
    LET mask == 2 ^ (bit % ByteBits)
        Done(r) ==
          LET fl == [r.cpu EXCEPT !.fw = IF And(r.val, mask) # 0 THEN @ \ {"Z"} ELSE @ \cup {"Z"}]
              out == CASE op = "SET" -> Or(r.val, mask) [] op = "CLR" -> And(r.val, Not(mask)) [] OTHER -> Xor(r.val, mask)
          IN IF op = "TST" THEN G4Good(fl, 0) ELSE G4Store(fl, addr, 1, out)
        Read(r) == G4Then(G4Load(r.cpu, addr, 1, FALSE), Done)
    IN IF op # "TST" /\ G4MpuOn(c) THEN G4Then(G4RmwRefused(c, addr, 1, TRUE), Read) ELSE Read(G4Good(c, 0))

\* g4mh_adf.
G4Adf(c, r1, r2, rd, cond) ==
    LET a == c.reg[r1]  b == c.reg[r2]
        wide == a + b + Bool(G4Cond(cond, c.fw))
        res == Wrap(wide)
        on == {f \in G4Arith : CASE f = "C" -> wide >= Size [] f = "Z" -> res = 0 [] f = "S" -> SignOf(res)
                                 [] OTHER -> SignOf(And(Not(Xor(a, b)), Xor(a, res)))}
    IN G4Wr([c EXCEPT !.fw = (@ \ G4Arith) \cup on], rd, res)

\* g4mh_exc_block.
G4Block(r, reg) ==
    [r EXCEPT !.cpu.mei_reg = reg, !.exc.det = IF r.exc.code = G4Exc.MDP THEN @ \cup {"BL"} ELSE @]
\* The registers of a list in the order they are moved.
G4Rising(regs) == SetToSortSeq(regs, LAMBDA x, y : x < y)
G4Falling(regs) == SetToSortSeq(regs, LAMBDA x, y : x > y)

\* As if sp moved with each register.
G4Prepare_MovesSp(c, list, imm) ==
    LET order == G4Rising(list)
        One(acc, i) ==
          IF acc.exc # G4None THEN acc
          ELSE LET at == Sub(acc.cpu.reg[G4SP], 4)
                   r == G4Store(acc.cpu, at - (at % 4), 4, c.reg[order[i]])
               IN IF r.exc # G4None THEN G4Block(r, order[i]) ELSE [r EXCEPT !.cpu.reg[G4SP] = at]
        Down(k) == Sub(k.reg[G4SP], 4 * imm)
    IN G4Then(Loop(One, G4Good(c, 0), Len(order)), LAMBDA r : G4Good([r.cpu EXCEPT !.reg[G4SP] = Down(r.cpu)], Down(r.cpu)))
\* prepare_save and g4mh_prepare (g4mh_list12_has: list is the set of
\* registers); sp moves at the end, so a fault can be tried again.
G4Prepare(c, list, imm) ==
    LET order == G4Rising(list)
        One(acc, i) ==
          IF acc.exc # G4None THEN acc
          ELSE LET at == Sub(acc.val, 4)
                   r == G4Store(acc.cpu, at - (at % 4), 4, c.reg[order[i]])
               IN IF r.exc # G4None THEN G4Block(r, order[i]) ELSE [r EXCEPT !.val = at]
    IN G4Then(Loop(One, G4Good(c, c.reg[G4SP]), Len(order)),
              LAMBDA r : G4Good([r.cpu EXCEPT !.reg[G4SP] = Sub(r.val, 4 * imm)], Sub(r.val, 4 * imm)))
\* dispose_load and g4mh_dispose: val is where it goes, when it returns.
G4Dispose(c, list, imm, rt) ==
    LET order == G4Falling(list)
        One(acc, i) ==
          IF acc.exc # G4None THEN acc
          ELSE LET r == G4Load(acc.cpu, acc.val - (acc.val % 4), 4, FALSE) IN
               IF r.exc # G4None THEN G4Block(r, order[i])
               ELSE G4Good([r.cpu EXCEPT !.reg[order[i]] = r.val], Add(acc.val, 4))
    IN G4Then(Loop(One, G4Good(c, Add(c.reg[G4SP], 4 * imm)), Len(order)),
              LAMBDA r : LET t == r.cpu.reg[rt] IN G4Good([r.cpu EXCEPT !.reg[G4SP] = r.val], t - (t % 2)))
==============================================================================
