---------------------------- MODULE MCArmMachine ----------------------------
(* Cores with words of 8 bits: code in a ROM at 0, the stack and the code  *)
(* that can be rewritten in memory at 64.                                  *)
EXTENDS ArmMachine

MachineMap == <<RomRegion(0, 64), RamRegion(64, 160)>>
MachineStack == {a \in 64 .. 223 : a % 4 = 0}
MachineVector(vtor, exc) == CASE exc = 16 -> 33 [] exc = 17 -> 41 [] exc = ArmSvc -> 49 [] OTHER -> 57
MachineOff == [base |-> 0, sz |-> 0, srd |-> {}, ap |-> 0, xn |-> FALSE, on |-> FALSE]
MachineRegs(sp) ==
    (0 :> 1) @@ (1 :> 2) @@ (2 :> 3) @@ (3 :> 4) @@ (12 :> 5) @@ (13 :> sp) @@ (14 :> 9) @@ (16 :> 4) @@
    (17 :> 9) @@ (18 :> 0) @@ (19 :> 1) @@ (20 :> 0) @@ (21 :> 0)
MachineCore(sp) ==
    [reg |-> MachineRegs(sp), pc |-> 8, fw |-> {}, freg |-> <<>>, retired |-> 0, ipsr |-> 0, ge |-> {1}, split |-> TRUE,
     pending |-> {}, active |-> {}, enabled |-> {16, 17}, line |-> {},
     prio |-> [e \in ArmExcs |-> CASE e = 16 -> 96 [] e = 17 -> 64 [] e = ArmPendSv -> 240 [] OTHER -> 128], prigroup |-> 3,
     primask |-> FALSE, faultmask |-> FALSE, basepri |-> 0, irq_maybe |-> FALSE, msp |-> 220, psp |-> 116, control |-> {},
     ccr |-> {"STKALIGN"}, shcsr |-> {}, cfsr |-> {}, hfsr |-> {}, mmfar |-> 0, bfar |-> 0, vtor |-> 0,
     mpu |-> [i \in 0 .. ArmRegions - 1 |-> MachineOff], mpu_ctrl |-> {}, mpu_rnr |-> 0, smc |-> ArmNoWatch, blocks |-> {},
     mem |-> [a \in 64 .. 99 |-> 0], stk |-> [a \in ArmStack |-> ArmCell(0)],
     s |-> [i \in 0 .. ArmFpBank - 1 |-> 7], fpscr |-> ArmFpscr0, fpccr |-> {"ASPEN", "LSPEN"}, fpcar |-> 0,
     fpdscr |-> ArmFpscr0, cpacr |-> 3, scr |-> {}, imprecise |-> FALSE, excl_open |-> FALSE, excl_addr |-> 64,
     lockup |-> FALSE, faulted |-> FALSE, fault_pc |-> 0, state |-> "RUNNING", pc_not_exc_return |-> FALSE,
     tick |-> [ctrl |-> {}, reload |-> 0, value |-> 0, flag |-> FALSE], gen |-> 0, reset_by |-> "NONE",
     it |-> [cond |-> 14, same |-> TRUE]]
W(enc) == [ArmAny EXCEPT !.enc = enc]
\* MOVS r0, #0; MOV sp, r1 and r2; BX lr; VMOV s0, r0; the branches back.
MachineMov == [W("SHIFTADD") EXCEPT !.op = 16, !.imm = 0]
MachineMoves == {[W("SPECIAL") EXCEPT !.op = 8, !.rd = ArmSP, !.rm = r] : r \in {1, 2}}
MachineBx == [W("SPECIAL") EXCEPT !.op = 12, !.rm = 14]
MachineFloat == [W("FP") EXCEPT !.form = "XFER32", !.rd = 0, !.rn = 0]
MachineBack == {[W("B") EXCEPT !.imm = i] : i \in {248, 250}}
MachineSvc == [W("BCC") EXCEPT !.cond = 15]
MachineBasePri == [W("BRANCHMISC") EXCEPT !.form = "MSR", !.rn = 3, !.imm = 2, !.imm2 = 17]
MachineKind(core) == [core |-> core, process |-> 0, code |-> {MachineBx}, interp |-> {}, control |-> {}, lines |-> {}, stores |-> {}, ranges |-> {}]
\* 1: two lines that nest, floating-point state saved lazily.  2: thread mode
\* without privilege on the process stack, at any alignment, whole frames, SVC
\* and BASEPRI.  3: requests, enables and priorities written by the guest; the
\* two interrupts are of one group.  4: the system timer.  5: code in memory.
MCArmKinds ==
    <<[MachineKind(MachineCore(220)) EXCEPT !.code = @ \cup {MachineMov, MachineFloat}, !.lines = {16, 17}],
      [MachineKind(MachineCore(116)) EXCEPT
          !.process = 116, !.core = [@ EXCEPT !.control = {"SPSEL", "NPRIV"}, !.fpccr = {"ASPEN"}, !.reg[1] = 116, !.reg[2] = 112, !.reg[3] = 96, !.reg[ArmCTX] = 1],
          !.code = @ \cup {MachineFloat} \cup MachineMoves, !.interp = {MachineSvc, MachineBasePri} \cup MachineBack, !.lines = {16}],
      [MachineKind(MachineCore(220)) EXCEPT
          !.core = [@ EXCEPT !.prigroup = 5],
          !.control = {[r |-> r, v |-> {16, 17}] : r \in {"ISPR", "ISER", "ICER"}} \cup {[r |-> "ICPR", v |-> {16}]}
                      \cup {[r |-> "IPR", v |-> [exc |-> 17, prio |-> 48]], [r |-> "ICSR", v |-> {"PENDSVSET"}]},
          !.lines = {16}],
      [MachineKind(MachineCore(220)) EXCEPT
          !.core = [@ EXCEPT !.tick = [ctrl |-> {"ENABLE", "TICKINT"}, reload |-> 3, value |-> 0, flag |-> FALSE]],
          !.code = @ \cup {MachineMov}, !.interp = MachineBack, !.lines = {17}],
      [MachineKind(MachineCore(220)) EXCEPT
          !.stores = {65, 70, 76, 81, 95, 96}, !.ranges = {[from |-> f, to |-> f + n] : f \in {64, 76, 78, 94}, n \in {2, 6}}]>>
\* Blocks are not run here: nothing of the target is used.
MachinePc(cpu) == ArmPC
MachineHelper(n, cpu, a, b) == LET r == ArmHelper(cpu, n[2]) IN r
MachineZero(cpu, n) == FALSE
MachineFlags(cpu) == {}
MachineLowers(op, aux) == TRUE
MachineLooking(c) == LET d == ArmLook(c) IN d
MachineInterpreting(c, w) == LET t == ArmInterpreted(c, w) IN t
MachineBlockRunning(c, w) == LET d == ArmRan(c, w) IN d
MCInit == ArmInit
MCNext == ArmNext
=============================================================================
