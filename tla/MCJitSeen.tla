---------------------------- MODULE MCJitSeen ----------------------------
(* Two pcs on two pages, one in two contexts that fold together, the     *)
(* other's first instruction across both pages, one slot for both keys:   *)
(* every way two blocks can meet in one entry.                            *)
EXTENDS JitSeen

MCPcs      == {1, 2}
MCPages    == {1, 2}
MCContexts == {"u", "v"}
MCBlocks   == {<<1, "u">>, <<1, "v">>, <<2, "u">>}
MCFolds    == {"f"}
MCCtxFold  == [c \in MCContexts |-> "f"]
MCNegSlot  == [k \in MCPcs \X MCFolds |-> 0]
MCPageOf   == [pc \in MCPcs |-> 3 - pc]
MCReaches  == [pc \in MCPcs |-> IF pc = 1 THEN {2} ELSE {1, 2}]
==========================================================================
