---------------------------- MODULE MCJitCache ----------------------------
(* Four pcs in two contexts, on three pages: 1 and 2 branch to each other,*)
(* 1 runs onto the next page, 2 has no room for the retiring jump, 3 is   *)
(* where interrupts lead, and 4 is larger than the whole buffer.          *)
EXTENDS JitCache

CONSTANT nopc

MCPcs       == {1, 2, 3, 4}
MCTarget    == [pc \in MCPcs |->
                  CASE pc = 1 -> <<2, 1>> [] pc = 2 -> <<1, nopc>> [] OTHER -> <<nopc, nopc>>]
MCLen       == [pc \in MCPcs |-> CASE pc = 1 -> 2 [] pc = 2 -> 3 [] pc = 3 -> 1 [] OTHER -> 9]
MCPageLo    == [pc \in MCPcs |-> CASE pc = 1 -> 0 [] pc = 2 -> 1 [] OTHER -> 2]
MCPageHi    == [pc \in MCPcs |-> CASE pc = 1 -> 1 [] pc = 2 -> 1 [] OTHER -> 2]
MCBucket    == [pc \in MCPcs |-> [c \in Contexts |-> IF pc = 3 THEN 1 ELSE 0]]
===========================================================================
