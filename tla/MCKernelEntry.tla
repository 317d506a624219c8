--------------------------- MODULE MCKernelEntry ---------------------------
(* Two harts and three task slots, the smallest machine on which a hart has *)
(* a choice of tasks while the other one runs a task of its own.            *)
EXTENDS KernelEntry

MCCpu == {0, 1}
MCMaster == 0
MCPcb == {"shell", "a", "b"}
MCshell == "shell"
MCpid0_pcb == [c \in {0, 1} |-> IF c = 0 THEN "pid0_pcb" ELSE "pid0_pcb2"]
=============================================================================
