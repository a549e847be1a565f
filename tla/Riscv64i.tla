------------------------------ MODULE Riscv64i ------------------------------
(***************************************************************************)
(* The top level, vsrc/riscv64i.sv: the PC register, the CPU and the       *)
(* monitor that turns the exception bits into a run state.  One step is    *)
(* one rising edge of clk.                                                 *)
(*                                                                         *)
(* The pin rst is 1 at power-on.  The simulator holds it for one cycle     *)
(* (cpu_reset) and lets go; on the board it is a button, so with RstValues *)
(* = {0, 1} it may come back at any edge, and then it lasts more than one. *)
(***************************************************************************)
EXTENDS CPU

VARIABLE state        \* the monitor

vars == <<rst, pc, rom, cpuVars, state>>

\* An exception that is over is forgotten: no state is kept.
nstate == IF exceptions \cap {"FetchError", "DecodeError", "MemAccessError"} # {}
          THEN "ERROR"
          ELSE IF exceptions \cap {"ECALL", "EBREAK"} # {} THEN "HALT"
          ELSE "NORMAL"

MonitorEdge == state' = IF rst = 1 THEN "RST" ELSE nstate

PcEdge == pc' = IF rst = 1 THEN RESET_PC
                ELSE IF state = "NORMAL" THEN new_pc ELSE pc

\* Mutant: a later reset may last a single edge.
Pin_short == rst' \in RstValues

\* A later reset is held at least until the reset address has been fetched.
Pin == rst' \in RstValues /\ (rst = 1 /\ PAddr(pc) # PAddr(0) => rst' = 1)

Edge == PcEdge /\ CpuEdge /\ MonitorEdge /\ Pin

ResetEdge == rst = 1 /\ Edge
RunEdge   == rst = 0 /\ Edge

Init == rst = 1 /\ pc = 0 /\ state = "RST" /\ CpuInit

Next == ResetEdge \/ RunEdge

Spec     == Init /\ [][Next]_vars
\* The clock never stops.
FairSpec == Spec /\ WF_vars(Next)
=============================================================================
