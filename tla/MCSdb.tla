------------------------------- MODULE MCSdb -------------------------------
(***************************************************************************)
(* The processor in its two machines.  A behaviour is either a session of  *)
(* the debugger with the simulated processor, on programs that store a     *)
(* dword or one byte of it in a loop with a load-use stall, a jump over an *)
(* instruction or a trap in between, or a run on the FPGA board of a       *)
(* program that stores and loads bytes, halves and doublewords at          *)
(* different places of a doubleword, in pairs and alone.                   *)
(***************************************************************************)
EXTENDS Sdb, MCRiscv64i

VARIABLES q_a, q_b, wid     \* what only the board has

B == INSTANCE Board

\* Values that change and come back.
Xori(rd, rs1, imm) == Format("Ity", 4, rd, rs1, 0, imm)
Toggle(r)          == Xori(r, r, 1)

Looping(window) ==
    [a \in CodeAddrs |-> IF a = 0 THEN Addi(1, 0, 8)
                         ELSE IF a \in 4 .. 12 THEN window[a \div 4]
                         ELSE IF a = 16 THEN Toggle(1)
                         ELSE Beq(0, 0, -16)]

SessionPrograms ==
    { Looping(<<Sd(1, 0, 8), Ld(2, 0, 8), Xori(1, 2, 4)>>),
      Looping(<<Sb(1, 0, 9), Jal(2, 8), Ecall>>),
      Looping(<<Sb(1, 0, 9), Ld(2, 0, 8), Beq(2, 1, 8)>>),
      Looping(<<Ecall, Sd(1, 0, 8), Toggle(2)>>) }

Load(width, rd, imm)   == Format("Load", width, rd, 0, 0, imm)
Store(width, rs2, imm) == Format("Store", width, 0, 0, rs2, imm)

BoardPrograms ==
    Windowed(Addi(1, 0, 13),
             {Load(3, 2, 8), Load(0, 1, 11), Load(5, 2, 10), Load(2, 1, 14),
              Store(3, 1, 8), Store(0, 1, 11), Store(1, 1, 10), Jalr(0, 1, 6)})

BothPrograms == SessionPrograms \cup BoardPrograms

MCBatch   == {TRUE, FALSE}
MCSteps   == {1, 3}
MCBreaks  == {RESET_PC + 4, RESET_PC + 12}
MCWatches == {9, 10}
MCWatchRegs == {1}
MCCounts  == {2}

----------------------------------------------------------------------------
\* What only the simulation has, and what only the board has.
simVars  == <<is_batch_mode, points, mode, i, ii, due, rinst, illegal_access, rdata>>
fpgaVars == <<q_a, q_b, wid>>

OnBoard == mode = "board"

SessionInit == HInit /\ rom \in SessionPrograms /\ q_a = 0 /\ q_b = ZeroInst /\ wid = 0
BoardInit == /\ B!Init /\ rom \in BoardPrograms
             /\ mode = "board" /\ is_batch_mode = FALSE
             /\ cpu_break_points = {} /\ cpu_watch_points = {} /\ cpu_reg_watch_points = {}
             /\ i = 0 /\ ii = 0 /\ due = {}
             /\ rinst = ZeroInst /\ illegal_access = 0 /\ rdata = 0

SessionNext == ~ OnBoard /\ HNext /\ UNCHANGED fpgaVars
BoardNext   == OnBoard /\ B!Next /\ UNCHANGED simVars

bothVars == <<sdbVars, due, fpgaVars>>
BothSpec == (SessionInit \/ BoardInit) /\ [][SessionNext \/ BoardNext]_bothVars

\* The board executes programs as the simulation does, byte lanes, extension and
\* the third memory stage included, but for the two faults of its memory
\* (FPGA/resource/MemControl.sv, LD.sv, FPGA/CPU.sv): it implements module Isa.
BoardImplementsIsa ==
    /\ OnBoard => B!I!Init
    /\ [][OnBoard => B!IsaStep]_bothVars

\* A load with another one behind it delivers in MEM2 what the simulated memory
\* would have delivered there, whatever its width, sign and place in the
\* doubleword and whatever was stored before it (FPGA/resource/LD.sv).
LoadsInPairs == [][OnBoard => B!PairDelivers]_bothVars

\* README.md:12 "`MEM2`: receive sync reading results from `RAM` and apply bit
\* extractions": a load has its data in MEM2.
Mem2ReceivesLoad == [][OnBoard => B!DeliversInMem2]_bothVars
=============================================================================
