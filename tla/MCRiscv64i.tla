----------------------------- MODULE MCRiscv64i -----------------------------
(***************************************************************************)
(* Small instances of the pipeline for TLC: 8-bit words, eight code words, *)
(* three registers, a reset address of 128.  TLC runs every program that   *)
(* can be made from a menu of instructions, from power-on: the first and   *)
(* the last instructions are fixed, a window of four is free.              *)
(***************************************************************************)
EXTENDS PipelineProperties

\* One constructor per instruction format.
RType(f3, f7, rd, rs1, rs2) ==
    [opcode |-> "Rty", funct3 |-> f3, funct7 |-> f7, rd |-> rd, rs1 |-> rs1,
     rs2 |-> rs2, imm |-> 0]
Format(op, f3, rd, rs1, rs2, imm) ==
    [opcode |-> op, funct3 |-> f3, funct7 |-> 0, rd |-> rd, rs1 |-> rs1,
     rs2 |-> rs2, imm |-> imm % WORDS]

Add(rd, rs1, rs2)    == RType(0, 0, rd, rs1, rs2)
Addi(rd, rs1, imm)   == Format("Ity", 0, rd, rs1, imm % 3, imm)
Ld(rd, rs1, imm)     == Format("Load", 3, rd, rs1, 0, imm)
Lw(rd, rs1, imm)     == Format("Load", 2, rd, rs1, 0, imm)
Sd(rs2, rs1, imm)    == Format("Store", 3, 0, rs1, rs2, imm)
Sb(rs2, rs1, imm)    == Format("Store", 0, 0, rs1, rs2, imm)
Beq(rs1, rs2, imm)   == Format("Branch", 0, 0, rs1, rs2, imm)
Bltu(rs1, rs2, imm)  == Format("Branch", 6, 0, rs1, rs2, imm)
Jal(rd, imm)         == Format("Jal", 0, rd, 0, 0, imm)
Jalr(rd, rs1, imm)   == Format("Jalr", 0, rd, rs1, 0, imm)
Ecall                == Format("Env", 0, 0, 0, 0, 0)
Ebreak               == Format("Env", 0, 0, 0, 1, 0)
Nop                  == Addi(0, 0, 0)

\* first, four from the menu, two nops, and a jump to itself.
Windowed(first, menu) ==
    {[a \in CodeAddrs |-> IF a = 0 THEN first
                          ELSE IF a \in 4 .. 16 THEN f[a]
                          ELSE IF a \in 20 .. 24 THEN Nop
                          ELSE Jal(0, 0)] : f \in [{4, 8, 12, 16} -> menu]}

MCRegs   == 0 .. 2
ZeroGprs == {[r \in MCRegs |-> 0]}
\* The word at 8 is 8 + 1, the other words are 0.
SomeRam  == {[a \in PAddrs |-> IF a \in {8, 11} THEN 1 ELSE 0]}

MCReset == 128

HazardPrograms ==
    Windowed(Addi(1, 0, 8),
             {Add(2, 1, 2), Addi(1, 1, 1), Ld(1, 0, 8), Lw(2, 1, 0), Sd(1, 0, 8),
              Sb(0, 1, 0), Beq(1, 2, 8), Jalr(0, 1, 4), Ld(0, 0, 8)})

\* Traps, undecodable words, links, misaligned jump targets.
ControlPrograms ==
    Windowed(Addi(1, 0, 8),
             {Addi(2, 1, 2), Ld(1, 0, 8), Bltu(1, 2, 8), Jal(2, 12), Jalr(2, 1, 6),
              Ecall, Ebreak, ZeroInst})

\* A short window, for runs that reset at every edge.
ResetPrograms ==
    {[p EXCEPT ![16] = Jal(0, 0)] :
        p \in Windowed(Addi(1, 0, 8),
                       {Add(2, 1, 1), Ld(1, 0, 8), Sd(2, 0, 8), Jal(0, 8),
                        Beq(1, 2, 8), Ecall})}

NoReset  == {0}
AnyReset == {0, 1}

\* Two kinds of runs: those of ResetPrograms may be reset at every edge, the others
\* run without one.
MCPrograms == HazardPrograms \cup ResetPrograms
IfReset == rst' = 1 => rom \in ResetPrograms
MCNext == Next /\ IfReset
MCSpec == Init /\ [][MCNext]_vars
=============================================================================
