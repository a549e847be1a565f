-------------------------------- MODULE Isa --------------------------------
(***************************************************************************)
(* What the pipeline promises to a program: a machine that executes one    *)
(* instruction per step, in program order, on a register file, a memory    *)
(* and a pc.  It knows nothing of stages, forwarding or stalls.            *)
(*                                                                         *)
(* "fault" says how far the promise holds in a state: "none" in full;      *)
(* "control" for the effect of the instruction at pc, but not for which    *)
(* instruction is next; "data" not at all.  An implementation says when    *)
(* that is by what it substitutes for "fault".                             *)
(***************************************************************************)
EXTENDS Integers

CONSTANTS
    DATA_WIDTH, WORDS,        \* word width and number of words
    Regs, CodeAddrs,          \* register numbers, addresses of instructions
    PAddr(_),                 \* the physical address of an address
    DecodeError(_), AluOp(_), \* the decoder (module IDU)
    WritesRd,                 \* the opcodes that have a destination
    AluC(_, _, _),            \* the arithmetic (module ALU)
    Signed(_, _),
    MemRead(_, _, _), MemWrite(_, _, _, _), StoreAligned(_, _)  \* MemControl

VARIABLES pc, regs, mem, rom, fault

inst == rom[PAddr(pc)]

\* x0 is the constant 0.
Operand(r) == IF r = 0 THEN 0 ELSE regs[r]

Rs1 == Operand(inst.rs1)
Rs2 == Operand(inst.rs2)

\* Data are added by the adder of module ALU, addresses of instructions by a
\* plain one.
Add(a, b) == AluC(a, b, "ALU_ADD")
Sum(a, b) == (a + b) % WORDS
Address   == Add(Rs1, inst.imm)

\* Executable here: an aligned pc, an instruction the decoder accepts that
\* is not a trap, and no misaligned store.
Executable == /\ PAddr(pc) \in CodeAddrs
              /\ ~ DecodeError(inst)
              /\ inst.opcode # "Env"
              /\ inst.opcode = "Store" => StoreAligned(Address, inst.funct3)

Result ==
    CASE inst.opcode \in {"Rty", "R64ty"} -> AluC(Rs1, Rs2, AluOp(inst))
      [] inst.opcode \in {"Ity", "I64ty"} -> AluC(Rs1, inst.imm, AluOp(inst))
      [] inst.opcode = "Load"             -> MemRead(mem, Address, inst.funct3)
      [] inst.opcode \in {"Jal", "Jalr"}  -> Add(pc, 4)
      [] inst.opcode = "Auipc"            -> Add(pc, inst.imm)
      [] OTHER                            -> inst.imm

SignedLess(a, b) == Signed(DATA_WIDTH, a) < Signed(DATA_WIDTH, b)

Taken == CASE inst.funct3 = 0 -> Rs1 = Rs2
           [] inst.funct3 = 1 -> Rs1 # Rs2
           [] inst.funct3 = 4 -> SignedLess(Rs1, Rs2)
           [] inst.funct3 = 5 -> ~ SignedLess(Rs1, Rs2)
           [] inst.funct3 = 6 -> Rs1 < Rs2
           [] inst.funct3 = 7 -> ~ (Rs1 < Rs2)
           [] OTHER           -> FALSE

JalrTarget == LET t == Sum(inst.imm, Rs1) IN t - (t % 2)

Target == CASE inst.opcode = "Jal"             -> Sum(pc, inst.imm)
            [] inst.opcode = "Jalr"            -> JalrTarget
            [] inst.opcode = "Branch" /\ Taken -> Sum(pc, inst.imm)
            [] OTHER                           -> Sum(pc, 4)

\* The effect of the instruction on the registers and the memory.
Effect ==
    /\ Executable
    /\ regs' = IF inst.opcode \in WritesRd /\ inst.rd # 0
               THEN [regs EXCEPT ![inst.rd] = Result] ELSE regs
    /\ mem'  = IF inst.opcode = "Store"
               THEN MemWrite(mem, Address, inst.funct3, Rs2) ELSE mem

Execute == Effect /\ pc' = Target

Next == \/ Execute
        \/ fault = "control" /\ Effect
        \/ fault = "data"

Init == fault = "data"

Spec == Init /\ [][Next]_<<pc, regs, mem>>
=============================================================================
