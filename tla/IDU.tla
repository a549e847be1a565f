-------------------------------- MODULE IDU --------------------------------
(***************************************************************************)
(* The instruction decode unit, vsrc/function_unit/IDU.sv: one operator    *)
(* per output port, a function of the 32-bit instruction alone.            *)
(*                                                                         *)
(* An instruction is a record of the fields the decoder cuts the word      *)
(* into.  The three register fields are the RAW bit fields 11:7, 19:15 and *)
(* 24:20: every format has them, also when an immediate occupies the same  *)
(* bits.  "imm" is the sign-extended immediate of the format (IMMGen.sv).  *)
(* An opcode that the decoder does not list is written "Undef".            *)
(***************************************************************************)
EXTENDS Integers, Sequences

Opcodes == {"Rty", "Ity", "R64ty", "I64ty", "Load", "Store", "Branch",
            "Jal", "Jalr", "Auipc", "Lui", "Env"}

\* 32'h00000000, what the fetch stage puts in an empty slot.
ZeroInst == [opcode |-> "Undef", funct3 |-> 0, funct7 |-> 0,
             rd |-> 0, rs1 |-> 0, rs2 |-> 0, imm |-> 0]

funct6(inst)  == inst.funct7 \div 2
funct12(inst) == inst.funct7 * 32 + inst.rs2

----------------------------------------------------------------------------
(* Control signals                                                         *)

WritesRd == Opcodes \ {"Store", "Branch", "Env"}
ReadsRs1 == Opcodes \ {"Jal", "Auipc", "Lui", "Env"}
ReadsRs2 == {"Rty", "R64ty", "Store", "Branch"}

EnableSignals == {"RS1", "RS2", "RD", "MREAD", "MWRITE"}

\* The 5-bit "enables" vector, as the set of the bits that are 1.
Enables(inst) ==
    {s \in EnableSignals :
        \/ s = "RD"     /\ inst.opcode \in WritesRd
        \/ s = "RS1"    /\ inst.opcode \in ReadsRs1
        \/ s = "RS2"    /\ inst.opcode \in ReadsRs2
        \/ s = "MREAD"  /\ inst.opcode = "Load"
        \/ s = "MWRITE" /\ inst.opcode = "Store"}

SpecInst(inst) ==
    CASE inst.opcode = "Branch" -> "S_BR"
      [] inst.opcode = "Jal"    -> "S_JAL"
      [] inst.opcode = "Jalr"   -> "S_JALR"
      [] inst.opcode = "Auipc"  -> "S_AUIPC"
      [] inst.opcode = "Lui"    -> "S_LUI"
      [] inst.opcode = "Store"  -> "S_STORE"
      [] inst.opcode = "Load"   -> "S_LOAD"
      [] OTHER                  -> "NO_SPEC"

DecodeError(inst) ==
    \/ inst.opcode \notin Opcodes
    \/ inst.opcode \in {"Load", "Store"} /\ inst.funct3 = 7
    \/ inst.opcode = "Branch" /\ inst.funct3 \in {2, 3}

\* env_exception: no other Env instruction raises anything.
EnvException(inst) ==
    IF inst.opcode # "Env" THEN {}
    ELSE CASE funct12(inst) = 0 -> {"ECALL"}
           [] funct12(inst) = 1 -> {"EBREAK"}
           [] OTHER             -> {}

----------------------------------------------------------------------------
(* The ALU operation                                                       *)

\* funct3 of the register and of the immediate forms, but for the two whose
\* operation also depends on funct7 or funct6.
AluOfFunct3(f3) ==
    CASE f3 = 1 -> "ALU_SLL" [] f3 = 2 -> "ALU_SLT" [] f3 = 3 -> "ALU_SLTU"
      [] f3 = 4 -> "ALU_XOR" [] f3 = 6 -> "ALU_OR"  [] OTHER  -> "ALU_AND"

AluOfBranch(f3) ==
    CASE f3 \in {0, 1} -> "ALU_EQ"
      [] f3 \in {4, 5} -> "ALU_SLT"
      [] f3 \in {6, 7} -> "ALU_SLTU"
      [] OTHER         -> "ALU_ADD"

AluOp(inst) ==
    LET f3 == inst.funct3
    IN  CASE inst.opcode = "Rty" ->
               (CASE f3 = 0 -> IF inst.funct7 = 32 THEN "ALU_SUB" ELSE "ALU_ADD"
                  [] f3 = 5 -> IF inst.funct7 = 32 THEN "ALU_SRA" ELSE "ALU_SRL"
                  [] OTHER  -> AluOfFunct3(f3))
          [] inst.opcode = "Ity" ->
               (CASE f3 = 0 -> "ALU_ADD"
                  [] f3 = 5 -> IF funct6(inst) = 16 THEN "ALU_SRA" ELSE "ALU_SRL"
                  [] OTHER  -> AluOfFunct3(f3))
          [] inst.opcode \in {"R64ty", "I64ty"} ->
               (CASE f3 = 0 -> IF inst.opcode = "I64ty" \/ inst.funct7 = 0
                                 THEN "ALU_ADDW" ELSE "ALU_SUBW"
                  [] f3 = 1 -> "ALU_SLLW"
                  [] f3 = 5 -> IF inst.funct7 = 0 THEN "ALU_SRLW" ELSE "ALU_SRAW"
                  [] OTHER  -> "ALU_ADD")
          [] inst.opcode = "Lui"    -> "ALU_COPY_B"
          [] inst.opcode = "Branch" -> AluOfBranch(f3)
          [] OTHER                  -> "ALU_ADD"

\* IMMGen.sv: the formats that have no immediate yield 0.
Imm(inst) == IF inst.opcode \in {"Rty", "R64ty", "Env", "Undef"} THEN 0 ELSE inst.imm

----------------------------------------------------------------------------
(* The immediate of an instruction, vsrc/resource/IMMGen.sv, bit by bit.   *)
(* Everywhere else an immediate is a field of the instruction; here it is  *)
(* gathered from the word.  Bits in braces are a sequence, the most        *)
(* significant first, as in the source.                                    *)

\* A word is its opcode and the bits 31 .. 7.
WordBits == 7 .. 31

\* rinst[high:low]
Slice(rinst, high, low) == [k \in 1 .. high - low + 1 |-> rinst.bit[high + 1 - k]]

zeros(n) == [k \in 1 .. n |-> 0]

\* sext_12, sext_13 and sext_32: to 64 bits.
sext(bits) == [k \in 1 .. 64 - Len(bits) |-> bits[1]] \o bits

\* The two formats that scramble their bits; bit 0 is 0.
imm_b(rinst) == Slice(rinst, 31, 31) \o Slice(rinst, 7, 7)
                \o Slice(rinst, 30, 25) \o Slice(rinst, 11, 8) \o <<0>>

imm_j(rinst) == Slice(rinst, 31, 31) \o Slice(rinst, 19, 12)
                \o Slice(rinst, 20, 20) \o Slice(rinst, 30, 21) \o <<0>>

imme(rinst) ==
    CASE rinst.opcode \in {"Ity", "I64ty", "Load", "Jalr"} -> sext(Slice(rinst, 31, 20))
      [] rinst.opcode = "Store"  -> sext(Slice(rinst, 31, 25) \o Slice(rinst, 11, 7))
      [] rinst.opcode = "Branch" -> sext(imm_b(rinst))
      [] rinst.opcode = "Jal"    -> sext(imm_j(rinst))
      [] rinst.opcode \in {"Auipc", "Lui"} -> sext(Slice(rinst, 31, 12) \o zeros(12))
      [] OTHER -> zeros(64)
=============================================================================
