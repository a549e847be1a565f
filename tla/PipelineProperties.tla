------------------------- MODULE PipelineProperties -------------------------
(***************************************************************************)
(* What the pipeline owes the program it runs: the refinement mapping from *)
(* the eight stages to the one-instruction-at-a-time machine of module     *)
(* Isa, and the properties of the bypass network, of the stall and flush   *)
(* logic and of the fetch stages that make it hold.                        *)
(***************************************************************************)
EXTENDS Riscv64i

----------------------------------------------------------------------------
(* The refinement mapping.  An instruction counts as executed when it      *)
(* leaves EX; what is in MEM1 .. WB is already part of the abstract state. *)

NextInId  == IF flush_persistence = 0 THEN pc_delayed ELSE pc
NextInEx  == IF ifid.enable = 1 THEN ifid.PC ELSE NextInId
AbsPC     == IF idex.enable = 1 THEN idex.PC ELSE NextInEx

\* The value that the instruction in MEM1, or MEM2, is going to write.
Mem1Value == IF exmem.Mem_REn = 1 THEN MemRead(ram, exmem.ALU_Result, exmem.Detail)
                                  ELSE exmem.ALU_Result
Mem2Value == IF mem1mem2.Mem_REn = 1 THEN rdata ELSE mem1mem2.ALU_Result

\* Register r as the instruction in MEM1, or in EX, should see it.
OlderValue(r) == IF WritesReg(mem1mem2, r)      THEN Mem2Value
                 ELSE IF WritesReg(mem2mem3, r) THEN WB_Data
                 ELSE IF WritesReg(memwb, r)    THEN memwb.WB_Data
                 ELSE gprs[r]
RegValue(r)   == IF WritesReg(exmem, r) THEN Mem1Value ELSE OlderValue(r)

\* A load of r is one, or two, registers past EX.
LoadBehindEx(r)   == exmem.Mem_REn = 1 /\ exmem.RD_Addr = r
LoadBehindMem1(r) == mem1mem2.Mem_REn = 1 /\ mem1mem2.RD_Addr = r

AbsRegs == [r \in Regs |-> IF r = 0 THEN gprs[0] ELSE RegValue(r)]

AbsMem == IF exmem.Mem_REn = 0 /\ exmem.Mem_WEn = 1
          THEN MemWrite(ram, exmem.ALU_Result, exmem.Detail, memwrite_mem1)
          ELSE ram

----------------------------------------------------------------------------
(* Where the code departs from the machine of module Isa.  Each of these   *)
(* names one cause; the runs that expect a violation show them.            *)

\* A killed instruction that executes all the same: see KilledSlotIsEmpty.
Ghost == idex.enable = 0 /\ idex.Enable # {}

\* A write to x0 still in flight is forwarded to a read of x0; a store looks
\* twice, and the second time sees a load that was in MEM2 the first time.
X0Hazard == \/ "RS1" \in idex.Enable /\ idex.RS1 = 0 /\ Mux(BehindEx(0), 0) # 0
            \/ "RS2" \in idex.Enable /\ idex.RS2 = 0 /\ Mux(BehindEx(0), 0) # 0
            \/ "MWRITE" \in idex.Enable /\ idex.RS2 = 0 /\ LoadBehindMem1(0) /\ rdata # 0

\* JALR links rs1 + 4.
LinkHazard == idex.SpecInst = "S_JALR" /\ idex.RD # 0

\* Not an instruction of module Isa: undecodable, a trap, a misaligned pc, or
\* a store whose address is misaligned (MemControl drops it).
Trap == LET inst == Fetch(idex.PC)
        IN  \/ DecodeError(inst)
            \/ inst.opcode = "Env"
            \/ inst.opcode = "Store" /\ StoreUnaligned(alu_C, inst.funct3)

\* A redirect computed while the monitor holds the pc is lost.
LostRedirect == prediction_failed /\ state # "NORMAL"

\* An undecodable word in ID, or a misaligned fetch, empties the stages behind
\* EX and the pc moves on.
FrontFlush == flush_if /\ ~ prediction_failed

\* The monitor's hold fetches one address twice, so does the release of rst.
OutOfOrder == ~ prediction_failed /\ NextInEx # Plus4(idex.PC)

NoPromise   == rst = 1 \/ Ghost \/ (idex.enable = 1 /\ (X0Hazard \/ LinkHazard \/ Trap))
EffectOnly  == idex.enable = 1 /\ (LostRedirect \/ FrontFlush \/ OutOfOrder)

Fault == IF NoPromise THEN "data" ELSE IF EffectOnly THEN "control" ELSE "none"

ISA == INSTANCE Isa WITH pc <- AbsPC, regs <- AbsRegs, mem <- AbsMem, fault <- Fault

\* The pipeline implements the sequential machine: whatever is in flight, each
\* clock edge executes the next instruction of the program or none.  (EX, MEM1
\* and WB stages of CPU.sv, Forward.sv, Stall.sv, Flush.sv.)
ImplementsIsa == ISA!Spec

----------------------------------------------------------------------------
(* Types                                                                   *)

BitSet == {0, 1}
AluOps == {"ALU_ADD", "ALU_SUB", "ALU_OR", "ALU_AND", "ALU_XOR", "ALU_SLL",
           "ALU_SRL", "ALU_SRA", "ALU_EQ", "ALU_SLT", "ALU_SLTU", "ALU_COPY_B",
           "ALU_ADDW", "ALU_SUBW", "ALU_SLLW", "ALU_SRLW", "ALU_SRAW"}
SpecInsts == {"S_BR", "S_JAL", "S_JALR", "S_AUIPC", "S_LUI", "S_STORE", "S_LOAD",
              "NO_SPEC"}

\* Every register holds a value of its width (the structs of pipeline_pkg.sv).
TypeOK ==
    /\ rst \in BitSet /\ pc \in Word /\ commit_pc \in Word
    /\ state \in {"RST", "NORMAL", "HALT", "ERROR"}
    /\ exceptions \subseteq {"DecodeError", "MemAccessError", "ECALL", "EBREAK"}
    /\ rinst \in Instructions /\ inst_delay \in Instructions
    /\ illegal_access \in BitSet /\ rdata \in Word /\ pc_delayed \in Word
    /\ flush_persistence \in BitSet /\ stall_persistence \in BitSet
    /\ gprs \in [Regs -> Word] /\ ram \in [PAddrs -> 0 .. 2^BYTE - 1]
    /\ ifid \in [PC : Word, Inst : Instructions, enable : BitSet]
    /\ idex \in [PC : Word, Imm : Word, RS1 : Regs, RS2 : Regs, RD : Regs,
                 Data1 : Word, Data2 : Word, Enable : SUBSET EnableSignals,
                 ALUOp : AluOps, SpecInst : SpecInsts, Detail : 0 .. 7,
                 enable : BitSet]
    /\ exmem \in [ALU_Result : Word, Store_Data : Word, RS2 : Regs, RD_Addr : Regs,
                  Reg_WEn : BitSet, Mem_REn : BitSet, Mem_WEn : BitSet,
                  Detail : 0 .. 7, enable : BitSet]
    /\ mem1mem2 \in [RD_Addr : Regs, ALU_Result : Word, Reg_WEn : BitSet,
                     Mem_REn : BitSet, enable : BitSet]
    /\ mem2mem3 \in [RD_Addr : Regs, ALU_Result : Word, Reg_WEn : BitSet,
                     Mem_REn : BitSet, enable : BitSet, MemRead : Word]
    /\ memwb \in [RD_Addr : Regs, WB_Data : Word, Reg_WEn : BitSet, enable : BitSet]

----------------------------------------------------------------------------
(* Safety                                                                  *)

\* The bypass network and the stalls together: an instruction in EX sees, for
\* each register it reads, the value of the youngest older write, wherever in
\* the pipeline that write is and although loads take three more stages.
OperandsCurrent ==
    /\ "RS1" \in idex.Enable /\ idex.RS1 # 0 =>
          alu_A = RegValue(idex.RS1) /\ Rs1_BrJl = RegValue(idex.RS1)
    /\ "RS2" \in idex.Enable /\ idex.RS2 # 0 =>
          IF "MWRITE" \in idex.Enable
          THEN exmem_in.Store_Data = RegValue(idex.RS2) /\ alu_B = idex.Imm
          ELSE alu_B = RegValue(idex.RS2)

\* A store keeps the right data on its way to the memory port: the second
\* chance to forward, in MEM1 (Forward_RS2), never changes it for the worse.
StoreDataCurrent ==
    exmem.Mem_WEn = 1 /\ exmem.RS2 # 0 => memwrite_mem1 = OlderValue(exmem.RS2)

\* EX holds the decoded form of inst.
IsDecoded(inst) ==
    /\ idex.RS1 = inst.rs1 /\ idex.RS2 = inst.rs2 /\ idex.RD = inst.rd
    /\ idex.Imm = Imm(inst) /\ idex.Detail = inst.funct3
    /\ idex.Enable = Enables(inst) /\ idex.ALUOp = AluOp(inst)
    /\ idex.SpecInst = SpecInst(inst)

\* An instruction and its address stay together although the memory answers
\* one cycle late and a stall freezes only one of the two (pc_delayed,
\* stall_persistence and inst_delay): a valid slot holds the word at its PC.
SlotsHoldTheirInst ==
    /\ ifid_in.enable = 1 => ifid_in.Inst = Fetch(ifid_in.PC)
    /\ ifid.enable = 1 => ifid.Inst = Fetch(ifid.PC)
    /\ idex.enable = 1 => IsDecoded(Fetch(idex.PC))

\* A redirect leaves nothing of the wrong path in ID, so that ID cannot stall
\* in the one cycle in which the slot behind it is being thrown away.
FlushedFrontEnd == flush_persistence = 1 => ifid = ZeroIfid /\ ~ stall

\* The slots EX, ID, IF2 and IF1 hold consecutive addresses.
InOrder == /\ idex.enable = 1 => NextInEx = Plus4(idex.PC)
           /\ ifid.enable = 1 => NextInId = Plus4(ifid.PC)
           /\ flush_persistence = 0 => pc = Plus4(pc_delayed)

\* Program order, once established, is lost only to a reset, to a cycle in
\* which the monitor holds the pc, or to an exception flush: stalls and
\* redirects, in whatever combination, neither drop nor repeat an instruction.
OrderKept == [][rst = 0 /\ rst' = 0 /\ state = "NORMAL" /\ ~ FrontFlush /\ InOrder
                => InOrder']_vars

\* How many more edges the load that stalls ID keeps it there.
StallTicks == IF LoadHazard("MREAD" \in idex.Enable, idex.RD)                THEN 3
              ELSE IF LoadHazard(exmem.Mem_REn = 1, exmem.RD_Addr)          THEN 2
              ELSE IF LoadHazard(mem1mem2.Mem_REn = 1, mem1mem2.RD_Addr)    THEN 1
              ELSE 0

\* A stall is paid off, never prolonged: the bubbles that it sends down EX
\* cannot themselves stall ID, so no load costs more than three cycles.
StallShrinks == [][StallTicks > 0 => StallTicks' < StallTicks]_vars

----------------------------------------------------------------------------
(* The inductive invariant behind the safety properties, in named parts    *)

HasRegs(inst) == inst.rs1 \in Regs /\ inst.rs2 \in Regs /\ inst.rd \in Regs

\* One-bit signals and register numbers; what a word is does not matter.
ControlOK ==
    /\ rst \in BitSet /\ flush_persistence \in BitSet /\ stall_persistence \in BitSet
    /\ ifid.enable \in BitSet /\ idex.enable \in BitSet
    /\ exmem.Reg_WEn \in BitSet /\ exmem.Mem_REn \in BitSet /\ exmem.Mem_WEn \in BitSet
    /\ mem1mem2.Reg_WEn \in BitSet /\ mem1mem2.Mem_REn \in BitSet
    /\ mem2mem3.Reg_WEn \in BitSet /\ mem2mem3.Mem_REn \in BitSet
    /\ memwb.Reg_WEn \in BitSet
    /\ HasRegs(rinst) /\ HasRegs(inst_delay) /\ HasRegs(ifid.Inst)
    /\ idex.RS1 \in Regs /\ idex.RS2 \in Regs /\ exmem.RS2 \in Regs
    /\ DOMAIN gprs = Regs
    /\ \A a \in CodeAddrs : HasRegs(rom[a])

\* Enable and SpecInst agree on what a store is.
StoreShape ==
    /\ ("MWRITE" \in idex.Enable) <=> (idex.SpecInst = "S_STORE")
    /\ "MWRITE" \in idex.Enable => /\ "RD" \notin idex.Enable
                                   /\ "MREAD" \notin idex.Enable
                                   /\ "RS2" \in idex.Enable
    /\ exmem.Mem_WEn = 1 => exmem.Reg_WEn = 0 /\ exmem.Mem_REn = 0

\* What ID read is still what the register file holds.
DataFresh == idex.Data1 = gprs[idex.RS1] /\ idex.Data2 = gprs[idex.RS2]

\* No load whose data is not there yet is ahead of its reader.
NoLoadUse ==
    /\ \A r \in {idex.RS1, idex.RS2} \ {0} : ~ LoadBehindEx(r) /\ ~ LoadBehindMem1(r)
    /\ exmem.Mem_WEn = 1 /\ exmem.RS2 # 0 => ~ LoadBehindMem1(exmem.RS2)

\* A store has its data when it leaves EX.
StoreFresh == exmem.Mem_WEn = 1 /\ exmem.RS2 # 0 => exmem.Store_Data = OlderValue(exmem.RS2)

BypassInv == ControlOK /\ StoreShape /\ DataFresh /\ NoLoadUse /\ StoreFresh /\ gprs[0] = 0

----------------------------------------------------------------------------
(* Liveness                                                                *)

\* Stalls, redirects and exceptions never starve EX of instructions.
Progress == []<>(idex.enable = 1)

----------------------------------------------------------------------------
(* What the repository says of the program and the code does not do        *)

\* CPU.sv:83-84 "replace failed inst with all 0 / ifid_out.enable will be
\* false, so '0 won't be decode": a killed slot has no effect.
KilledSlotIsEmpty == ~ Ghost

\* README.md:2 "A 64 bit RISC-V Processor": x0 reads as 0.
X0ReadsZero == "RS1" \in idex.Enable /\ idex.RS1 = 0 => alu_A = 0

\* EXU.sv:38 "alu_B = 4;  // PC + 4": JALR links the next instruction.
JalrLinksNextPc ==
    idex.SpecInst = "S_JALR" /\ idex.enable = 1 /\ idex.RD # 0
        => exmem_in.ALU_Result = none_taken
=============================================================================
