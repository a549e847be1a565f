-------------------------------- MODULE CPU --------------------------------
(***************************************************************************)
(* The eight-stage datapath, vsrc/CPU.sv with the pipeline registers of    *)
(* vsrc/pipeline/register, the Forward, Stall and Flush units, BRJL, PCN,  *)
(* EXU and GPR.                                                            *)
(*                                                                         *)
(*      IF1 -> IF2 -> ID -> EX -> MEM1 -> MEM2 -> MEM3 -> WB               *)
(*                                                                         *)
(* The variables are the flip-flops; a wire is an operator on them.        *)
(* CpuEdge is what one rising edge of clk does to all of them at once: each *)
(* conjunct is one always_ff block.  A one-bit signal is 0 or 1, as in the *)
(* source; fields that only the debug displays read are left out.          *)
(*                                                                         *)
(* A definition marked "Mutant" is a plausible bug in the one below it: no *)
(* specification uses it, it shows which property would notice.            *)
(*                                                                         *)
(* Instructions and data share one array in the source.  Here "rom" holds  *)
(* the instructions, already cut into fields, and "ram" the data, so a     *)
(* store never changes an instruction.                                     *)
(***************************************************************************)
EXTENDS IDU, MemControl

CONSTANTS Regs,        \* register numbers, 0 .. 31 in the source
          RESET_PC,    \* 64'h80000000
          RstValues,   \* what the rst pin may be at an edge: {0} or {0, 1}
          Programs,    \* possible contents of rom, functions on CodeAddrs
          InitGprs,    \* register file and data memory at power-on:
          InitRam      \* neither has a reset

ASSUME CpuAssumption ==
    /\ 0 \in Regs
    /\ RstValues \subseteq {0, 1}
    /\ RESET_PC \in Word /\ PAddr(RESET_PC) = PAddr(0)

\* What a 32-bit word is cut into, with a word for the immediate.
Instructions == [opcode : Opcodes \cup {"Undef"}, funct3 : 0 .. 7, funct7 : 0 .. 127,
                 rd : Regs, rs1 : Regs, rs2 : Regs, imm : Word]

\* x0 is 0 at power-on: GPR.sv only ever refuses to write it.
ASSUME PowerOnAssumption ==
    /\ \A p \in Programs : \A a \in CodeAddrs : p[a] \in Instructions
    /\ InitRam \subseteq [PAddrs -> 0 .. 2^BYTE - 1]
    /\ \A g \in InitGprs : g \in [Regs -> Word] /\ g[0] = 0

VARIABLES
    rst,                \* input pin, and the PC register (PC.sv)
    pc,
    rom, ram,           \* MemControl: memory, its output registers
    rinst, illegal_access, rdata,
    pc_delayed, flush_persistence, stall_persistence, inst_delay,   \* IF1
    ifid, idex, exmem, mem1mem2, mem2mem3, memwb,                   \* stages
    gprs,
    commit_pc, exceptions

memVars   == <<ram, rinst, illegal_access, rdata>>
fetchVars == <<pc_delayed, flush_persistence, stall_persistence, inst_delay>>
stageVars == <<ifid, idex, exmem, mem1mem2, mem2mem3, memwb>>
cpuVars   == <<memVars, fetchVars, stageVars, gprs, commit_pc, exceptions>>

Bit(P)   == IF P THEN 1 ELSE 0
Plus4(a) == (a + 4) % WORDS

----------------------------------------------------------------------------
(* IF1, IF2 and ID: the inputs of the IFID and IDEX registers              *)

\* The word read at pc by MemControl.
Fetch(a) == IF FetchIllegal(a) THEN ZeroInst ELSE rom[PAddr(a)]

inst_safe == IF flush_persistence = 1 THEN ZeroInst ELSE rinst

ifid_in == [PC     |-> IF flush_persistence = 1 THEN 0 ELSE pc_delayed,
            Inst   |-> IF stall_persistence = 1 THEN inst_delay ELSE inst_safe,
            enable |-> Bit(rst = 0 /\ flush_persistence = 0)]

\* GPR.sv reads "write first".
GprRead(r) == IF memwb.Reg_WEn = 1 /\ memwb.RD_Addr = r /\ memwb.RD_Addr # 0
              THEN memwb.WB_Data
              ELSE gprs[r]

idex_in == LET inst == ifid.Inst
           IN  [PC       |-> ifid.PC,
                Imm      |-> Imm(inst),
                RS1      |-> inst.rs1, RS2 |-> inst.rs2, RD |-> inst.rd,
                Data1    |-> GprRead(inst.rs1),
                Data2    |-> GprRead(inst.rs2),
                Enable   |-> Enables(inst),
                ALUOp    |-> AluOp(inst),
                SpecInst |-> SpecInst(inst),
                Detail   |-> inst.funct3,
                enable   |-> ifid.enable]

----------------------------------------------------------------------------
(* Forward.sv and the multiplexers it drives                               *)

\* MEM3's value, chosen between the loaded word and the ALU result.
WB_Data == IF mem2mem3.Mem_REn = 1 THEN mem2mem3.MemRead ELSE mem2mem3.ALU_Result

WritesReg(stage, r) == stage.Reg_WEn = 1 /\ stage.RD_Addr = r
HasResult(stage, r) == WritesReg(stage, r) /\ stage.Mem_REn = 0

\* Mutant: the oldest write wins.
OldestFirst(r) == IF WritesReg(memwb, r)         THEN "WB"
                  ELSE IF WritesReg(mem2mem3, r) THEN "MEM3"
                  ELSE IF HasResult(mem1mem2, r) THEN "MEM2"
                  ELSE "NO_FWD"

\* The youngest older instruction that writes register r and has its result:
\* a load has none before MEM3.  Register 0 is compared like any other.
BehindMem1(r) == IF HasResult(mem1mem2, r)      THEN "MEM2"
                 ELSE IF WritesReg(mem2mem3, r) THEN "MEM3"
                 ELSE IF WritesReg(memwb, r)    THEN "WB"
                 ELSE "NO_FWD"
BehindEx(r)   == IF HasResult(exmem, r) THEN "MEM1" ELSE BehindMem1(r)

\* Mutant: a store in MEM1 takes the oldest write.
Forward_RS2_oldest == IF exmem.Mem_WEn = 1 THEN OldestFirst(exmem.RS2) ELSE "NO_FWD"

Forward_A     == IF "RS1" \in idex.Enable    THEN BehindEx(idex.RS1)   ELSE "NO_FWD"
Forward_B     == IF "RS2" \in idex.Enable    THEN BehindEx(idex.RS2)   ELSE "NO_FWD"
Forward_Store == IF "MWRITE" \in idex.Enable THEN BehindEx(idex.RS2)   ELSE "NO_FWD"
Forward_RS2   == IF exmem.Mem_WEn = 1        THEN BehindMem1(exmem.RS2) ELSE "NO_FWD"

Mux(source, own) == CASE source = "MEM1" -> exmem.ALU_Result
                      [] source = "MEM2" -> mem1mem2.ALU_Result
                      [] source = "MEM3" -> WB_Data
                      [] source = "WB"   -> memwb.WB_Data
                      [] OTHER           -> own

----------------------------------------------------------------------------
(* EX: EXU.sv, ALU.sv, BRJL.sv, PCN.sv                                     *)

ExMuxAluA == IF "RS1" \in idex.Enable THEN idex.Data1
             ELSE IF idex.SpecInst \in {"S_AUIPC", "S_JAL", "S_JALR"} THEN idex.PC
             ELSE 0

ExMuxAluB == IF "RS2" \in idex.Enable
             THEN IF idex.SpecInst = "S_STORE" THEN idex.Imm ELSE idex.Data2
             ELSE IF idex.SpecInst \in {"S_JAL", "S_JALR"} THEN 4
             ELSE idex.Imm

Rs1_BrJl == Mux(Forward_A, idex.Data1)
alu_A    == Mux(Forward_A, ExMuxAluA)
alu_B    == IF Forward_Store # Forward_B THEN Mux(Forward_B, ExMuxAluB) ELSE ExMuxAluB
alu_C    == AluC(alu_A, alu_B, idex.ALUOp)
cmp      == AluCmp(alu_A, alu_B, idex.ALUOp)

none_taken == Plus4(idex.PC)

\* Mutants: a target relative to the next instruction, and a JALR target
\* computed from what ID read.
imme_dst_next   == (none_taken + idex.Imm) % WORDS
reg_dst_no_fwd  == LET t == (idex.Imm + idex.Data1) % WORDS IN t - (t % 2)

imme_dst   == (idex.PC + idex.Imm) % WORDS
reg_dst    == LET t == (idex.Imm + Rs1_BrJl) % WORDS IN t - (t % 2)

\* Nobody reads "taken" of an instruction that is not one of the three.
taken  == IF idex.SpecInst = "S_JALR" THEN reg_dst ELSE imme_dst
pcn_ex == pcn(idex.SpecInst, idex.Detail, cmp, taken, none_taken)

exmem_in == [ALU_Result |-> alu_C,
             Store_Data |-> Mux(Forward_Store, idex.Data2),
             RS2        |-> idex.RS2,
             RD_Addr    |-> idex.RD,
             Reg_WEn    |-> Bit("RD" \in idex.Enable),
             Mem_REn    |-> Bit("MREAD" \in idex.Enable),
             Mem_WEn    |-> Bit("MWRITE" \in idex.Enable),
             Detail     |-> idex.Detail,
             enable     |-> idex.enable]

----------------------------------------------------------------------------
(* MEM1, MEM2, MEM3: the inputs of the last three registers                *)

memwrite_mem1 == Mux(Forward_RS2, exmem.Store_Data)

mem1mem2_in == [RD_Addr |-> exmem.RD_Addr, ALU_Result |-> exmem.ALU_Result,
                Reg_WEn |-> exmem.Reg_WEn, Mem_REn |-> exmem.Mem_REn,
                enable  |-> exmem.enable]

mem2mem3_in == [RD_Addr |-> mem1mem2.RD_Addr, ALU_Result |-> mem1mem2.ALU_Result,
                Reg_WEn |-> mem1mem2.Reg_WEn, Mem_REn |-> mem1mem2.Mem_REn,
                enable  |-> mem1mem2.enable,  MemRead |-> rdata]

memwb_in == [RD_Addr |-> mem2mem3.RD_Addr, WB_Data |-> WB_Data,
             Reg_WEn |-> mem2mem3.Reg_WEn, enable |-> mem2mem3.enable]

----------------------------------------------------------------------------
(* Stall.sv, Flush.sv and the choice of the next pc                        *)

\* ID's raw register fields are compared, whatever its instruction reads.
LoadHazard(isLoad, rd) == isLoad /\ rd # 0 /\ (rd = ifid.Inst.rs1 \/ rd = ifid.Inst.rs2)

\* Mutant: a load in MEM1 does not stall ID.
stall_without_mem1 == \/ LoadHazard("MREAD" \in idex.Enable, idex.RD)
                      \/ LoadHazard(mem1mem2.Mem_REn = 1, mem1mem2.RD_Addr)

stall == \/ LoadHazard("MREAD" \in idex.Enable, idex.RD)
         \/ LoadHazard(exmem.Mem_REn = 1, exmem.RD_Addr)
         \/ LoadHazard(mem1mem2.Mem_REn = 1, mem1mem2.RD_Addr)

prediction_failed == idex.enable = 1 /\ pcn_ex # none_taken

\* Mutants: an undecodable word flushes although EX is empty; a redirect does
\* not empty IFID.
flush_id_unguarded == prediction_failed \/ DecodeError(ifid.Inst)
flush_if_errors    == idex.enable = 1 /\ (DecodeError(ifid.Inst) \/ illegal_access = 1)

flush_id == prediction_failed \/ (idex.enable = 1 /\ DecodeError(ifid.Inst))
flush_if == flush_id \/ (idex.enable = 1 /\ illegal_access = 1)

\* Mutant: the pc runs on during a stall.
new_pc_no_hold == IF prediction_failed THEN pcn_ex ELSE Plus4(pc)

new_pc == IF prediction_failed THEN pcn_ex
          ELSE IF stall THEN pc
          ELSE Plus4(pc)

\* fetch_error_safe equals the fetch error whenever ifid_in.enable is 1, so
\* the FetchError bit is never set.
fetch_error_safe == flush_persistence = 0 /\ illegal_access = 1

RaisedExceptions ==
    (IF illegal_access = 1 /\ ifid_in.enable = 1 /\ ~ fetch_error_safe
        THEN {"FetchError"} ELSE {})
    \cup (IF DecodeError(ifid.Inst) /\ ifid.enable = 1 THEN {"DecodeError"} ELSE {})
    \cup (IF /\ exmem.enable = 1
             /\ IF exmem.Mem_REn = 1 THEN LoadUnaligned(exmem.Detail)
                ELSE /\ exmem.Mem_WEn = 1
                     /\ StoreUnaligned(exmem.ALU_Result, exmem.Detail)
             THEN {"MemAccessError"} ELSE {})
    \cup (IF idex.enable = 1 THEN EnvException(ifid.Inst) ELSE {})

----------------------------------------------------------------------------
(* The clock edge                                                          *)

\* An all-zero register: code 0 is S_BR for SpecInst and ALU_ADD for ALUOp.
ZeroIfid     == [PC |-> 0, Inst |-> ZeroInst, enable |-> 0]
ZeroIdex     == [PC |-> 0, Imm |-> 0, RS1 |-> 0, RS2 |-> 0, RD |-> 0,
                 Data1 |-> 0, Data2 |-> 0, Enable |-> {}, ALUOp |-> "ALU_ADD",
                 SpecInst |-> "S_BR", Detail |-> 0, enable |-> 0]
ZeroExmem    == [ALU_Result |-> 0, Store_Data |-> 0, RS2 |-> 0, RD_Addr |-> 0,
                 Reg_WEn |-> 0, Mem_REn |-> 0, Mem_WEn |-> 0, Detail |-> 0,
                 enable |-> 0]
ZeroMem1mem2 == [RD_Addr |-> 0, ALU_Result |-> 0, Reg_WEn |-> 0, Mem_REn |-> 0,
                 enable |-> 0]
ZeroMem2mem3 == [RD_Addr |-> 0, ALU_Result |-> 0, Reg_WEn |-> 0, Mem_REn |-> 0,
                 enable |-> 0, MemRead |-> 0]
ZeroMemwb    == [RD_Addr |-> 0, WB_Data |-> 0, Reg_WEn |-> 0, enable |-> 0]

FetchEdge ==
    /\ pc_delayed' = IF rst = 1 THEN 0 ELSE IF stall THEN pc_delayed ELSE pc
    /\ flush_persistence' = IF rst = 1 THEN 0
                            ELSE IF prediction_failed THEN 1
                            ELSE IF stall THEN flush_persistence ELSE 0
    /\ stall_persistence' = IF rst = 1 THEN 0 ELSE Bit(stall)
    /\ inst_delay' = IF rst = 1 THEN ZeroInst
                     ELSE IF stall_persistence = 1 THEN inst_delay ELSE inst_safe

\* MemControl has no reset: it fetches, and finishes the access of MEM1, also
\* while rst is 1.
MemEdge ==
    /\ rinst' = Fetch(pc)
    /\ illegal_access' = Bit(FetchIllegal(pc))
    /\ rdata' = IF exmem.Mem_REn = 1
                THEN MemRead(ram, exmem.ALU_Result, exmem.Detail) ELSE rdata
    /\ ram' = IF exmem.Mem_REn = 0 /\ exmem.Mem_WEn = 1
              THEN MemWrite(ram, exmem.ALU_Result, exmem.Detail, memwrite_mem1)
              ELSE ram

\* Mutants: IDEX is held by a stall as IFID is; EXMEM has no reset.
idex_next_held    == IF rst = 1 \/ flush_id THEN ZeroIdex
                     ELSE IF stall THEN idex ELSE idex_in

\* IFID can be flushed and held, a flush wins; IDEX turns a flush and a stall
\* into a bubble; the later registers always advance.
ifid_next  == IF rst = 1 \/ flush_if THEN ZeroIfid
              ELSE IF stall THEN ifid ELSE ifid_in
idex_next  == IF rst = 1 \/ flush_id \/ stall THEN ZeroIdex ELSE idex_in
exmem_next == IF rst = 1 THEN ZeroExmem ELSE exmem_in

StageEdge ==
    /\ ifid'     = ifid_next
    /\ idex'     = idex_next
    /\ exmem'    = exmem_next
    /\ mem1mem2' = IF rst = 1 THEN ZeroMem1mem2 ELSE mem1mem2_in
    /\ mem2mem3' = IF rst = 1 THEN ZeroMem2mem3 ELSE mem2mem3_in
    /\ memwb'    = IF rst = 1 THEN ZeroMemwb    ELSE memwb_in

\* The register file has no reset either.
GprEdge == gprs' = IF memwb.Reg_WEn = 1 /\ memwb.RD_Addr # 0
                   THEN [gprs EXCEPT ![memwb.RD_Addr] = memwb.WB_Data] ELSE gprs

CommitEdge == commit_pc' = IF rst = 1 THEN 0
                           ELSE IF idex.enable = 1 THEN pcn_ex ELSE commit_pc

ExceptionEdge == exceptions' = IF rst = 1 THEN {} ELSE RaisedExceptions

CpuEdge == /\ FetchEdge
           /\ MemEdge
           /\ StageEdge
           /\ GprEdge
           /\ CommitEdge
           /\ ExceptionEdge
           /\ rom' = rom

\* Power-on: every flip-flop holds 0 (Verilator's --x-initial fast).
CpuInit == /\ rom \in Programs /\ ram \in InitRam /\ gprs \in InitGprs
           /\ rinst = ZeroInst /\ illegal_access = 0 /\ rdata = 0
           /\ pc_delayed = 0 /\ flush_persistence = 0
           /\ stall_persistence = 0 /\ inst_delay = ZeroInst
           /\ ifid = ZeroIfid /\ idex = ZeroIdex /\ exmem = ZeroExmem
           /\ mem1mem2 = ZeroMem1mem2 /\ mem2mem3 = ZeroMem2mem3
           /\ memwb = ZeroMemwb
           /\ commit_pc = 0 /\ exceptions = {}
=============================================================================
