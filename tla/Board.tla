------------------------------- MODULE Board -------------------------------
(***************************************************************************)
(* The processor on the FPGA board: the same pipeline (the files of FPGA   *)
(* are copies of vsrc) around another memory.  FPGA/resource/MemControl.sv *)
(* drives a vendor RAM of doublewords with byte enables, whose outputs are *)
(* registered inside it; LD.sv in MEM2 cuts the loaded bytes out.          *)
(*                                                                         *)
(* The pipeline is an instance in which the memory's three output          *)
(* registers are replaced by the wires that the board has there.  It is an *)
(* instance of the module with its proofs, so that SdbProofs can use       *)
(* what is proved there whatever the memory answers.                       *)
(***************************************************************************)
EXTENDS IDU, MemControl

CONSTANTS Regs, RESET_PC, RstValues, Programs, InitGprs, InitRam

VARIABLES
    rst, pc, rom, pc_delayed, flush_persistence, stall_persistence, inst_delay,
    ifid, idex, exmem, mem1mem2, mem2mem3, memwb, gprs, commit_pc, exceptions, state,
    ram, q_a, q_b,      \* RAM: contents, output registers of its two ports
    wid                 \* the field wid of MEM1MEM2, which only LD reads

boardVars == <<rst, pc, rom, pc_delayed, flush_persistence, stall_persistence, inst_delay,
               ifid, idex, exmem, mem1mem2, mem2mem3, memwb, gprs, commit_pc, exceptions,
               state, ram, q_a, q_b, wid>>

----------------------------------------------------------------------------
(* From the RAM to the pipeline                                            *)

\* rdata of MemControl: the output of the RAM, while MEM1 holds a load.
memdata_mem == IF exmem.Mem_REn = 1 THEN q_a ELSE 0

\* Mutant: the loaded bytes are not moved to the low end.
LD_unshifted(data, w, byteena) == LET cut == data % 2^(BYTE * Bytes(w))
                                  IN  IF w \in 0 .. 3 THEN Sext(BYTE * Bytes(w), cut) ELSE cut

LD(data, w, byteena) ==
    LET cut == (data \div 2^(BYTE * byteena)) % 2^(BYTE * Bytes(w))
    IN  CASE w \in 0 .. 3 -> Sext(BYTE * Bytes(w), cut)
          [] w \in 4 .. 6 -> Zext(BYTE * Bytes(w), cut)
          [] OTHER        -> 0

mem_read == LD(memdata_mem, wid, mem1mem2.ALU_Result % 8)

\* Not delayed: of the address that is being fetched.
fetch_illegal == IF pc % 4 # 0 THEN 1 ELSE 0

P == INSTANCE PipelineProofs
     WITH rinst <- q_b, illegal_access <- fetch_illegal, rdata <- mem_read

----------------------------------------------------------------------------
(* From the pipeline to the RAM                                            *)

\* Number of the doubleword in the RAM.
dataAddr == PAddr(exmem.ALU_Result) \div 8

\* Mutant: the byte enables are not moved to the address.
dataByteEn_low == 0 .. Bytes(exmem.Detail) - 1

\* The lanes 0 .. 7 that a store writes.  Nothing checks its alignment.
dataByteEn ==
    IF exmem.Detail = 7 THEN {}
    ELSE IF exmem.Detail = 3 THEN 0 .. 7
    ELSE {k + (exmem.ALU_Result % 8) : k \in 0 .. Bytes(exmem.Detail) - 1} \cap (0 .. 7)

\* The data are repeated over all lanes; width codes above 3 write zeros.
dataWrite(lane) ==
    IF exmem.Detail > 3 THEN 0
    ELSE (P!memwrite_mem1 \div 2^(BYTE * (lane % Bytes(exmem.Detail)))) % 2^BYTE

ram_written == IF exmem.Mem_REn = 0 /\ exmem.Mem_WEn = 1
               THEN [a \in DOMAIN ram |->
                        IF a \div 8 = dataAddr /\ a % 8 \in dataByteEn
                        THEN dataWrite(a % 8) ELSE ram[a]]
               ELSE ram

\* The RAM (IP core): an edge reads or writes a doubleword at port a and reads
\* an instruction at port b; an output holds while its port does not read.
RamEdge ==
    /\ q_a' = IF exmem.Mem_REn = 1 THEN Raw(ram, 8 * dataAddr, 8) ELSE q_a
    /\ ram' = ram_written
    /\ q_b' = rom[PAddr(pc) - (pc % 4)]

WidEdge == wid' = IF rst = 1 THEN 0 ELSE exmem.Detail

----------------------------------------------------------------------------
Init == /\ rst = 1 /\ pc = 0 /\ state = "RST"
        /\ rom \in Programs /\ ram \in InitRam /\ gprs \in InitGprs
        /\ q_a = 0 /\ q_b = ZeroInst /\ wid = 0
        /\ pc_delayed = 0 /\ flush_persistence = 0
        /\ stall_persistence = 0 /\ inst_delay = ZeroInst
        /\ ifid = P!ZeroIfid /\ idex = P!ZeroIdex /\ exmem = P!ZeroExmem
        /\ mem1mem2 = P!ZeroMem1mem2 /\ mem2mem3 = P!ZeroMem2mem3
        /\ memwb = P!ZeroMemwb /\ commit_pc = 0 /\ exceptions = {}

\* syst_rst, PC and the pipeline of FPGA/riscv64i.sv around the RAM.
Next == /\ RamEdge /\ WidEdge
        /\ P!PcEdge /\ P!FetchEdge /\ P!StageEdge /\ P!GprEdge
        /\ P!CommitEdge /\ P!ExceptionEdge /\ P!MonitorEdge /\ P!Pin
        /\ rom' = rom

Spec == Init /\ [][Next]_boardVars

----------------------------------------------------------------------------
(* What the board's memory does to programs                                *)

\* A load that leaves MEM1 without another load behind it reads 0: the output
\* of the RAM is let through by the operation that is in MEM1 one edge later.
LostLoad == exmem.Mem_REn = 1 /\ ~ "MREAD" \in idex.Enable

\* A load across a doubleword has no bytes of the second one.
CrossingLoad ==
    exmem.Mem_REn = 1 /\ (exmem.ALU_Result % 8) + Bytes(exmem.Detail) > 8

BoardFault == IF LostLoad \/ CrossingLoad THEN "data" ELSE P!Fault

I == INSTANCE Isa WITH pc <- P!AbsPC, regs <- P!AbsRegs, mem <- ram_written,
                       fault <- BoardFault

\* A step of the board is one of the sequential machine, or none.
IsaStep == I!Next \/ UNCHANGED <<P!AbsPC, P!AbsRegs, ram_written>>

\* The load that is in MEM1 has in MEM2 what the simulated memory would give it.
DeliversInMem2 ==
    rst = 0 /\ exmem.Mem_REn = 1 /\ ~ CrossingLoad
        => mem_read' = MemRead(ram, exmem.ALU_Result, exmem.Detail)

PairDelivers == ~ LostLoad => DeliversInMem2
=============================================================================
