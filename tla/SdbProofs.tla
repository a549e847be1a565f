----------------------------- MODULE SdbProofs -----------------------------
(***************************************************************************)
(* Proofs about the debugger, for every program, set of points and         *)
(* sequence of commands.                                                   *)
(***************************************************************************)
EXTENDS MCSdb, PipelineProofs

----------------------------------------------------------------------------
(* The debugger only watches                                               *)

\* The debugger runs the processor or leaves it alone: whatever holds of every
\* behaviour of the pipeline holds under the debugger (cpu.cpp:25-51).
THEOREM SdbRunsThePipeline == SdbSpec => Spec
<1>1. SdbInit => Init
  BY DEF SdbInit
<1>2. [SdbNext]_sdbVars => [Next]_vars
  BY DEF SdbNext, sdbVars, PowerOn, Cycle, Cmd_print, Cmd_help, Cmd_pipe, Cmd_c, Cmd_si, Cmd_q, Cmd_b, Cmd_w, Cmd_wreg,
         Cmd_wb, AtPrompt, Next
<1> QED
  BY <1>1, <1>2, PTL DEF SdbSpec, Spec

\* While cpu_exec runs, a step is one pass of its loop.
LEMMA ExecIsCycle ==
    ASSUME SdbNext, mode = "exec"
    PROVE  Cycle
  BY DEF SdbNext, PowerOn, Cmd_print, Cmd_help, Cmd_pipe, Cmd_c, Cmd_si, Cmd_q, Cmd_b, Cmd_w, Cmd_wreg, Cmd_wb, AtPrompt

----------------------------------------------------------------------------
(* Watch points                                                            *)

\* Between the edges of one command nothing is hit.
LEMMA NextPending == NothingPending /\ [SdbNext]_sdbVars => NothingPending'
<1> SUFFICES ASSUME NothingPending, [SdbNext]_sdbVars PROVE NothingPending'
  OBVIOUS
<1>1. CASE UNCHANGED sdbVars
  <2>1. UNCHANGED <<pc, exmem, memwb, points, mode, ii>>
    BY <1>1 DEF sdbVars, vars, cpuVars, stageVars
  <2>2. BreakHit' = BreakHit /\ RegHit' = RegHit
    BY <2>1 DEF points, BreakHit, RegHit
  <2>3. WatchHit' = WatchHit
    BY <2>1 DEF points, WatchHit, memwid, Bytes
  <2> QED
    BY <2>1, <2>2, <2>3 DEF NothingPending, Hit
<1>2. CASE Cycle
  BY <1>2 DEF Cycle, AfterExec, NothingPending
<1>3. CASE SdbNext /\ ~ Cycle
  BY <1>3 DEF SdbNext, PowerOn, Cmd_print, Cmd_help, Cmd_pipe, Cmd_c, Cmd_si, Cmd_q, Cmd_b, Cmd_w, Cmd_wreg, Cmd_wb,
              AtPrompt, Call, AfterExec, NothingPending
<1> QED
  BY <1>1, <1>2, <1>3

\* cpu_exec never runs on past a point: an edge that is not the first of its
\* command starts with no point hit (cpu.cpp:55-95).
THEOREM NoPointIsPassed == SdbSpec => []NothingPending
<1>1. SdbInit => NothingPending
  BY DEF SdbInit, NothingPending
<1> QED
  BY <1>1, NextPending, PTL DEF SdbSpec

\* The registers with a watch point exist.
RegPointsOK == cpu_reg_watch_points \subseteq Regs

\* Only w sets one, on a register that it has checked.
LEMMA NextRegPoints == RegPointsOK /\ [SdbNext]_sdbVars => RegPointsOK'
  BY SdbAssumption
  DEF RegPointsOK, SdbNext, sdbVars, points, PowerOn, Cycle, Cmd_print, Cmd_help, Cmd_pipe, Cmd_c, Cmd_si, Cmd_q, Cmd_b,
      Cmd_w, Cmd_wreg, Cmd_wb

\* A watched register never changes in the middle of a command: the prompt came
\* back while the write was still in WB (cpu.cpp:86-94, GPR.sv:19-25).
THEOREM RegWatchHolds == SdbSpec => RegWatchBeforeWrite
<1> DEFINE Inv == NothingPending /\ RegPointsOK /\ ControlOK
<1>1. SdbSpec => []ControlOK
  BY SdbRunsThePipeline, ControlInRange
<1>2. SdbInit => RegPointsOK
  BY DEF SdbInit, RegPointsOK
<1>3. SdbSpec => []RegPointsOK
  BY <1>2, NextRegPoints, PTL DEF SdbSpec
<1>4. ASSUME Inv, [SdbNext]_sdbVars
      PROVE  [\A r \in cpu_reg_watch_points :
                 mode = "exec" /\ gprs'[r] # gprs[r] => ii = 0]_sdbVars
  <2> SUFFICES ASSUME SdbNext, mode = "exec",
                      NEW r \in cpu_reg_watch_points, gprs'[r] # gprs[r]
               PROVE  ii = 0
    BY <1>4
  <2>1. GprEdge
    BY ExecIsCycle DEF Cycle, RunEdge, Edge, CpuEdge
  <2>2. r \in Regs /\ DOMAIN gprs = Regs
    BY <1>4 DEF RegPointsOK, ControlOK
  <2>3. memwb.Reg_WEn = 1 /\ memwb.RD_Addr = r
    BY <2>1, <2>2 DEF GprEdge
  <2> QED
    BY <1>4, <2>3 DEF NothingPending, Hit, RegHit
<1> QED
  BY <1>1, <1>3, <1>4, NoPointIsPassed, PTL DEF SdbSpec, RegWatchBeforeWrite

\* The addresses with a watch point are words.
WatchPointsOK == cpu_watch_points \subseteq Word

\* Only w and wb set one; wb wraps at the end of the address space.
LEMMA NextWatchPoints == WatchPointsOK /\ [SdbNext]_sdbVars => WatchPointsOK'
<1> SUFFICES ASSUME WatchPointsOK, [SdbNext]_sdbVars PROVE WatchPointsOK'
  OBVIOUS
<1>1. CASE \E n \in Counts, a \in WatchAt : Cmd_wb(n, a)
  <2>1. PICK n \in Counts, a \in WatchAt : Cmd_wb(n, a)
    BY <1>1
  <2>2. \A k \in 1 .. n - 1 : (a + 4 * k) % WORDS \in Word
    BY SdbAssumption, WordSizes DEF Word
  <2> QED
    BY <2>1, <2>2 DEF Cmd_wb, WatchPointsOK
<1>2. CASE SdbNext /\ ~ (\E n \in Counts, a \in WatchAt : Cmd_wb(n, a))
  BY <1>2, SdbAssumption
  DEF WatchPointsOK, SdbNext, points, PowerOn, Cycle, Cmd_print, Cmd_help, Cmd_pipe, Cmd_c, Cmd_si, Cmd_q, Cmd_b,
      Cmd_w, Cmd_wreg, AtPrompt
<1>3. CASE UNCHANGED sdbVars
  BY <1>3 DEF WatchPointsOK, sdbVars, points
<1> QED
  BY <1>1, <1>2, <1>3

\* A store in MEM1 that is about to change a watched byte is seen by the test.
LEMMA ChangeIsHit ==
    ASSUME TypeOK, MemEdge, NEW w \in cpu_watch_points, w \in Word, Reaches(w),
           ram'[PAddr(w)] # ram[PAddr(w)]
    PROVE  WatchHit
<1> DEFINE A == exmem.ALU_Result
           n == Bytes(exmem.Detail)
           k == PAddr(w) - PAddr(A)
<1>1. /\ exmem.Mem_WEn = 1
      /\ ram' = MemWrite(ram, A, exmem.Detail, memwrite_mem1)
  BY DEF MemEdge
<1>2. A \in Int /\ A >= 0 /\ A < WORDS /\ w \in Int /\ WORDS \in Nat
  BY WordSizes DEF TypeOK, Word
<1>3. PAddr(w) \in DOMAIN ram /\ PAddr(w) \in Int /\ PAddr(A) \in Int
  BY <1>2, Physical, MemShape, PowersOfTwo DEF TypeOK, PAddrs
<1>4. StoreAligned(A, exmem.Detail) /\ k \in 0 .. n - 1
  BY <1>1, <1>3 DEF MemWrite
<1>5. n \in Nat /\ memwid(exmem.Detail) = n
  BY <1>4, Widths DEF StoreAligned, memwid
<1>6. w - PAddr(w) = A - PAddr(A) /\ A + n < WORDS
  BY DEF Reaches
<1>7. w >= A /\ w < A + n
  BY <1>2, <1>3, <1>4, <1>5, <1>6
<1>8. (A + n) % WORDS = A + n
  <2>1. A + n \in Nat /\ A + n < WORDS /\ WORDS \in Nat
    BY <1>2, <1>5, <1>6
  <2>2. \A x, y \in Nat : x < y => x % y = x
    OBVIOUS
  <2> QED
    BY <2>1, <2>2
<1> QED
  BY <1>1, <1>5, <1>7, <1>8 DEF WatchHit

\* A watched byte never changes in the middle of a command: the prompt came back
\* while the store was still in MEM1, whichever of its bytes is watched
\* (cpu.cpp:69-84, MemControl.sv:39-69).
THEOREM WatchHolds == SdbSpec => WatchBeforeWrite
<1> DEFINE Inv == NothingPending /\ WatchPointsOK /\ TypeOK
<1>1. SdbSpec => []TypeOK
  BY SdbRunsThePipeline, TypesOK
<1>2. SdbInit => WatchPointsOK
  BY DEF SdbInit, WatchPointsOK
<1>3. SdbSpec => []WatchPointsOK
  BY <1>2, NextWatchPoints, PTL DEF SdbSpec
<1>4. ASSUME Inv, [SdbNext]_sdbVars
      PROVE  [\A w \in cpu_watch_points :
                 mode = "exec" /\ Reaches(w) /\ ram'[PAddr(w)] # ram[PAddr(w)] => ii = 0]_sdbVars
  <2> SUFFICES ASSUME SdbNext, mode = "exec", NEW w \in cpu_watch_points,
                      Reaches(w), ram'[PAddr(w)] # ram[PAddr(w)]
               PROVE  ii = 0
    BY <1>4
  <2>1. MemEdge
    BY ExecIsCycle DEF Cycle, RunEdge, Edge, CpuEdge
  <2>2. WatchHit
    BY <1>4, <2>1, ChangeIsHit DEF WatchPointsOK
  <2> QED
    BY <1>4, <2>2 DEF NothingPending, Hit
<1> QED
  BY <1>1, <1>3, <1>4, NoPointIsPassed, PTL DEF SdbSpec, WatchBeforeWrite

----------------------------------------------------------------------------
(* Break points                                                            *)

\* A break point that is due is nowhere in flight: when its address enters the
\* pc the loop stops and it is settled.
DueOutOfFlight ==
    /\ due \cap InFlight = {} /\ due \subseteq cpu_break_points
    /\ 0 \notin cpu_break_points
    /\ is_batch_mode => cpu_break_points = {}
    /\ mode = "init" => cpu_break_points = {}
    /\ mode = "prompt" => ~ is_batch_mode

\* The addresses in flight after an edge were in flight before, or are the new
\* pc, or belong to an empty slot.
LEMMA FlightStep ==
    ASSUME RunEdge
    PROVE  InFlight' \subseteq InFlight \cup {0, pc'}
<1>1. FetchEdge /\ StageEdge /\ rst = 0
  BY DEF RunEdge, Edge, CpuEdge
<1>2. pc_delayed' \in {pc, pc_delayed}
  BY <1>1 DEF FetchEdge
<1>3. ifid'.PC \in {0, ifid.PC, pc_delayed}
  BY <1>1 DEF StageEdge, ifid_next, ifid_in, ZeroIfid
<1>4. idex'.PC \in {0, ifid.PC}
  BY <1>1 DEF StageEdge, idex_next, idex_in, ZeroIdex
<1> QED
  BY <1>2, <1>3, <1>4 DEF InFlight

\* One pass of the loop of cpu_exec.
LEMMA DueCycle ==
    ASSUME DueOutOfFlight, HNext, Cycle
    PROVE  DueOutOfFlight'
<1>1. /\ cpu_break_points' = cpu_break_points /\ is_batch_mode' = is_batch_mode
      /\ mode' = IF Hit' \/ ii' = i THEN AfterExec ELSE "exec"
  BY DEF Cycle, points
<1>2. /\ due' \subseteq (due \cup (cpu_break_points \ InFlight))
      /\ mode' = "prompt" => pc' \notin due'
  BY DEF HNext
<1>3. ASSUME NEW a \in due', a \in InFlight' PROVE FALSE
  <2>1. a \in cpu_break_points /\ a \notin InFlight /\ a # 0
    BY <1>2 DEF DueOutOfFlight
  <2>2. a = pc'
    BY <1>3, <2>1, FlightStep DEF Cycle
  <2>3. Hit'
    BY <1>1, <2>1, <2>2 DEF Hit, BreakHit
  <2> QED
    BY <1>1, <1>2, <2>1, <2>2, <2>3 DEF AfterExec, DueOutOfFlight
<1> QED
  BY <1>1, <1>2, <1>3 DEF DueOutOfFlight, AfterExec

\* Every step.
LEMMA NextDue == DueOutOfFlight /\ [HNext]_<<sdbVars, due>> => DueOutOfFlight'
<1> SUFFICES ASSUME DueOutOfFlight, [HNext]_<<sdbVars, due>> PROVE DueOutOfFlight'
  OBVIOUS
<1>1. CASE UNCHANGED <<sdbVars, due>>
  BY <1>1 DEF DueOutOfFlight, InFlight, sdbVars, points, vars, cpuVars, fetchVars, stageVars
<1>2. CASE HNext /\ Cycle
  BY <1>2, DueCycle
<1>3. CASE HNext /\ PowerOn
  BY <1>3 DEF HNext, PowerOn, DueOutOfFlight, points, Call, AfterExec
<1>4. CASE HNext /\ AtPrompt
  <2>1. UNCHANGED <<InFlight, is_batch_mode>> /\ mode = "prompt"
    BY <1>4 DEF AtPrompt, InFlight, vars, cpuVars, fetchVars, stageVars
  <2>2. /\ cpu_break_points \subseteq cpu_break_points'
        /\ 0 \notin cpu_break_points' /\ mode' # "init"
    BY <1>4, SdbAssumption DEF HNext, SdbNext, AtPrompt, PowerOn, Cycle, Cmd_print, Cmd_help, Cmd_pipe, Cmd_c, Cmd_si,
       Cmd_q, Cmd_b, Cmd_w, Cmd_wreg, Cmd_wb, points, Call, AfterExec, DueOutOfFlight
  <2>3. due' \subseteq (due \cup (cpu_break_points \ InFlight))
    BY <1>4 DEF HNext
  <2> QED
    BY <2>1, <2>2, <2>3 DEF DueOutOfFlight
<1> QED
  BY <1>1, <1>2, <1>3, <1>4
  DEF HNext, SdbNext, Cmd_print, Cmd_help, Cmd_pipe, Cmd_c, Cmd_si, Cmd_q, Cmd_b, Cmd_w, Cmd_wreg, Cmd_wb

\* No instruction executes at a break point that has not been announced since
\* it was last in flight, through stalls, redirects and holds (cpu.cpp:62-66).
THEOREM BreaksBeforeExecute == HSpec => []BreakBeforeExecute
<1>1. HInit => DueOutOfFlight
  BY DEF HInit, SdbInit, DueOutOfFlight
<1>2. DueOutOfFlight => BreakBeforeExecute
  BY DEF DueOutOfFlight, BreakBeforeExecute, InFlight
<1> QED
  BY <1>1, <1>2, NextDue, PTL DEF HSpec

----------------------------------------------------------------------------
(* The processor on the FPGA board                                         *)

BoardAssumption ==
    /\ 0 \in Regs /\ RstValues \subseteq {0, 1}
    /\ RESET_PC \in B!P!Word /\ B!P!PAddr(RESET_PC) = B!P!PAddr(0)
    /\ \A p \in Programs : \A a \in B!P!CodeAddrs : p[a] \in B!P!Instructions
    /\ InitRam \subseteq [B!P!PAddrs -> 0 .. 2^BYTE - 1]
    /\ \A g \in InitGprs : g \in [Regs -> B!P!Word] /\ g[0] = 0

----------------------------------------------------------------------------
(* The operators that the board and its pipeline both have are the same    *)

\* Words, addresses and codes.
LEMMA SameNumbers ==
    /\ B!WORDS = B!P!WORDS /\ B!Word = B!P!Word /\ B!PAddrs = B!P!PAddrs /\ B!CodeAddrs = B!P!CodeAddrs
    /\ B!Opcodes = B!P!Opcodes /\ B!WritesRd = B!P!WritesRd /\ B!ZeroInst = B!P!ZeroInst
    /\ \A a : B!PAddr(a) = B!P!PAddr(a)
  BY DEF B!WORDS, B!P!WORDS, B!Word, B!P!Word, B!PAddrs, B!P!PAddrs, B!PAddr, B!P!PAddr, B!CodeAddrs, B!P!CodeAddrs,
         B!Opcodes, B!P!Opcodes, B!WritesRd, B!P!WritesRd, B!ZeroInst, B!P!ZeroInst

\* Sign and zero extension, and widths.
LEMMA SameExtensions ==
    /\ \A w, x : /\ B!Sext(w, x) = B!P!Sext(w, x) /\ B!Zext(w, x) = B!P!Zext(w, x)
                 /\ B!Signed(w, x) = B!P!Signed(w, x)
    /\ \A w : B!Bytes(w) = B!P!Bytes(w)
  BY DEF B!Sext, B!P!Sext, B!Zext, B!P!Zext, B!Signed, B!P!Signed, B!Bytes, B!P!Bytes

\* Digits put together.
LEMMA SameAssemble ==
   \A w, b, digit : B!Assemble(w, b, digit) = B!P!Assemble(w, b, digit)
  BY DEF B!Assemble, B!P!Assemble

\* The simulated memory, which the board has only for comparison.
LEMMA SameMemory ==
    /\ \A r, addr, n : B!Raw(r, addr, n) = B!P!Raw(r, addr, n)
    /\ \A addr, w : B!StoreAligned(addr, w) = B!P!StoreAligned(addr, w)
    /\ \A r, addr, w : B!MemRead(r, addr, w) = B!P!MemRead(r, addr, w)
    /\ \A r, addr, w, wdata : B!MemWrite(r, addr, w, wdata) = B!P!MemWrite(r, addr, w, wdata)
<1>1. \A r, addr, n : B!Raw(r, addr, n) = B!P!Raw(r, addr, n)
  BY SameNumbers, SameAssemble DEF B!Raw, B!P!Raw
<1>2. \A addr, w : B!StoreAligned(addr, w) = B!P!StoreAligned(addr, w)
  BY SameNumbers, SameExtensions DEF B!StoreAligned, B!P!StoreAligned
<1>3. \A r, addr, w : B!MemRead(r, addr, w) = B!P!MemRead(r, addr, w)
  BY <1>1, SameExtensions DEF B!MemRead, B!P!MemRead
<1>4. \A r, addr, w, wdata : B!MemWrite(r, addr, w, wdata) = B!P!MemWrite(r, addr, w, wdata)
  BY SameNumbers, SameExtensions DEF B!MemWrite, B!P!MemWrite, B!StoreAligned, B!P!StoreAligned
<1> QED
  BY <1>1, <1>2, <1>3, <1>4

\* What the decoder accepts, and what the ALU is asked.
LEMMA SameDecoder ==
    \A inst : B!AluOp(inst) = B!P!AluOp(inst) /\ B!DecodeError(inst) = B!P!DecodeError(inst)
  BY DEF B!AluOp, B!P!AluOp, B!AluOfFunct3, B!P!AluOfFunct3, B!AluOfBranch, B!P!AluOfBranch, B!funct6, B!P!funct6,
         B!DecodeError, B!P!DecodeError, B!Opcodes, B!P!Opcodes

\* The ALU, shifter, comparator and bit operations included.
LEMMA SameAlu == \A a, b, op : B!AluC(a, b, op) = B!P!AluC(a, b, op)
<1>1. B!HALF_WIDTH = B!P!HALF_WIDTH /\ B!HALF_WORDS = B!P!HALF_WORDS
  BY DEF B!HALF_WIDTH, B!P!HALF_WIDTH, B!HALF_WORDS, B!P!HALF_WORDS
<1>2. \A x : B!Low(x) = B!P!Low(x) /\ B!High(x) = B!P!High(x)
  BY <1>1 DEF B!Low, B!P!Low, B!High, B!P!High
<1>3. \A x, m : B!BitAt(x, m) = B!P!BitAt(x, m)
  BY DEF B!BitAt, B!P!BitAt
<1>4. \A w, x : B!Reversed(w, x) = B!P!Reversed(w, x)
  BY <1>3, SameAssemble DEF B!Reversed, B!P!Reversed
<1>5. \A A, b2, op : B!Rhs(b2, op) = B!P!Rhs(b2, op) /\ B!Add32(A, b2, op) = B!P!Add32(A, b2, op)
                    /\ B!Add64(A, b2, op) = B!P!Add64(A, b2, op)
  BY <1>1, <1>2, SameNumbers DEF B!Rhs, B!P!Rhs, B!Add32, B!P!Add32, B!Carry, B!P!Carry, B!Add64, B!P!Add64
<1>6. \A A, b2, op : B!Shift64(A, b2, op) = B!P!Shift64(A, b2, op)
  BY <1>1, <1>2, <1>3, <1>4, SameNumbers, SameExtensions
  DEF B!Shamt, B!P!Shamt, B!Fillbit, B!P!Fillbit, B!Shed, B!P!Shed, B!Shift, B!P!Shift, B!Shift64, B!P!Shift64
<1>7. \A A, b2, sums : B!Bitwise2(A, b2, sums) = B!P!Bitwise2(A, b2, sums)
  BY <1>3, SameAssemble DEF B!Bitwise2, B!P!Bitwise2
<1>8. \A A, b2, op : B!AluCmp(A, b2, op) = B!P!AluCmp(A, b2, op)
  BY SameExtensions DEF B!AluCmp, B!P!AluCmp, B!Compare, B!P!Compare
<1> QED
  BY <1>1, <1>2, <1>5, <1>6, <1>7, <1>8, SameExtensions DEF B!AluC, B!P!AluC

----------------------------------------------------------------------------
(* The invariant                                                           *)

\* Types and bypass network as in the simulation; of the slots only those at a
\* legal pc, since the RAM answers an illegal fetch with some instruction; and
\* the registers that only the board has.
BoardInv == /\ BoardAssumption
            /\ B!P!TypeOK /\ B!P!RomOK /\ B!P!BypassInv /\ B!P!SlotsHold(FALSE)
            /\ q_a \in B!P!Word /\ wid \in 0 .. 7

\* The RAM answers a fetch with an instruction, at a legal pc with the one there.
LEMMA FetchAnswer ==
    ASSUME BoardInv, B!RamEdge
    PROVE  q_b' \in B!P!Instructions /\ B!P!HasRegs(q_b') /\ B!P!Holds(FALSE, pc, q_b')
<1>1. pc \in Nat
  BY B!P!WordSizes, PowersOfTwo, MemShape DEF BoardInv, BoardAssumption, B!P!TypeOK, B!P!Word
<1>2. B!P!PAddr(pc) \in B!P!PAddrs /\ B!P!PAddr(pc) \in Nat /\ B!P!PAddr(pc) % 4 = pc % 4
  BY <1>1, B!P!SameLowBits, PowersOfTwo, MemShape DEF BoardInv, BoardAssumption
<1>3. q_b' = rom[B!P!PAddr(pc) - (pc % 4)]
  BY SameNumbers DEF B!RamEdge
<1>4. B!P!PAddr(pc) - (pc % 4) \in B!P!CodeAddrs
  <2>1. \A x \in Nat : x - (x % 4) \in 0 .. x /\ (x - (x % 4)) % 4 = 0
    OBVIOUS
  <2>2. \A x \in B!P!PAddrs : \A y \in 0 .. x : y \in B!P!PAddrs
    <3>1. 2^RAM_SIZE \in Nat
      BY MemShape, PowersOfTwo
    <3> QED
      BY <3>1 DEF B!P!PAddrs
  <2> QED
    BY <1>2, <2>1, <2>2 DEF B!P!CodeAddrs
<1>5. q_b' \in B!P!Instructions
  BY <1>3, <1>4 DEF BoardInv, B!P!RomOK
<1>6. B!P!HasRegs(q_b')
  BY <1>5 DEF B!P!HasRegs, B!P!Instructions
<1>7. ASSUME ~ B!P!FetchIllegal(pc) PROVE q_b' = B!P!Fetch(pc)
  <2>1. B!P!PAddr(pc) % 4 = 0
    BY <1>7 DEF B!P!FetchIllegal, B!P!CodeAddrs
  <2>2. B!P!PAddr(pc) - (pc % 4) = B!P!PAddr(pc)
    BY <1>1, <1>2, <2>1
  <2> QED
    BY <1>3, <1>7, <2>2 DEF B!P!Fetch
<1> QED
  BY <1>5, <1>6, <1>7 DEF B!P!Holds

\* What LD cuts out of a word is a word.
LEMMA LoadRange ==
    ASSUME BoardAssumption, NEW data \in B!P!Word, NEW w, NEW byteena \in 0 .. 7
    PROVE  B!LD(data, w, byteena) \in B!P!Word
<1> DEFINE n == B!P!Bytes(w)
<1>1. n \in {1, 2, 4, 8} /\ BYTE * n \in 1 .. DATA_WIDTH
  BY B!P!Widths, PowersOfTwo, MemShape DEF BoardAssumption
<1> HIDE DEF n
<1>2. BYTE * byteena \in 0 .. DATA_WIDTH
  BY MemShape
<1>3. 2^(BYTE * byteena) \in Nat \ {0} /\ 2^(BYTE * n) \in Nat \ {0}
  BY <1>1, <1>2, PowersOfTwo
<1> DEFINE cut == (data \div 2^(BYTE * byteena)) % 2^(BYTE * n)
<1>4. cut \in 0 .. 2^(BYTE * n) - 1
  <2>1. data \in Int
    BY B!P!WordSizes, PowersOfTwo, MemShape DEF BoardAssumption, B!P!Word
  <2>2. \A p, q \in Nat \ {0} : \A x \in Int : (x \div p) % q \in 0 .. q - 1
    OBVIOUS
  <2> QED
    BY <1>3, <2>1, <2>2
<1> HIDE DEF cut
<1>5. B!P!Sext(BYTE * n, cut) \in B!P!Word /\ B!P!Zext(BYTE * n, cut) \in B!P!Word /\ 0 \in B!P!Word
  BY <1>1, <1>4, B!P!Extended, B!P!WordSizes, PowersOfTwo, MemShape DEF BoardAssumption, B!P!Word
<1> QED
  BY <1>5, SameExtensions DEF B!LD, n, cut

\* The RAM holds bytes and gives words.
LEMMA RamRange ==
    ASSUME BoardInv, B!RamEdge
    PROVE  q_a' \in B!P!Word /\ ram' \in B!P!Contents
<1>1. exmem.ALU_Result \in Nat /\ B!P!memwrite_mem1 \in Int /\ ram \in B!P!Contents
  BY B!P!ExRange, B!P!WordSizes, PowersOfTwo, MemShape
  DEF BoardInv, BoardAssumption, B!P!TypeOK, B!P!Word, B!P!Contents
<1>2. 8 * B!dataAddr \in Int
  <2>1. B!PAddr(exmem.ALU_Result) \in Nat
    BY <1>1, B!P!SameLowBits, SameNumbers, PowersOfTwo, MemShape DEF BoardInv, BoardAssumption
  <2> QED
    BY <2>1 DEF B!dataAddr
<1>3. q_a' \in B!P!Word
  <2>1. B!P!Raw(ram, 8 * B!dataAddr, 8) \in 0 .. 2^(BYTE * 8) - 1
    BY <1>1, <1>2, B!P!RawRange, PowersOfTwo, MemShape DEF BoardInv, BoardAssumption
  <2>2. BYTE * 8 = DATA_WIDTH
    BY MemShape
  <2> QED
    BY <2>1, <2>2, SameMemory DEF B!RamEdge, BoardInv, B!P!Word, B!P!WORDS
<1>4. \A a \in B!P!PAddrs : B!dataWrite(a % 8) \in 0 .. 2^BYTE - 1
  <2> TAKE a \in B!P!PAddrs
  <2> DEFINE n == B!P!Bytes(exmem.Detail)
             m == BYTE * ((a % 8) % n)
  <2>1. n \in {1, 2, 4, 8}
    BY B!P!Widths, PowersOfTwo, MemShape DEF BoardInv, BoardAssumption
  <2>2. a \in Int
    BY DEF B!P!PAddrs
  <2>3. (a % 8) % n \in 0 .. 7
    <3> HIDE DEF n
    <3> QED
      BY <2>1, <2>2
  <2>4. m \in 0 .. DATA_WIDTH
    <3> HIDE DEF n
    <3> QED
      BY <2>3, MemShape
  <2> HIDE DEF m
  <2>5. 2^m \in Nat \ {0} /\ 2^BYTE \in Nat \ {0}
    BY <2>4, MemShape, PowersOfTwo
  <2>6. \A p, q \in Nat \ {0} : \A x \in Int : (x \div p) % q \in 0 .. q - 1
    OBVIOUS
  <2>7. (B!P!memwrite_mem1 \div 2^m) % 2^BYTE \in 0 .. 2^BYTE - 1 /\ 0 \in 0 .. 2^BYTE - 1
    BY <1>1, <2>5, <2>6
  <2> QED
    BY <2>7, SameExtensions DEF B!dataWrite, m
<1>5. B!ram_written \in B!P!Contents
  BY <1>1, <1>4 DEF B!ram_written, B!P!Contents
<1> QED
  BY <1>3, <1>5 DEF B!RamEdge

StoreIsAligned == exmem.Mem_REn = 0 /\ exmem.Mem_WEn = 1
                  => B!P!StoreAligned(exmem.ALU_Result, exmem.Detail)
SameLanes    == B!ram_written = B!P!AbsMem

\* A store at an aligned address writes the lanes that the simulated memory
\* writes.
LEMMA AlignedStore == BoardInv /\ StoreIsAligned => SameLanes
<1> SUFFICES ASSUME BoardInv, StoreIsAligned PROVE B!ram_written = B!P!AbsMem
  BY DEF SameLanes
<1>1. CASE ~ (exmem.Mem_REn = 0 /\ exmem.Mem_WEn = 1)
  BY <1>1 DEF B!ram_written, B!P!AbsMem
<1>2. CASE exmem.Mem_REn = 0 /\ exmem.Mem_WEn = 1
  <2> DEFINE n == B!P!Bytes(exmem.Detail)
             p == B!P!PAddr(exmem.ALU_Result)
             mw == B!P!memwrite_mem1
  <2>1. exmem.ALU_Result \in Nat /\ DOMAIN ram = B!P!PAddrs
    BY B!P!WordSizes, PowersOfTwo, MemShape DEF BoardInv, BoardAssumption, B!P!TypeOK, B!P!Word
  <2>2. p \in Nat /\ p % 8 = exmem.ALU_Result % 8 /\ B!dataAddr = p \div 8
    BY <2>1, B!P!SameLowBits, SameNumbers, PowersOfTwo, MemShape
    DEF BoardInv, BoardAssumption, B!dataAddr
  <2>3. exmem.Detail \in 0 .. 3 /\ n \in {1, 2, 4, 8} /\ p % n = 0
    BY <1>2, B!P!Widths, PowersOfTwo, MemShape
    DEF BoardInv, BoardAssumption, B!P!StoreAligned, StoreIsAligned
  <2>4. B!dataByteEn = {k + (p % 8) : k \in 0 .. n - 1} \cap (0 .. 7)
    <3>1. CASE exmem.Detail = 3
      <4>1. n = 8
        BY <3>1 DEF B!P!Bytes
      <4>2. p % 8 = 0
        BY <2>3, <4>1
      <4>3. B!dataByteEn = 0 .. 7
        BY <3>1 DEF B!dataByteEn
      <4> HIDE DEF n, p
      <4>4. \A y \in 0 .. 7 : y \in {k + 0 : k \in 0 .. 8 - 1}
        OBVIOUS
      <4> QED
        BY <4>1, <4>2, <4>3, <4>4
    <3>2. CASE exmem.Detail # 3
      BY <2>2, <2>3, <3>2, SameExtensions DEF B!dataByteEn
    <3> QED
      BY <3>1, <3>2
  <2>5. ASSUME NEW a \in B!P!PAddrs
        PROVE  (IF a \div 8 = B!dataAddr /\ a % 8 \in B!dataByteEn THEN B!dataWrite(a % 8) ELSE ram[a])
                  = (IF a - p \in 0 .. n - 1 THEN (mw \div 2^(BYTE * (a - p))) % 2^BYTE
                                             ELSE ram[a])
    <3>1. a \in Nat
      BY DEF B!P!PAddrs
    <3>2. B!dataWrite(a % 8) = (mw \div 2^(BYTE * ((a % 8) % n))) % 2^BYTE
      BY <2>3, SameExtensions DEF B!dataWrite
    <3> HIDE DEF n, p, mw
    <3>3. B!P!ByLanes(a, p, n)
      <4>1. BoardAssumption
        BY DEF BoardInv
      <4>2. p \in Nat /\ n \in {1, 2, 4, 8} /\ p % n = 0
        BY <2>2, <2>3
      <4> QED
        BY <3>1, <4>1, <4>2, B!P!Lanes, PowersOfTwo, MemShape DEF BoardAssumption
    <3>4. a \div 8 = B!dataAddr /\ a % 8 \in B!dataByteEn <=> a - p \in 0 .. n - 1
      BY <2>2, <2>4, <3>3 DEF B!P!ByLanes
    <3> QED
      BY <3>2, <3>3, <3>4 DEF B!P!ByLanes
  <2>6. B!ram_written = [a \in B!P!PAddrs |-> IF a - p \in 0 .. n - 1
                                          THEN (mw \div 2^(BYTE * (a - p))) % 2^BYTE ELSE ram[a]]
    <3> HIDE DEF n, p, mw
    <3> QED
      BY <1>2, <2>1, <2>5 DEF B!ram_written
  <2>7. B!P!AbsMem = [a \in B!P!PAddrs |-> IF a - p \in 0 .. n - 1
                                       THEN (mw \div 2^(BYTE * (a - p))) % 2^BYTE ELSE ram[a]]
    BY <1>2, <2>1 DEF B!P!AbsMem, B!P!MemWrite, StoreIsAligned
  <2> QED
    BY <2>6, <2>7
<1> QED
  BY <1>1, <1>2

\* LD in MEM2 gives what the simulated memory gives, if another load keeps the
\* output of the RAM open.
LEMMA LoadDelivers ==
    ASSUME BoardInv, B!RamEdge, B!WidEdge, B!P!StageEdge, rst = 0, exmem.Mem_REn = 1,
           ~ B!CrossingLoad, ~ B!LostLoad
    PROVE  B!mem_read' = B!P!MemRead(ram, exmem.ALU_Result, exmem.Detail)
<1> DEFINE a == exmem.ALU_Result
           n == B!P!Bytes(exmem.Detail)
<1>1. a \in Nat /\ n \in {1, 2, 4, 8} /\ (a % 8) + n <= 8 /\ ram \in B!P!Contents
  BY B!P!Widths, B!P!WordSizes, SameExtensions, PowersOfTwo, MemShape
  DEF BoardInv, BoardAssumption, B!P!TypeOK, B!P!Word, B!P!Contents, B!CrossingLoad
<1>2. mem1mem2'.ALU_Result = a /\ wid' = exmem.Detail
  BY DEF B!P!StageEdge, B!P!mem1mem2_in, B!WidEdge
<1>3. exmem'.Mem_REn = 1
  BY DEF B!P!StageEdge, B!P!exmem_next, B!P!exmem_in, B!P!Bit, B!LostLoad
<1>4. q_a' = B!P!Raw(ram, 8 * (B!P!PAddr(a) \div 8), 8)
  BY SameMemory, SameNumbers DEF B!RamEdge, B!dataAddr
<1>5. B!mem_read' = B!LD(q_a', exmem.Detail, a % 8)
  BY <1>2, <1>3 DEF B!mem_read, B!memdata_mem
<1> HIDE DEF a
<1>6. (q_a' \div 2^(BYTE * (a % 8))) % 2^(BYTE * n) = B!P!Raw(ram, a, n)
  <2> HIDE DEF n
  <2>1. (B!P!Raw(ram, 8 * (B!P!PAddr(a) \div 8), 8) \div B!P!Weight(BYTE, a % 8)) % B!P!Weight(BYTE, n)
           = B!P!Raw(ram, a, n)
    BY <1>1, B!P!LaneRead, PowersOfTwo, MemShape DEF BoardInv, BoardAssumption
  <2> QED
    BY <1>4, <2>1 DEF B!P!Weight
<1>7. B!LD(q_a', exmem.Detail, a % 8) = B!P!MemRead(ram, a, exmem.Detail)
  BY <1>6, SameExtensions DEF B!LD, B!P!MemRead
<1> QED
  BY <1>5, <1>7 DEF a

\* The wires of the board keep their values when its registers do.
LEMMA Stutter == UNCHANGED B!boardVars => UNCHANGED B!P!vars
<1> SUFFICES ASSUME UNCHANGED B!boardVars PROVE UNCHANGED B!P!vars
  OBVIOUS
<1>1. B!mem_read' = B!mem_read /\ B!fetch_illegal' = B!fetch_illegal
  BY DEF B!boardVars, B!mem_read, B!memdata_mem, B!fetch_illegal
<1> QED
  BY <1>1 DEF B!boardVars, B!P!vars, B!P!cpuVars, B!P!memVars, B!P!fetchVars, B!P!stageVars

\* At power-on they are 0, as the output registers of the simulated memory.
LEMMA InitBoardInv == BoardAssumption /\ B!Init => BoardInv
<1> SUFFICES ASSUME BoardAssumption, B!Init PROVE BoardInv
  OBVIOUS
<1>1. B!fetch_illegal = 0 /\ B!memdata_mem = 0 /\ mem1mem2.ALU_Result % 8 = 0
  BY DEF B!Init, B!fetch_illegal, B!memdata_mem, B!P!ZeroExmem, B!P!ZeroMem1mem2
<1>2. B!mem_read = 0
  <2>1. 2^(BYTE * 0) \in Nat \ {0} /\ 2^(BYTE * 1) \in Nat \ {0} /\ 2^(BYTE * 1 - 1) \in Nat \ {0}
    BY PowersOfTwo, MemShape
  <2>2. \A a, b \in Nat \ {0} : (0 \div a) % b = 0
    OBVIOUS
  <2>3. B!LD(0, 0, 0) = B!P!Sext(BYTE * 1, 0)
    BY <2>1, <2>2, SameExtensions DEF B!LD, B!P!Bytes
  <2>4. B!P!Sext(BYTE * 1, 0) = 0
    BY <2>1 DEF B!P!Sext
  <2> QED
    BY <1>1, <2>3, <2>4 DEF B!mem_read, B!Init
<1>3. B!P!Init
  BY <1>1, <1>2, SameNumbers DEF B!Init, B!P!Init, B!P!CpuInit
<1>4. B!P!TypeOK /\ B!P!RomOK
  BY <1>3, B!P!InitTypes, PowersOfTwo, MemShape DEF BoardAssumption
<1>5. B!P!BypassInv
  BY <1>3, B!P!InitBypass, PowersOfTwo, MemShape DEF BoardAssumption
<1>6. B!P!SlotsHoldTheirInst
  BY <1>3, B!P!InitSlots, PowersOfTwo, MemShape DEF BoardAssumption
<1>7. B!P!SlotsHold(FALSE)
  BY <1>6, B!P!SlotsAgree, PowersOfTwo, MemShape DEF BoardAssumption
<1>8. q_a \in B!P!Word /\ wid \in 0 .. 7
  BY B!P!WordSizes, PowersOfTwo, MemShape DEF BoardAssumption, B!P!Word, B!Init
<1> QED
  BY <1>4, <1>5, <1>7, <1>8 DEF BoardInv

\* The board has the invariant of the pipeline and its own.
LEMMA NextBoardInv == BoardInv /\ [B!Next]_B!boardVars => BoardInv'
<1>1. ASSUME BoardInv, B!Next PROVE BoardInv'
  <2>1. /\ B!RamEdge /\ B!WidEdge /\ B!P!PcEdge /\ B!P!FetchEdge /\ B!P!StageEdge /\ B!P!GprEdge
        /\ B!P!CommitEdge /\ B!P!ExceptionEdge /\ B!P!MonitorEdge /\ B!P!Pin /\ rom' = rom
    BY <1>1 DEF B!Next
  <2>2. BoardAssumption /\ B!P!TypeOK /\ B!P!RomOK /\ B!P!BypassInv /\ B!P!SlotsHold(FALSE)
    BY <1>1 DEF BoardInv
  <2>3. q_b' \in B!P!Instructions /\ B!P!HasRegs(q_b') /\ B!P!Holds(FALSE, pc, q_b')
    BY <1>1, <2>1, FetchAnswer
  <2>4. q_a' \in B!P!Word /\ ram' \in B!P!Contents
    BY <1>1, <2>1, RamRange
  <2>5. wid' \in 0 .. 7
    BY <2>1, <2>2 DEF B!WidEdge, B!P!TypeOK
  <2>6. B!mem_read' \in B!P!Word
    <3>1. 0 \in B!P!Word /\ \A x \in B!P!Word : x % 8 \in 0 .. 7
      BY <2>2, B!P!WordSizes, PowersOfTwo, MemShape DEF BoardAssumption, B!P!Word
    <3>2. mem1mem2'.ALU_Result \in B!P!Word
      BY <2>1, <2>2, <3>1 DEF B!P!StageEdge, B!P!mem1mem2_in, B!P!ZeroMem1mem2, B!P!TypeOK
    <3>3. B!memdata_mem' \in B!P!Word
      BY <2>4, <3>1 DEF B!memdata_mem
    <3>4. B!LD(B!memdata_mem', wid', mem1mem2'.ALU_Result % 8) \in B!P!Word
      BY <2>2, <3>1, <3>2, <3>3, LoadRange
    <3> QED
      BY <3>4 DEF B!mem_read
  <2>7. B!fetch_illegal' \in B!P!BitSet
    BY DEF B!fetch_illegal, B!P!BitSet
  <2>8. B!P!TypeOK' /\ B!P!RomOK'
    BY <2>1, <2>2, <2>3, <2>4, <2>6, <2>7, B!P!TypesStep, PowersOfTwo, MemShape DEF BoardAssumption
  <2>9. B!P!ControlOK'
    BY <2>1, <2>2, <2>3, B!P!ControlStep, PowersOfTwo, MemShape DEF BoardAssumption, B!P!BypassInv
  <2>10. B!P!BypassInv'
    BY <2>1, <2>2, <2>9, B!P!BypassStep, PowersOfTwo, MemShape DEF BoardAssumption
  <2>11. B!P!SlotsHold(FALSE)'
    BY <2>1, <2>2, <2>3, B!P!SlotsStep, PowersOfTwo, MemShape DEF BoardAssumption, B!P!BypassInv
  <2> QED
    BY <2>2, <2>4, <2>5, <2>8, <2>10, <2>11 DEF BoardInv, BoardAssumption
<1>2. ASSUME BoardInv, UNCHANGED B!boardVars PROVE BoardInv'
  <2>1. UNCHANGED B!P!vars
    BY <1>2, Stutter
  <2>2. BoardAssumption /\ B!P!TypeOK /\ B!P!RomOK /\ B!P!BypassInv /\ B!P!SlotsHold(FALSE)
    BY <1>2 DEF BoardInv
  <2>3. B!P!TypeOK' /\ B!P!RomOK'
    BY <2>1, <2>2, B!P!NextTypes, PowersOfTwo, MemShape DEF BoardAssumption
  <2>4. B!P!BypassInv'
    BY <2>1, <2>2, B!P!NextBypass, PowersOfTwo, MemShape DEF BoardAssumption
  <2>5. B!P!SlotsHold(FALSE)'
    BY <2>1, <2>2, B!P!StutterSlots, PowersOfTwo, MemShape DEF BoardAssumption
  <2>6. q_a' \in B!P!Word /\ wid' \in 0 .. 7
    BY <1>2 DEF BoardInv, B!boardVars
  <2> QED
    BY <2>2, <2>3, <2>4, <2>5, <2>6 DEF BoardInv, BoardAssumption
<1> QED
  BY <1>1, <1>2

----------------------------------------------------------------------------
(* The board implements module Isa                                         *)

\* Its machine and the one of the pipeline differ in the memory.
LEMMA SameIsa ==
    /\ B!I!inst = B!P!ISA!inst /\ B!I!Rs1 = B!P!ISA!Rs1 /\ B!I!Rs2 = B!P!ISA!Rs2
    /\ B!I!Address = B!P!ISA!Address /\ B!I!Target = B!P!ISA!Target
    /\ B!I!Executable <=> B!P!ISA!Executable
    /\ B!I!inst.opcode # "Load" => B!I!Result = B!P!ISA!Result
<1>1. /\ B!I!inst = B!P!ISA!inst /\ B!I!Rs1 = B!P!ISA!Rs1 /\ B!I!Rs2 = B!P!ISA!Rs2
      /\ \A a, b : B!I!Add(a, b) = B!P!ISA!Add(a, b) /\ B!I!Sum(a, b) = B!P!ISA!Sum(a, b)
  BY SameNumbers, SameAlu
  DEF B!I!inst, B!P!ISA!inst, B!I!Rs1, B!P!ISA!Rs1, B!I!Rs2, B!P!ISA!Rs2, B!I!Operand, B!P!ISA!Operand,
      B!I!Add, B!P!ISA!Add, B!I!Sum, B!P!ISA!Sum
<1>2. B!I!Address = B!P!ISA!Address
  BY <1>1 DEF B!I!Address, B!P!ISA!Address
<1>3. B!I!Executable <=> B!P!ISA!Executable
  BY <1>1, <1>2, SameNumbers, SameDecoder, SameMemory DEF B!I!Executable, B!P!ISA!Executable
<1>4. B!I!inst.opcode # "Load" => B!I!Result = B!P!ISA!Result
  BY <1>1, SameDecoder, SameAlu DEF B!I!Result, B!P!ISA!Result
<1>5. B!I!Taken <=> B!P!ISA!Taken
  <2>1. \A a, b : B!I!SignedLess(a, b) <=> B!P!ISA!SignedLess(a, b)
    BY SameExtensions DEF B!I!SignedLess, B!P!ISA!SignedLess
  <2> QED
    BY <1>1, <2>1 DEF B!I!Taken, B!P!ISA!Taken
<1>6. B!I!Target = B!P!ISA!Target
  BY <1>1, <1>5 DEF B!I!Target, B!P!ISA!Target, B!I!JalrTarget, B!P!ISA!JalrTarget
<1> QED
  BY <1>1, <1>2, <1>3, <1>4, <1>6

\* The store that leaves EX writes the RAM as the sequential machine its memory.
LEMMA RamStep ==
    ASSUME BoardInv, BoardInv', B!P!Running, B!P!StageEdge, B!P!GprEdge, B!RamEdge
    PROVE  B!ram_written' = IF B!I!inst.opcode = "Store"
                          THEN B!MemWrite(B!ram_written, B!I!Address, B!I!inst.funct3, B!I!Rs2)
                          ELSE B!ram_written
<1>1. /\ B!P!IsDecoded(B!P!ISA!inst) /\ B!P!ISA!inst = B!P!Fetch(idex.PC)
      /\ B!P!ISA!inst.opcode \in B!P!Opcodes \ {"Env"}
  BY B!P!SameInst, PowersOfTwo, MemShape DEF BoardInv, BoardAssumption
<1>2. "MWRITE" \in idex.Enable <=> B!P!ISA!inst.opcode = "Store"
  BY <1>1 DEF B!P!IsDecoded, B!P!Enables, B!P!EnableSignals
<1>3. rst = 0 /\ B!P!BypassInv /\ ram' = B!ram_written
  BY DEF B!P!Running, B!RamEdge
<1>4. /\ (exmem'.Mem_REn = 0 /\ exmem'.Mem_WEn = 1) <=> "MWRITE" \in idex.Enable
      /\ exmem'.ALU_Result = B!P!alu_C /\ exmem'.Detail = idex.Detail
  BY <1>3, B!P!StoreMovesOn, PowersOfTwo, MemShape DEF BoardInv, BoardAssumption
<1>5. CASE B!P!ISA!inst.opcode # "Store"
  BY <1>2, <1>3, <1>4, <1>5, SameIsa DEF B!ram_written
<1>6. CASE B!P!ISA!inst.opcode = "Store"
  <2>1. B!P!alu_C = B!P!ISA!Address
    BY <1>6, B!P!SameAddress, PowersOfTwo, MemShape DEF BoardInv, BoardAssumption
  <2>2. B!P!StoreAligned(B!P!alu_C, idex.Detail)
    BY <1>1, <1>6 DEF B!P!Running, B!P!Trap, B!P!StoreUnaligned, B!P!IsDecoded
  <2>3. StoreIsAligned'
    BY <1>4, <2>2 DEF StoreIsAligned, B!P!StoreAligned, B!P!PAddr, B!P!Bytes
  <2>4. SameLanes'
    BY <2>3, AlignedStore, PTL
  <2>5. B!P!memwrite_mem1' = B!P!ISA!Rs2
    BY <1>2, <1>6, B!P!SameStoreData, PowersOfTwo, MemShape DEF BoardInv, BoardAssumption
  <2>6. B!P!AbsMem' = B!P!MemWrite(ram', B!P!alu_C, idex.Detail, B!P!memwrite_mem1')
    BY <1>2, <1>3, <1>6, B!P!MemStep, PowersOfTwo, MemShape DEF BoardInv, BoardAssumption
  <2> QED
    BY <1>1, <1>3, <1>6, <2>1, <2>4, <2>5, <2>6, SameIsa, SameMemory
    DEF SameLanes, B!P!IsDecoded
<1> QED
  BY <1>5, <1>6

\* One edge has the effect of the instruction in EX.
LEMMA BoardEffect ==
    ASSUME BoardInv, BoardInv', B!P!Running, B!P!Delivers, B!P!StageEdge, B!P!GprEdge, B!RamEdge
    PROVE  B!I!Effect
<1>1. /\ B!P!IsDecoded(B!P!ISA!inst) /\ B!P!ISA!inst = B!P!Fetch(idex.PC)
      /\ B!P!ISA!inst.opcode \in B!P!Opcodes \ {"Env"}
  BY B!P!SameInst, PowersOfTwo, MemShape DEF BoardInv, BoardAssumption
<1>2. B!I!Executable
  BY B!P!Executes, SameIsa, PowersOfTwo, MemShape DEF BoardInv, BoardAssumption
<1>3. B!P!AbsRegs' = [r \in Regs |-> IF r # 0 /\ "RD" \in idex.Enable /\ r = idex.RD
                                  THEN B!P!ExValue(ram') ELSE B!P!AbsRegs[r]]
  BY B!P!RegsStep, PowersOfTwo, MemShape DEF BoardInv, BoardAssumption, B!P!Running
<1>4. "RD" \in idex.Enable <=> B!I!inst.opcode \in B!WritesRd
  BY <1>1, SameIsa, SameNumbers DEF B!P!IsDecoded, B!P!Enables, B!P!EnableSignals
<1>5. idex.RD = B!I!inst.rd
  BY <1>1, SameIsa DEF B!P!IsDecoded
<1>6. ASSUME B!I!inst.opcode \in B!WritesRd, B!I!inst.rd # 0
      PROVE  B!P!ExValue(ram') = B!I!Result
  <2>1. "MREAD" \in idex.Enable <=> B!I!inst.opcode = "Load"
    BY <1>1, SameIsa DEF B!P!IsDecoded, B!P!Enables, B!P!EnableSignals
  <2>2. CASE B!I!inst.opcode = "Load"
    <3>1. B!P!alu_C = B!I!Address
      BY <2>2, SameIsa, B!P!SameAddress, PowersOfTwo, MemShape DEF BoardInv, BoardAssumption
    <3>2. B!P!ExValue(ram') = B!MemRead(B!ram_written, B!I!Address, B!I!inst.funct3)
      BY <1>1, <2>1, <2>2, <3>1, SameIsa, SameMemory DEF B!P!ExValue, B!P!IsDecoded, B!RamEdge
    <3> QED
      BY <2>2, <3>2 DEF B!I!Result
  <2>3. CASE B!I!inst.opcode # "Load"
    <3>1. B!P!ExValue(ram') = B!P!ExValue(B!P!AbsMem)
      BY <2>1, <2>3 DEF B!P!ExValue
    <3>2. B!P!ExValue(B!P!AbsMem) = B!P!ISA!Result
      BY <1>6, SameIsa, SameNumbers, B!P!SameResult, PowersOfTwo, MemShape
      DEF BoardInv, BoardAssumption
    <3> QED
      BY <2>3, <3>1, <3>2, SameIsa
  <2> QED
    BY <2>2, <2>3
<1>7. B!P!AbsRegs' = IF B!I!inst.opcode \in B!WritesRd /\ B!I!inst.rd # 0
                   THEN [B!P!AbsRegs EXCEPT ![B!I!inst.rd] = B!I!Result] ELSE B!P!AbsRegs
  <2>1. B!P!AbsRegs = [r \in Regs |-> B!P!AbsRegs[r]]
    BY DEF B!P!AbsRegs
  <2> QED
    BY <1>3, <1>4, <1>5, <1>6, <2>1
<1> QED
  BY <1>2, <1>7, RamStep DEF B!I!Effect

\* Every edge is a step of the sequential machine, or none.
LEMMA BoardStep ==
    ASSUME BoardInv, BoardInv', B!Next
    PROVE  B!IsaStep
<1>1. /\ B!RamEdge /\ B!WidEdge /\ B!P!PcEdge /\ B!P!FetchEdge /\ B!P!StageEdge /\ B!P!GprEdge
  BY DEF B!Next
<1>2. rst \in {0, 1} /\ idex.enable \in {0, 1}
  BY DEF BoardInv, B!P!BypassInv, B!P!ControlOK, B!P!BitSet
<1>3. CASE B!BoardFault = "data"
  BY <1>3 DEF B!IsaStep, B!I!Next
<1>4. CASE B!BoardFault # "data"
  <2>1. ~ B!LostLoad /\ ~ B!CrossingLoad /\ B!P!Fault # "data"
    BY <1>4 DEF B!BoardFault
  <2>2. ~ B!P!NoPromise
    BY <2>1 DEF B!P!Fault
  <2>3. rst = 0 /\ ~ B!P!Ghost
    BY <1>2, <2>2 DEF B!P!NoPromise
  <2>4. B!P!Delivers
    BY <1>1, <2>1, <2>3, LoadDelivers DEF B!P!Delivers
  <2>5. CASE idex.enable = 0
    <3>1. idex.Enable = {} /\ ~ B!P!flush_if
      BY <2>3, <2>5 DEF B!P!Ghost, B!P!flush_if, B!P!flush_id, B!P!prediction_failed
    <3>2. B!P!AbsPC' = B!P!AbsPC
      <4>1. B!P!AbsPC' = B!P!NextInEx
        BY <1>1, <2>3, <3>1, B!P!FrontStep, PowersOfTwo, MemShape
        DEF BoardInv, BoardAssumption, B!P!BypassInv
      <4> QED
        BY <2>5, <4>1 DEF B!P!AbsPC
    <3>3. B!P!AbsRegs' = B!P!AbsRegs
      BY <1>1, <2>3, <2>4, <3>1, B!P!EmptyStep, PowersOfTwo, MemShape DEF BoardInv, BoardAssumption
    <3>4. ~ (exmem'.Mem_REn = 0 /\ exmem'.Mem_WEn = 1)
      BY <1>1, <2>3, <3>1, B!P!StoreMovesOn, PowersOfTwo, MemShape DEF BoardInv, BoardAssumption
    <3>5. B!ram_written' = B!ram_written
      BY <1>1, <3>4 DEF B!ram_written, B!RamEdge
    <3> QED
      BY <3>2, <3>3, <3>5 DEF B!IsaStep
  <2>6. CASE idex.enable = 1
    <3>1. B!P!Running
      BY <2>2, <2>3, <2>6 DEF B!P!Running, B!P!NoPromise, BoardInv
    <3>2. B!I!Effect
      BY <1>1, <2>4, <3>1, BoardEffect
    <3>3. CASE B!P!LostRedirect \/ B!P!FrontFlush \/ B!P!OutOfOrder
      <4>1. B!P!Fault = "control"
        BY <2>2, <2>6, <3>3 DEF B!P!Fault, B!P!EffectOnly
      <4>2. B!BoardFault = "control"
        BY <2>1, <4>1 DEF B!BoardFault
      <4> QED
        BY <3>2, <4>2 DEF B!I!Next, B!IsaStep
    <3>4. CASE ~ (B!P!LostRedirect \/ B!P!FrontFlush \/ B!P!OutOfOrder)
      <4>1. B!P!AbsPC' = B!P!ISA!Target
        BY <1>1, <3>1, <3>4, B!P!TargetStep, PowersOfTwo, MemShape DEF BoardInv, BoardAssumption
      <4> QED
        BY <3>2, <4>1, SameIsa DEF B!I!Next, B!I!Execute, B!IsaStep
    <3> QED
      BY <3>3, <3>4
  <2> QED
    BY <1>2, <2>5, <2>6
<1> QED
  BY <1>3, <1>4

\* The RAM of the board promises nothing at power-on.
LEMMA InitBoardIsa == B!Init => B!I!Init
  BY DEF B!Init, B!I!Init, B!BoardFault, B!P!Fault, B!P!NoPromise

\* A load with another one behind it is answered.
LEMMA PairsDeliver ==
    ASSUME BoardInv, B!Next
    PROVE  B!PairDelivers
<1>1. B!RamEdge /\ B!WidEdge /\ B!P!StageEdge
  BY DEF B!Next
<1> QED
  BY <1>1, LoadDelivers, SameMemory DEF B!PairDelivers, B!DeliversInMem2

----------------------------------------------------------------------------
(* The board in a behaviour of its own                                     *)

\* The board is built and powered on as the simulation is.
LEMMA BoardHypothesis == BoardAssumption
<1>1. /\ B!P!Word = Word /\ B!P!PAddrs = PAddrs /\ B!P!CodeAddrs = CodeAddrs
      /\ B!P!Instructions = Instructions /\ \A a : B!P!PAddr(a) = PAddr(a)
  BY DEF Word, B!P!Word, WORDS, B!P!WORDS, PAddrs, B!P!PAddrs, PAddr, B!P!PAddr, CodeAddrs,
         B!P!CodeAddrs, Instructions, B!P!Instructions, Opcodes, B!P!Opcodes
<1> QED
  BY <1>1, CpuAssumption, PowerOnAssumption DEF BoardAssumption

\* On the board its invariant holds.
OnBoardInv == OnBoard => BoardInv

\* A session never becomes a run on the board.
LEMMA SessionsStay ==
    ASSUME ~ OnBoard, SessionNext PROVE ~ OnBoard'
  BY DEF OnBoard, SessionNext, HNext, SdbNext, PowerOn, Cycle, Cmd_print, Cmd_help, Cmd_pipe, Cmd_c,
         Cmd_si, Cmd_q, Cmd_b, Cmd_w, Cmd_wreg, Cmd_wb, AtPrompt, Call, AfterExec

\* A board that keeps its registers makes no step.
LEMMA BoardStays == UNCHANGED bothVars => UNCHANGED B!boardVars /\ OnBoard' = OnBoard
  BY DEF bothVars, sdbVars, vars, cpuVars, memVars, fetchVars, stageVars, fpgaVars,
         B!boardVars, OnBoard

\* The board's invariant holds from power-on.
LEMMA InitOnBoard == SessionInit \/ BoardInit => OnBoardInv
<1>1. SessionInit => ~ OnBoard
  BY DEF SessionInit, HInit, SdbInit, OnBoard
<1>2. BoardInit => B!Init
  BY DEF BoardInit
<1>3. B!Init => BoardInv
  BY BoardHypothesis, InitBoardInv, PowersOfTwo, MemShape
<1> QED
  BY <1>1, <1>2, <1>3 DEF OnBoardInv

\* Every edge of the board keeps it.
LEMMA NextOnBoard ==
    OnBoardInv /\ [SessionNext \/ BoardNext]_bothVars => OnBoardInv'
<1> SUFFICES ASSUME OnBoardInv, [SessionNext \/ BoardNext]_bothVars PROVE OnBoardInv'
  OBVIOUS
<1>1. BoardInv /\ [B!Next]_B!boardVars => BoardInv'
  BY NextBoardInv, PowersOfTwo, MemShape
<1>2. CASE SessionNext
  BY <1>2, SessionsStay DEF OnBoardInv, SessionNext
<1>3. CASE BoardNext
  BY <1>1, <1>3 DEF OnBoardInv, BoardNext, OnBoard
<1>4. CASE UNCHANGED bothVars
  BY <1>1, <1>4, BoardStays DEF OnBoardInv
<1> QED
  BY <1>2, <1>3, <1>4

\* The board executes every program as the one-instruction-at-a-time machine
\* does, but for the two faults of its memory (FPGA/resource/MemControl.sv and
\* LD.sv around a copy of the pipeline of vsrc).
THEOREM BoardCorrect == BothSpec => BoardImplementsIsa
<1>1. BothSpec => []OnBoardInv
  BY InitOnBoard, NextOnBoard, PTL DEF BothSpec
<1>2. SessionInit \/ BoardInit => (OnBoard => B!I!Init)
  <2>1. B!Init => B!I!Init
    BY InitBoardIsa, PowersOfTwo, MemShape
  <2> QED
    BY <2>1 DEF SessionInit, HInit, SdbInit, OnBoard, BoardInit
<1>3. OnBoardInv /\ OnBoardInv' /\ [SessionNext \/ BoardNext]_bothVars
        => [OnBoard => B!IsaStep]_bothVars
  <2> SUFFICES ASSUME OnBoardInv, OnBoardInv', BoardNext, OnBoard PROVE B!IsaStep
    BY DEF SessionNext
  <2>1. BoardInv /\ BoardInv' /\ B!Next
    BY DEF OnBoardInv, BoardNext, OnBoard, simVars
  <2> QED
    BY <2>1, BoardStep, PowersOfTwo, MemShape
<1> QED
  BY <1>1, <1>2, <1>3, PTL DEF BothSpec, BoardImplementsIsa

\* Whatever its width, its sign and its place in the doubleword, a load with
\* another one behind it delivers in MEM2 what the simulated memory would have
\* delivered (FPGA/resource/LD.sv).
THEOREM PairsOfLoads == BothSpec => LoadsInPairs
<1>1. BothSpec => []OnBoardInv
  BY InitOnBoard, NextOnBoard, PTL DEF BothSpec
<1>2. OnBoardInv /\ [SessionNext \/ BoardNext]_bothVars
        => [OnBoard => B!PairDelivers]_bothVars
  <2> SUFFICES ASSUME OnBoardInv, BoardNext, OnBoard PROVE B!PairDelivers
    BY DEF SessionNext
  <2> QED
    BY PairsDeliver, PowersOfTwo, MemShape DEF OnBoardInv, BoardNext
<1> QED
  BY <1>1, <1>2, PTL DEF BothSpec, LoadsInPairs
=============================================================================
