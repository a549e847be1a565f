-------------------------------- MODULE Sdb --------------------------------
(***************************************************************************)
(* The simulation driver and its debugger, csrc/src/cpu.cpp and            *)
(* csrc/src/sdb: a prompt that sets points and runs the clock, and the     *)
(* loop of cpu_exec that looks at the processor after every edge and       *)
(* returns to the prompt at a point.  The parsing of a command is left     *)
(* out: one that is not well formed changes nothing, like those that only  *)
(* print.                                                                  *)
(***************************************************************************)
EXTENDS Riscv64i

CONSTANTS BatchModes,   \* the values of is_batch_mode: -b on the command line
          Steps,        \* arguments of si
          Forever,      \* cpu_exec(-1), 2^32 - 1 in the source
          BreakAt,      \* arguments of b; 0 is the pc of an empty slot
          WatchAt,      \* addresses for w and wb
          WatchRegs,    \* registers for w
          Counts        \* word counts for wb

ASSUME SdbAssumption ==
    /\ BatchModes \subseteq BOOLEAN
    /\ Steps \subseteq Nat /\ Forever \in Nat \ {0} /\ Counts \subseteq Nat
    /\ 0 \notin BreakAt /\ WatchAt \subseteq Word /\ WatchRegs \subseteq Regs

VARIABLES is_batch_mode,
          cpu_break_points, cpu_watch_points, cpu_reg_watch_points,
          mode,         \* where main() is: "init", "prompt", "exec" or "exit"
          i, ii         \* cpu_exec: edges asked for, edges done

points  == <<cpu_break_points, cpu_watch_points, cpu_reg_watch_points>>
sdbVars == <<vars, is_batch_mode, points, mode, i, ii>>

----------------------------------------------------------------------------
(* cpu_exec                                                                *)

\* -1 for a width code that moves nothing.
memwid(detail) == IF detail = 7 THEN -1 ELSE Bytes(detail)

\* The three tests of the loop.  They read the pc of IF1, the access that is
\* about to happen in MEM1 and the write that is about to happen in WB.
\* Mutant: not in the shadow of a redirect, where its own target is fetched.
BreakHit_unkilled == pc \in cpu_break_points /\ flush_persistence = 0

BreakHit == pc \in cpu_break_points

\* Mutant: a store is reported only when it starts at the watched address.
WatchHit_first == /\ exmem.ALU_Result \in cpu_watch_points
                  /\ memwid(exmem.Detail) # -1
                  /\ exmem.Mem_WEn = 1 \/ exmem.Mem_REn = 1

WatchHit == /\ \E wp \in cpu_watch_points :
                  /\ wp >= exmem.ALU_Result
                  /\ wp < (exmem.ALU_Result + memwid(exmem.Detail)) % WORDS
            /\ memwid(exmem.Detail) # -1
            /\ exmem.Mem_WEn = 1 \/ exmem.Mem_REn = 1

\* Mutant: the write is looked for in MEM3, an edge before it is due.
RegHit_early == mem2mem3.RD_Addr \in cpu_reg_watch_points /\ mem2mem3.Reg_WEn = 1

RegHit == memwb.RD_Addr \in cpu_reg_watch_points /\ memwb.Reg_WEn = 1

Hit == BreakHit \/ WatchHit \/ RegHit

\* Where the caller of cpu_exec goes on: batch mode runs one c and returns.
AfterExec == IF is_batch_mode THEN "exit" ELSE "prompt"

\* A call of cpu_exec(n).
Call(n) == /\ i' = n /\ ii' = 0
           /\ mode' = IF n = 0 THEN AfterExec ELSE "exec"

\* Mutant: the points are looked at before the edge, not after it.
Cycle_before == /\ mode = "exec" /\ RunEdge /\ rst' = 0
                /\ ii' = ii + 1
                /\ mode' = IF Hit \/ ii' = i THEN AfterExec ELSE "exec"
                /\ UNCHANGED <<is_batch_mode, points, i>>

\* One pass of the loop: an edge, then the tests.
Cycle == /\ mode = "exec" /\ RunEdge /\ rst' = 0
         /\ ii' = ii + 1
         /\ UNCHANGED <<is_batch_mode, points, i>>
         /\ mode' = IF Hit' \/ ii' = i THEN AfterExec ELSE "exec"

----------------------------------------------------------------------------
(* The command loop                                                        *)

\* init_cpu resets the processor for one edge; sdb_mainloop follows.
PowerOn == /\ mode = "init" /\ ResetEdge /\ rst' = 0
           /\ UNCHANGED <<is_batch_mode, points>>
           /\ IF is_batch_mode THEN Call(Forever)
                               ELSE mode' = "prompt" /\ UNCHANGED <<i, ii>>

AtPrompt == mode = "prompt" /\ UNCHANGED <<vars, is_batch_mode>>

\* info, xm and xi: the registers and the memory are printed where they are.
Cmd_print == AtPrompt /\ UNCHANGED <<points, mode, i, ii>>

\* help, and a command that the table does not have.
Cmd_help == AtPrompt /\ UNCHANGED <<points, mode, i, ii>>

\* pipe and pipea: a slot is copied from the processor into the structure of
\* the driver, and printed from there.
Cmd_pipe == AtPrompt /\ UNCHANGED <<points, mode, i, ii>>

Cmd_c     == AtPrompt /\ Call(Forever) /\ UNCHANGED points
Cmd_si(n) == AtPrompt /\ Call(n) /\ UNCHANGED points
Cmd_q     == AtPrompt /\ mode' = "exit" /\ UNCHANGED <<points, i, ii>>

\* A point that is there already is refused: the sets stay as they are.
Cmd_b(a) ==
    /\ AtPrompt /\ cpu_break_points' = cpu_break_points \cup {a}
    /\ UNCHANGED <<cpu_watch_points, cpu_reg_watch_points, mode, i, ii>>

Cmd_w(a) ==
    /\ AtPrompt /\ cpu_watch_points' = cpu_watch_points \cup {a}
    /\ UNCHANGED <<cpu_break_points, cpu_reg_watch_points, mode, i, ii>>

Cmd_wreg(r) ==
    /\ AtPrompt /\ cpu_reg_watch_points' = cpu_reg_watch_points \cup {r}
    /\ UNCHANGED <<cpu_break_points, cpu_watch_points, mode, i, ii>>

\* The loop over the range starts at 1.
Cmd_wb(n, a) ==
    /\ AtPrompt
    /\ cpu_watch_points' = cpu_watch_points \cup {(a + 4 * k) % WORDS : k \in 1 .. n - 1}
    /\ UNCHANGED <<cpu_break_points, cpu_reg_watch_points, mode, i, ii>>

----------------------------------------------------------------------------
SdbInit == /\ Init
           /\ is_batch_mode \in BatchModes
           /\ cpu_break_points = {} /\ cpu_watch_points = {}
           /\ cpu_reg_watch_points = {}
           /\ mode = "init" /\ i = 0 /\ ii = 0

SdbNext == \/ PowerOn
           \/ Cycle
           \/ Cmd_print
           \/ Cmd_help
           \/ Cmd_pipe
           \/ Cmd_c
           \/ \E n \in Steps : Cmd_si(n)
           \/ Cmd_q
           \/ \E a \in BreakAt : Cmd_b(a)
           \/ \E a \in WatchAt : Cmd_w(a)
           \/ \E r \in WatchRegs : Cmd_wreg(r)
           \/ \E n \in Counts, a \in WatchAt : Cmd_wb(n, a)

SdbSpec == SdbInit /\ [][SdbNext]_sdbVars

----------------------------------------------------------------------------
(* What the points promise: the program does not get past one without a    *)
(* return to the prompt.  A command is "at its first edge" when ii = 0:    *)
(* what happens at that edge was announced by the stop before it, or was   *)
(* in the machine before the point was set.                                *)

\* The addresses in the front of the pipeline, from fetch to execution.
InFlight == {pc, pc_delayed, ifid.PC, idex.PC}

\* History: the break points whose next execution is still to be announced.
\* One is due when it is set and nothing in flight carries its address, and
\* settled when the loop stops with its address in the pc.
VARIABLE due

HInit == SdbInit /\ due = {}
HNext == /\ SdbNext
         /\ due' = LET set == due \cup (cpu_break_points \ InFlight)
                   IN  IF mode' = "prompt" THEN set \ {pc'} ELSE set
HSpec == HInit /\ [][HNext]_<<sdbVars, due>>

\* The break point is tested against the pc of IF1, three stages before the
\* instruction executes, with stalls, redirects and the monitor's hold in
\* between: no instruction at a break point executes unannounced, however often
\* the program comes back to it (cpu.cpp:62, "Check Break Point").
BreakBeforeExecute == idex.enable = 1 => idex.PC \notin due

\* The byte at address w is in the same part of the address space as the
\* access in MEM1, and the access does not end at its very end.
Reaches(w) == /\ w - PAddr(w) = exmem.ALU_Result - PAddr(exmem.ALU_Result)
              /\ exmem.ALU_Result + Bytes(exmem.Detail) < WORDS

\* A watched byte changes only at the first edge of a command, so the store
\* was announced while it was still in MEM1 (cpu.cpp:69-84).
WatchBeforeWrite ==
    [][\A w \in cpu_watch_points :
          mode = "exec" /\ Reaches(w) /\ ram'[PAddr(w)] # ram[PAddr(w)] => ii = 0]_sdbVars

\* A watched register changes only at the first edge of a command: the write
\* was announced while it was still in WB (cpu.cpp:86-94).
RegWatchBeforeWrite ==
    [][\A r \in cpu_reg_watch_points :
          mode = "exec" /\ gprs'[r] # gprs[r] => ii = 0]_sdbVars

\* What makes both hold: between the edges of one command nothing is hit.
NothingPending == mode = "exec" /\ ii # 0 => ~ Hit
=============================================================================
