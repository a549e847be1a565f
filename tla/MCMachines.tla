----------------------------- MODULE MCMachines -----------------------------
(***************************************************************************)
(* Processors, threads and address spaces on small machines, and the       *)
(* programs of am-kernels that run alone on one; a behaviour has one of    *)
(* them:                                                                   *)
(*   smp      x86 processors come up and are halted (X86Smp)               *)
(*   threads  thread-os on them (ThreadOs)                                 *)
(*   cte      traps of the x86 runtime, on one processor (X86Cte)          *)
(*   native   threads and spaces of the Linux runtime (NativeCte)          *)
(*   group    its processors, a group of processes (NativeSmp)             *)
(*   typing   the typing game (TypingGame)                                 *)
(*   box, towers, ant, snake                   four programs (Demos)       *)
(*   bf       the interpreter (Brainfuck)                                  *)
(*   digest   blocks of a digest (Sha256)                                  *)
(*   chain    the block chain (Blockchain)                                 *)
(* The variables of ThreadOs are themselves; the others share the          *)
(* variables s1 .. s11, and those of what is not there rest.               *)
(***************************************************************************)
EXTENDS ThreadOs

CONSTANTS CteThreads, UserSets, STACK,          \* X86Cte
          NativeThreads, UserThreads, Pages     \* NativeCte

\* The programs, as their modules name them: letters, balls, disks, ant and snake,
\* texts, messages, blocks.
CONSTANTS NCHAR, Letters, FPS, Period, Ground, Speeds, HitSpeed, MaxLate, COUNT,
          PegRows, BoardRows, BALLS, DISKS, Windows, AntSteps,
          Width, Height, MAX_LENGTH, Longest,
          Texts, CELL, TapeLength,
          BLOCK_SIZE, Lens, Updates,
          LAST, MAXBLOCK, Hashes, Zeros, NONCES, Times

VARIABLES part, s1, s2, s3, s4, s5, s6, s7, s8, s9, s10, s11

pool == <<s1, s2, s3, s4, s5, s6, s7, s8, s9, s10, s11>>
mcVars == <<part, vars, pool>>

Cte == INSTANCE CteProofs WITH
    NThreads <- CteThreads, users <- s1, mem <- s2, r <- s3, esp0 <- s4, inservice <- s5,
    armed <- s6, current <- s7, saved <- s8, left <- s9

Native == INSTANCE NativeProofs WITH
    NThreads <- NativeThreads,
    regs <- s1, vm_head <- s2, ksp <- s3, ev <- s4, mem <- s5, shown <- s6,
    spaces <- s7, pending <- s8, current <- s9, cp <- s10, left <- s11

Group == INSTANCE NativeSmp WITH
    ncpu <- s1, am_mpe_init <- s2, has_ioe <- s3, ioe_init_done <- s4, pc <- s5,
    cpuid <- s6, timer <- s7, sync_pipe <- s8, next <- s9, inits <- s10

Typing == INSTANCE TypingGame WITH
    chars <- s1, hit <- s2, miss <- s3, spawned <- s4, frame <- s5, late <- s6,
    stale <- s7, lastn <- s8, screen <- s9, at <- s10

\* Six programs of am-kernels, with what is proved of them: the same variables serve
\* each.
Kernels == INSTANCE KernelsProofs WITH
    N <- PegRows, H <- BoardRows,
    board <- s1, ball <- s2, next <- s3, step <- s4, over <- s5,
    t <- s1, screen <- s2, stack <- s3, hand <- s4,
    w <- s1, h <- s2, pix <- s3, x <- s4, y <- s5, dx <- s6, dy <- s7, left <- s8,
    plane <- s9, ox <- s10, oy <- s11,
    body <- s1, length <- s2, index <- s3, dead <- s4, dir <- s5, food <- s6,
    tile <- s7, turn <- s8,
    m_block <- s1, m_len <- s2, m_tot_len <- s3, transformed <- s4, fed <- s5,
    updates <- s6, at <- s7,
    vChain <- s1, nrBlock <- s2, mining <- s3, known <- s4

Bf == INSTANCE Brainfuck WITH
    Programs <- Texts,
    prog <- s1, s <- s2, pgm <- s3, j <- s4, tape <- s5, m <- s6, n <- s7, at <- s8

ASSUME MachinesAssumption ==
    Cte!CteAssumption /\ Native!NativeCteAssumption /\ Group!NativeSmpAssumption

ASSUME ProgramsAssumption ==
    /\ Typing!TypingAssumption /\ Kernels!GaltonAssumption /\ Kernels!HanoiAssumption
    /\ Kernels!AntAssumption /\ Kernels!SnakeAssumption /\ Bf!BfAssumption
    /\ Kernels!ShaAssumption /\ Kernels!ChainAssumption

----------------------------------------------------------------------------
(* What the programs are given                                             *)

\* Texts for the interpreter: all short ones, brackets in any order, and loops in
\* loops.
AllTexts ==
    UNION {[1 .. k -> {"[", "]", "+", "-", ">", "<"}] : k \in 1 .. 4}
    \cup UNION {[1 .. k -> {"[", "]", "x"}] : k \in 5 .. 6}
    \cup {<<"+", "+", "[", ">", "+", "+", "[", "-", ">", "+", ".", "<", "]", "<", "-", "]">>,
          <<"+", "[", "[", "-", "]", "+", "[", "-", ">", "]", "]", "<">>,
          <<"+", "[", "+", "[">>}

\* Screens for the ant.
AllWindows == {[w |-> 3, h |-> 3], [w |-> 5, h |-> 4], [w |-> 2, h |-> 4], [w |-> 7, h |-> 6]}

----------------------------------------------------------------------------
MCInit ==
    /\ Init
    /\ \/ /\ part \in {"smp", "threads"}
          /\ s1 = 0 /\ s2 = 0 /\ s3 = 0 /\ s4 = 0 /\ s5 = 0 /\ s6 = 0 /\ s7 = 0
          /\ s8 = 0 /\ s9 = 0 /\ s10 = 0 /\ s11 = 0
       \/ part = "cte" /\ ncpu = 1 /\ Cte!CteInit /\ s10 = 0 /\ s11 = 0
       \/ part = "native" /\ ncpu = 1 /\ Native!NativeInit
       \/ part = "group" /\ ncpu = 1 /\ Group!NSmpInit /\ s11 = 0
       \/ part = "typing" /\ ncpu = 1 /\ Typing!GameInit /\ s11 = 0
       \/ /\ part = "box" /\ ncpu = 1 /\ Kernels!GaltonInit
          /\ s6 = 0 /\ s7 = 0 /\ s8 = 0 /\ s9 = 0 /\ s10 = 0 /\ s11 = 0
       \/ /\ part = "towers" /\ ncpu = 1 /\ Kernels!HanoiInit
          /\ s5 = 0 /\ s6 = 0 /\ s7 = 0 /\ s8 = 0 /\ s9 = 0 /\ s10 = 0 /\ s11 = 0
       \/ part = "ant" /\ ncpu = 1 /\ Kernels!AntInit
       \/ /\ part = "snake" /\ ncpu = 1 /\ Kernels!SnakeInit
          /\ s9 = 0 /\ s10 = 0 /\ s11 = 0
       \/ part = "bf" /\ ncpu = 1 /\ Bf!BfInit /\ s9 = 0 /\ s10 = 0 /\ s11 = 0
       \/ /\ part = "digest" /\ ncpu = 1 /\ Kernels!ShaInit
          /\ s8 = 0 /\ s9 = 0 /\ s10 = 0 /\ s11 = 0
       \/ /\ part = "chain" /\ ncpu = 1 /\ Kernels!ChainInit
          /\ s5 = 0 /\ s6 = 0 /\ s7 = 0 /\ s8 = 0 /\ s9 = 0 /\ s10 = 0 /\ s11 = 0

\* History of part smp, in s1: the halts that were called.
Halts == s1' = s1 + IF Stopping' \subseteq Stopping THEN 0 ELSE 1

\* A step of one machine.
InSmp(A)     == /\ part = "smp" /\ A /\ Halts
                /\ UNCHANGED <<part, taskVars, s2, s3, s4, s5, s6, s7, s8, s9, s10, s11>>
InThreads(A) == part = "threads" /\ A /\ UNCHANGED <<part, pool>>
InCte(A)     == part = "cte" /\ A /\ UNCHANGED <<part, vars, s10, s11>>
InNative(A)  == part = "native" /\ A /\ UNCHANGED <<part, vars>>
InGroup(A)   == part = "group" /\ A /\ UNCHANGED <<part, vars, s11>>

\* A step of one program.
InTyping(A) == part = "typing" /\ A /\ UNCHANGED <<part, vars, s11>>
InBox(A)    == part = "box" /\ A /\ UNCHANGED <<part, vars, s6, s7, s8, s9, s10, s11>>
InDisks(A)  == part = "towers" /\ A /\ UNCHANGED <<part, vars, s5, s6, s7, s8, s9, s10, s11>>
InWalk(A)   == part = "ant" /\ A /\ UNCHANGED <<part, vars>>
InSnake(A)  == part = "snake" /\ A /\ UNCHANGED <<part, vars, s9, s10, s11>>
InBf(A)     == part = "bf" /\ A /\ UNCHANGED <<part, vars, s9, s10, s11>>
InDigest(A) == part = "digest" /\ A /\ UNCHANGED <<part, vars, s8, s9, s10, s11>>
InBlocks(A) == part = "chain" /\ A /\ UNCHANGED <<part, vars, s5, s6, s7, s8, s9, s10, s11>>

MCNext == \/ InSmp(SmpNext)
          \/ InThreads(Next)
          \/ InCte(Cte!CteNext)
          \/ InNative(Native!NativeNext)
          \/ InGroup(Group!NSmpNext)
          \/ InTyping(Typing!GameNext)
          \/ InBox(Kernels!GaltonNext)
          \/ InDisks(Kernels!HanoiNext)
          \/ InWalk(Kernels!AntNext)
          \/ InSnake(Kernels!SnakeNext)
          \/ InBf(Bf!BfNext)
          \/ InDigest(Kernels!ShaNext)
          \/ InBlocks(Kernels!ChainNext)

\* The fairness that the specification of each machine and program states.  A
\* behaviour has one of them, so that actions of several can share a condition.
MCFair ==
    /\ \A c \in Cpus : /\ WF_mcVars(\/ InSmp(Runs(c) \/ Stops(c))
                                    \/ InThreads(BootStep(c) \/ main(c) \/ Handles(c))
                                    \/ InGroup(Group!Joins(c)))
                       /\ WF_mcVars(InThreads(Trap(c)) \/ InGroup(Group!DoesIo(c)))
    /\ \A t \in Tasks : SF_mcVars(InThreads(\E c \in Cpus : stack[c] = t /\ Works(c)))
    /\ SF_mcVars(\/ InThreads(\E c \in Cpus : lock(c))
                 \/ InNative(Native!Deliver("TIMER") /\ Native!NativeNext))
    /\ WF_mcVars(\/ InGroup(Group!Starts) \/ InNative(Native!Kernel /\ Native!NativeNext)
                 \/ InBox(Kernels!GaltonNext) \/ InDisks(Kernels!HanoiNext)
                 \/ InTyping(Typing!frame_due))
    /\ WF_mcVars(InNative(Native!Program /\ Native!NativeNext) \/ InTyping(Typing!updated))
    /\ WF_mcVars(\/ InNative((\E va \in Pages : Native!Touch(va) \/ Native!OnPageFault(va))
                             /\ Native!NativeNext)
                 \/ InTyping(Typing!no_key))
    /\ WF_mcVars(\/ InNative(Native!Arrive("TIMER") /\ Native!NativeNext)
                 \/ InTyping(\E letter \in Letters, speed \in Speeds :
                                Typing!game_logic_update(letter, speed)))
    /\ WF_mcVars(InTyping(Typing!render)) /\ WF_mcVars(InTyping(Typing!nothing_new))

MCSpec == MCInit /\ [][MCNext]_mcVars /\ MCFair

----------------------------------------------------------------------------
(* What the machines promise, each for its part.  Of every machine:        *)
(* StackExclusive and PrintsAlone, of module ThreadOs, as they are.        *)

\* One processor at a time comes up, on the boot stack or in the set-up it
\* shares with the others, each enters the program once and never before the
\* kernel and the devices are there; a halted group is dead as a whole (start.S,
\* mpe.c of both runtimes).
ProcessorsStart == /\ OneAtATime /\ EntersOnce
                   /\ part = "group" => Group!OneMachine /\ Group!OneHalt

\* The thread that runs has its own address space and stack, sees its own pages
\* and no other, finds its argument, and its next trap will start at the end of
\* its own kernel stack, and come, for no interrupt is left without its
\* acknowledgement (cte.c, vme.c of both runtimes).
OwnSpace == /\ part = "cte" => /\ Cte!OwnSpaceAndStack /\ Cte!FindsArgument
                              /\ Cte!CanBeInterrupted
            /\ part = "native" => Native!OwnPagesAndStack

\* A thread goes on with all the registers, and the signal mask, that it had when
\* its trap came, once for each trap, whatever nested or ran in between
\* (trap32.S, native/cte.c).
ThreadsResume ==
    [][/\ part = "cte" => Cte!GoesOn
       /\ part = "native" => Native!GoesOn]_mcVars

\* Unless a processor halts, all of them come to run the program; a halt switches
\* the machine off, unless two processors halt: then each can send the other into
\* the loop (mpe.c, trm.c of both runtimes).
AllProcessorsRun ==
    []<>(/\ part = "smp" /\ s1 = 0 => AllIn
         /\ part = "smp" /\ s1 = 1 => ~power
         /\ part = "group" /\ s2 => Group!AllIn \/ Group!AllDead)

\* Every thread runs again and again, and the output never stops (thread-os.c,
\* native/cte.c).  Task t - 1 of thread-os goes with thread t of the other.
ThreadsRun ==
    /\ \A t \in 1 .. 2 : []<>(/\ part = "threads" => Running(t - 1)
                              /\ part = "native" => Native!Running(t))
    /\ []<>(/\ part = "threads" => Printed
            /\ part = "native" => Native!Running(3))

----------------------------------------------------------------------------
(* What the programs promise                                               *)

\* Two accounts of one thing agree at every moment: letters made and counted,
\* letters and picture, board and balls, screen and towers, blocks and message, array
\* and plane, tiles and ring, hash and predecessor (am-kernels).
AccountsAgree ==
    /\ part = "typing" => Typing!EachCountedOnce /\ Typing!NothingStale
    /\ part = "box" => Kernels!BallsConserved
    /\ part = "towers" => Kernels!DisksInOrder /\ Kernels!ScreenShowsTowers
    /\ part = "digest" => Kernels!BlocksOfStandard
    /\ part = "ant" => Kernels!WindowIsPlane
    /\ part = "snake" => Kernels!DrawnWhereItIs
    /\ part = "chain" => Kernels!ChainHolds

\* The list that is executed is the text, each bracket with the partner that it has
\* there (bf.c).
ListIsText == part = "bf" => Bf!BracketsMatch

\* A loop of the interpreter is entered and left by the value of its cell (bf.c); the
\* snake lives as a chain of its points and dies at the edge or on itself (snake.c).
TurnsObeyRules == [][/\ part = "bf" => Bf!LoopsWhileNotZero
                     /\ part = "snake" => Kernels!IsAChain]_mcVars

\* No program goes round for ever: every letter ends, a full box ends the game, the
\* disks arrive (game.c, galton.c, hanoi.c).
ProgramsGoOn ==
    \A k \in 1 .. 2 : []<>(/\ part = "typing" => Typing!Ended(k)
                           /\ part = "box" => Kernels!IsFull
                           /\ part = "towers" => Kernels!AllArrived)
=============================================================================
