------------------------------ MODULE CteProofs ------------------------------
(***************************************************************************)
(* Proofs about the traps of the x86 runtime, for any number of threads of *)
(* either kind on stacks of any size: a thread goes on with all the        *)
(* registers it had, in its own space, and can be interrupted again.       *)
(*                                                                         *)
(* The invariant CteInv says of every thread what the words of its stack   *)
(* are.  A thread is in its program or in one trap or, since interrupts    *)
(* are on in the stub and in the service of a call, in the trap of an      *)
(* interrupt that came in a trap (Level); a third cannot come, because no  *)
(* second interrupt comes before the EOI of the first and its handler      *)
(* leaves interrupts off.  Each trap has its frame right under the words   *)
(* that what it interrupted still needs (Tf, Top), and until it has        *)
(* returned the frame holds the registers it came at: at the stub those    *)
(* the processor pushed, later all of them (AtStub .. AtIret).  What a     *)
(* step writes is under the words of every level that remains (PushedWords,*)
(* LevelKept), and in no other thread's stack (Apart).                     *)
(***************************************************************************)
EXTENDS X86Cte, SequenceTheorems, TLAPS

Registers == [gpr : [Names -> Int], esp : Int, eip : Int, cs : Int, ds : Int,
              eflags : Int, cr3 : Int]

\* The vectors that a device raises; a handler leaves interrupts off.
Irqs == {T_IRQ0 + IRQ_TIMER, T_IRQ0 + IRQ_KBD}
IrqStubs == {STUB + v : v \in Irqs}

\* The words that the program or handler with registers g on t's stack still
\* needs begin here; its next trap frame is below.
Top(t, g) == IF g.cs = UCODE THEN End(t) ELSE g.esp
Tf(t, g) == Top(t, g) - (IF g.cs = UCODE THEN TF_SIZE ELSE TF_SIZE - 2)

\* g are registers of the program of thread t.
AtProgram(us, m, t, g) ==
    /\ g.eflags = 1
    /\ IF t \in us THEN g.eip = LOOP /\ g.cs = UCODE
       ELSE /\ g.cs = KCODE
            /\ \/ g.eip = LOOP /\ t = Main /\ g.esp = End(t)
               \/ g.eip = LOOP /\ t # Main /\ g.esp = End(t) - 2 /\ m[End(t) - 1] = Arg(t)
               \/ /\ g.eip = START /\ t # Main /\ g.esp = End(t)
                  /\ g.gpr["eax"] = Arg(t) /\ g.gpr["ebx"] = LOOP

\* What __am_iret pops last, and all of the context at c, are those of g.
Popped(m, c, g) ==
    /\ \A n \in Names : m[c + GPRs[n]] = g.gpr[n]
    /\ m[c + EIP] = g.eip /\ m[c + CS] = g.cs /\ m[c + EFLAGS] = g.eflags /\ m[c + ESP] = g.esp
Context(us, m, t, c, g) ==
    /\ Base(t) <= c /\ c + CONTEXT_SIZE <= Top(t, g)
    /\ Popped(m, c, g) /\ m[c + DS] = g.ds
    /\ t \in us => m[c + CR3] = Space(t) /\ m[c + ESP0] = End(t)

\* h are registers of the kernel in a trap that came at g: at its stub, in its
\* handler, in the service of a call, or on its way back.
UserOnly == {EX_PF, EX_SYSCALL}
AtStub(m, t, g, h, v) ==
    /\ h.eip = STUB + v /\ h.eflags = 1 /\ (v \in UserOnly => g.cs = UCODE)
    /\ h.esp = Tf(t, g) + TF_EIP - (IF v \in ERR THEN 1 ELSE 0)
    /\ m[Tf(t, g) + TF_EIP] = g.eip /\ m[Tf(t, g) + TF_CS] = g.cs
    /\ m[Tf(t, g) + TF_EFLAGS] = g.eflags
    /\ g.cs = UCODE => m[Tf(t, g) + TF_ESP] = g.esp
    /\ h.gpr = g.gpr /\ h.ds = g.ds
AtHandler(us, m, t, g, h) ==
    /\ h.eip = HANDLER /\ h.eflags = 0 /\ h.esp = Tf(t, g) - 2
    /\ m[Tf(t, g) - 1] = Tf(t, g) /\ Context(us, m, t, Tf(t, g), g)
    /\ m[Tf(t, g) + TF_IRQ] \in Vectors
    /\ m[Tf(t, g) + TF_IRQ] \in UserOnly => g.cs = UCODE
AtService(us, m, t, g, h) ==
    /\ h.eip = SERVICE /\ h.eflags = 1 /\ h.esp = Tf(t, g) - 2 /\ g.cs = UCODE
    /\ m[Tf(t, g) - 1] = Tf(t, g) /\ Context(us, m, t, Tf(t, g), g)
AtIret(m, t, g, h) ==
    /\ h.eip = IRET /\ h.eflags = 1 /\ h.esp = Tf(t, g) + 2 /\ g.cs = UCODE
    /\ Popped(m, Tf(t, g), g) /\ h.ds = g.ds
AtKernel(us, m, t, g, h) ==
    /\ h.cs = KCODE /\ Base(t) + 2 <= Tf(t, g)
    /\ \/ \E v \in Vectors : AtStub(m, t, g, h, v)
       \/ AtHandler(us, m, t, g, h) \/ AtService(us, m, t, g, h) \/ AtIret(m, t, g, h)

\* The trap of an interrupt may come in another one, once.
Nested(g, h) == g.eip \notin IrqStubs /\ h.eip \in IrqStubs \cup {HANDLER}

\* The n traps of thread t came at s[1] .. s[n], and h are its registers in the
\* last of them.
Level(us, m, t, s, n, h) ==
    \/ n = 0 /\ AtProgram(us, m, t, h)
    \/ n = 1 /\ AtProgram(us, m, t, s[1]) /\ AtKernel(us, m, t, s[1], h)
    \/ /\ n = 2 /\ AtProgram(us, m, t, s[1]) /\ AtKernel(us, m, t, s[1], s[2])
       /\ Nested(s[2], h) /\ AtKernel(us, m, t, s[2], h)

----------------------------------------------------------------------------
(* The invariant                                                           *)

CteTypes == /\ users \subseteq Threads
            /\ mem \in [0 .. End(Main) - 1 -> Int]
            /\ r \in Registers /\ esp0 \in Int
            /\ current \in Threads \cup {Main}
            /\ saved \in [Threads -> Int]
            /\ left \in [Threads \cup {Main} -> Seq(Registers)]

\* The thread that runs.
CurrentOK == /\ Level(users, mem, current, left[current], Len(left[current]), r)
             /\ current \in users => r.cr3 = Space(current) /\ esp0 = End(current)
             /\ armed /\ inservice = {v \in Irqs : r.eip = STUB + v}

\* A thread that waits, or was never started.
Waits(t) == \E n \in {Len(left[t])} :
               /\ n \in 1 .. 2 /\ left[t][n].eip \notin IrqStubs
               /\ Level(users, mem, t, left[t], n - 1, left[t][n])
               /\ Context(users, mem, t, saved[t], left[t][n])
WaitingOK == \A t \in Threads \ {current} : Waits(t)

CteInv == CteAssumption /\ CteTypes /\ CurrentOK /\ WaitingOK

----------------------------------------------------------------------------
(* Stacks                                                                  *)

Mine(t) == Base(t) .. End(t) - 1

\* Two memories, and two histories, that agree from i up to j, and up to the trap n.
Same(m, m2, i, j) == \A a \in i .. j - 1 : m2[a] = m[a]
SameOut(size, m, m2, i, j) == \A a \in 0 .. size - 1 : a \notin i .. j - 1 => m2[a] = m[a]
Under(m, top, words, len) == \A k \in 1 .. len : m[top - k] = words[k]
SameTraps(s, s2, n) == \A i \in 1 .. n : s2[i] = s[i]
Traps(s, n) == \A i \in 1 .. n : s[i] \in Registers

\* The words of a stack are in memory, and in no other stack.
LEMMA Stacks ==
    ASSUME CteAssumption, NEW t \in Threads \cup {Main}
    PROVE  /\ Base(t) \in Nat /\ End(t) = Base(t) + STACK /\ STACK \in Nat /\ STACK >= 24
           /\ \A a \in Mine(t) : a \in 0 .. End(Main) - 1 /\ StackOf(a) = t
<1>1. t \in Nat /\ Main \in Nat /\ t <= Main /\ STACK \in Nat /\ STACK >= 24
  BY DEF CteAssumption, Threads, Main
<1>2. /\ t * STACK \in Nat /\ (t + 1) * STACK = t * STACK + STACK
      /\ (t + 1) * STACK <= (Main + 1) * STACK
  BY <1>1
<1>3. ASSUME NEW a \in Mine(t) PROVE a \in 0 .. End(Main) - 1 /\ StackOf(a) = t
  <2>1. a \in Int /\ t * STACK <= a /\ a < (t + 1) * STACK
    BY <1>1, <1>2 DEF Mine, Base, End
  <2>2. a \div STACK = t
    BY <1>1, <2>1
  <2> QED
    BY <1>1, <1>2, <2>1, <2>2 DEF End, StackOf
<1> QED
  BY <1>1, <1>2, <1>3 DEF Base, End

\* The stack of Main is the last one.
LEMMA MainStack == CteAssumption => /\ End(Main) \in Nat
                                    /\ \A t \in Threads \cup {Main} : End(t) <= End(Main)
<1> SUFFICES ASSUME CteAssumption
             PROVE  End(Main) \in Nat /\ \A t \in Threads \cup {Main} : End(t) <= End(Main)
  OBVIOUS
<1>1. Main \in Nat /\ STACK \in Nat /\ Main \in Threads \cup {Main}
      /\ \A t \in Threads \cup {Main} : t \in Nat /\ t <= Main
  BY DEF CteAssumption, Threads, Main
<1>2. \A x, y \in Nat : x <= y => (x + 1) * STACK <= (y + 1) * STACK
  BY <1>1
<1>3. (Main + 1) * STACK \in Nat
  BY <1>1
<1> QED
  BY <1>1, <1>2, <1>3 DEF End

\* So every stack ends in memory.
LEMMA StackEnds ==
    ASSUME CteAssumption, NEW t \in Threads \cup {Main}
    PROVE  Base(t) \in Nat /\ End(t) \in Nat /\ End(t) <= End(Main)
<1>1. Base(t) \in Nat /\ End(t) = Base(t) + STACK /\ STACK \in Nat
  BY Stacks
<1>2. End(t) <= End(Main)
  BY MainStack
<1> QED
  BY <1>1, <1>2

\* The names of the registers and their offsets.
LEMMA Offsets ==
    /\ Names = {"eax", "ebx", "ecx", "edx", "esi", "edi", "ebp"}
    /\ \A n \in Names : GPRs[n] \in {2, 3, 4, 5, 7, 8, 9}
    /\ GPRs["eax"] = 2 /\ GPRs["ebx"] = 3 /\ GPRs["ecx"] = 4 /\ GPRs["edx"] = 5
    /\ GPRs["esi"] = 7 /\ GPRs["edi"] = 8 /\ GPRs["ebp"] = 9
  BY DEF Names, GPRs

\* What a program computes are integers.
LEMMA Fills == \A t \in Nat : Fill(t) \in [Names -> Int]
<1>1. \A n \in Names : GPRs[n] \in Int
  BY Offsets
<1> QED
  BY <1>1 DEF Fill

\* Registers of a program, and of the kernel in a trap that came at g, point into
\* the stack; those of the kernel below what is still needed of g.
LEMMA ProgramBounds ==
    ASSUME CteAssumption, NEW us, NEW t \in Threads \cup {Main}, NEW m, NEW g \in Registers,
           AtProgram(us, m, t, g)
    PROVE  Top(t, g) \in Int /\ Base(t) <= Top(t, g) /\ Top(t, g) <= End(t)
  BY Stacks DEF AtProgram, Top, Registers, UCODE, KCODE

\* In a trap that came at g the kernel keeps the words from its stack pointer on,
\* and its trap frame is below those g needs.
LEMMA KernelBounds ==
    ASSUME CteAssumption, NEW us, NEW t \in Threads \cup {Main}, NEW m, NEW g \in Registers,
           NEW h \in Registers, AtKernel(us, m, t, g, h), Top(t, g) \in Int, Top(t, g) <= End(t)
    PROVE  /\ Tf(t, g) \in Int /\ Base(t) + 2 <= Tf(t, g) /\ Tf(t, g) + 20 <= Top(t, g)
           /\ Top(t, h) \in Int /\ Top(t, h) = h.esp
           /\ Base(t) <= Top(t, h) /\ Top(t, h) <= Tf(t, g) + TF_EIP /\ Top(t, h) <= End(t)
  BY Stacks DEF AtKernel, AtStub, AtHandler, AtService, AtIret, Top, Tf, Registers, TF_SIZE, TF_EIP,
                UCODE, KCODE

\* The registers of a level, and those of the levels it is in.
LEMMA LevelBounds ==
    ASSUME CteAssumption, NEW us, NEW t \in Threads \cup {Main}, NEW m, NEW s,
           NEW n \in 0 .. 2, NEW h \in Registers, Traps(s, n), Level(us, m, t, s, n, h)
    PROVE  /\ Top(t, h) \in Int /\ Base(t) <= Top(t, h) /\ Top(t, h) <= End(t)
           /\ \A i \in 1 .. n : Top(t, s[i]) \in Int /\ Top(t, s[i]) <= End(t)
<1> USE DEF Traps
<1>1. CASE n = 0
  BY <1>1, ProgramBounds DEF Level
<1>2. CASE n = 1
  <2>1. AtProgram(us, m, t, s[1]) /\ AtKernel(us, m, t, s[1], h) /\ s[1] \in Registers
    BY <1>2 DEF Level
  <2>2. Top(t, s[1]) \in Int /\ Top(t, s[1]) <= End(t)
    BY <2>1, ProgramBounds
  <2> QED
    BY <1>2, <2>1, <2>2, KernelBounds
<1>3. CASE n = 2
  <2>1. /\ AtProgram(us, m, t, s[1]) /\ AtKernel(us, m, t, s[1], s[2]) /\ AtKernel(us, m, t, s[2], h)
        /\ s[1] \in Registers /\ s[2] \in Registers
    BY <1>3 DEF Level
  <2>2. Top(t, s[1]) \in Int /\ Top(t, s[1]) <= End(t)
    BY <2>1, ProgramBounds
  <2>3. Top(t, s[2]) \in Int /\ Top(t, s[2]) <= End(t)
    BY <2>1, <2>2, KernelBounds
  <2> QED
    BY <1>3, <2>1, <2>2, <2>3, KernelBounds
<1> QED
  BY <1>1, <1>2, <1>3

\* A context stays what it is if its words do.
LEMMA ContextKept ==
    ASSUME CteAssumption, NEW us, NEW t \in Threads \cup {Main}, NEW m, NEW m2,
           NEW c \in Int, NEW g \in Registers, NEW g2 \in Registers, Visible(g2) = Visible(g),
           Context(us, m, t, c, g), Top(t, g) \in Int, Top(t, g) <= End(t),
           Same(m, m2, c, c + CONTEXT_SIZE)
    PROVE  Context(us, m2, t, c, g2)
<1>0. Base(t) \in Nat /\ End(t) = Base(t) + STACK /\ STACK \in Nat
  BY Stacks
<1>1. /\ g2.gpr = g.gpr /\ g2.eip = g.eip /\ g2.cs = g.cs /\ g2.eflags = g.eflags /\ g2.esp = g.esp
      /\ g2.ds = g.ds
  BY DEF Visible, Registers
<1>2. Base(t) <= c /\ c + CONTEXT_SIZE <= Top(t, g) /\ Top(t, g2) = Top(t, g)
  BY <1>1 DEF Context, Top
<1>3. \A k \in 0 .. 14 : m2[c + k] = m[c + k]
  BY <1>0, <1>2 DEF Same, CONTEXT_SIZE
<1>4. \A n \in Names : GPRs[n] \in 0 .. 14
  BY Offsets
<1> QED
  BY <1>1, <1>2, <1>3, <1>4 DEF Context, Popped, EIP, CS, EFLAGS, ESP, DS, CR3, ESP0

\* A level depends on the words above it, on the registers but for the address
\* space, and on the traps so far.
LEMMA ProgramKept ==
    ASSUME CteAssumption, NEW us, NEW t \in Threads \cup {Main}, NEW m, NEW m2,
           NEW g \in Registers, NEW g2 \in Registers, Visible(g2) = Visible(g), AtProgram(us, m, t, g),
           Same(m, m2, Top(t, g), End(t))
    PROVE  AtProgram(us, m2, t, g2)
<1>0. Base(t) \in Nat /\ End(t) = Base(t) + STACK /\ STACK \in Nat /\ STACK >= 24
  BY Stacks
<1>1. g2.gpr = g.gpr /\ g2.eip = g.eip /\ g2.cs = g.cs /\ g2.eflags = g.eflags /\ g2.esp = g.esp
  BY DEF Visible, Registers
<1>2. CASE g.cs = KCODE /\ g.esp = End(t) - 2 /\ m[End(t) - 1] = Arg(t)
  BY <1>0, <1>1, <1>2 DEF AtProgram, Same, Top, KCODE, UCODE
<1>3. CASE ~ (g.cs = KCODE /\ g.esp = End(t) - 2 /\ m[End(t) - 1] = Arg(t))
  BY <1>0, <1>1, <1>3 DEF AtProgram
<1> QED
  BY <1>2, <1>3

\* What the kernel is doing about a trap depends on the words from its stack
\* pointer on.
LEMMA KernelKept ==
    ASSUME CteAssumption, NEW us, NEW t \in Threads \cup {Main}, NEW m, NEW m2,
           NEW g \in Registers, NEW h \in Registers, NEW h2 \in Registers, Visible(h2) = Visible(h),
           AtKernel(us, m, t, g, h), Top(t, g) \in Int, Top(t, g) <= End(t),
           Same(m, m2, h.esp, End(t))
    PROVE  AtKernel(us, m2, t, g, h2)
<1> USE DEF TF_SIZE, TF_EIP, UCODE, KCODE, CONTEXT_SIZE
<1>0. Base(t) \in Nat /\ End(t) = Base(t) + STACK /\ STACK \in Nat /\ STACK >= 24
  BY Stacks
<1>1. h2.gpr = h.gpr /\ h2.eip = h.eip /\ h2.cs = h.cs /\ h2.eflags = h.eflags /\ h2.esp = h.esp
      /\ h2.ds = h.ds
  BY DEF Visible, Registers
<1>2. Base(t) + 2 <= Tf(t, g) /\ Tf(t, g) \in Int /\ h.cs = KCODE
      /\ Tf(t, g) + (IF g.cs = UCODE THEN 22 ELSE 20) <= End(t)
  BY <1>0 DEF AtKernel, Tf
<1>3. \A k \in {0 - 1} \cup 0 .. 19 : h.esp <= Tf(t, g) + k => m2[Tf(t, g) + k] = m[Tf(t, g) + k]
  <2>1. h.esp \in Int
    BY DEF Registers
  <2> QED
    BY <1>0, <1>2, <2>1 DEF Same
<1>4. \A n \in Names : GPRs[n] \in 2 .. 9
  BY Offsets
<1>5. ASSUME NEW v \in Vectors, AtStub(m, t, g, h, v) PROVE AtStub(m2, t, g, h2, v)
  <2>1. g.cs = UCODE => m2[Tf(t, g) + 20] = m[Tf(t, g) + 20]
    BY <1>0, <1>2, <1>5 DEF Same, AtStub
  <2> QED
    BY <1>1, <1>2, <1>3, <1>5, <2>1 DEF AtStub, TF_CS, TF_EFLAGS, TF_ESP
<1>6. ASSUME h.esp = Tf(t, g) - 2, Context(us, m, t, Tf(t, g), g) PROVE Context(us, m2, t, Tf(t, g), g)
  <2>1. Same(m, m2, Tf(t, g), Tf(t, g) + CONTEXT_SIZE)
    BY <1>0, <1>2, <1>6 DEF Same
  <2> QED
    BY <1>2, <1>6, <2>1, ContextKept
<1>7. ASSUME AtHandler(us, m, t, g, h) PROVE AtHandler(us, m2, t, g, h2)
  BY <1>1, <1>2, <1>3, <1>6, <1>7 DEF AtHandler, TF_IRQ
<1>8. ASSUME AtService(us, m, t, g, h) PROVE AtService(us, m2, t, g, h2)
  BY <1>1, <1>2, <1>3, <1>6, <1>8 DEF AtService
<1>9. ASSUME AtIret(m, t, g, h) PROVE AtIret(m2, t, g, h2)
  <2>1. \A k \in 2 .. 14 : m2[Tf(t, g) + k] = m[Tf(t, g) + k]
    BY <1>2, <1>3, <1>9 DEF AtIret
  <2> QED
    BY <1>1, <1>2, <1>4, <2>1, <1>9 DEF AtIret, Popped, EIP, CS, EFLAGS, ESP
<1> QED
  BY <1>1, <1>2, <1>5, <1>7, <1>8, <1>9 DEF AtKernel

\* All the levels of a thread stay what they are if the words above the last do.
LEMMA LevelKept ==
    ASSUME CteAssumption, NEW us, NEW t \in Threads \cup {Main}, NEW m, NEW m2,
           NEW s, NEW s2, NEW n \in 0 .. 2, NEW h \in Registers, NEW h2 \in Registers,
           Visible(h2) = Visible(h), Traps(s, n), SameTraps(s, s2, n),
           Level(us, m, t, s, n, h), Same(m, m2, Top(t, h), End(t))
    PROVE  Level(us, m2, t, s2, n, h2)
<1> USE DEF Traps, SameTraps
<1>0. End(t) \in Int
  BY Stacks
<1>1. CASE n = 0
  BY <1>1, ProgramKept DEF Level
<1>2. CASE n = 1
  <2>1. s[1] \in Registers /\ s2[1] = s[1] /\ AtProgram(us, m, t, s[1]) /\ AtKernel(us, m, t, s[1], h)
    BY <1>2 DEF Level
  <2>2. Top(t, s[1]) \in Int /\ Top(t, s[1]) <= End(t)
    BY <2>1, ProgramBounds
  <2>3. Top(t, h) = h.esp /\ h.esp \in Int /\ h.esp <= Top(t, s[1])
    BY <2>1, <2>2, KernelBounds DEF TF_EIP
  <2>4. Same(m, m2, Top(t, s[1]), End(t)) /\ Same(m, m2, h.esp, End(t))
    BY <1>0, <2>2, <2>3 DEF Same
  <2>5. AtProgram(us, m2, t, s[1])
    BY <2>1, <2>4, ProgramKept
  <2>6. AtKernel(us, m2, t, s[1], h2)
    BY <2>1, <2>2, <2>4, KernelKept
  <2> QED
    BY <1>2, <2>1, <2>5, <2>6 DEF Level
<1>3. CASE n = 2
  <2>1. /\ s[1] \in Registers /\ s2[1] = s[1] /\ AtProgram(us, m, t, s[1]) /\ AtKernel(us, m, t, s[1], s[2])
        /\ s[2] \in Registers /\ s2[2] = s[2] /\ Nested(s[2], h) /\ AtKernel(us, m, t, s[2], h)
    BY <1>3 DEF Level
  <2>2. Top(t, s[1]) \in Int /\ Top(t, s[1]) <= End(t)
    BY <2>1, ProgramBounds
  <2>3. /\ Top(t, s[2]) = s[2].esp /\ s[2].esp \in Int /\ s[2].esp <= Top(t, s[1])
        /\ Top(t, s[2]) \in Int /\ Top(t, s[2]) <= End(t)
    BY <2>1, <2>2, KernelBounds DEF TF_EIP
  <2>4. Top(t, h) = h.esp /\ h.esp \in Int /\ h.esp <= s[2].esp
    BY <2>1, <2>3, KernelBounds DEF TF_EIP
  <2>5. /\ Same(m, m2, Top(t, s[1]), End(t)) /\ Same(m, m2, s[2].esp, End(t))
        /\ Same(m, m2, h.esp, End(t))
    BY <1>0, <2>2, <2>3, <2>4 DEF Same
  <2>6. AtProgram(us, m2, t, s[1])
    BY <2>1, <2>5, ProgramKept
  <2>7. AtKernel(us, m2, t, s[1], s[2])
    BY <2>1, <2>2, <2>5, KernelKept
  <2>8. AtKernel(us, m2, t, s[2], h2)
    BY <2>1, <2>3, <2>5, KernelKept
  <2>9. Nested(s[2], h2)
    <3>1. h2.eip = h.eip
      BY DEF Visible, Registers
    <3> QED
      BY <2>1, <3>1 DEF Nested
  <2> QED
    BY <1>3, <2>1, <2>6, <2>7, <2>8, <2>9 DEF Level
<1> QED
  BY <1>1, <1>2, <1>3

----------------------------------------------------------------------------
(* What a step of the thread that runs leaves alone                        *)

\* No word is in two stacks.
LEMMA Apart ==
    ASSUME CteAssumption, NEW t \in Threads \cup {Main}, NEW u \in Threads \cup {Main}, t # u
    PROVE  \A a \in Mine(u) : a \notin Mine(t) /\ a \in 0 .. End(Main) - 1 /\ a \in Int
  BY Stacks DEF Mine

\* A thread that waits goes on waiting if its stack stays what it is.
LEMMA StillWaits ==
    ASSUME CteAssumption, CteTypes, users' = users, NEW u \in Threads, Waits(u),
           saved'[u] = saved[u], left'[u] = left[u], Same(mem, mem', Base(u), End(u))
    PROVE  Waits(u)'
<1>1. PICK n \in {Len(left[u])} :
         /\ n \in 1 .. 2 /\ left[u][n].eip \notin IrqStubs
         /\ Level(users, mem, u, left[u], n - 1, left[u][n])
         /\ Context(users, mem, u, saved[u], left[u][n])
  BY DEF Waits
<1>2. left[u] \in Seq(Registers) /\ saved[u] \in Int /\ u \in Threads \cup {Main}
  BY DEF CteTypes
<1>3. PICK k \in 0 .. 2 : k = n - 1
  BY <1>1
<1>4. left[u][n] \in Registers /\ Traps(left[u], k) /\ SameTraps(left[u], left[u], k)
  <2>1. \A i \in 1 .. n : left[u][i] \in Registers
    BY <1>1, <1>2
  <2> QED
    BY <1>1, <1>3, <2>1 DEF Traps, SameTraps
<1>5. Level(users, mem, u, left[u], k, left[u][n])
  BY <1>1, <1>3
<1>6. /\ Top(u, left[u][n]) \in Int /\ Base(u) <= Top(u, left[u][n])
      /\ Top(u, left[u][n]) <= End(u)
  BY <1>2, <1>4, <1>5, LevelBounds
<1>7. Base(u) \in Int /\ End(u) \in Int
  BY <1>2, Stacks
<1>8. Same(mem, mem', Top(u, left[u][n]), End(u))
  BY <1>6, <1>7 DEF Same
<1>9. Level(users, mem', u, left[u], k, left[u][n])
  BY <1>2, <1>4, <1>5, <1>8, LevelKept
<1>10. Same(mem, mem', saved[u], saved[u] + CONTEXT_SIZE)
  <2>1. Base(u) <= saved[u] /\ saved[u] + CONTEXT_SIZE <= Top(u, left[u][n])
    BY <1>1 DEF Context
  <2> QED
    BY <1>2, <1>6, <1>7, <2>1 DEF Same, CONTEXT_SIZE
<1>11. Context(users, mem', u, saved[u], left[u][n])
  BY <1>1, <1>2, <1>4, <1>6, <1>10, ContextKept
<1> QED
  BY <1>1, <1>3, <1>9, <1>11 DEF Waits

\* Where the thread that runs is.
LEMMA Here ==
    ASSUME CteInv
    PROVE  \E n \in 0 .. 2 :
             /\ n = Len(left[current]) /\ Level(users, mem, current, left[current], n, r)
             /\ Traps(left[current], n) /\ Top(current, r) \in Int /\ Base(current) <= Top(current, r)
             /\ Top(current, r) <= End(current)
<1> DEFINE n == Len(left[current])
<1>1. Level(users, mem, current, left[current], n, r) /\ n \in 0 .. 2
  BY DEF CteInv, CurrentOK, Level
<1>2. left[current] \in Seq(Registers) /\ r \in Registers /\ current \in Threads \cup {Main}
  BY DEF CteInv, CteTypes
<1>3. Traps(left[current], n)
  BY <1>2 DEF Traps
<1> HIDE DEF n
<1>4. /\ Top(current, r) \in Int /\ Base(current) <= Top(current, r)
      /\ Top(current, r) <= End(current)
  BY <1>1, <1>2, <1>3, LevelBounds DEF CteInv
<1> QED
  BY <1>1, <1>3, <1>4 DEF n

\* In its program it has no trap behind it; in the kernel it has.
LEMMA Depth ==
    ASSUME CteInv, NEW n \in 0 .. 2, Level(users, mem, current, left[current], n, r)
    PROVE  /\ r.eip \in {LOOP, START} <=> n = 0
           /\ n = 0 => AtProgram(users, mem, current, r)
           /\ n > 0 => AtKernel(users, mem, current, left[current][n], r)
           /\ r.cs = UCODE => n = 0 /\ current \in users /\ esp0 = End(current)
           /\ n = 2 => r.eip \in IrqStubs \cup {HANDLER}
<1>1. \A g : AtKernel(users, mem, current, g, r) => r.eip \notin {LOOP, START} /\ r.cs = KCODE
  BY DEF AtKernel, AtStub, AtHandler, AtService, AtIret, Vectors, T_IRQ0, IRQ_TIMER, IRQ_KBD, EX_PF,
         EX_SYSCALL, EX_YIELD, STUB, HANDLER, SERVICE, IRET, LOOP, START
<1>2. AtProgram(users, mem, current, r) =>
        r.eip \in {LOOP, START} /\ (r.cs = UCODE => current \in users)
  BY DEF AtProgram, KCODE, UCODE
<1> QED
  BY <1>1, <1>2 DEF Level, Nested, CteInv, CurrentOK, KCODE, UCODE

----------------------------------------------------------------------------
(* The steps                                                               *)

\* Words that are pushed on a stack of the words from b to e.
LEMMA PushedWords ==
    ASSUME NEW size \in Nat, NEW m \in [0 .. size - 1 -> Int], NEW words, NEW len \in Nat,
           len = Len(words), \A k \in 1 .. len : words[k] \in Int, NEW b \in Nat, NEW e \in Nat,
           NEW top \in Int, b + len <= top, top <= e, e <= size
    PROVE  /\ Pushed(m, top, words) \in [0 .. size - 1 -> Int]
           /\ SameOut(size, m, Pushed(m, top, words), b, e)
           /\ Same(m, Pushed(m, top, words), top, e)
           /\ Under(Pushed(m, top, words), top, words, len)
<1> USE DEF Same, SameOut, Under
<1> DEFINE p == Pushed(m, top, words)
<1>1. p = [a \in 0 .. size - 1 |-> IF a < top /\ a >= top - len THEN words[top - a] ELSE m[a]]
  BY DEF Pushed
<1>3. \A a \in 0 .. size - 1 : a < top /\ a >= top - len => top - a \in 1 .. len
  OBVIOUS
<1>4. p \in [0 .. size - 1 -> Int]
  BY <1>1, <1>3
<1>5. ASSUME NEW k \in 1 .. len PROVE p[top - k] = words[k]
  <2>1. top - k \in 0 .. size - 1 /\ top - k < top /\ top - k >= top - len /\ top - (top - k) = k
    OBVIOUS
  <2> QED
    BY <1>1, <2>1
<1>6. ASSUME NEW a \in 0 .. size - 1, a \notin b .. e - 1 \/ top <= a
      PROVE  p[a] = m[a]
  <2>1. ~ (a < top /\ a >= top - len)
    BY <1>6
  <2> QED
    BY <1>1, <2>1
<1> QED
  BY <1>4, <1>5, <1>6

\* A new level of the stack of the thread that runs.
LEMMA OneMore ==
    ASSUME CteInv, NEW n \in 0 .. 1, n = Len(left[current]),
           Level(users, mem, current, left[current], n, r), r' \in Registers,
           left' = [left EXCEPT ![current] = Append(@, r)],
           Same(mem, mem', Top(current, r), End(current)),
           AtKernel(users, mem', current, r, r'), n = 1 => Nested(r, r')
    PROVE  Level(users, mem', current, left'[current], Len(left'[current]), r')
<1> DEFINE s == left[current]
           s2 == left'[current]
<1>1. s \in Seq(Registers) /\ r \in Registers /\ current \in Threads \cup {Main}
      /\ current \in DOMAIN left
  BY DEF CteInv, CteTypes
<1>2. s2 = Append(s, r)
  BY <1>1
<1>3. Len(s2) = n + 1 /\ s2[n + 1] = r /\ Traps(s, n) /\ SameTraps(s, s2, n)
  BY <1>1, <1>2 DEF Traps, SameTraps
<1>4. Level(users, mem, current, s, n, r)
  OBVIOUS
<1>5. n \in 0 .. 2 /\ CteAssumption
  BY DEF CteInv
<1> HIDE DEF s, s2
<1>6. Level(users, mem', current, s2, n, r)
  BY <1>1, <1>3, <1>4, <1>5, LevelKept
<1>7. CASE n = 0
  BY <1>3, <1>6, <1>7 DEF Level, s2
<1>8. CASE n = 1
  BY <1>3, <1>6, <1>8 DEF Level, s2
<1> QED
  BY <1>7, <1>8

\* The processor enters a stub.
LEMMA Enter ==
    ASSUME CteInv, NEW n \in 0 .. 1, n = Len(left[current]),
           Level(users, mem, current, left[current], n, r),
           NEW v \in Vectors, NEW error, error = IF v \in ERR THEN << 6 >> ELSE << >>,
           Hardware(v, error), Room, v \in UserOnly => FromUser, users' = users,
           r.eflags = 1, n = 1 => r.eip \notin IrqStubs /\ v \in Irqs
    PROVE  /\ mem' \in [0 .. End(Main) - 1 -> Int] /\ r' \in Registers
           /\ left' \in [Threads \cup {Main} -> Seq(Registers)]
           /\ r'.eip = STUB + v /\ r'.cr3 = r.cr3
           /\ Level(users, mem', current, left'[current], Len(left'[current]), r')
           /\ SameOut(End(Main), mem, mem', Base(current), End(current))
           /\ \A u \in Threads \ {current} : left'[u] = left[u]
<1> DEFINE top == IF FromUser THEN esp0 ELSE r.esp
           words == (IF FromUser THEN <<UDATA, r.esp>> ELSE <<>>) \o <<r.eflags, r.cs, r.eip>> \o error
           tf == Tf(current, r)
           len == Len(words)
<1>1. /\ current \in Threads \cup {Main} /\ r \in Registers /\ mem \in [0 .. End(Main) - 1 -> Int]
      /\ left \in [Threads \cup {Main} -> Seq(Registers)] /\ CteAssumption
  BY DEF CteInv, CteTypes
<1>2. /\ Base(current) \in Nat /\ End(current) = Base(current) + STACK /\ STACK \in Nat
      /\ STACK >= 24 /\ \A a \in Mine(current) : a \in 0 .. End(Main) - 1
  BY <1>1, Stacks
<1>3. /\ FromUser => current \in users /\ esp0 = End(current)
      /\ n = 0 => AtProgram(users, mem, current, r)
      /\ n > 0 => AtKernel(users, mem, current, left[current][n], r)
  <2>1. n \in 0 .. 2
    OBVIOUS
  <2> QED
    BY <2>1, Depth DEF FromUser
<1>4. top = Top(current, r) /\ top \in Int /\ top <= End(current)
      /\ tf = top - (IF FromUser THEN 22 ELSE 20) /\ tf \in Int /\ Base(current) + 2 <= tf
  <2>1. Top(current, r) \in Int /\ Top(current, r) <= End(current)
    BY Here
  <2>2. top = Top(current, r)
    BY <1>3 DEF Top, FromUser
  <2>3. Base(current) + 2 <= Tf(current, r)
    BY <1>2, <1>3, <2>1, <2>2 DEF Tf, Top, FromUser, Room, TF_SIZE
  <2> QED
    BY <2>1, <2>2, <2>3 DEF Tf, FromUser, TF_SIZE
<1>5. /\ words \in Seq(Int) /\ len = (IF FromUser THEN 5 ELSE 3) + (IF v \in ERR THEN 1 ELSE 0)
      /\ FromUser => words[2] = r.esp /\ words[3] = r.eflags /\ words[4] = r.cs /\ words[5] = r.eip
      /\ ~ FromUser => words[1] = r.eflags /\ words[2] = r.cs /\ words[3] = r.eip
  <2>1. r.esp \in Int /\ r.eflags \in Int /\ r.cs \in Int /\ r.eip \in Int /\ UDATA \in Int
    BY <1>1 DEF Registers, UDATA
  <2>2. CASE FromUser /\ v \in ERR
    BY <2>1, <2>2
  <2>3. CASE FromUser /\ v \notin ERR
    BY <2>1, <2>3
  <2>4. CASE ~ FromUser /\ v \in ERR
    BY <2>1, <2>4
  <2>5. CASE ~ FromUser /\ v \notin ERR
    BY <2>1, <2>5
  <2> QED
    BY <2>2, <2>3, <2>4, <2>5
<1>6. /\ mem' = Pushed(mem, top, words)
      /\ r' = [r EXCEPT !.esp = top - len, !.eip = STUB + v, !.cs = KCODE]
      /\ left' = [left EXCEPT ![current] = Append(@, r)]
  BY DEF Hardware
<1> HIDE DEF top, words, tf, len
<1>7. /\ mem' \in [0 .. End(Main) - 1 -> Int]
      /\ SameOut(End(Main), mem, mem', Base(current), End(current))
      /\ Same(mem, mem', top, End(current))
      /\ \A k \in 1 .. len : mem'[top - k] = words[k]
  <2>1. End(Main) \in Nat /\ End(current) \in Nat /\ End(current) <= End(Main)
    BY <1>1, Stacks, MainStack DEF CteInv, CteAssumption
  <2>2. len \in Nat /\ len <= 6
    BY <1>5
  <2>3. Base(current) + len <= top
    <3>1. top \in Int /\ tf \in Int /\ tf <= top - 20 /\ Base(current) + 2 <= tf
      BY <1>4
    <3>2. Base(current) \in Nat
      BY <1>2
    <3> QED
      BY <2>2, <3>1, <3>2
  <2>4. Base(current) \in Nat /\ len = Len(words) /\ words \in Seq(Int)
    BY <1>2, <1>5 DEF len
  <2> QED
    <3> DEFINE p == Pushed(mem, top, words)
               size == End(Main)
               b == Base(current)
               e == End(current)
    <3>0. len \in Nat /\ len = Len(words) /\ \A k \in 1 .. len : words[k] \in Int
      BY <2>2, <2>4
    <3>1. /\ size \in Nat /\ mem \in [0 .. size - 1 -> Int] /\ (\A k \in 1 .. len : words[k] \in Int)
          /\ len \in Nat /\ len = Len(words) /\ b \in Nat /\ e \in Nat /\ top \in Int /\ b + len <= top
          /\ top <= e /\ e <= size
      <4>1. size \in Nat /\ e \in Nat /\ e <= size /\ b \in Nat
        BY <2>1, <2>4
      <4>2. mem \in [0 .. size - 1 -> Int] /\ top \in Int /\ top <= e
        BY <1>1, <1>4
      <4> QED
        BY <2>3, <3>0, <4>1, <4>2, Zenon
    <3> HIDE DEF p, size, b, e
    <3>2. /\ Pushed(mem, top, words) \in [0 .. size - 1 -> Int]
          /\ SameOut(size, mem, Pushed(mem, top, words), b, e)
          /\ Same(mem, Pushed(mem, top, words), top, e)
          /\ Under(Pushed(mem, top, words), top, words, len)
      BY <3>1, PushedWords
    <3> QED
      BY <3>2, <1>6 DEF size, b, e, Under
<1>8. v \in Int /\ STUB + v \in Int /\ KCODE \in Int /\ KCODE # UCODE
  BY DEF Vectors, EX_PF, EX_SYSCALL, EX_YIELD, T_IRQ0, IRQ_TIMER, IRQ_KBD, STUB, KCODE, UCODE
<1>9. /\ r' \in Registers /\ r'.eip = STUB + v /\ r'.cr3 = r.cr3 /\ r'.cs = KCODE
      /\ r'.esp = top - len /\ r'.gpr = r.gpr /\ r'.ds = r.ds /\ r'.eflags = r.eflags
  <2>1. top - len \in Int
    BY <1>4, <1>5
  <2> QED
    BY <1>1, <1>6, <1>8, <2>1 DEF Registers
<1>10. /\ left' \in [Threads \cup {Main} -> Seq(Registers)]
       /\ \A u \in Threads \ {current} : left'[u] = left[u]
  BY <1>1, <1>6
<1>13. v \in UserOnly => r.cs = UCODE
  BY DEF FromUser
<1>14. AtKernel(users, mem', current, r, r')
  <2> USE DEF TF_EIP, TF_CS, TF_EFLAGS, TF_ESP
  <2>1. r'.esp = tf + TF_EIP - (IF v \in ERR THEN 1 ELSE 0)
    BY <1>4, <1>5, <1>9
  <2>2. /\ mem'[tf + TF_EIP] = r.eip /\ mem'[tf + TF_CS] = r.cs /\ mem'[tf + TF_EFLAGS] = r.eflags
        /\ FromUser => mem'[tf + TF_ESP] = r.esp
    <3>1. tf + 17 = top - (IF FromUser THEN 5 ELSE 3) /\ tf + 18 = top - (IF FromUser THEN 4 ELSE 2)
          /\ tf + 19 = top - (IF FromUser THEN 3 ELSE 1) /\ (FromUser => tf + 20 = top - 2)
      BY <1>4
    <3>2. 1 \in 1 .. len /\ 2 \in 1 .. len /\ 3 \in 1 .. len
          /\ (FromUser => 4 \in 1 .. len /\ 5 \in 1 .. len)
      BY <1>5
    <3>3. CASE FromUser
      BY <1>5, <1>7, <3>1, <3>2, <3>3
    <3>4. CASE ~ FromUser
      BY <1>5, <1>7, <3>1, <3>2, <3>4
    <3> QED
      BY <3>3, <3>4
  <2>3. AtStub(mem', current, r, r', v)
    BY <1>9, <1>13, <2>1, <2>2 DEF AtStub, tf, FromUser
  <2> QED
    BY <1>4, <1>9, <2>3 DEF AtKernel, tf
<1>15. n = 1 => Nested(r, r')
  BY <1>9 DEF Nested, IrqStubs
<1> QED
  BY <1>4, <1>7, <1>9, <1>10, <1>14, <1>15, <1>6, OneMore

\* The level of a trap is the one it came in, and what the kernel is doing about it.
LEMMA Unfold ==
    ASSUME NEW us, NEW m, NEW t, NEW s, NEW n \in 1 .. 2, NEW h
    PROVE  Level(us, m, t, s, n, h) <=> /\ Level(us, m, t, s, n - 1, s[n])
                                        /\ AtKernel(us, m, t, s[n], h)
                                        /\ n = 2 => Nested(s[2], h)
<1>1. CASE n = 1
  BY <1>1 DEF Level
<1>2. CASE n = 2
  BY <1>2 DEF Level
<1> QED
  BY <1>1, <1>2

\* The kernel goes on with the trap of the thread that runs.
LEMMA SameLevel ==
    ASSUME CteInv, NEW n \in 1 .. 2, n = Len(left[current]), NEW g, g = left[current][n],
           Level(users, mem, current, left[current], n, r), r' \in Registers, left' = left,
           Same(mem, mem', Top(current, g), End(current)),
           AtKernel(users, mem', current, g, r'), n = 2 => Nested(g, r')
    PROVE  Level(users, mem', current, left'[current], Len(left'[current]), r')
<1>1. left[current] \in Seq(Registers) /\ current \in Threads \cup {Main} /\ CteAssumption
  BY DEF CteInv, CteTypes
<1>2. PICK k \in 0 .. 1 : k = n - 1
  OBVIOUS
<1>3. Level(users, mem, current, left[current], k, g)
  BY <1>2, Unfold
<1>4. g \in Registers /\ Traps(left[current], k) /\ SameTraps(left[current], left[current], k)
  BY <1>1, <1>2 DEF Traps, SameTraps
<1>5. Level(users, mem', current, left[current], k, g)
  <2>1. k \in 0 .. 2
    OBVIOUS
  <2> QED
    BY <1>1, <1>3, <1>4, <2>1, LevelKept
<1> QED
  BY <1>2, <1>5, Unfold

\* The others wait on if only the stack of the thread that runs changes.
LEMMA OthersWait ==
    ASSUME CteInv, users' = users, current' = current, saved' = saved,
           \A u \in Threads \ {current} : left'[u] = left[u],
           SameOut(End(Main), mem, mem', Base(current), End(current))
    PROVE  WaitingOK'
<1>1. CteAssumption /\ CteTypes /\ current \in Threads \cup {Main}
  BY DEF CteInv, CteTypes
<1>2. SUFFICES ASSUME NEW u \in Threads \ {current} PROVE Waits(u)'
  BY DEF WaitingOK
<1>3. Waits(u) /\ left'[u] = left[u] /\ saved'[u] = saved[u] /\ u \in Threads
  BY DEF CteInv, WaitingOK
<1>4. Same(mem, mem', Base(u), End(u))
  BY <1>1, Apart DEF Same, SameOut, Mine
<1> QED
  BY <1>1, <1>3, <1>4, StillWaits

\* Only the program of a user is in user mode.
LEMMA Modes ==
    ASSUME NEW us, NEW m, NEW t, NEW s, NEW n \in 0 .. 2, NEW h, Level(us, m, t, s, n, h)
    PROVE  h.cs \in {KCODE, UCODE} /\ (h.cs = UCODE <=> n = 0 /\ t \in us)
  BY DEF Level, AtProgram, AtKernel, KCODE, UCODE

\* The trap the kernel is in, which came at g.
InTrap(n, g) ==
    /\ n = Len(left[current]) /\ g = left[current][n] /\ g \in Registers
    /\ Level(users, mem, current, left[current], n, r)
    /\ Level(users, mem, current, left[current], n - 1, g)
    /\ AtKernel(users, mem, current, g, r) /\ (n = 2 => Nested(g, r))
    /\ g.eip \notin IrqStubs /\ g.cs \in {KCODE, UCODE}
    /\ g.cs = UCODE <=> n = 1 /\ current \in users
    /\ Top(current, g) \in Int /\ Base(current) <= Top(current, g) /\ Top(current, g) <= End(current)
    /\ Tf(current, g) \in Int /\ Base(current) + 2 <= Tf(current, g)
    /\ Top(current, g) = Tf(current, g) + (IF g.cs = UCODE THEN 22 ELSE 20)

\* When it runs neither a program nor the start of a thread, the kernel is in a trap.
LEMMA TheTrap ==
    ASSUME CteInv, r.eip \notin {LOOP, START}
    PROVE  \E n \in 1 .. 2 : \E g \in Registers : InTrap(n, g)
<1>1. PICK n \in 0 .. 2 : /\ n = Len(left[current]) /\ Level(users, mem, current, left[current], n, r)
                          /\ Traps(left[current], n)
  BY Here
<1>2. n \in 1 .. 2
  BY <1>1, Depth
<1>3. PICK g : g = left[current][n]
  OBVIOUS
<1>4. g \in Registers /\ current \in Threads \cup {Main} /\ CteAssumption
  <2>1. \A i \in 1 .. n : left[current][i] \in Registers
    BY <1>1 DEF Traps
  <2> QED
    BY <1>2, <1>3, <2>1 DEF CteInv, CteTypes
<1>5. PICK k \in 0 .. 1 : k = n - 1
  BY <1>2
<1>6. /\ Level(users, mem, current, left[current], k, g)
      /\ AtKernel(users, mem, current, g, r) /\ (n = 2 => Nested(g, r))
  BY <1>1, <1>2, <1>3, <1>5, Unfold
<1>7. k \in 0 .. 2 /\ Traps(left[current], k)
  BY <1>1, <1>5 DEF Traps
<1>8. /\ Top(current, g) \in Int /\ Base(current) <= Top(current, g)
      /\ Top(current, g) <= End(current)
  BY <1>4, <1>6, <1>7, LevelBounds
<1>9. g.cs \in {KCODE, UCODE} /\ (g.cs = UCODE <=> k = 0 /\ current \in users)
  BY <1>6, <1>7, Modes
<1>10. /\ Tf(current, g) \in Int /\ Base(current) + 2 <= Tf(current, g)
       /\ Top(current, g) = Tf(current, g) + (IF g.cs = UCODE THEN 22 ELSE 20)
  BY <1>6, <1>8 DEF Tf, AtKernel, TF_SIZE
<1>11. g.eip \notin IrqStubs
  <2>1. CASE n = 1
    <3>1. AtProgram(users, mem, current, g)
      BY <1>5, <1>6, <2>1 DEF Level
    <3> QED
      BY <3>1 DEF AtProgram, IrqStubs, Irqs, STUB, LOOP, START, T_IRQ0, IRQ_TIMER, IRQ_KBD
  <2>2. CASE n = 2
    BY <1>6, <2>2 DEF Nested
  <2> QED
    BY <1>2, <2>1, <2>2
<1> QED
  BY <1>1, <1>2, <1>3, <1>4, <1>5, <1>6, <1>8, <1>9, <1>10, <1>11 DEF InTrap

\* The words of a trap frame that the stub pushes, down to its handler's argument.
FrameIn(size, m, m2, b, e, tf, v) ==
    /\ m2 \in [0 .. size - 1 -> Int] /\ SameOut(size, m, m2, b, e) /\ Same(m, m2, tf + 17, e)
    /\ \A n \in Names : m2[tf + GPRs[n]] = r.gpr[n]
    /\ m2[tf - 1] = tf /\ m2[tf + 1] = r.ds /\ m2[tf + 15] = v

\* What the stub of v pushes (trap, trap32.S) are the registers, in the order of
\* struct Context, in the words of the frame, and nothing else.
LEMMA FrameWords ==
    ASSUME NEW size \in Nat, NEW m \in [0 .. size - 1 -> Int], NEW b \in Nat, NEW e \in Nat, e <= size,
           NEW tf \in Int, b + 2 <= tf, tf + 17 <= e, r \in Registers,
           NEW v \in Vectors, r.esp = tf + 17 - (IF v \in ERR THEN 1 ELSE 0)
    PROVE  Frame(v) = tf /\ FrameIn(size, m, trap(m, v), b, e, tf, v)
<1> DEFINE code == IF v \in ERR THEN <<v>> ELSE <<0, v>>
           len == IF v \in ERR THEN 1 ELSE 2
           all == <<r.gpr.ebp, r.gpr.edi, r.gpr.esi, 0, r.gpr.edx, r.gpr.ecx, r.gpr.ebx, r.gpr.eax, r.ds, 0>>
           arg == <<tf, 0>>
           top == tf + 15 + len
           m1 == Pushed(m, top, code)
           m2 == Pushed(m1, tf + 10, all)
           m3 == Pushed(m2, tf, arg)
<1>1. /\ v \in Int /\ r.ds \in Int /\ r.esp \in Int /\ r.esp = top /\ top \in Int
      /\ \A n \in Names : r.gpr[n] \in Int
  BY DEF Registers, Vectors, EX_PF, EX_SYSCALL, EX_YIELD, T_IRQ0, IRQ_TIMER, IRQ_KBD
<1>2. len \in Nat /\ len = Len(code) /\ (\A k \in 1 .. len : code[k] \in Int) /\ code[len] = v
  <2>1. CASE v \in ERR
    BY <1>1, <2>1
  <2>2. CASE v \notin ERR
    BY <1>1, <2>2
  <2> QED
    BY <2>1, <2>2
<1>3. /\ 10 = Len(all) /\ (\A k \in 1 .. 10 : all[k] \in Int)
      /\ all[1] = r.gpr["ebp"] /\ all[2] = r.gpr["edi"] /\ all[3] = r.gpr["esi"]
      /\ all[5] = r.gpr["edx"] /\ all[6] = r.gpr["ecx"] /\ all[7] = r.gpr["ebx"]
      /\ all[8] = r.gpr["eax"] /\ all[9] = r.ds
  BY <1>1, Offsets
<1>4. 2 = Len(arg) /\ (\A k \in 1 .. 2 : arg[k] \in Int) /\ arg[1] = tf
  OBVIOUS
<1>6. top = tf + 15 + len /\ len \in 1 .. 2
  OBVIOUS
<1> HIDE DEF code, all, arg, top, len
<1>5. Frame(v) = tf /\ trap(m, v) = m3
  <2>1. r.esp = top /\ r.esp - len - 5 = tf + 10 /\ r.esp - len - 15 = tf
    BY <1>1, <1>6
  <2>2. trap(m, v) = Pushed(Pushed(Pushed(m, r.esp, code), r.esp - Len(code) - 5, all),
                            r.esp - Len(code) - 15, <<r.esp - Len(code) - 15, 0>>)
    BY DEF trap, code, all, CONTEXT_SIZE
  <2>3. len = Len(code)
    BY <1>2
  <2>4. trap(m, v) = Pushed(Pushed(Pushed(m, r.esp, code), r.esp - len - 5, all),
                            r.esp - len - 15, <<r.esp - len - 15, 0>>)
    BY <2>2, <2>3, Zenon
  <2>5. Frame(v) = r.esp - len - 15
    BY DEF Frame, len, CONTEXT_SIZE
  <2> QED
    BY <2>1, <2>4, <2>5, Zenon DEF arg, m1, m2, m3
<1>7. /\ m1 \in [0 .. size - 1 -> Int] /\ SameOut(size, m, m1, b, e) /\ Same(m, m1, top, e)
      /\ Under(m1, top, code, len)
  <2>1. b + len <= top /\ top <= e
    BY <1>1, <1>2, <1>6 DEF len
  <2> QED
    BY <1>1, <1>2, <2>1, PushedWords
<1> HIDE DEF m1
<1>8. /\ m2 \in [0 .. size - 1 -> Int] /\ SameOut(size, m1, m2, b, e) /\ Same(m1, m2, tf + 10, e)
      /\ Under(m2, tf + 10, all, 10)
  <2>1. b + 10 <= tf + 10 /\ tf + 10 <= e /\ tf + 10 \in Int /\ 10 \in Nat
    OBVIOUS
  <2> QED
    BY <1>3, <1>7, <2>1, PushedWords
<1> HIDE DEF m2
<1>9. /\ m3 \in [0 .. size - 1 -> Int] /\ SameOut(size, m2, m3, b, e) /\ Same(m2, m3, tf, e)
      /\ Under(m3, tf, arg, 2)
  <2>1. b + 2 <= tf /\ tf <= e /\ 2 \in Nat
    OBVIOUS
  <2> QED
    BY <1>4, <1>8, <2>1, PushedWords
<1> HIDE DEF m3
<1>10. SameOut(size, m, m3, b, e) /\ Same(m, m3, tf + 17, e)
  <2>1. ASSUME NEW a \in 0 .. size - 1, a \notin b .. e - 1 PROVE m3[a] = m[a]
    BY <1>7, <1>8, <1>9, <2>1 DEF SameOut
  <2>2. ASSUME NEW a \in tf + 17 .. e - 1 PROVE m3[a] = m[a]
    <3>1. a \in top .. e - 1 /\ a \in tf + 10 .. e - 1 /\ a \in tf .. e - 1
      BY <1>6
    <3> QED
      BY <1>7, <1>8, <1>9, <3>1 DEF Same
  <2> QED
    BY <2>1, <2>2 DEF SameOut, Same
<1>11. \A k \in 1 .. 10 : m3[(tf + 10) - k] = all[k]
  <2>1. \A k \in 1 .. 10 : m2[(tf + 10) - k] = all[k]
    BY <1>8, Zenon DEF Under
  <2>2. \A k \in 1 .. 10 : (tf + 10) - k \in tf .. e - 1
    OBVIOUS
  <2>3. \A a \in tf .. e - 1 : m3[a] = m2[a]
    BY <1>9, Zenon DEF Same
  <2> QED
    BY <2>1, <2>2, <2>3
<1>12. m3[tf - 1] = tf
  BY <1>4, <1>9 DEF Under
<1>13. m3[tf + 15] = v
  <2>1. tf + 15 = top - len /\ len \in 1 .. len
    BY <1>6
  <2>2. m1[tf + 15] = v
    BY <1>2, <1>7, <2>1 DEF Under
  <2>3. tf + 15 \in tf .. e - 1 /\ tf + 15 \in tf + 10 .. e - 1
    OBVIOUS
  <2> QED
    BY <1>8, <1>9, <2>2, <2>3 DEF Same
<1>14. /\ m3[tf + 9] = all[1] /\ m3[tf + 8] = all[2] /\ m3[tf + 7] = all[3] /\ m3[tf + 5] = all[5]
       /\ m3[tf + 4] = all[6] /\ m3[tf + 3] = all[7] /\ m3[tf + 2] = all[8] /\ m3[tf + 1] = all[9]
  <2>1. /\ tf + 9 = (tf + 10) - 1 /\ tf + 8 = (tf + 10) - 2 /\ tf + 7 = (tf + 10) - 3
        /\ tf + 5 = (tf + 10) - 5 /\ tf + 4 = (tf + 10) - 6 /\ tf + 3 = (tf + 10) - 7
        /\ tf + 2 = (tf + 10) - 8 /\ tf + 1 = (tf + 10) - 9
    OBVIOUS
  <2>2. /\ 1 \in 1 .. 10 /\ 2 \in 1 .. 10 /\ 3 \in 1 .. 10 /\ 5 \in 1 .. 10 /\ 6 \in 1 .. 10
        /\ 7 \in 1 .. 10 /\ 8 \in 1 .. 10 /\ 9 \in 1 .. 10
    OBVIOUS
  <2> QED
    BY <1>11, <2>1, <2>2
<1>15. \A n \in Names : m3[tf + GPRs[n]] = r.gpr[n]
  <2>1. /\ m3[tf + 2] = r.gpr["eax"] /\ m3[tf + 3] = r.gpr["ebx"] /\ m3[tf + 4] = r.gpr["ecx"]
        /\ m3[tf + 5] = r.gpr["edx"] /\ m3[tf + 7] = r.gpr["esi"] /\ m3[tf + 8] = r.gpr["edi"]
        /\ m3[tf + 9] = r.gpr["ebp"]
    BY <1>3, <1>14
  <2> QED
    BY <2>1, Offsets
<1>16. m3[tf + 1] = r.ds
  BY <1>3, <1>14
<1> QED
  BY <1>5, <1>9, <1>10, <1>12, <1>13, <1>15, <1>16, Zenon DEF FrameIn

\* What __am_irq_handle completes in a trap frame.
CompletedIn(size, m, m2, tf) ==
    /\ m2 \in [0 .. size - 1 -> Int]
    /\ \A a \in 0 .. size - 1 : a \notin {tf, tf + 6} \cup tf + 10 .. tf + 14 => m2[a] = m[a]
    /\ m2[tf + 10] = m[tf + 17] /\ m2[tf + 11] = m[tf + 18] /\ m2[tf + 12] = m[tf + 19]
    /\ m2[tf + 13] = (IF m[tf + 18] = UCODE THEN m[tf + 20] ELSE tf + 20)
    /\ m2[tf + 6] = esp0 /\ m2[tf] = r.cr3

\* What __am_irq_handle adds to the frame: eip, cs, eflags, esp, esp0, ss3, cr3.
LEMMA CompletedWords ==
    ASSUME NEW size \in Nat, NEW m \in [0 .. size - 1 -> Int], NEW tf \in Nat, tf + 20 <= size,
           m[tf + 18] = UCODE => tf + 22 <= size, esp0 \in Int, r.cr3 \in Int
    PROVE  CompletedIn(size, m, Completed(m, tf), tf)
<1> USE DEF EIP, CS, EFLAGS, ESP, ESP0, CR3, SS3, TF_EIP, TF_CS, TF_EFLAGS, TF_ESP
<1> DEFINE esp == IF m[tf + TF_CS] = UCODE THEN m[tf + TF_ESP] ELSE KernelEsp(tf)
<1>1. /\ tf + 10 \in 0 .. size - 1 /\ tf + 11 \in 0 .. size - 1 /\ tf + 12 \in 0 .. size - 1
      /\ tf + 13 \in 0 .. size - 1 /\ tf + 14 \in 0 .. size - 1 /\ tf + 6 \in 0 .. size - 1
      /\ tf \in 0 .. size - 1 /\ tf + 17 \in 0 .. size - 1 /\ tf + 18 \in 0 .. size - 1
      /\ tf + 19 \in 0 .. size - 1 /\ (m[tf + 18] = UCODE => tf + 20 \in 0 .. size - 1)
      /\ tf + 0 = tf
  OBVIOUS
<1>2. esp \in Int /\ KernelEsp(tf) = tf + 20 /\ UDATA \in Int
  BY <1>1 DEF KernelEsp, TF_SIZE, UDATA
<1>3. Completed(m, tf) =
        [a \in 0 .. size - 1 |->
           IF a = tf THEN r.cr3 ELSE IF a = tf + 13 THEN esp ELSE IF a = tf + 14 THEN UDATA
           ELSE IF a = tf + 6 THEN esp0 ELSE IF a = tf + 12 THEN m[tf + 19]
           ELSE IF a = tf + 11 THEN m[tf + 18] ELSE IF a = tf + 10 THEN m[tf + 17] ELSE m[a]]
  BY <1>1 DEF Completed
<1> HIDE DEF esp
<1>4. Completed(m, tf) \in [0 .. size - 1 -> Int]
  BY <1>1, <1>2, <1>3
<1>5. ASSUME NEW a \in 0 .. size - 1, a \notin {tf, tf + 6} \cup tf + 10 .. tf + 14
      PROVE  Completed(m, tf)[a] = m[a]
  <2>1. a # tf /\ a # tf + 6 /\ a # tf + 10 /\ a # tf + 11 /\ a # tf + 12 /\ a # tf + 13 /\ a # tf + 14
    BY <1>5
  <2> QED
    BY <1>3, <2>1
<1>6. /\ Completed(m, tf)[tf + 10] = m[tf + 17] /\ Completed(m, tf)[tf + 11] = m[tf + 18]
      /\ Completed(m, tf)[tf + 12] = m[tf + 19] /\ Completed(m, tf)[tf + 6] = esp0
      /\ Completed(m, tf)[tf + 13] = esp /\ Completed(m, tf)[tf] = r.cr3
  BY <1>1, <1>3
<1> QED
  BY <1>1, <1>2, <1>4, <1>5, <1>6 DEF esp, CompletedIn

\* A step that stays with the thread that runs, on its stack.
LEMMA StaysHere ==
    ASSUME CteInv, users' = users, current' = current, saved' = saved, armed' = armed,
           mem' \in [0 .. End(Main) - 1 -> Int], r' \in Registers, esp0' \in Int,
           left' \in [Threads \cup {Main} -> Seq(Registers)],
           \A u \in Threads \ {current} : left'[u] = left[u],
           SameOut(End(Main), mem, mem', Base(current), End(current)),
           Level(users, mem', current, left'[current], Len(left'[current]), r'),
           current \in users => r'.cr3 = Space(current) /\ esp0' = End(current),
           inservice' = {v \in Irqs : r'.eip = STUB + v}
    PROVE  CteInv'
<1>1. WaitingOK'
  BY OthersWait
<1>2. CteTypes' /\ CurrentOK' /\ CteAssumption
  BY DEF CteInv, CteTypes, CurrentOK
<1> QED
  BY <1>1, <1>2 DEF CteInv

\* The vectors that have a stub, and what they tell apart.
LEMMA Stubs ==
    /\ \A v \in Vectors : v \in Int /\ STUB + v \notin {LOOP, START, HANDLER, SERVICE, IRET}
    /\ \A v, w \in Vectors : STUB + v = STUB + w => v = w
    /\ \A v \in Vectors : eoi(v) <=> v \in Irqs
    /\ Irqs \subseteq Vectors /\ UserOnly \subseteq Vectors /\ Irqs \cap UserOnly = {}
    /\ IrqStubs \cap {LOOP, START, HANDLER, SERVICE, IRET} = {}
    /\ \A v \in Vectors : STUB + v \in IrqStubs <=> v \in Irqs
  BY DEF Vectors, EX_PF, EX_SYSCALL, EX_YIELD, T_IRQ0, IRQ_TIMER, IRQ_KBD, STUB, LOOP, START, HANDLER,
         SERVICE, IRET, eoi, Irqs, UserOnly, IrqStubs

\* From the stub to the handler: its argument is the context of the trap.
LEMMA StubStep ==
    ASSUME CteInv, NEW v \in Vectors, Stub(v)
    PROVE  CteInv'
<1>1. /\ current \in Threads \cup {Main} /\ r \in Registers /\ mem \in [0 .. End(Main) - 1 -> Int]
      /\ left \in [Threads \cup {Main} -> Seq(Registers)] /\ CteAssumption /\ esp0 \in Int
      /\ esp0 \in Int /\ r.cr3 \in Int
  BY DEF CteInv, CteTypes, Registers
<1>2. r.eip = STUB + v /\ r.eip \notin {LOOP, START}
  BY Stubs DEF Stub
<1>3. PICK n \in 1 .. 2, g \in Registers : InTrap(n, g)
  BY <1>2, TheTrap
<1>4. PICK tf \in Int : tf = Tf(current, g)
  BY <1>3 DEF InTrap
<1>5. /\ tf \in Nat /\ End(Main) \in Nat /\ Base(current) \in Nat /\ End(current) \in Nat
      /\ Base(current) + 2 <= tf /\ End(current) <= End(Main) /\ Top(current, g) \in Int
      /\ Top(current, g) = tf + (IF g.cs = UCODE THEN 22 ELSE 20) /\ Top(current, g) <= End(current)
  <2>1. Base(current) \in Nat /\ End(current) \in Nat /\ End(Main) \in Nat /\ End(current) <= End(Main)
    BY <1>1, Stacks, MainStack
  <2> QED
    BY <1>3, <1>4, <2>1 DEF InTrap
<1>6. AtStub(mem, current, g, r, v)
  <2>1. AtKernel(users, mem, current, g, r)
    BY <1>3 DEF InTrap
  <2> QED
    BY <1>2, <2>1, Stubs DEF AtKernel, AtStub, AtHandler, AtService, AtIret
<1>7. /\ r.esp = tf + 17 - (IF v \in ERR THEN 1 ELSE 0) /\ mem[tf + 17] = g.eip
      /\ mem[tf + 18] = g.cs /\ mem[tf + 19] = g.eflags /\ (g.cs = UCODE => mem[tf + 20] = g.esp)
      /\ r.gpr = g.gpr /\ r.ds = g.ds /\ (v \in UserOnly => g.cs = UCODE)
  BY <1>4, <1>6 DEF AtStub, TF_EIP, TF_CS, TF_EFLAGS, TF_ESP
<1> DEFINE m == trap(mem, v)
<1>8. Frame(v) = tf /\ FrameIn(End(Main), mem, m, Base(current), End(current), tf, v)
  <2>1. tf + 17 <= End(current) /\ mem \in [0 .. End(Main) - 1 -> Int]
    BY <1>1, <1>5
  <2> QED
    BY <1>1, <1>5, <1>7, <2>1, FrameWords
<1>9. mem' = Completed(m, tf)
  BY <1>8 DEF Stub
<1> HIDE DEF m
<1>10. /\ m[tf + 17] = g.eip /\ m[tf + 18] = g.cs /\ m[tf + 19] = g.eflags
       /\ (g.cs = UCODE => m[tf + 20] = g.esp)
  <2>1. /\ tf + 17 \in tf + 17 .. End(current) - 1 /\ tf + 18 \in tf + 17 .. End(current) - 1
        /\ tf + 19 \in tf + 17 .. End(current) - 1
        /\ (g.cs = UCODE => tf + 20 \in tf + 17 .. End(current) - 1)
    BY <1>5
  <2> QED
    BY <1>7, <1>8, <2>1 DEF Same, FrameIn
<1>11. CompletedIn(End(Main), m, mem', tf)
  <2>1. /\ tf + 20 <= End(Main) /\ (m[tf + 18] = UCODE => tf + 22 <= End(Main))
        /\ m \in [0 .. End(Main) - 1 -> Int]
    BY <1>5, <1>8, <1>10 DEF FrameIn
  <2> QED
    BY <1>1, <1>5, <1>9, <2>1, CompletedWords
<1>12. /\ mem'[tf - 1] = tf /\ mem'[tf + 15] = v /\ mem'[tf + 1] = g.ds
       /\ \A k \in Names : mem'[tf + GPRs[k]] = g.gpr[k]
  <2>1. ASSUME NEW i \in {0 - 1, 1, 2, 3, 4, 5, 7, 8, 9, 15} PROVE mem'[tf + i] = m[tf + i]
    <3>1. tf + i \in 0 .. End(Main) - 1 /\ tf + i \notin {tf, tf + 6} \cup tf + 10 .. tf + 14
      BY <1>5
    <3> QED
      BY <1>11, <3>1 DEF CompletedIn
  <2>2. tf + (0 - 1) = tf - 1
    OBVIOUS
  <2>3. /\ m[tf - 1] = tf /\ m[tf + 1] = g.ds /\ m[tf + 15] = v
        /\ \A k \in Names : m[tf + GPRs[k]] = g.gpr[k]
    BY <1>7, <1>8, Zenon DEF FrameIn
  <2>4. \A k \in Names : mem'[tf + GPRs[k]] = m[tf + GPRs[k]]
    BY <2>1, Offsets
  <2>5. mem'[tf + 15] = m[tf + 15] /\ mem'[tf + 1] = m[tf + 1] /\ mem'[tf - 1] = m[tf - 1]
    BY <2>1, <2>2
  <2> QED
    BY <2>3, <2>4, <2>5
<1>13. /\ SameOut(End(Main), mem, mem', Base(current), End(current))
       /\ Same(mem, mem', Top(current, g), End(current))
  <2>1. ASSUME NEW a \in 0 .. End(Main) - 1, a \notin Base(current) .. End(current) - 1
        PROVE  mem'[a] = mem[a]
    <3>1. a \notin {tf, tf + 6} \cup tf + 10 .. tf + 14
      BY <1>5, <2>1
    <3> QED
      BY <1>8, <1>11, <2>1, <3>1 DEF FrameIn, CompletedIn, SameOut
  <2>2. ASSUME NEW a \in Top(current, g) .. End(current) - 1 PROVE mem'[a] = mem[a]
    <3>1. /\ a \in 0 .. End(Main) - 1 /\ a \in tf + 17 .. End(current) - 1
          /\ a \notin {tf, tf + 6} \cup tf + 10 .. tf + 14
      BY <1>5
    <3> QED
      BY <1>8, <1>11, <3>1 DEF FrameIn, CompletedIn, Same
  <2> QED
    BY <2>1, <2>2 DEF SameOut, Same
<1>14. /\ r' \in Registers /\ r'.eip = HANDLER /\ r'.cs = KCODE /\ r'.eflags = 0
       /\ r'.esp = tf - 2 /\ r'.cr3 = r.cr3
  <2>1. r' = Regs(Fill(Main + 1), tf - 2, HANDLER, KCODE, KDATA, 0, r.cr3)
    BY <1>8 DEF Stub
  <2>2. Fill(Main + 1) \in [Names -> Int]
    BY <1>1, Fills DEF CteAssumption, Main
  <2>3. tf - 2 \in Int
    BY <1>5
  <2> QED
    BY <1>1, <2>1, <2>2, <2>3 DEF Regs, Registers, HANDLER, KCODE, KDATA
<1>15. Context(users, mem', current, tf, g)
  <2>1. g.cs = UCODE \/ g.esp = tf + 20
    BY <1>5 DEF Top
  <2>2. /\ mem'[tf + 10] = g.eip /\ mem'[tf + 11] = g.cs /\ mem'[tf + 12] = g.eflags
        /\ mem'[tf + 13] = g.esp /\ mem'[tf + 6] = esp0 /\ mem'[tf + 0] = r.cr3
    <3>1. tf + 0 = tf
      OBVIOUS
    <3> QED
      BY <1>10, <1>11, <2>1, <3>1 DEF CompletedIn
  <2>3. current \in users => r.cr3 = Space(current) /\ esp0 = End(current)
    BY DEF CteInv, CurrentOK
  <2>4. Base(current) <= tf /\ tf + 15 <= Top(current, g)
    BY <1>5
  <2> QED
    BY <1>12, <2>2, <2>3, <2>4
       DEF Context, Popped, EIP, CS, EFLAGS, ESP, ESP0, CR3, DS, CONTEXT_SIZE
<1>16. AtKernel(users, mem', current, g, r')
  <2>1. AtHandler(users, mem', current, g, r')
    BY <1>4, <1>7, <1>12, <1>14, <1>15 DEF AtHandler, TF_IRQ
  <2> QED
    BY <1>4, <1>5, <1>14, <2>1 DEF AtKernel
<1>17. left' = left /\ users' = users /\ esp0' = esp0 /\ armed' = armed /\ current' = current
       /\ saved' = saved /\ inservice' = IF eoi(v) THEN {} ELSE inservice
  BY DEF Stub
<1>18. Level(users, mem', current, left'[current], Len(left'[current]), r')
  <2>1. n = 2 => Nested(g, r')
    BY <1>3, <1>14 DEF InTrap, Nested
  <2>2. /\ n = Len(left[current]) /\ g = left[current][n]
        /\ Level(users, mem, current, left[current], n, r)
    BY <1>3 DEF InTrap
  <2> QED
    BY <1>13, <1>14, <1>16, <1>17, <2>1, <2>2, SameLevel
<1>19. inservice' = {w \in Irqs : r'.eip = STUB + w}
  <2>1. inservice = {w \in Irqs : r.eip = STUB + w}
    BY DEF CteInv, CurrentOK
  <2>2. {w \in Irqs : r'.eip = STUB + w} = {}
    BY <1>14, Stubs
  <2>3. v \notin Irqs => inservice = {}
    BY <1>2, <2>1, Stubs
  <2> QED
    BY <1>17, <2>2, <2>3, Stubs
<1>20. current \in users => r'.cr3 = Space(current) /\ esp0' = End(current)
  BY <1>14, <1>17 DEF CteInv, CurrentOK
<1> QED
  BY <1>1, <1>11, <1>13, <1>14, <1>17, <1>18, <1>19, <1>20, StaysHere DEF CompletedIn

\* A trap that comes in a program, or an interrupt in a program or in the kernel
\* with interrupts on and none in service, keeps the invariant.
LEMMA EnterStep ==
    ASSUME CteInv, NEW v \in Vectors, NEW error, error = IF v \in ERR THEN << 6 >> ELSE << >>,
           Hardware(v, error), Room, v \in UserOnly => FromUser, r.eflags = 1, users' = users,
           current' = current, saved' = saved, esp0' = esp0, armed' = armed,
           \/ r.eip = LOOP /\ v \notin Irqs /\ inservice' = inservice
           \/ v \in Irqs /\ inservice = {} /\ inservice' = {v}
    PROVE  CteInv'
<1>1. PICK n \in 0 .. 2 : n = Len(left[current]) /\ Level(users, mem, current, left[current], n, r)
  BY Here
<1>2. inservice = {w \in Irqs : r.eip = STUB + w} /\ esp0 \in Int
      /\ (current \in users => r.cr3 = Space(current) /\ esp0 = End(current))
  BY DEF CteInv, CurrentOK, CteTypes
<1>3. n \in 0 .. 1 /\ (n = 1 => r.eip \notin IrqStubs /\ v \in Irqs)
  <2>1. CASE r.eip = LOOP /\ v \notin Irqs
    <3>1. n = 0
      BY <1>1, <2>1, Depth
    <3> QED
      BY <3>1
  <2>2. CASE v \in Irqs /\ inservice = {}
    <3>1. r.eip \notin IrqStubs
      BY <1>2, <2>2 DEF IrqStubs
    <3>2. r.eip # HANDLER
      <4>1. CASE n = 0
        BY <1>1, <4>1, Depth DEF HANDLER, LOOP, START
      <4>2. CASE n > 0
        <5>1. AtKernel(users, mem, current, left[current][n], r)
          BY <1>1, <4>2, Depth
        <5> QED
          BY <5>1, Stubs DEF AtKernel, AtStub, AtHandler, AtService, AtIret, HANDLER, SERVICE, IRET
      <4> QED
        BY <4>1, <4>2
    <3>3. n = 2 => r.eip \in IrqStubs \cup {HANDLER}
      BY <1>1, Depth
    <3>4. n # 2
      BY <3>1, <3>2, <3>3
    <3> QED
      BY <2>2, <3>1, <3>4
  <2> QED
    BY <2>1, <2>2
<1>4. /\ mem' \in [0 .. End(Main) - 1 -> Int] /\ r' \in Registers
      /\ left' \in [Threads \cup {Main} -> Seq(Registers)] /\ r'.eip = STUB + v /\ r'.cr3 = r.cr3
      /\ Level(users, mem', current, left'[current], Len(left'[current]), r')
      /\ SameOut(End(Main), mem, mem', Base(current), End(current))
      /\ \A u \in Threads \ {current} : left'[u] = left[u]
  BY <1>1, <1>3, Enter
<1>5. inservice' = {w \in Irqs : r'.eip = STUB + w}
  BY <1>2, <1>4, Stubs
<1> QED
  BY <1>2, <1>4, <1>5, StaysHere

\* A device's interrupt.
LEMMA InterruptStep ==
    ASSUME CteInv, NEW v \in Irqs, Interrupt(v), armed' = armed
    PROVE  CteInv'
<1>1. v \in Vectors /\ v \notin UserOnly /\ v \notin ERR
  BY Stubs DEF Irqs, ERR, T_IRQ0, IRQ_TIMER, IRQ_KBD
<1>2. PICK error : error = << >>
  OBVIOUS
<1> QED
  BY <1>1, <1>2, EnterStep DEF Interrupt

\* int and page faults come in programs only, where interrupts are on.
LEMMA SoftwareStep ==
    ASSUME CteInv, NEW v \in Vectors \ Irqs, NEW error, error = IF v \in ERR THEN << 6 >> ELSE << >>,
           Software(v, error), v \in UserOnly => FromUser
    PROVE  CteInv'
<1>1. r.eflags = 1
  <2>1. PICK n \in 0 .. 2 : Level(users, mem, current, left[current], n, r)
    BY Here
  <2>2. AtProgram(users, mem, current, r)
    BY <2>1, Depth DEF Software
  <2> QED
    BY <2>2 DEF AtProgram
<1> QED
  BY <1>1, EnterStep DEF Software

\* A program computes, or its thread starts.
LEMMA ComputeStep ==
    ASSUME CteInv, Compute
    PROVE  CteInv'
<1>1. /\ current \in Threads \cup {Main} /\ r \in Registers /\ mem \in [0 .. End(Main) - 1 -> Int]
      /\ left \in [Threads \cup {Main} -> Seq(Registers)] /\ CteAssumption /\ esp0 \in Int
      /\ inservice = {w \in Irqs : r.eip = STUB + w} /\ armed
      /\ (current \in users => r.cr3 = Space(current) /\ esp0 = End(current))
  BY DEF CteInv, CteTypes, CurrentOK
<1>2. PICK n \in 0 .. 2 : n = Len(left[current]) /\ Level(users, mem, current, left[current], n, r)
  BY Here
<1>3. n = 0 /\ AtProgram(users, mem, current, r)
  BY <1>2, Depth DEF Compute
<1>4. /\ r' \in Registers /\ r'.eip = LOOP /\ r.eip = LOOP /\ r'.cs = r.cs /\ r'.esp = r.esp
      /\ r'.eflags = r.eflags /\ r'.cr3 = r.cr3
  <2>1. Fill(current) \in [Names -> Int]
    BY <1>1, Fills DEF CteAssumption, Threads, Main
  <2> QED
    BY <1>1, <2>1 DEF Compute, Registers
<1>5. AtProgram(users, mem, current, r')
  BY <1>3, <1>4 DEF AtProgram, START, LOOP
<1>6. /\ users' = users /\ mem' = mem /\ esp0' = esp0 /\ inservice' = inservice /\ armed' = armed
      /\ current' = current /\ saved' = saved /\ left' = left
  BY DEF Compute
<1>7. Level(users, mem', current, left'[current], Len(left'[current]), r')
  <2>1. Len(left'[current]) = 0 /\ mem' = mem
    BY <1>2, <1>3, <1>6
  <2> QED
    BY <1>5, <2>1 DEF Level
<1>8. SameOut(End(Main), mem, mem', Base(current), End(current))
  BY <1>6 DEF SameOut
<1>9. inservice' = {w \in Irqs : r'.eip = STUB + w}
  BY <1>1, <1>4, <1>6
<1> QED
  BY <1>1, <1>4, <1>6, <1>7, <1>8, <1>9, StaysHere

\* __am_kcontext_start puts the argument where the entry looks for it.
LEMMA StartStep ==
    ASSUME CteInv, kcontext_start
    PROVE  CteInv'
<1>1. /\ current \in Threads \cup {Main} /\ r \in Registers /\ mem \in [0 .. End(Main) - 1 -> Int]
      /\ left \in [Threads \cup {Main} -> Seq(Registers)] /\ CteAssumption /\ esp0 \in Int
      /\ inservice = {w \in Irqs : r.eip = STUB + w}
      /\ (current \in users => r.cr3 = Space(current) /\ esp0 = End(current))
  BY DEF CteInv, CteTypes, CurrentOK
<1>2. PICK n \in 0 .. 2 : n = Len(left[current]) /\ Level(users, mem, current, left[current], n, r)
  BY Here
<1>3. /\ n = 0 /\ current \notin users /\ r.cs = KCODE /\ r.eflags = 1 /\ r.eip = START
      /\ current # Main /\ r.esp = End(current)
      /\ r.gpr["eax"] = Arg(current) /\ r.gpr["ebx"] = LOOP
  <2>1. n = 0 /\ AtProgram(users, mem, current, r) /\ r.eip = START
    BY <1>2, Depth DEF kcontext_start
  <2> QED
    BY <2>1 DEF AtProgram, START, LOOP
<1>4. /\ Base(current) \in Nat /\ End(current) = Base(current) + STACK /\ STACK \in Nat
      /\ STACK >= 24 /\ End(Main) \in Nat /\ End(current) <= End(Main)
  BY <1>1, Stacks, MainStack
<1> DEFINE words == <<r.gpr.eax, 0>>
<1>5. /\ 2 = Len(words) /\ (\A k \in 1 .. 2 : words[k] \in Int) /\ words[1] = Arg(current)
      /\ Arg(current) \in Int
  <2>1. r.gpr.eax \in Int
    BY <1>1, Offsets DEF Registers
  <2> QED
    BY <1>3, <2>1
<1>6. mem' = Pushed(mem, End(current), words)
  BY <1>3 DEF kcontext_start
<1> HIDE DEF words
<1>7. /\ mem' \in [0 .. End(Main) - 1 -> Int]
      /\ SameOut(End(Main), mem, mem', Base(current), End(current))
      /\ Under(mem', End(current), words, 2)
  <2>1. /\ Base(current) + 2 <= End(current) /\ End(current) <= End(current) /\ End(current) \in Nat
        /\ End(current) \in Int /\ 2 \in Nat /\ End(Main) \in Nat
    BY <1>4
  <2> QED
    BY <1>1, <1>4, <1>5, <1>6, <2>1, PushedWords
<1>8. mem'[End(current) - 1] = Arg(current)
  BY <1>5, <1>7 DEF Under
<1>9. /\ r' \in Registers /\ r'.eip = LOOP /\ r'.cs = KCODE /\ r'.esp = End(current) - 2
      /\ r'.eflags = 1 /\ r'.cr3 = r.cr3
  <2>1. r' = [r EXCEPT !.esp = r.esp - 2, !.eip = r.gpr["ebx"]]
    BY DEF kcontext_start
  <2>2. r' = [r EXCEPT !.esp = End(current) - 2, !.eip = LOOP]
    BY <1>3, <2>1
  <2>3. End(current) - 2 \in Int
    BY <1>4
  <2> QED
    BY <1>1, <1>3, <2>2, <2>3 DEF Registers, LOOP
<1>10. AtProgram(users, mem', current, r')
  BY <1>3, <1>8, <1>9 DEF AtProgram
<1>11. /\ users' = users /\ esp0' = esp0 /\ inservice' = inservice /\ armed' = armed
       /\ current' = current /\ saved' = saved /\ left' = left
  BY DEF kcontext_start
<1>12. Level(users, mem', current, left'[current], Len(left'[current]), r')
  <2>1. Len(left'[current]) = 0
    BY <1>2, <1>3, <1>11
  <2> QED
    BY <1>10, <2>1 DEF Level
<1>13. inservice' = {w \in Irqs : r'.eip = STUB + w}
  <2>1. inservice = {} /\ {w \in Irqs : r'.eip = STUB + w} = {}
    BY <1>1, <1>3, <1>9, Stubs
  <2> QED
    BY <1>11, <2>1
<1>14. current \notin users
  BY <1>3
<1> QED
  BY <1>1, <1>7, <1>9, <1>11, <1>12, <1>13, <1>14, StaysHere

\* What the handler read of a frame is forgotten.
LEMMA SpentWords ==
    ASSUME NEW size \in Nat, NEW m \in [0 .. size - 1 -> Int], NEW b \in Nat, NEW e \in Nat, e <= size,
           NEW tf \in Int, b <= tf, tf + 20 <= e
    PROVE  /\ Spent(m, tf) \in [0 .. size - 1 -> Int] /\ SameOut(size, m, Spent(m, tf), b, e)
           /\ Same(m, Spent(m, tf), tf + 20, e) /\ Same(m, Spent(m, tf), b, tf + 15)
<1>1. Spent(m, tf) = [a \in 0 .. size - 1 |-> IF a \in tf + 15 .. tf + 19 THEN 0 ELSE m[a]]
  BY DEF Spent, TF_IRQ, TF_EFLAGS
<1>2. Spent(m, tf) \in [0 .. size - 1 -> Int]
  BY <1>1
<1>3. ASSUME NEW a \in 0 .. size - 1, a \notin tf + 15 .. tf + 19 PROVE Spent(m, tf)[a] = m[a]
  BY <1>1, <1>3
<1>4. \A a \in 0 .. size - 1 : a \notin b .. e - 1 => a \notin tf + 15 .. tf + 19
  OBVIOUS
<1>5. /\ \A a \in tf + 20 .. e - 1 : a \in 0 .. size - 1 /\ a \notin tf + 15 .. tf + 19
      /\ \A a \in b .. (tf + 15) - 1 : a \in 0 .. size - 1 /\ a \notin tf + 15 .. tf + 19
  OBVIOUS
<1> QED
  BY <1>2, <1>3, <1>4, <1>5 DEF SameOut, Same

\* The handler, and the service of a call, on the frame of the trap.
LEMMA InHandler ==
    ASSUME CteInv, NEW n \in 1 .. 2, NEW g \in Registers, InTrap(n, g)
    PROVE  /\ r.eip = HANDLER => AtHandler(users, mem, current, g, r) /\ Ctx = Tf(current, g)
           /\ r.eip = SERVICE => AtService(users, mem, current, g, r) /\ Ctx = Tf(current, g) /\ n = 1
           /\ r.eip = IRET => AtIret(mem, current, g, r) /\ n = 1
<1>1. AtKernel(users, mem, current, g, r) /\ Tf(current, g) \in Int
      /\ (n = 2 => r.eip \in IrqStubs \cup {HANDLER})
  BY DEF InTrap, Nested
<1>2. /\ r.eip = HANDLER => AtHandler(users, mem, current, g, r)
      /\ r.eip = SERVICE => AtService(users, mem, current, g, r)
      /\ r.eip = IRET => AtIret(mem, current, g, r)
  BY <1>1, Stubs DEF AtKernel, AtStub, AtHandler, AtService, AtIret, HANDLER, SERVICE, IRET
<1>3. r.eip \in {SERVICE, IRET} => n = 1
  BY <1>1, Stubs DEF HANDLER, SERVICE, IRET
<1>4. AtHandler(users, mem, current, g, r) \/ AtService(users, mem, current, g, r) =>
        Ctx = Tf(current, g)
  <2>1. (Tf(current, g) - 2) + 1 = Tf(current, g) - 1
    BY <1>1
  <2> QED
    BY <2>1 DEF AtHandler, AtService, Ctx
<1> QED
  BY <1>2, <1>3, <1>4 DEF SERVICE, IRET, HANDLER

\* The call is served, and its trap frame is left.
LEMMA ServeStep ==
    ASSUME CteInv, Serve
    PROVE  CteInv'
<1>1. /\ current \in Threads \cup {Main} /\ r \in Registers /\ mem \in [0 .. End(Main) - 1 -> Int]
      /\ left \in [Threads \cup {Main} -> Seq(Registers)] /\ CteAssumption /\ esp0 \in Int
      /\ inservice = {w \in Irqs : r.eip = STUB + w}
      /\ (current \in users => r.cr3 = Space(current) /\ esp0 = End(current))
  BY DEF CteInv, CteTypes, CurrentOK
<1>2. PICK n \in 1 .. 2, g \in Registers : InTrap(n, g)
  BY TheTrap DEF Serve, HANDLER, LOOP, START
<1>3. AtHandler(users, mem, current, g, r) /\ Ctx = Tf(current, g) /\ r.eip = HANDLER
  BY <1>2, InHandler DEF Serve
<1>4. PICK tf \in Int : tf = Tf(current, g)
  BY <1>2 DEF InTrap
<1>5. g.cs = UCODE /\ n = 1
  <2>1. mem[Tf(current, g) + TF_IRQ] \in UserOnly
    BY <1>3 DEF Serve, Irq, UserOnly
  <2> QED
    BY <1>2, <1>3, <2>1 DEF AtHandler, InTrap
<1>6. /\ Base(current) \in Nat /\ End(current) \in Nat /\ End(Main) \in Nat
      /\ End(current) <= End(Main) /\ Base(current) + 2 <= tf /\ Top(current, g) \in Int
      /\ Top(current, g) = tf + 22 /\ Top(current, g) <= End(current)
  <2>1. Base(current) \in Nat /\ End(current) \in Nat /\ End(Main) \in Nat /\ End(current) <= End(Main)
    BY <1>1, Stacks, MainStack
  <2> QED
    BY <1>2, <1>4, <1>5, <2>1 DEF InTrap
<1>7. /\ mem' \in [0 .. End(Main) - 1 -> Int]
      /\ SameOut(End(Main), mem, mem', Base(current), End(current))
      /\ Same(mem, mem', tf + 20, End(current)) /\ Same(mem, mem', Base(current), tf + 15)
  <2>1. Base(current) <= tf /\ tf + 20 <= End(current) /\ mem' = Spent(mem, tf)
    BY <1>3, <1>4, <1>6 DEF Serve
  <2> QED
    BY <1>1, <1>6, <2>1, SpentWords
<1>8. Same(mem, mem', Top(current, g), End(current)) /\ Same(mem, mem', tf, tf + CONTEXT_SIZE)
      /\ mem'[tf - 1] = mem[tf - 1]
  BY <1>6, <1>7 DEF Same, CONTEXT_SIZE
<1>9. /\ r' \in Registers /\ r'.eip = SERVICE /\ r'.cs = KCODE /\ r'.esp = tf - 2
      /\ r'.eflags = 1 /\ r'.cr3 = r.cr3
  <2>1. PICK f \in [Names -> Int] : f = Fill(current + 20)
    BY <1>1, Fills DEF CteAssumption, Threads, Main
  <2>2. r.esp = tf - 2 /\ r.cs = KCODE
    BY <1>2, <1>3, <1>4 DEF AtHandler, InTrap, AtKernel
  <2>3. PICK one \in Int : one = 1
    OBVIOUS
  <2>4. r' = [r EXCEPT !.eip = SERVICE, !.eflags = one, !.gpr = f] /\ SERVICE \in Int
    BY <2>1, <2>3 DEF Serve, SERVICE
  <2>5. r' \in Registers /\ r'.eip = SERVICE /\ r'.cs = r.cs /\ r'.esp = r.esp /\ r'.eflags = one
        /\ r'.cr3 = r.cr3
    BY <1>1, <2>4 DEF Registers
  <2> QED
    BY <2>2, <2>3, <2>5
<1>10. AtService(users, mem', current, g, r')
  <2>1. Context(users, mem, current, tf, g) /\ mem[tf - 1] = tf
    BY <1>3, <1>4 DEF AtHandler
  <2>2. Context(users, mem', current, tf, g)
    BY <1>1, <1>6, <1>8, <2>1, ContextKept
  <2> QED
    BY <1>4, <1>5, <1>8, <1>9, <2>1, <2>2 DEF AtService
<1>11. AtKernel(users, mem', current, g, r')
  BY <1>4, <1>6, <1>9, <1>10 DEF AtKernel
<1>12. /\ users' = users /\ esp0' = esp0 /\ inservice' = inservice /\ armed' = armed
       /\ current' = current /\ saved' = saved /\ left' = left
  BY DEF Serve
<1>13. Level(users, mem', current, left'[current], Len(left'[current]), r')
  <2>1. /\ n = Len(left[current]) /\ g = left[current][n] /\ n # 2
        /\ Level(users, mem, current, left[current], n, r)
    BY <1>2, <1>5 DEF InTrap
  <2> QED
    BY <1>8, <1>9, <1>11, <1>12, <2>1, SameLevel
<1>14. inservice' = {w \in Irqs : r'.eip = STUB + w}
  <2>1. inservice = {} /\ {w \in Irqs : r'.eip = STUB + w} = {}
    BY <1>1, <1>3, <1>9, Stubs
  <2> QED
    BY <1>12, <2>1
<1> QED
  BY <1>1, <1>7, <1>9, <1>12, <1>13, <1>14, StaysHere

\* The call has been served, and __am_iret has restored ds.
LEMMA ServedStep ==
    ASSUME CteInv, Served
    PROVE  CteInv'
<1>1. /\ current \in Threads \cup {Main} /\ r \in Registers /\ mem \in [0 .. End(Main) - 1 -> Int]
      /\ left \in [Threads \cup {Main} -> Seq(Registers)] /\ CteAssumption /\ esp0 \in Int
      /\ inservice = {w \in Irqs : r.eip = STUB + w}
  BY DEF CteInv, CteTypes, CurrentOK
<1>2. PICK n \in 1 .. 2, g \in Registers : InTrap(n, g)
  BY TheTrap DEF Served, SERVICE, LOOP, START
<1>3. AtService(users, mem, current, g, r) /\ Ctx = Tf(current, g) /\ n = 1 /\ r.eip = SERVICE
  BY <1>2, InHandler DEF Served
<1>4. PICK tf \in Int : tf = Tf(current, g)
  BY <1>2 DEF InTrap
<1>5. /\ Context(users, mem, current, tf, g) /\ g.cs = UCODE /\ current \in users
      /\ Base(current) \in Nat /\ Base(current) + 2 <= tf
  BY <1>1, <1>2, <1>3, <1>4, Stacks DEF AtService, InTrap
<1>6. /\ mem[tf + CR3] = Space(current) /\ mem[tf + ESP0] = End(current) /\ mem[tf + DS] = g.ds
      /\ Popped(mem, tf, g) /\ Space(current) \in Int /\ Space(current) # 0 /\ End(current) \in Int
      /\ g.ds \in Int
  <2>1. Space(current) \in Int /\ Space(current) # 0
    BY <1>1 DEF Space, CteAssumption, Threads, Main
  <2>2. End(current) \in Int
    BY <1>1, Stacks
  <2>3. g.ds \in Int
    BY DEF Registers
  <2> QED
    BY <1>5, <2>1, <2>2, <2>3 DEF Context
<1>7. esp0' = End(current) /\ SwitchSpace(Ctx).cr3 = Space(current)
  BY <1>3, <1>4, <1>6 DEF Served, SwitchSpace
<1>8. /\ r' \in Registers /\ r'.eip = IRET /\ r'.cs = KCODE /\ r'.esp = tf + 2 /\ r'.eflags = 1
      /\ r'.cr3 = Space(current) /\ r'.ds = g.ds
  <2>1. PICK esp \in Int, space \in Int : esp = tf + 2 /\ space = Space(current)
    BY <1>6
  <2>2. r.cs = KCODE /\ r.eflags = 1 /\ IRET \in Int
    BY <1>2, <1>3 DEF AtService, InTrap, AtKernel, IRET
  <2>3. r' = [r EXCEPT !.eip = IRET, !.esp = esp, !.ds = g.ds, !.cr3 = space]
    BY <1>3, <1>4, <1>6, <1>7, <2>1 DEF Served
  <2>4. r' \in Registers /\ r'.eip = IRET /\ r'.cs = r.cs /\ r'.esp = esp /\ r'.eflags = r.eflags
        /\ r'.cr3 = space /\ r'.ds = g.ds
    BY <1>1, <1>6, <2>2, <2>3 DEF Registers
  <2> QED
    BY <2>1, <2>2, <2>4
<1>9. AtKernel(users, mem, current, g, r')
  <2>1. AtIret(mem, current, g, r')
    BY <1>4, <1>5, <1>6, <1>8 DEF AtIret
  <2> QED
    BY <1>4, <1>5, <1>8, <2>1 DEF AtKernel
<1>10. /\ users' = users /\ mem' = mem /\ inservice' = inservice /\ armed' = armed
       /\ current' = current /\ saved' = saved /\ left' = left
  BY DEF Served
<1>11. SameOut(End(Main), mem, mem', Base(current), End(current))
       /\ Same(mem, mem', Top(current, g), End(current))
  BY <1>10 DEF SameOut, Same
<1>12. Level(users, mem', current, left'[current], Len(left'[current]), r')
  <2>1. /\ n = Len(left[current]) /\ g = left[current][n] /\ n # 2
        /\ Level(users, mem, current, left[current], n, r)
    BY <1>2, <1>3 DEF InTrap
  <2> QED
    BY <1>8, <1>9, <1>10, <1>11, <2>1, SameLevel
<1>13. inservice' = {w \in Irqs : r'.eip = STUB + w}
  <2>1. inservice = {} /\ {w \in Irqs : r'.eip = STUB + w} = {}
    BY <1>1, <1>3, <1>8, Stubs
  <2> QED
    BY <1>10, <2>1
<1> QED
  BY <1>1, <1>6, <1>7, <1>8, <1>10, <1>11, <1>12, <1>13, StaysHere

----------------------------------------------------------------------------
(* The way back                                                            *)

\* A word belongs to the stack it is in.
LEMMA OnlyMine ==
    ASSUME CteAssumption, NEW t \in Threads \cup {Main}, NEW a \in Nat, StackOf(a) = t
    PROVE  a \in Mine(t)
<1>1. t \in Nat /\ STACK \in Nat /\ STACK >= 24
  BY DEF CteAssumption, Threads, Main
<1>2. a \div STACK = t
  BY DEF StackOf
<1>3. t * STACK <= a /\ a < t * STACK + STACK
  BY <1>1, <1>2
<1>4. Base(t) \in Int /\ End(t) \in Int /\ Base(t) = t * STACK /\ End(t) = t * STACK + STACK
  BY <1>1 DEF Base, End
<1>5. Base(t) <= a /\ a < End(t)
  BY <1>3, <1>4
<1> QED
  BY <1>4, <1>5 DEF Mine

\* The words under the stack pointer are forgotten.
LEMMA KeptWords ==
    ASSUME CteAssumption, NEW t \in Threads \cup {Main}, NEW m \in [0 .. End(Main) - 1 -> Int],
           NEW from \in Int, Base(t) <= from, from <= End(t)
    PROVE  /\ Kept(m, t, from) \in [0 .. End(Main) - 1 -> Int]
           /\ SameOut(End(Main), m, Kept(m, t, from), Base(t), End(t))
           /\ Same(m, Kept(m, t, from), from, End(t))
<1>1. End(Main) \in Nat /\ Base(t) \in Nat /\ End(t) \in Nat /\ End(t) <= End(Main)
  BY Stacks, MainStack
<1>2. Kept(m, t, from) = [a \in 0 .. End(Main) - 1 |-> IF StackOf(a) = t /\ a < from THEN 0 ELSE m[a]]
  BY DEF Kept
<1>3. Kept(m, t, from) \in [0 .. End(Main) - 1 -> Int]
  BY <1>2
<1>4. ASSUME NEW a \in 0 .. End(Main) - 1, a \notin Base(t) .. End(t) - 1
      PROVE  Kept(m, t, from)[a] = m[a]
  <2>1. StackOf(a) # t
    BY <1>1, <1>4, OnlyMine DEF Mine
  <2> QED
    BY <1>2, <2>1
<1>5. ASSUME NEW a \in from .. End(t) - 1 PROVE Kept(m, t, from)[a] = m[a]
  <2>1. a \in 0 .. End(Main) - 1 /\ ~ (a < from)
    BY <1>1
  <2> QED
    BY <1>2, <2>1
<1> QED
  BY <1>3, <1>4, <1>5 DEF SameOut, Same

\* __am_iret moves the words of a context it returns to the kernel with, though
\* the words it moves them to may be of the same context.
OneMove(size, m, m2, a, w) ==
    /\ m2 \in [0 .. size - 1 -> Int] /\ m2[a] = w
    /\ \A i \in 0 .. size - 1 : i # a => m2[i] = m[i]
MovedIn(size, m, m2, c, b, e, esp) ==
    /\ m2 \in [0 .. size - 1 -> Int] /\ SameOut(size, m, m2, b, e) /\ Same(m, m2, esp, e)
    /\ m2[esp - 1] = m[c + 12] /\ m2[esp - 2] = m[c + 11] /\ m2[esp - 3] = m[c + 10]
    /\ m2[esp - 4] = m[c + 9] /\ m2[esp - 5] = m[c + 8] /\ m2[esp - 6] = m[c + 7]

\* One of the six moves of __am_iret to the kernel, under the stack pointer to
\* return to: from the last to the first none overwrites what a later one reads.
LEMMA MoveWord ==
    ASSUME NEW size \in Nat, NEW m \in [0 .. size - 1 -> Int], NEW c \in Nat, NEW esp \in Nat,
           c + 15 <= esp, esp <= size
    PROVE  /\ OneMove(size, m, Move(m, c, esp, 1), esp - 1, m[c + 12])
           /\ OneMove(size, m, Move(m, c, esp, 2), esp - 2, m[c + 11])
           /\ OneMove(size, m, Move(m, c, esp, 3), esp - 3, m[c + 10])
           /\ OneMove(size, m, Move(m, c, esp, 4), esp - 4, m[c + 9])
           /\ OneMove(size, m, Move(m, c, esp, 5), esp - 5, m[c + 8])
           /\ OneMove(size, m, Move(m, c, esp, 6), esp - 6, m[c + 7])
<1>1. ASSUME NEW k \in 1 .. 6, NEW i \in Int, i = c + (13 - k)
      PROVE  OneMove(size, m, Move(m, c, esp, k), esp - k, m[i])
  <2>1. esp - k \in 0 .. size - 1 /\ i \in 0 .. size - 1
    BY <1>1
  <2>2. Move(m, c, esp, k) = [m EXCEPT ![esp - k] = m[i]]
    BY <1>1 DEF Move, ESP
  <2> QED
    BY <2>1, <2>2 DEF OneMove
<1>2. /\ c + 12 = c + (13 - 1) /\ c + 11 = c + (13 - 2) /\ c + 10 = c + (13 - 3)
      /\ c + 9 = c + (13 - 4) /\ c + 8 = c + (13 - 5) /\ c + 7 = c + (13 - 6)
      /\ c + 12 \in Int /\ c + 11 \in Int /\ c + 10 \in Int /\ c + 9 \in Int /\ c + 8 \in Int
      /\ c + 7 \in Int
  OBVIOUS
<1>3. 1 \in 1 .. 6 /\ 2 \in 1 .. 6 /\ 3 \in 1 .. 6 /\ 4 \in 1 .. 6 /\ 5 \in 1 .. 6 /\ 6 \in 1 .. 6
  OBVIOUS
<1> QED
  BY <1>1, <1>2, <1>3

\* After the six moves the words under that pointer are those of the context, and
\* no other word has changed but those under it.
LEMMA MovedWords ==
    ASSUME NEW size \in Nat, NEW m \in [0 .. size - 1 -> Int], NEW c \in Nat, NEW esp \in Nat,
           NEW b \in Nat, NEW e \in Nat, b <= c, c + 15 <= esp, esp <= e, e <= size
    PROVE  MovedIn(size, m, Moved(m, c, esp), c, b, e, esp)
<1> DEFINE m1 == Move(m, c, esp, 1)
           m2 == Move(m1, c, esp, 2)
           m3 == Move(m2, c, esp, 3)
           m4 == Move(m3, c, esp, 4)
           m5 == Move(m4, c, esp, 5)
           m6 == Move(m5, c, esp, 6)
<1>1. Moved(m, c, esp) = m6
  BY DEF Moved, MoveOrder
<1>2. esp <= size
  OBVIOUS
<1>3. OneMove(size, m, m1, esp - 1, m[c + 12])
  BY <1>2, MoveWord
<1> HIDE DEF m1
<1>4. OneMove(size, m1, m2, esp - 2, m1[c + 11])
  <2>1. m1 \in [0 .. size - 1 -> Int]
    BY <1>3 DEF OneMove
  <2> QED
    BY <1>2, <2>1, MoveWord
<1> HIDE DEF m2
<1>5. OneMove(size, m2, m3, esp - 3, m2[c + 10])
  <2>1. m2 \in [0 .. size - 1 -> Int]
    BY <1>4 DEF OneMove
  <2> QED
    BY <1>2, <2>1, MoveWord
<1> HIDE DEF m3
<1>6. OneMove(size, m3, m4, esp - 4, m3[c + 9])
  <2>1. m3 \in [0 .. size - 1 -> Int]
    BY <1>5 DEF OneMove
  <2> QED
    BY <1>2, <2>1, MoveWord
<1> HIDE DEF m4
<1>7. OneMove(size, m4, m5, esp - 5, m4[c + 8])
  <2>1. m4 \in [0 .. size - 1 -> Int]
    BY <1>6 DEF OneMove
  <2> QED
    BY <1>2, <2>1, MoveWord
<1> HIDE DEF m5
<1>8. OneMove(size, m5, m6, esp - 6, m5[c + 7])
  <2>1. m5 \in [0 .. size - 1 -> Int]
    BY <1>7 DEF OneMove
  <2> QED
    BY <1>2, <2>1, MoveWord
<1> HIDE DEF m6
<1>9. ASSUME NEW a \in 0 .. size - 1, a \notin esp - 6 .. esp - 1 PROVE m6[a] = m[a]
  <2>1. a # esp - 1 /\ a # esp - 2 /\ a # esp - 3 /\ a # esp - 4 /\ a # esp - 5 /\ a # esp - 6
    BY <1>9
  <2> QED
    BY <1>3, <1>4, <1>5, <1>6, <1>7, <1>8, <2>1 DEF OneMove
<1>10. SameOut(size, m, m6, b, e) /\ Same(m, m6, esp, e)
  <2>1. ASSUME NEW a \in 0 .. size - 1, a \notin b .. e - 1 PROVE m6[a] = m[a]
    <3>1. a \notin esp - 6 .. esp - 1
      BY <2>1
    <3> QED
      BY <1>9, <3>1
  <2>2. ASSUME NEW a \in esp .. e - 1 PROVE m6[a] = m[a]
    <3>1. a \in 0 .. size - 1 /\ a \notin esp - 6 .. esp - 1
      OBVIOUS
    <3> QED
      BY <1>9, <3>1
  <2> QED
    BY <2>1, <2>2 DEF SameOut, Same
<1>11. /\ m1[c + 11] = m[c + 11] /\ m2[c + 10] = m[c + 10] /\ m3[c + 9] = m[c + 9]
       /\ m4[c + 8] = m[c + 8] /\ m5[c + 7] = m[c + 7]
  <2>1. \A i \in 7 .. 11 : c + i \in 0 .. size - 1
    OBVIOUS
  <2>2. /\ c + 11 # esp - 1 /\ c + 10 # esp - 1 /\ c + 10 # esp - 2
        /\ c + 9 # esp - 1 /\ c + 9 # esp - 2 /\ c + 9 # esp - 3
        /\ c + 8 # esp - 1 /\ c + 8 # esp - 2 /\ c + 8 # esp - 3 /\ c + 8 # esp - 4
        /\ c + 7 # esp - 1 /\ c + 7 # esp - 2 /\ c + 7 # esp - 3 /\ c + 7 # esp - 4 /\ c + 7 # esp - 5
    OBVIOUS
  <2> QED
    BY <1>3, <1>4, <1>5, <1>6, <1>7, <2>1, <2>2 DEF OneMove
<1>12. /\ m6[esp - 1] = m[c + 12] /\ m6[esp - 2] = m1[c + 11] /\ m6[esp - 3] = m2[c + 10]
       /\ m6[esp - 4] = m3[c + 9] /\ m6[esp - 5] = m4[c + 8] /\ m6[esp - 6] = m5[c + 7]
  <2>1. /\ esp - 1 \in 0 .. size - 1 /\ esp - 2 \in 0 .. size - 1 /\ esp - 3 \in 0 .. size - 1
        /\ esp - 4 \in 0 .. size - 1 /\ esp - 5 \in 0 .. size - 1
    OBVIOUS
  <2> QED
    BY <1>3, <1>4, <1>5, <1>6, <1>7, <1>8, <2>1 DEF OneMove
<1> QED
  BY <1>1, <1>8, <1>10, <1>11, <1>12 DEF MovedIn, OneMove

\* h are the registers g in the address space x.
LEMMA Shown ==
    ASSUME NEW g \in Registers, NEW x \in Int, NEW h, h = [g EXCEPT !.cr3 = x]
    PROVE  h \in Registers /\ Visible(h) = Visible(g) /\ h.cr3 = x /\ h.eip = g.eip
<1>1. h \in Registers /\ h.cr3 = x /\ h.eip = g.eip
  BY DEF Registers
<1>2. PICK zero \in Int : zero = 0
  OBVIOUS
<1>3. [h EXCEPT !.cr3 = zero] = [g EXCEPT !.cr3 = zero]
  BY <1>1 DEF Registers
<1> QED
  BY <1>1, <1>2, <1>3 DEF Visible

FromWords(m, c, ds, x) ==
    [gpr |-> [k \in Names |-> m[c + GPRs[k]]], esp |-> m[c + ESP], eip |-> m[c + EIP],
     cs |-> m[c + CS], ds |-> ds, eflags |-> m[c + EFLAGS], cr3 |-> x]

\* The registers taken from the words of a context are those it was made of.
LEMMA FromContext ==
    ASSUME NEW m, NEW c \in Int, NEW g \in Registers, Popped(m, c, g), NEW x \in Int
    PROVE  FromWords(m, c, g.ds, x) = [g EXCEPT !.cr3 = x]
<1>1. [k \in Names |-> m[c + GPRs[k]]] = g.gpr
  <2>1. g.gpr \in [Names -> Int]
    BY DEF Registers
  <2> QED
    BY <2>1 DEF Popped
<1> QED
  BY <1>1 DEF Popped, Registers, FromWords

\* A return with a context of registers g, from a memory where it still is.
LEMMA IretStep ==
    ASSUME CteAssumption, mem \in [0 .. End(Main) - 1 -> Int], NEW t \in Threads \cup {Main},
           NEW c \in Int, NEW g \in Registers, Context(users, mem, t, c, g), Top(t, g) \in Int,
           Top(t, g) <= End(t), g.cs \in {KCODE, UCODE}, NEW old \in [0 .. End(Main) - 1 -> Int],
           Same(mem, old, Base(t), End(t)), NEW s, s.cr3 \in Int, Iret(c, t, s, old)
    PROVE  /\ r' = [g EXCEPT !.cr3 = s.cr3] /\ mem' \in [0 .. End(Main) - 1 -> Int]
           /\ SameOut(End(Main), old, mem', Base(t), End(t)) /\ Same(mem, mem', Top(t, g), End(t))
<1>1. /\ End(Main) \in Nat /\ Base(t) \in Nat /\ End(t) \in Nat /\ End(t) <= End(Main)
  BY Stacks, MainStack
<1>2. /\ Base(t) <= c /\ c + 15 <= Top(t, g) /\ Popped(mem, c, g) /\ mem[c + DS] = g.ds
      /\ mem[c + CS] = g.cs /\ mem[c + ESP] = g.esp
  BY DEF Context, Popped, CONTEXT_SIZE
<1>3. KCODE # UCODE
  BY DEF KCODE, UCODE
<1>4. CASE g.cs = UCODE
  <2>1. Top(t, g) = End(t)
    BY <1>4 DEF Top
  <2>2. mem' = Kept(old, t, End(t)) /\ r' = [RegsIn(mem, c, mem[c + ESP]) EXCEPT !.cr3 = s.cr3]
    BY <1>2, <1>3, <1>4 DEF Iret
  <2>3. Base(t) <= End(t) /\ End(t) \in Int
    BY <1>1, <1>2, <2>1
  <2>4. /\ mem' \in [0 .. End(Main) - 1 -> Int]
        /\ SameOut(End(Main), old, mem', Base(t), End(t))
    BY <2>2, <2>3, KeptWords
  <2>5. r' = [g EXCEPT !.cr3 = s.cr3]
    <3>1. r' = FromWords(mem, c, g.ds, s.cr3)
      BY <1>2, <2>2 DEF RegsIn, FromWords
    <3> QED
      BY <1>2, <3>1, FromContext
  <2>6. Same(mem, mem', Top(t, g), End(t))
    BY <2>1, <2>3 DEF Same
  <2> QED
    BY <2>4, <2>5, <2>6
<1>5. CASE g.cs = KCODE
  <2> DEFINE new == Moved(old, c, g.esp)
  <2>1. /\ mem' = Kept(new, t, g.esp)
        /\ r' = [KernelRegs(mem, new, c, g.esp) EXCEPT !.cr3 = s.cr3]
    BY <1>2, <1>5 DEF Iret
  <2>2. /\ Top(t, g) = g.esp /\ g.esp \in Int /\ g.esp \in Nat /\ c \in Nat /\ c + 15 <= g.esp
        /\ Base(t) <= g.esp /\ g.esp <= End(t)
    BY <1>1, <1>2, <1>3, <1>5 DEF Top
  <2>3. MovedIn(End(Main), old, new, c, Base(t), End(t), g.esp)
    BY <1>1, <1>2, <2>2, MovedWords
  <2> HIDE DEF new
  <2>4. new \in [0 .. End(Main) - 1 -> Int]
    BY <2>3 DEF MovedIn
  <2>5. /\ mem' \in [0 .. End(Main) - 1 -> Int]
        /\ SameOut(End(Main), new, mem', Base(t), End(t)) /\ Same(new, mem', g.esp, End(t))
    BY <2>1, <2>2, <2>4, KeptWords
  <2>6. SameOut(End(Main), old, mem', Base(t), End(t)) /\ Same(mem, mem', Top(t, g), End(t))
    <3>1. \A a \in g.esp .. End(t) - 1 : a \in Base(t) .. End(t) - 1
      BY <1>1, <2>2
    <3> QED
      BY <2>2, <2>3, <2>5, <3>1 DEF MovedIn, SameOut, Same
  <2>7. /\ new[g.esp - 1] = mem[c + 12] /\ new[g.esp - 2] = mem[c + 11]
        /\ new[g.esp - 3] = mem[c + 10] /\ new[g.esp - 4] = mem[c + 9]
        /\ new[g.esp - 5] = mem[c + 8] /\ new[g.esp - 6] = mem[c + 7]
    <3>1. \A i \in 7 .. 12 : c + i \in Base(t) .. End(t) - 1
      BY <1>1, <1>2, <2>2
    <3>2. \A i \in 7 .. 12 : old[c + i] = mem[c + i]
      BY <3>1 DEF Same
    <3> QED
      BY <2>3, <3>2 DEF MovedIn
  <2>8. r' = [g EXCEPT !.cr3 = s.cr3]
    <3> DEFINE gpr == [k \in Names |-> IF k \in {"esi", "edi", "ebp"}
                                       THEN new[g.esp - [esi |-> 6, edi |-> 5, ebp |-> 4][k]]
                                       ELSE mem[c + GPRs[k]]]
    <3>1. gpr = [k \in Names |-> mem[c + GPRs[k]]]
      <4>1. ASSUME NEW k \in {"esi", "edi", "ebp"}
            PROVE  new[g.esp - [esi |-> 6, edi |-> 5, ebp |-> 4][k]] = mem[c + GPRs[k]]
        <5>1. CASE k = "esi"
          BY <2>7, <5>1, Offsets
        <5>2. CASE k = "edi"
          BY <2>7, <5>2, Offsets
        <5>3. CASE k = "ebp"
          BY <2>7, <5>3, Offsets
        <5> QED
          BY <5>1, <5>2, <5>3
      <4> QED
        BY <4>1
    <3>2. r' = [gpr |-> gpr, esp |-> g.esp, eip |-> new[g.esp - 3], cs |-> new[g.esp - 2],
                ds |-> mem[c + DS], eflags |-> new[g.esp - 1], cr3 |-> s.cr3]
      BY <2>1 DEF KernelRegs, RegsIn
    <3> HIDE DEF gpr
    <3>3. r' = FromWords(mem, c, g.ds, s.cr3)
      BY <1>2, <2>7, <3>1, <3>2 DEF EIP, CS, EFLAGS, FromWords
    <3> QED
      BY <1>2, <3>3, FromContext
  <2> QED
    BY <2>5, <2>6, <2>8
<1> QED
  BY <1>4, <1>5

\* g are the registers of t's trap k + 1, the last.
LastTrap(t, k, g) == k + 1 = Len(left[t]) /\ g = left[t][k + 1]

\* A thread goes on where its last trap came.
LEMMA Resumes ==
    ASSUME CteInv, NEW t \in Threads, NEW k \in 0 .. 1, NEW g \in Registers,
           LastTrap(t, k, g), Level(users, mem, t, left[t], k, g),
           left' = [left EXCEPT ![t] = Front(@)], r' \in Registers, Visible(r') = Visible(g),
           Same(mem, mem', Top(t, g), End(t))
    PROVE  /\ left' \in [Threads \cup {Main} -> Seq(Registers)]
           /\ Last(left[t]) = g /\ \A u \in Threads \ {t} : left'[u] = left[u]
           /\ Level(users, mem', t, left'[t], Len(left'[t]), r')
<1>1. left \in [Threads \cup {Main} -> Seq(Registers)] /\ t \in Threads \cup {Main} /\ CteAssumption
      /\ left[t] \in Seq(Registers)
  BY DEF CteInv, CteTypes
<1>2. /\ Front(left[t]) \in Seq(Registers) /\ Len(Front(left[t])) = k /\ Last(left[t]) = g
      /\ \A i \in 1 .. k : Front(left[t])[i] = left[t][i] /\ left[t][i] \in Registers
  BY <1>1 DEF Front, Last, LastTrap
<1>3. left' \in [Threads \cup {Main} -> Seq(Registers)] /\ left'[t] = Front(left[t])
      /\ \A u \in Threads \ {t} : left'[u] = left[u]
  BY <1>1, <1>2
<1>4. Level(users, mem', t, left'[t], k, r')
  <2>1. Traps(left[t], k) /\ SameTraps(left[t], left'[t], k) /\ k \in 0 .. 2
    BY <1>2, <1>3 DEF Traps, SameTraps
  <2> QED
    BY <1>1, <2>1, LevelKept
<1> QED
  BY <1>2, <1>3, <1>4

\* The context of a thread that returns, where the kernel finds it.
Resumable(t, c, k, g) ==
    /\ LastTrap(t, k, g) /\ Level(users, mem, t, left[t], k, g)
    /\ Context(users, mem, t, c, g) /\ g.eip \notin IrqStubs /\ g.cs \in {KCODE, UCODE}
    /\ Top(t, g) \in Int /\ Base(t) <= Top(t, g) /\ Top(t, g) <= End(t)
    /\ t \in users => mem[c + CR3] = Space(t) /\ mem[c + ESP0] = End(t)

\* The handler has the context of every thread, the one that was trapped included.
LEMMA FindsContext ==
    ASSUME CteInv, r.eip = HANDLER, NEW t \in Threads
    PROVE  \E c \in Int, k \in 0 .. 1, g \in Registers :
             c = (IF t = current THEN Ctx ELSE saved[t]) /\ Resumable(t, c, k, g)
<1>1. CASE t = current
  <2>1. PICK n \in 1 .. 2, g \in Registers : InTrap(n, g)
    BY TheTrap DEF HANDLER, LOOP, START
  <2>2. Context(users, mem, t, Ctx, g) /\ Ctx = Tf(current, g) /\ Ctx \in Int
    BY <1>1, <2>1, InHandler DEF AtHandler, InTrap
  <2>3. PICK k \in 0 .. 1 : k = n - 1
    OBVIOUS
  <2>4. t \in users => mem[Ctx + CR3] = Space(t) /\ mem[Ctx + ESP0] = End(t)
    BY <2>2 DEF Context
  <2>5. Resumable(t, Ctx, k, g)
    <3>1. k + 1 = n
      BY <2>3
    <3> QED
      BY <1>1, <2>1, <2>2, <2>3, <2>4, <3>1 DEF InTrap, Resumable, LastTrap
  <2> QED
    BY <1>1, <2>2, <2>5
<1>2. CASE t # current
  <2>1. Waits(t) /\ saved[t] \in Int /\ left[t] \in Seq(Registers) /\ CteAssumption
        /\ t \in Threads \cup {Main}
    BY <1>2 DEF CteInv, CteTypes, WaitingOK
  <2>2. PICK n \in 1 .. 2 : /\ n = Len(left[t]) /\ left[t][n].eip \notin IrqStubs
                            /\ Level(users, mem, t, left[t], n - 1, left[t][n])
                            /\ Context(users, mem, t, saved[t], left[t][n])
    BY <2>1 DEF Waits
  <2>3. PICK k \in 0 .. 1 : k = n - 1
    OBVIOUS
  <2>4. PICK g \in Registers : g = left[t][n]
    BY <2>1, <2>2
  <2>5. Traps(left[t], k) /\ k \in 0 .. 2
    BY <2>1, <2>2, <2>3 DEF Traps
  <2>6. Level(users, mem, t, left[t], k, g) /\ k + 1 = n
    BY <2>2, <2>3, <2>4
  <2>7. /\ Top(t, g) \in Int /\ Base(t) <= Top(t, g) /\ Top(t, g) <= End(t)
    BY <2>1, <2>5, <2>6, LevelBounds
  <2>8. g.cs \in {KCODE, UCODE}
    BY <2>5, <2>6, Modes
  <2>9. t \in users => mem[saved[t] + CR3] = Space(t) /\ mem[saved[t] + ESP0] = End(t)
    BY <2>2 DEF Context
  <2>10. Resumable(t, saved[t], k, g)
    BY <2>2, <2>4, <2>6, <2>7, <2>8, <2>9 DEF Resumable, LastTrap
  <2> QED
    BY <1>2, <2>1, <2>10
<1> QED
  BY <1>1, <1>2

\* The thread that ran now waits with the context its trap left.
LEMMA NowWaits ==
    ASSUME CteInv, NEW n \in 1 .. 2, NEW g \in Registers, InTrap(n, g), r.eip = HANDLER,
           NEW t \in Threads, t = current, users' = users, saved'[current] = Ctx, left'[current] = left[current],
           Same(mem, mem', Top(current, g), End(current)),
           Same(mem, mem', Ctx, Ctx + CONTEXT_SIZE)
    PROVE  Waits(t)'
<1>1. CteAssumption /\ current \in Threads \cup {Main} /\ left[current] \in Seq(Registers)
  BY DEF CteInv, CteTypes
<1>2. Context(users, mem, current, Ctx, g) /\ Ctx \in Int
  BY InHandler DEF AtHandler, InTrap
<1>3. PICK k \in 0 .. 2 : k = n - 1
  OBVIOUS
<1>4. /\ n = Len(left[current]) /\ g = left[current][n] /\ g.eip \notin IrqStubs
      /\ Level(users, mem, current, left[current], k, g)
      /\ Top(current, g) \in Int /\ Top(current, g) <= End(current)
  BY <1>3 DEF InTrap
<1>5. Traps(left[current], k) /\ SameTraps(left[current], left[current], k)
  BY <1>1, <1>3, <1>4 DEF Traps, SameTraps
<1>6. Level(users, mem', current, left[current], k, g)
  <2>1. /\ Level(users, mem, current, left[current], k, g)
        /\ Same(mem, mem', Top(current, g), End(current))
    BY <1>4
  <2> QED
    BY <1>1, <1>5, <2>1, LevelKept
<1>7. Context(users, mem', current, Ctx, g)
  BY <1>1, <1>2, <1>4, ContextKept
<1>8. \E i \in {Len(left'[t])} :
        /\ i \in 1 .. 2 /\ left'[t][i].eip \notin IrqStubs
        /\ Level(users, mem', t, left'[t], i - 1, left'[t][i])
        /\ Context(users, mem', t, saved'[t], left'[t][i])
  BY <1>3, <1>4, <1>6, <1>7
<1> QED
  BY <1>8 DEF Waits

\* The handler returns with the context of t.
LEMMA ReturnStep ==
    ASSUME CteInv, r.eip = HANDLER, NEW t \in Threads,
           \E c \in {IF t = current THEN Ctx ELSE saved[t]} : Return(c, t, SwitchSpace(c)),
           current' = t, users' = users, inservice' = inservice, armed' = armed,
           saved' \in [Threads -> Int],
           \A u \in Threads \ {t} : saved'[u] = IF u = current THEN Ctx ELSE saved[u]
    PROVE  CteInv' /\ GoesOn
<1>1. /\ current \in Threads \cup {Main} /\ mem \in [0 .. End(Main) - 1 -> Int] /\ r.cr3 \in Int
      /\ left \in [Threads \cup {Main} -> Seq(Registers)] /\ CteAssumption /\ esp0 \in Int
      /\ inservice = {w \in Irqs : r.eip = STUB + w} /\ armed
      /\ t \in Threads \cup {Main} /\ End(Main) \in Nat
  BY MainStack DEF CteInv, CteTypes, CurrentOK, Registers
<1>2. PICK n \in 1 .. 2, g \in Registers : InTrap(n, g)
  BY TheTrap DEF HANDLER, LOOP, START
<1>3. /\ Base(current) \in Nat /\ End(current) \in Nat /\ End(current) <= End(Main)
      /\ Ctx \in Int /\ Ctx = Tf(current, g) /\ Base(current) <= Ctx
      /\ Ctx + 20 <= Top(current, g) /\ Top(current, g) \in Int /\ Top(current, g) <= End(current)
  <2>1. Base(current) \in Nat /\ End(current) \in Nat /\ End(current) <= End(Main)
    BY <1>1, StackEnds, Zenon
  <2>2. Ctx = Tf(current, g)
    BY <1>2, InHandler
  <2>3. /\ Top(current, g) \in Int /\ Top(current, g) <= End(current)
        /\ Tf(current, g) \in Int /\ Base(current) + 2 <= Tf(current, g)
        /\ Top(current, g) = Tf(current, g) + (IF g.cs = UCODE THEN 22 ELSE 20)
    BY <1>2, Zenon DEF InTrap
  <2> QED
    BY <2>1, <2>2, <2>3
<1>4. PICK c \in Int, k \in 0 .. 1, h \in Registers :
        c = (IF t = current THEN Ctx ELSE saved[t]) /\ Resumable(t, c, k, h)
  BY FindsContext
<1>5. Return(c, t, SwitchSpace(c))
  BY <1>4
<1>6. /\ LastTrap(t, k, h) /\ Level(users, mem, t, left[t], k, h) /\ Context(users, mem, t, c, h)
      /\ h.eip \notin IrqStubs /\ h.cs \in {KCODE, UCODE}
      /\ Top(t, h) \in Int /\ Base(t) <= Top(t, h) /\ Top(t, h) <= End(t)
  BY <1>4 DEF Resumable
<1>7. /\ Base(t) \in Nat /\ End(t) \in Nat /\ End(t) <= End(Main)
      /\ Base(t) <= c /\ c + 15 <= Top(t, h)
  <2>1. Base(t) <= c /\ c + 15 <= Top(t, h)
    BY <1>6 DEF Context, CONTEXT_SIZE
  <2>2. Base(t) \in Nat /\ End(t) \in Nat /\ End(t) <= End(Main)
    BY <1>1, StackEnds, Zenon
  <2> QED
    BY <2>1, <2>2
<1> DEFINE s == SwitchSpace(c)
           old == IF c = Ctx THEN mem ELSE Spent(mem, Ctx)
<1>8. s.cr3 \in Int /\ s.esp0 \in Int /\ (t \in users => s.cr3 = Space(t) /\ s.esp0 = End(t))
  <2>1. mem[c + CR3] \in Int /\ mem[c + ESP0] \in Int
    <3>1. c + 0 \in 0 .. End(Main) - 1 /\ c + 6 \in 0 .. End(Main) - 1
      BY <1>1, <1>6, <1>7
    <3> QED
      BY <1>1, <3>1 DEF CR3, ESP0
  <2>2. t \in users => mem[c + CR3] = Space(t) /\ mem[c + ESP0] = End(t)
    BY <1>4 DEF Resumable
  <2>3. Space(t) # 0
    BY <1>1 DEF Space, CteAssumption, Threads, Main
  <2> QED
    BY <1>1, <2>1, <2>2, <2>3 DEF SwitchSpace
<1>9. /\ old \in [0 .. End(Main) - 1 -> Int] /\ Same(mem, old, Base(t), End(t))
      /\ SameOut(End(Main), mem, old, Base(current), End(current))
      /\ t # current => /\ Same(mem, old, Top(current, g), End(current))
                        /\ Same(mem, old, Ctx, Ctx + 15)
  <2>1. CASE t = current
    <3>1. old = mem
      BY <1>4, <2>1
    <3> QED
      BY <1>1, <2>1, <3>1 DEF Same, SameOut
  <2>2. CASE t # current
    <3>1. \A a \in Mine(t) : a \notin Mine(current) /\ a \in 0 .. End(Main) - 1 /\ a \in Int
      BY <1>1, <2>2, Apart
    <3>2. c \in Mine(t) /\ Ctx \in Mine(current)
      BY <1>3, <1>6, <1>7 DEF Mine
    <3>3. old = Spent(mem, Ctx)
      BY <3>1, <3>2
    <3>4. Ctx + 20 <= End(current)
      BY <1>3
    <3>5. /\ Spent(mem, Ctx) \in [0 .. End(Main) - 1 -> Int]
          /\ SameOut(End(Main), mem, Spent(mem, Ctx), Base(current), End(current))
          /\ Same(mem, Spent(mem, Ctx), Ctx + 20, End(current))
          /\ Same(mem, Spent(mem, Ctx), Base(current), Ctx + 15)
      BY <1>1, <1>3, <3>4, SpentWords
    <3>6. Same(mem, old, Base(t), End(t))
      BY <3>1, <3>3, <3>5 DEF Same, SameOut, Mine
    <3>7. Same(mem, old, Top(current, g), End(current)) /\ Same(mem, old, Ctx, Ctx + 15)
      <4>1. /\ \A a \in Top(current, g) .. End(current) - 1 : a \in Ctx + 20 .. End(current) - 1
            /\ \A a \in Ctx .. (Ctx + 15) - 1 : a \in Base(current) .. (Ctx + 15) - 1
        BY <1>3
      <4> QED
        BY <3>3, <3>5, <4>1 DEF Same
    <3> QED
      BY <3>3, <3>5, <3>6, <3>7
  <2> QED
    BY <2>1, <2>2
<1>10. Iret(c, t, s, old) /\ esp0' = s.esp0 /\ left' = [left EXCEPT ![t] = Front(@)]
  BY <1>5 DEF Return
<1> HIDE DEF s, old
<1>11. /\ r' = [h EXCEPT !.cr3 = s.cr3] /\ mem' \in [0 .. End(Main) - 1 -> Int]
       /\ SameOut(End(Main), old, mem', Base(t), End(t)) /\ Same(mem, mem', Top(t, h), End(t))
  BY <1>1, <1>6, <1>8, <1>9, <1>10, IretStep
<1>12. r' \in Registers /\ Visible(r') = Visible(h) /\ r'.cr3 = s.cr3 /\ r'.eip = h.eip
  BY <1>8, <1>11, Shown
<1>13. /\ left' \in [Threads \cup {Main} -> Seq(Registers)]
       /\ Last(left[t]) = h /\ \A u \in Threads \ {t} : left'[u] = left[u]
       /\ Level(users, mem', t, left'[t], Len(left'[t]), r')
  <2>1. LastTrap(t, k, h) /\ Level(users, mem, t, left[t], k, h)
    BY <1>6
  <2>2. left' = [left EXCEPT ![t] = Front(@)]
    BY <1>10
  <2> QED
    BY <1>11, <1>12, <2>1, <2>2, Resumes
<1>14. ASSUME NEW u \in Threads \ {t} PROVE Waits(u)'
  <2>1. left'[u] = left[u] /\ u \in Threads /\ u \in Threads \cup {Main}
    BY <1>13
  <2>2. \A a \in Mine(u) : a \notin Mine(t) /\ a \in 0 .. End(Main) - 1 /\ a \in Int
    BY <1>1, <2>1, <1>14, Apart
  <2>3. Same(old, mem', Base(u), End(u))
    BY <1>11, <2>2 DEF Same, SameOut, Mine
  <2>4. CASE u = current
    <3>1. /\ \A a \in Top(current, g) .. End(current) - 1 : a \in Base(u) .. End(u) - 1
          /\ \A a \in Ctx .. (Ctx + 15) - 1 : a \in Base(u) .. End(u) - 1
      BY <1>3, <2>4
    <3>2. Same(mem, old, Top(current, g), End(current)) /\ Same(mem, old, Ctx, Ctx + 15)
      BY <1>9, <1>14, <2>4
    <3>3. /\ Same(mem, mem', Top(current, g), End(current))
          /\ Same(mem, mem', Ctx, Ctx + CONTEXT_SIZE)
      BY <2>3, <3>1, <3>2 DEF Same, CONTEXT_SIZE
    <3>4. saved'[current] = Ctx /\ left'[current] = left[current]
      BY <1>14, <2>1, <2>4
    <3> QED
      BY <1>2, <2>1, <2>4, <3>3, <3>4, NowWaits
  <2>5. CASE u # current
    <3>1. Waits(u) /\ saved'[u] = saved[u] /\ CteTypes
      BY <1>14, <2>5 DEF CteInv, WaitingOK
    <3>2. \A a \in Mine(u) : a \notin Mine(current)
      BY <1>1, <2>1, <2>5, Apart
    <3>3. Same(mem, old, Base(u), End(u))
      BY <1>9, <2>2, <3>2 DEF Same, SameOut, Mine
    <3>4. Same(mem, mem', Base(u), End(u))
      BY <2>3, <3>3 DEF Same
    <3> QED
      BY <1>1, <2>1, <3>1, <3>4, StillWaits
  <2> QED
    BY <2>4, <2>5
<1>15. WaitingOK'
  BY <1>14 DEF WaitingOK
<1>16. CteTypes'
  BY <1>1, <1>8, <1>10, <1>11, <1>12, <1>13 DEF CteInv, CteTypes
<1>17. CurrentOK'
  <2>1. inservice' = {w \in Irqs : r'.eip = STUB + w}
    <3>1. inservice = {} /\ {w \in Irqs : r'.eip = STUB + w} = {}
      BY <1>1, <1>6, <1>12, Stubs DEF IrqStubs
    <3> QED
      BY <3>1
  <2>2. current' \in users' => r'.cr3 = Space(current') /\ esp0' = End(current')
    BY <1>8, <1>10, <1>12
  <2>3. Level(users', mem', current', left'[current'], Len(left'[current']), r') /\ armed'
    BY <1>1, <1>13
  <2> QED
    BY <2>1, <2>2, <2>3 DEF CurrentOK
<1>18. GoesOn
  <2>1. ASSUME NEW u \in Threads, Len(left'[u]) < Len(left[u]) PROVE u = t
    <3>1. left[u] \in Seq(Registers)
      BY <1>1
    <3>2. u # t => left'[u] = left[u]
      BY <1>13
    <3> QED
      BY <2>1, <3>1, <3>2
  <2> QED
    BY <1>12, <1>13, <2>1 DEF GoesOn
<1> QED
  BY <1>1, <1>15, <1>16, <1>17, <1>18 DEF CteInv

\* The handler goes on with any thread.
LEMMA ScheduleStep ==
    ASSUME CteInv, NEW t \in Threads, Schedule(t)
    PROVE  CteInv' /\ GoesOn
<1>1. r.eip = HANDLER /\ current' = t /\ users' = users /\ inservice' = inservice /\ armed' = armed
      /\ \E c \in {IF t = current THEN Ctx ELSE saved[t]} : Return(c, t, SwitchSpace(c))
      /\ saved' = [u \in Threads |-> IF u = current THEN Ctx ELSE IF u = t THEN 0 ELSE saved[u]]
  BY DEF Schedule
<1>2. Ctx \in Int
  <2>1. PICK n \in 1 .. 2, g \in Registers : InTrap(n, g)
    BY <1>1, TheTrap DEF HANDLER, LOOP, START
  <2> QED
    BY <1>1, <2>1, InHandler DEF InTrap
<1>3. saved' \in [Threads -> Int]
  BY <1>1, <1>2 DEF CteInv, CteTypes
<1>4. \A u \in Threads \ {t} : saved'[u] = IF u = current THEN Ctx ELSE saved[u]
  BY <1>1
<1> QED
  BY <1>1, <1>3, <1>4, ReturnStep

\* The handler of a page fault goes on with the thread that had it.
LEMMA RepairStep ==
    ASSUME CteInv, Repair
    PROVE  CteInv' /\ GoesOn
<1>1. /\ r.eip = HANDLER /\ Irq = EX_PF /\ Return(Ctx, current, SwitchSpace(Ctx))
      /\ users' = users /\ inservice' = inservice /\ armed' = armed /\ current' = current
      /\ saved' = saved
  BY DEF Repair
<1>2. PICK n \in 1 .. 2, g \in Registers : InTrap(n, g)
  BY <1>1, TheTrap DEF HANDLER, LOOP, START
<1>3. current \in users
  <2>1. AtHandler(users, mem, current, g, r) /\ Ctx = Tf(current, g)
    BY <1>1, <1>2, InHandler
  <2>2. mem[Tf(current, g) + TF_IRQ] \in UserOnly
    BY <1>1, <2>1 DEF Irq, UserOnly
  <2> QED
    BY <1>2, <2>1, <2>2 DEF AtHandler, InTrap
<1>4. PICK t \in Threads : t = current
  BY <1>3 DEF CteInv, CteTypes
<1>5. saved' \in [Threads -> Int] /\ \A u \in Threads \ {t} : saved'[u] = IF u = current THEN Ctx ELSE saved[u]
  BY <1>1, <1>4 DEF CteInv, CteTypes
<1>6. \E c \in {IF t = current THEN Ctx ELSE saved[t]} : Return(c, t, SwitchSpace(c))
  BY <1>1, <1>4
<1> QED
  BY <1>1, <1>4, <1>5, <1>6, ReturnStep

\* The end of a call: iret, with interrupts on.
LEMMA UserIretStep ==
    ASSUME CteInv, user_iret
    PROVE  CteInv' /\ GoesOn
<1>1. /\ current \in Threads \cup {Main} /\ mem \in [0 .. End(Main) - 1 -> Int] /\ r.cr3 \in Int
      /\ left \in [Threads \cup {Main} -> Seq(Registers)] /\ CteAssumption /\ esp0 \in Int
      /\ inservice = {w \in Irqs : r.eip = STUB + w} /\ users \subseteq Threads
      /\ (current \in users => r.cr3 = Space(current) /\ esp0 = End(current))
  BY DEF CteInv, CteTypes, CurrentOK, Registers
<1>2. /\ r.eip = IRET /\ users' = users /\ esp0' = esp0 /\ inservice' = inservice /\ armed' = armed
      /\ current' = current /\ saved' = saved /\ mem' = Kept(mem, current, End(current))
      /\ left' = [left EXCEPT ![current] = Front(@)]
      /\ r' = [RegsIn(mem, r.esp - 2, mem[r.esp - 2 + ESP]) EXCEPT !.ds = r.ds]
  BY DEF user_iret
<1>3. PICK n \in 1 .. 2, g \in Registers : InTrap(n, g)
  BY <1>2, TheTrap DEF IRET, LOOP, START
<1>4. AtIret(mem, current, g, r) /\ n = 1
  BY <1>2, <1>3, InHandler
<1>5. PICK tf \in Int : tf = Tf(current, g)
  BY <1>3 DEF InTrap
<1>6. /\ Popped(mem, tf, g) /\ r.ds = g.ds /\ r.esp = tf + 2 /\ g.cs = UCODE
  BY <1>4, <1>5 DEF AtIret
<1>7. current \in users /\ current \in Threads /\ g.eip \notin IrqStubs
      /\ LastTrap(current, 0, g) /\ Level(users, mem, current, left[current], 0, g)
      /\ Top(current, g) = End(current)
  BY <1>1, <1>3, <1>4, <1>6 DEF InTrap, LastTrap, Top
<1>8. r' = [g EXCEPT !.cr3 = r.cr3]
  <2>1. r.esp - 2 = tf
    BY <1>6
  <2>2. r' = FromWords(mem, tf, g.ds, r.cr3)
    BY <1>2, <1>6, <2>1 DEF RegsIn, FromWords
  <2> QED
    BY <1>1, <1>6, <2>2, FromContext
<1>9. r' \in Registers /\ Visible(r') = Visible(g) /\ r'.cr3 = r.cr3 /\ r'.eip = g.eip
  BY <1>1, <1>8, Shown
<1>10. /\ mem' \in [0 .. End(Main) - 1 -> Int]
       /\ SameOut(End(Main), mem, mem', Base(current), End(current))
       /\ Same(mem, mem', Top(current, g), End(current))
  <2>1. Base(current) <= End(current) /\ End(current) \in Int
    BY <1>1, Stacks
  <2> QED
    BY <1>1, <1>2, <1>7, <2>1, KeptWords
<1>11. PICK t \in Threads : t = current
  BY <1>7
<1>12. /\ left' \in [Threads \cup {Main} -> Seq(Registers)]
       /\ Last(left[t]) = g /\ \A u \in Threads \ {t} : left'[u] = left[u]
       /\ Level(users, mem', t, left'[t], Len(left'[t]), r')
  <2>1. PICK k \in 0 .. 1 : k = 0
    OBVIOUS
  <2>2. LastTrap(t, k, g) /\ Level(users, mem, t, left[t], k, g)
    BY <1>7, <1>11, <2>1
  <2>3. left' = [left EXCEPT ![t] = Front(@)]
    BY <1>2, <1>11
  <2>4. Same(mem, mem', Top(t, g), End(t))
    BY <1>10, <1>11
  <2> QED
    BY <1>9, <2>2, <2>3, <2>4, Resumes
<1>13. inservice' = {w \in Irqs : r'.eip = STUB + w}
  <2>1. inservice = {} /\ {w \in Irqs : r'.eip = STUB + w} = {}
    BY <1>1, <1>2, <1>7, <1>9, Stubs DEF IrqStubs
  <2> QED
    BY <1>2, <2>1
<1>14. CteInv'
  BY <1>1, <1>2, <1>9, <1>10, <1>11, <1>12, <1>13, StaysHere
<1>15. GoesOn
  <2>1. ASSUME NEW u \in Threads, Len(left'[u]) < Len(left[u]) PROVE u = t
    <3>1. left[u] \in Seq(Registers)
      BY <1>1
    <3>2. u # t => left'[u] = left[u]
      BY <1>12
    <3> QED
      BY <2>1, <3>1, <3>2
  <2> QED
    BY <1>9, <1>12, <2>1 DEF GoesOn
<1> QED
  BY <1>14, <1>15

\* A step that takes no trap back lets no thread go on.
LEMMA NoneGoesOn ==
    ASSUME CteInv, left' = left \/ left' = [left EXCEPT ![current] = Append(@, r)]
    PROVE  GoesOn
<1>1. SUFFICES ASSUME NEW t \in Threads, Len(left'[t]) < Len(left[t]) PROVE FALSE
  BY DEF GoesOn
<1>2. left \in [Threads \cup {Main} -> Seq(Registers)] /\ r \in Registers
  BY DEF CteInv, CteTypes
<1>3. left[t] \in Seq(Registers)
  BY <1>2
<1>4. CASE left' = left
  BY <1>1, <1>3, <1>4
<1>5. CASE left' = [left EXCEPT ![current] = Append(@, r)]
  <2>1. left'[t] = left[t] \/ left'[t] = Append(left[t], r)
    BY <1>2, <1>5
  <2>2. Len(Append(left[t], r)) = Len(left[t]) + 1 /\ Len(left[t]) \in Nat
    BY <1>2, <1>3
  <2> QED
    BY <1>1, <2>1, <2>2
<1> QED
  BY <1>4, <1>5

\* Entering a stub takes no trap back.
LEMMA SoftwareGoesOn ==
    ASSUME CteInv, NEW v, NEW error, Hardware(v, error)
    PROVE  GoesOn
  BY NoneGoesOn DEF Hardware

\* Every step keeps the invariant, and lets a thread go on only as it was.
LEMMA CteStep ==
    ASSUME CteInv, [CteNext]_cteVars
    PROVE  CteInv' /\ GoesOn
<1>1. ASSUME NEW v \in Vectors, Stub(v) PROVE CteInv' /\ GoesOn
  BY <1>1, StubStep, NoneGoesOn DEF Stub
<1>2. CASE Repair
  BY <1>2, RepairStep
<1>3. CASE Serve
  BY <1>3, ServeStep, NoneGoesOn DEF Serve
<1>4. CASE Served
  BY <1>4, ServedStep, NoneGoesOn DEF Served
<1>5. CASE user_iret
  BY <1>5, UserIretStep
<1>6. CASE kcontext_start
  BY <1>6, StartStep, NoneGoesOn DEF kcontext_start
<1>7. ASSUME NEW t \in Threads, Schedule(t) PROVE CteInv' /\ GoesOn
  BY <1>7, ScheduleStep
<1>8. CASE Compute
  BY <1>8, ComputeStep, NoneGoesOn DEF Compute
<1>9. CASE yield
  <2>1. Software(EX_YIELD, << >>) /\ Hardware(EX_YIELD, << >>)
    BY <1>9 DEF yield, Software
  <2>2. EX_YIELD \in Vectors \ Irqs /\ EX_YIELD \notin ERR /\ EX_YIELD \notin UserOnly
    BY DEF Vectors, Irqs, ERR, UserOnly, EX_YIELD, EX_SYSCALL, EX_PF, T_IRQ0, IRQ_TIMER, IRQ_KBD
  <2>3. PICK error : error = << >>
    OBVIOUS
  <2> QED
    BY <2>1, <2>2, <2>3, SoftwareStep, SoftwareGoesOn
<1>10. CASE syscall
  <2>1. FromUser /\ Software(EX_SYSCALL, << >>) /\ Hardware(EX_SYSCALL, << >>)
    BY <1>10 DEF syscall, Software
  <2>2. EX_SYSCALL \in Vectors \ Irqs /\ EX_SYSCALL \notin ERR
    BY DEF Vectors, Irqs, ERR, EX_YIELD, EX_SYSCALL, EX_PF, T_IRQ0, IRQ_TIMER, IRQ_KBD
  <2>3. PICK error : error = << >>
    OBVIOUS
  <2> QED
    BY <2>1, <2>2, <2>3, SoftwareStep, SoftwareGoesOn
<1>11. CASE pagefault
  <2>1. FromUser /\ Software(EX_PF, << 6 >>) /\ Hardware(EX_PF, << 6 >>)
    BY <1>11 DEF pagefault, Software
  <2>2. EX_PF \in Vectors \ Irqs /\ EX_PF \in ERR
    BY DEF Vectors, Irqs, ERR, EX_YIELD, EX_SYSCALL, EX_PF, T_IRQ0, IRQ_TIMER, IRQ_KBD
  <2>3. PICK error : error = << 6 >>
    OBVIOUS
  <2> QED
    BY <2>1, <2>2, <2>3, SoftwareStep, SoftwareGoesOn
<1>12. CASE TimerTick
  <2>1. armed' = armed /\ Interrupt(T_IRQ0 + IRQ_TIMER) /\ Hardware(T_IRQ0 + IRQ_TIMER, << >>)
    BY <1>12 DEF TimerTick, timer, Interrupt, CteInv, CurrentOK
  <2>2. T_IRQ0 + IRQ_TIMER \in Irqs
    BY DEF Irqs
  <2> QED
    BY <2>1, <2>2, InterruptStep, SoftwareGoesOn
<1>13. CASE Device(IRQ_KBD)
  <2>1. redirection[IRQ_KBD].vector = T_IRQ0 + IRQ_KBD
    BY DEF redirection, ioapic_enable, ioapic_init, IRQ_KBD, IRQ_COM1, T_IRQ0
  <2>2. armed' = armed /\ Interrupt(T_IRQ0 + IRQ_KBD) /\ Hardware(T_IRQ0 + IRQ_KBD, << >>)
    BY <1>13, <2>1 DEF Device, Interrupt
  <2>3. T_IRQ0 + IRQ_KBD \in Irqs
    BY DEF Irqs
  <2> QED
    BY <2>2, <2>3, InterruptStep, SoftwareGoesOn
<1>14. CASE UNCHANGED cteVars
  <2>1. /\ users' = users /\ mem' = mem /\ r' = r /\ esp0' = esp0 /\ inservice' = inservice
        /\ armed' = armed /\ current' = current /\ saved' = saved /\ left' = left
    BY <1>14 DEF cteVars
  <2>2. CteInv'
    BY <2>1 DEF CteInv, CteTypes, CurrentOK, WaitingOK, Waits
  <2> QED
    BY <2>1, <2>2, NoneGoesOn
<1> QED
  BY <1>1, <1>2, <1>3, <1>4, <1>5, <1>6, <1>7, <1>8, <1>9, <1>10, <1>11, <1>12, <1>13, <1>14
     DEF CteNext, Kernel, Switches, Program

----------------------------------------------------------------------------
(* The first state                                                         *)

\* The offset of a register's word tells which register it is.
LEMMA OffsetNames == \A n \in Names : NameAt(GPRs[n]) = n
<1>1. \A x, n \in Names : GPRs[x] = GPRs[n] => x = n
  BY Offsets
<1> QED
  BY <1>1 DEF NameAt

\* The words of a context are those of its registers.
LEMMA WordsOf ==
    ASSUME NEW g \in Registers, NEW s \in Int
    PROVE  /\ \A k \in 0 .. 14 : ContextWord(g, k, s) \in Int
           /\ \A n \in Names : ContextWord(g, GPRs[n], s) = g.gpr[n]
           /\ ContextWord(g, EIP, s) = g.eip /\ ContextWord(g, CS, s) = g.cs
           /\ ContextWord(g, EFLAGS, s) = g.eflags /\ ContextWord(g, ESP, s) = g.esp
           /\ ContextWord(g, DS, s) = g.ds /\ ContextWord(g, CR3, s) = g.cr3
           /\ ContextWord(g, ESP0, s) = s
<1> USE DEF ContextWord, CR3, DS, EIP, CS, EFLAGS, ESP, ESP0, SS3
<1>1. g.gpr \in [Names -> Int] /\ g.esp \in Int /\ g.eip \in Int /\ g.cs \in Int /\ g.ds \in Int
      /\ g.eflags \in Int /\ g.cr3 \in Int
  BY DEF Registers
<1>2. \A n \in Names : ContextWord(g, GPRs[n], s) = g.gpr[n]
  <2>1. SUFFICES ASSUME NEW n \in Names PROVE ContextWord(g, GPRs[n], s) = g.gpr[n]
    OBVIOUS
  <2>2. GPRs[n] \in {2, 3, 4, 5, 7, 8, 9} /\ NameAt(GPRs[n]) = n
    BY Offsets, OffsetNames
  <2>3. PICK k \in {2, 3, 4, 5, 7, 8, 9} : k = GPRs[n]
    BY <2>2
  <2>4. NameAt(k) = n
    BY <2>2, <2>3
  <2>5. ContextWord(g, k, s) = g.gpr[n]
    BY <2>3, <2>4
  <2> QED
    BY <2>3, <2>5
<1>3. \A k \in 0 .. 14 : k \in {0, 1, 6, 10, 11, 12, 13, 14} \/ \E n \in Names : GPRs[n] = k
  BY Offsets
<1>4. \A k \in {0, 1, 6, 10, 11, 12, 13, 14} : ContextWord(g, k, s) \in Int
  BY <1>1 DEF UDATA
<1>5. \A k \in 0 .. 14 : ContextWord(g, k, s) \in Int
  <2>1. ASSUME NEW k \in 0 .. 14, k \notin {0, 1, 6, 10, 11, 12, 13, 14}
        PROVE  ContextWord(g, k, s) \in Int
    <3>1. PICK n \in Names : GPRs[n] = k
      BY <1>3, <2>1
    <3>2. ContextWord(g, k, s) = g.gpr[n]
      BY ONLY <1>2, <3>1
    <3> QED
      BY ONLY <1>1, <3>1, <3>2
  <2> QED
    BY ONLY <1>4, <2>1
<1>6. /\ ContextWord(g, EIP, s) = g.eip /\ ContextWord(g, CS, s) = g.cs
      /\ ContextWord(g, EFLAGS, s) = g.eflags /\ ContextWord(g, ESP, s) = g.esp
      /\ ContextWord(g, DS, s) = g.ds /\ ContextWord(g, CR3, s) = g.cr3
      /\ ContextWord(g, ESP0, s) = s
  OBVIOUS
<1> QED
  BY <1>2, <1>5, <1>6

\* The registers a new thread starts with.
LEMMA NewThread ==
    ASSUME CteAssumption, NEW t \in Threads, NEW m
    PROVE  /\ NewRegs(t) \in Registers /\ AtProgram(users, m, t, NewRegs(t))
           /\ Top(t, NewRegs(t)) = End(t) /\ NewRegs(t).eip \notin IrqStubs
           /\ t \in users => NewRegs(t).cr3 = Space(t)
<1>1. t \in Int /\ t # Main /\ End(t) \in Int /\ Space(t) \in Int /\ Arg(t) \in Int
  <2>1. t \in Int /\ t # Main /\ t \in Threads \cup {Main}
    BY DEF CteAssumption, Threads, Main
  <2>2. End(t) \in Int
    BY <2>1, Stacks
  <2> QED
    BY <2>1, <2>2 DEF Space, Arg
<1>2. "eax" \in Names /\ "ebx" \in Names /\ "eax" # "ebx"
  BY Offsets
<1>3. Zero \in [Names -> Int] /\ LOOP \in Int
  BY DEF Zero, LOOP
<1>4. CASE t \in users
  <2>1. NewRegs(t) = Regs(Zero, UVM_END, LOOP, UCODE, UDATA, 1, Space(t))
    BY <1>4 DEF NewRegs, ucontext
  <2>2. NewRegs(t) \in Registers
    BY <1>1, <1>3, <2>1 DEF Regs, Registers, UVM_END, UCODE, UDATA
  <2>3. LOOP \notin IrqStubs
    BY Stubs
  <2> QED
    BY <1>4, <2>1, <2>2, <2>3 DEF Regs, AtProgram, Top
<1>5. CASE t \notin users
  <2>1. PICK gpr \in [Names -> Int] : gpr = [Zero EXCEPT !.eax = Arg(t), !.ebx = LOOP]
    BY <1>1, <1>3
  <2>2. gpr["eax"] = Arg(t) /\ gpr["ebx"] = LOOP
    BY <1>2, <1>3, <2>1
  <2>3. NewRegs(t) = Regs(gpr, End(t), START, KCODE, KDATA, 1, 0)
    BY <1>5, <2>1 DEF NewRegs, kcontext
  <2>4. NewRegs(t) \in Registers
    BY <1>1, <2>1, <2>3 DEF Regs, Registers, START, KCODE, KDATA
  <2>5. START \notin IrqStubs
    BY Stubs
  <2> QED
    BY <1>1, <1>5, <2>2, <2>3, <2>4, <2>5 DEF Regs, AtProgram, Top, KCODE, UCODE
<1> QED
  BY <1>4, <1>5

\* What the makers of the threads write on their stacks.
LEMMA FirstMemory ==
    ASSUME CteAssumption, mem = [a \in 0 .. End(Main) - 1 |-> NewWord(a)]
    PROVE  /\ mem \in [0 .. End(Main) - 1 -> Int]
           /\ \A t \in Threads : Context(users, mem, t, End(t) - CONTEXT_SIZE, NewRegs(t))
<1>1. ASSUME NEW a \in 0 .. End(Main) - 1 PROVE NewWord(a) \in Int
  <2>1. End(Main) \in Nat /\ a \in Nat /\ a < End(Main)
    BY MainStack
  <2>2. PICK t \in Nat : t = StackOf(a) /\ t <= Main
    <3>1. Main \in Nat /\ STACK \in Nat /\ STACK >= 24
      BY DEF CteAssumption, Main
    <3>2. a < (Main + 1) * STACK
      BY <2>1 DEF End
    <3>3. a \div STACK \in Nat /\ a \div STACK <= Main
      BY <2>1, <3>1, <3>2
    <3> QED
      BY <3>3 DEF StackOf
  <2>3. CASE t = Main
    BY <2>2, <2>3 DEF NewWord
  <2>4. CASE t # Main
    <3>1. t \in Threads /\ t \in Threads \cup {Main}
      BY <2>2, <2>4 DEF CteAssumption, Threads, Main
    <3>2. a \in Mine(t)
      BY <2>1, <2>2, <3>1, OnlyMine
    <3>3. End(t) \in Int /\ a < End(t)
      BY <3>1, <3>2, Stacks DEF Mine
    <3>4. NewRegs(t) \in Registers
      BY <3>1, NewThread
    <3>5. PICK s \in Int : s = IF t \in users THEN End(t) ELSE 0
      BY <3>3
    <3>6. PICK k \in Int : k = a - (End(t) - CONTEXT_SIZE)
      BY <2>1, <3>3 DEF CONTEXT_SIZE
    <3>7. k <= 14
      BY <2>1, <3>3, <3>6 DEF CONTEXT_SIZE
    <3>8. NewWord(a) = IF k < 0 THEN 0 ELSE ContextWord(NewRegs(t), k, s)
      BY <2>2, <2>4, <3>5, <3>6 DEF NewWord
    <3>9. k \in 0 .. 14 => ContextWord(NewRegs(t), k, s) \in Int
      BY <3>4, WordsOf
    <3>10. CASE k < 0
      BY <3>8, <3>10
    <3>11. CASE ~ (k < 0)
      <4>1. k \in 0 .. 14
        BY <3>7, <3>11
      <4>2. NewWord(a) = ContextWord(NewRegs(t), k, s)
        BY <3>8, <3>11
      <4> QED
        BY <3>9, <4>1, <4>2
    <3> QED
      BY <3>10, <3>11
  <2> QED
    BY <2>3, <2>4
<1>2. ASSUME NEW t \in Threads PROVE Context(users, mem, t, End(t) - CONTEXT_SIZE, NewRegs(t))
  <2>1. t \in Threads \cup {Main} /\ t # Main
    BY DEF CteAssumption, Threads, Main
  <2>2. /\ Base(t) \in Nat /\ End(t) = Base(t) + STACK /\ STACK \in Nat /\ STACK >= 24
        /\ \A a \in Mine(t) : a \in 0 .. End(Main) - 1 /\ StackOf(a) = t
    BY <2>1, Stacks
  <2>3. NewRegs(t) \in Registers /\ Top(t, NewRegs(t)) = End(t)
        /\ (t \in users => NewRegs(t).cr3 = Space(t))
    BY NewThread
  <2>4. PICK g \in Registers : g = NewRegs(t)
    BY <2>3
  <2>5. PICK s \in Int : s = IF t \in users THEN End(t) ELSE 0
    BY <2>2
  <2>6. PICK c \in Int : c = End(t) - CONTEXT_SIZE
    BY <2>2 DEF CONTEXT_SIZE
  <2>7. ASSUME NEW k \in 0 .. 14 PROVE mem[c + k] = ContextWord(g, k, s)
    <3>1. c + k \in Mine(t)
      BY <2>2, <2>6 DEF Mine, CONTEXT_SIZE
    <3>2. c + k \in 0 .. End(Main) - 1 /\ StackOf(c + k) = t
      BY <2>2, <3>1
    <3>3. (c + k) - (End(t) - CONTEXT_SIZE) = k
      BY <2>2, <2>6 DEF CONTEXT_SIZE
    <3>4. NewWord(c + k) = ContextWord(g, k, s)
      BY <2>1, <2>4, <2>5, <3>2, <3>3 DEF NewWord
    <3> QED
      BY <3>2, <3>4
  <2>8. \A n \in Names : GPRs[n] \in 0 .. 14
    BY Offsets
  <2>9. Popped(mem, c, g)
    <3>1. \A n \in Names : mem[c + GPRs[n]] = g.gpr[n]
      <4>1. ASSUME NEW n \in Names PROVE mem[c + GPRs[n]] = g.gpr[n]
        <5>1. mem[c + GPRs[n]] = ContextWord(g, GPRs[n], s)
          BY <2>7, <2>8
        <5>2. ContextWord(g, GPRs[n], s) = g.gpr[n]
          BY WordsOf
        <5> QED
          BY <5>1, <5>2
      <4> QED
        BY <4>1
    <3>2. /\ mem[c + EIP] = g.eip /\ mem[c + CS] = g.cs /\ mem[c + EFLAGS] = g.eflags
          /\ mem[c + ESP] = g.esp
      <4>1. EIP \in 0 .. 14 /\ CS \in 0 .. 14 /\ EFLAGS \in 0 .. 14 /\ ESP \in 0 .. 14
        BY DEF EIP, CS, EFLAGS, ESP
      <4>2. /\ mem[c + EIP] = ContextWord(g, EIP, s) /\ mem[c + CS] = ContextWord(g, CS, s)
            /\ mem[c + EFLAGS] = ContextWord(g, EFLAGS, s) /\ mem[c + ESP] = ContextWord(g, ESP, s)
        BY <2>7, <4>1
      <4> QED
        BY <4>2, WordsOf
    <3> QED
      BY <3>1, <3>2 DEF Popped
  <2>10. mem[c + DS] = g.ds /\ mem[c + CR3] = g.cr3 /\ mem[c + ESP0] = s
    <3>1. DS \in 0 .. 14 /\ CR3 \in 0 .. 14 /\ ESP0 \in 0 .. 14
      BY DEF DS, CR3, ESP0
    <3>2. /\ mem[c + DS] = ContextWord(g, DS, s) /\ mem[c + CR3] = ContextWord(g, CR3, s)
          /\ mem[c + ESP0] = ContextWord(g, ESP0, s)
      BY <2>7, <3>1
    <3> QED
      BY <3>2, WordsOf
  <2>11. Base(t) <= c /\ c + CONTEXT_SIZE <= Top(t, g)
    BY <2>2, <2>3, <2>4, <2>6 DEF CONTEXT_SIZE
  <2> QED
    BY <2>3, <2>4, <2>5, <2>6, <2>9, <2>10, <2>11 DEF Context
<1> QED
  BY <1>1, <1>2

\* The invariant holds in the first state.
LEMMA CteFirst ==
    ASSUME CteAssumption, CteInit
    PROVE  CteInv
<1>1. /\ users \subseteq Threads /\ Main \in Threads \cup {Main} /\ Main \notin Threads
      /\ Main \in Nat /\ mem = [a \in 0 .. End(Main) - 1 |-> NewWord(a)]
  BY DEF CteInit, CteAssumption, Threads, Main
<1>2. /\ mem \in [0 .. End(Main) - 1 -> Int]
      /\ \A t \in Threads : Context(users, mem, t, End(t) - CONTEXT_SIZE, NewRegs(t))
  BY <1>1, FirstMemory
<1>3. End(Main) \in Int /\ \A t \in Threads : End(t) \in Int
  BY <1>1, Stacks
<1>4. r \in Registers
  <2>1. Fill(Main) \in [Names -> Int]
    BY <1>1, Fills
  <2> QED
    BY <1>3, <2>1 DEF CteInit, Regs, Registers, LOOP, KCODE, KDATA, KPT
<1>5. left \in [Threads \cup {Main} -> Seq(Registers)] /\ left[Main] = << >>
      /\ \A t \in Threads : left[t] = <<NewRegs(t)>>
  <2>1. \A t \in Threads : NewRegs(t) \in Registers
    BY NewThread
  <2>2. left = [t \in Threads \cup {Main} |-> IF t = Main THEN <<>> ELSE <<NewRegs(t)>>]
    BY DEF CteInit
  <2>3. \A t \in Threads \cup {Main} : (IF t = Main THEN <<>> ELSE <<NewRegs(t)>>) \in Seq(Registers)
    BY <2>1
  <2> QED
    BY <1>1, <2>2, <2>3
<1>6. saved \in [Threads -> Int] /\ \A t \in Threads : saved[t] = End(t) - CONTEXT_SIZE
  <2>1. saved = [t \in Threads |-> End(t) - CONTEXT_SIZE]
    BY DEF CteInit
  <2>2. \A t \in Threads : End(t) - CONTEXT_SIZE \in Int
    BY <1>3 DEF CONTEXT_SIZE
  <2> QED
    BY <2>1, <2>2
<1>7. CteTypes
  BY <1>1, <1>2, <1>4, <1>5, <1>6 DEF CteInit, CteTypes
<1>8. CurrentOK
  <2>1. AtProgram(users, mem, Main, r)
    BY <1>1 DEF CteInit, Regs, AtProgram
  <2>2. Level(users, mem, Main, left[Main], Len(left[Main]), r)
    BY <1>5, <2>1 DEF Level
  <2>3. inservice = {v \in Irqs : r.eip = STUB + v}
    <3>1. r.eip = LOOP /\ inservice = {}
      BY DEF CteInit, Regs
    <3> QED
      BY <3>1, Stubs
  <2>4. current = Main /\ armed
    BY DEF CteInit
  <2> QED
    BY <1>1, <2>2, <2>3, <2>4 DEF CurrentOK
<1>9. ASSUME NEW t \in Threads PROVE Waits(t)
  <2>1. AtProgram(users, mem, t, NewRegs(t)) /\ NewRegs(t).eip \notin IrqStubs
    BY NewThread
  <2>2. Len(left[t]) = 1 /\ left[t][1] = NewRegs(t)
    <3>1. left[t] = <<NewRegs(t)>>
      BY <1>5
    <3> QED
      BY <3>1
  <2>3. Level(users, mem, t, left[t], 1 - 1, left[t][1])
    BY <2>1, <2>2 DEF Level
  <2>4. Context(users, mem, t, saved[t], left[t][1])
    BY <1>2, <1>6, <2>2
  <2> QED
    BY <2>1, <2>2, <2>3, <2>4 DEF Waits
<1> QED
  BY <1>7, <1>8, <1>9 DEF CteInv, WaitingOK

----------------------------------------------------------------------------
(* The theorems                                                            *)

\* The invariant holds in every state.
LEMMA CteInvariant == CteAssumption /\ CteSpec => []CteInv
<1>1. CteAssumption /\ CteInit => CteInv
  BY CteFirst
<1>2. CteInv /\ [CteNext]_cteVars => CteInv'
  BY CteStep
<1> QED
  BY <1>1, <1>2, PTL DEF CteSpec

\* What the invariant says of a machine between two steps.
LEMMA CteInvEnough == CteInv => OwnSpaceAndStack /\ FindsArgument /\ CanBeInterrupted
<1>1. SUFFICES ASSUME CteInv PROVE OwnSpaceAndStack /\ FindsArgument /\ CanBeInterrupted
  OBVIOUS
<1>2. PICK n \in 0 .. 2 : Level(users, mem, current, left[current], n, r)
  BY <1>1, Here
<1>3. OwnSpaceAndStack
  <2>1. SUFFICES ASSUME FromUser PROVE r.cr3 = Space(current) /\ esp0 = End(current)
    BY DEF OwnSpaceAndStack
  <2>2. current \in users
    BY <1>1, <1>2, <2>1, Depth DEF FromUser
  <2> QED
    BY <1>1, <2>1, <2>2 DEF CteInv, CurrentOK
<1>4. FindsArgument
  <2>1. SUFFICES ASSUME NEW t \in Threads \ users, current = t, r.eip = LOOP
                 PROVE  r.esp = End(t) - 2 /\ mem[r.esp + 1] = Arg(t)
    BY DEF FindsArgument
  <2>2. AtProgram(users, mem, t, r) /\ t # Main
    BY <1>1, <1>2, <2>1, Depth DEF CteInv, CteAssumption, Threads, Main
  <2>3. r.esp = End(t) - 2 /\ mem[End(t) - 1] = Arg(t)
    BY <2>1, <2>2 DEF AtProgram, LOOP, START
  <2>4. (End(t) - 2) + 1 = End(t) - 1
    BY <1>1, <2>1, Stacks DEF CteInv
  <2> QED
    BY <2>3, <2>4
<1>5. CanBeInterrupted
  BY <1>1 DEF CteInv, CurrentOK, CanBeInterrupted
<1> QED
  BY <1>3, <1>4, <1>5

\* In user mode the space that is loaded is the thread's own, and the next trap
\* will be taken on its own kernel stack: OwnSpaceAndStack.
THEOREM SpaceIsOwn == CteAssumption /\ CteSpec => []OwnSpaceAndStack
  BY CteInvEnough, CteInvariant, PTL

\* A kernel thread finds its argument, whenever its entry looks: FindsArgument.
THEOREM ArgumentIsFound == CteAssumption /\ CteSpec => []FindsArgument
  BY CteInvEnough, CteInvariant, PTL

\* An interrupt is pending only while its stub is about to run, and the timer
\* never stops: CanBeInterrupted.
THEOREM InterruptsStayOn == CteAssumption /\ CteSpec => []CanBeInterrupted
  BY CteInvEnough, CteInvariant, PTL

\* A thread goes on with all the registers it had when its trap came, whatever
\* other traps and other threads came in between: ResumesAsLeft.
THEOREM ThreadsGoOn == CteAssumption /\ CteSpec => ResumesAsLeft
<1>1. CteInv /\ [CteNext]_cteVars => [GoesOn]_cteVars
  BY CteStep
<1> QED
  BY <1>1, CteInvariant, PTL DEF CteSpec, ResumesAsLeft
=============================================================================
