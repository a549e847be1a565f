------------------------------- MODULE X86Cte -------------------------------
(***************************************************************************)
(* Traps and context switches of the 32-bit x86 runtime, word by word on   *)
(* the kernel stacks: the processor's entry through a gate, the stubs and  *)
(* __am_iret (trap32.S), __am_irq_handle, kcontext (cte.c), ucontext       *)
(* (vme.c), and the interrupt controllers as ioe.c sets them up.           *)
(*                                                                         *)
(* The gates are trap gates: interrupts stay on until the cli of the stub, *)
(* and they are on in a system call, whose handler calls iset(1), until it *)
(* has returned.  So an interrupt may find the processor on a kernel stack *)
(* that already holds frames, in the middle of __am_iret, too.             *)
(*                                                                         *)
(* Memory is a sequence of words; an address is the number of a word.      *)
(* Words nobody reads before writing them, those under a stack pointer and *)
(* the part of a trap frame __am_irq_handle has read, are set to 0.        *)
(***************************************************************************)
EXTENDS Naturals, SequencesExt

CONSTANTS NThreads,    \* threads of the kernel
          UserSets,    \* which of them may be made by ucontext, not kcontext
          STACK        \* words of a kernel stack: the bound on nested traps, and
                       \* enough for one and for what its handler is called with

CteAssumption == /\ NThreads \in Nat \ {0} /\ STACK \in Nat /\ STACK >= 24
                 /\ UserSets \subseteq SUBSET (0 .. NThreads - 1)

VARIABLES users,       \* the threads made by ucontext
          mem,         \* the kernel stacks
          r,           \* registers; eflags is its interrupt flag
          esp0,        \* tss.esp0
          inservice,   \* vectors the local APIC waits an EOI for
          armed,       \* the local APIC's timer is counting
          current,     \* the kernel's: the thread that runs, or Main
          saved,       \* the kernel's: the context of each thread
          left         \* history: registers of each thread at its traps

cteVars == <<users, mem, r, esp0, inservice, armed, current, saved, left>>

Threads == 0 .. NThreads - 1
Main == NThreads
End(t) == (t + 1) * STACK                 \* kstack.end
Base(t) == t * STACK

(* Selectors, vectors, and where a processor is; STUB + v is the stub of v. *)
KCODE == 8
KDATA == 16
UCODE == 27
UDATA == 35
T_IRQ0 == 32
IRQ_TIMER == 0
IRQ_KBD == 1
IRQ_COM1 == 4
EX_PF == 14
EX_SYSCALL == 128
EX_YIELD == 129
LOOP == 1
START == 2
HANDLER == 3
SERVICE == 4
IRET == 5
STUB == 1000
UVM_END == 500000

Space(t) == 100 + t                       \* as->ptr
KPT == 99

(* struct Context, then the rest of struct trap_frame: offsets in words.   *)
CR3 == 0
DS == 1
ESP0 == 6
EIP == 10
CS == 11
EFLAGS == 12
ESP == 13
SS3 == 14
TF_IRQ == 15
TF_EIP == 17
TF_CS == 18
TF_EFLAGS == 19
TF_ESP == 20
TF_SIZE == 22
CONTEXT_SIZE == 15

GPRs == [eax |-> 2, ebx |-> 3, ecx |-> 4, edx |-> 5, esi |-> 7, edi |-> 8, ebp |-> 9]
Names == DOMAIN GPRs
(* Values of the registers that tell them, threads and moments apart.      *)
Fill(t) == [n \in Names |-> 1000 * (t + 1) + GPRs[n]]
Zero == [n \in Names |-> 0]
Arg(t) == 7000 + t

Regs(gpr, esp, eip, cs, ds, eflags, cr3) ==
  [gpr |-> gpr, esp |-> esp, eip |-> eip, cs |-> cs, ds |-> ds, eflags |-> eflags, cr3 |-> cr3]
-----------------------------------------------------------------------------
(* The I/O APIC: all inputs disabled, then the two the runtime enables.    *)
ioapic_init == [irq \in 0 .. 23 |-> [vector |-> T_IRQ0 + irq, on |-> FALSE]]
ioapic_enable(table, irq) == [table EXCEPT ![irq] = [vector |-> T_IRQ0 + irq, on |-> TRUE]]

redirection == ioapic_enable(ioapic_enable(ioapic_init, IRQ_KBD), IRQ_COM1)

(* The local APIC's timer: TIMER, TICR.                                    *)
timer == [vector |-> T_IRQ0 + IRQ_TIMER, periodic |-> TRUE]
-----------------------------------------------------------------------------
(* What kcontext and ucontext write at the end of a kernel stack.          *)
kcontext(t) == Regs([Zero EXCEPT !.eax = Arg(t), !.ebx = LOOP], End(t), START, KCODE, KDATA, 1, 0)
ucontext(t) == Regs(Zero, UVM_END, LOOP, UCODE, UDATA, 1, Space(t))
NewRegs(t) == IF t \in users THEN ucontext(t) ELSE kcontext(t)

NameAt(offset) == CHOOSE n \in Names : GPRs[n] = offset

ContextWord(g, offset, stack0) ==
  CASE offset = CR3 -> g.cr3      [] offset = DS -> g.ds
    [] offset = EIP -> g.eip      [] offset = CS -> g.cs
    [] offset = EFLAGS -> g.eflags [] offset = ESP -> g.esp
    [] offset = ESP0 -> stack0
    [] offset = SS3 -> IF g.cs = UCODE THEN UDATA ELSE 0
    [] OTHER -> g.gpr[NameAt(offset)]

StackOf(a) == a \div STACK
NewWord(a) ==
  LET t == StackOf(a)
      offset == a - (End(t) - CONTEXT_SIZE)
  IN IF t = Main \/ offset < 0 THEN 0
     ELSE ContextWord(NewRegs(t), offset, IF t \in users THEN End(t) ELSE 0)

CteInit ==
  /\ users \in UserSets
  /\ mem = [a \in 0 .. End(Main) - 1 |-> NewWord(a)]
  /\ r = Regs(Fill(Main), End(Main), LOOP, KCODE, KDATA, 1, KPT)
  /\ esp0 = 0 /\ inservice = {} /\ armed = TRUE
  /\ current = Main
  /\ saved = [t \in Threads |-> End(t) - CONTEXT_SIZE]
  /\ left = [t \in Threads \cup {Main} |-> IF t = Main THEN <<>> ELSE <<NewRegs(t)>>]
-----------------------------------------------------------------------------
Pushed(m, top, words) ==
  [a \in DOMAIN m |-> IF a < top /\ a >= top - Len(words) THEN words[top - a] ELSE m[a]]

(* The processor takes vector v: from user mode it moves to tss.esp0 first. *)
(* An exception with an error code pushes it, too.                         *)
FromUser == r.cs = UCODE
Hardware(v, error) ==
  LET words == (IF FromUser THEN <<UDATA, r.esp>> ELSE <<>>) \o <<r.eflags, r.cs, r.eip>> \o error
      top == IF FromUser THEN esp0 ELSE r.esp
  IN /\ mem' = Pushed(mem, top, words)
     /\ r' = [r EXCEPT !.esp = top - Len(words), !.eip = STUB + v, !.cs = KCODE]
     /\ left' = [left EXCEPT ![current] = Append(@, r)]

(* Room for what one more trap pushes on the stack the processor is on.    *)
Room == FromUser \/ r.esp - Base(current) >= TF_SIZE + 2

Interrupt(v) ==
  /\ r.eflags = 1 /\ inservice = {} /\ Room
  /\ inservice' = {v}
  /\ Hardware(v, <<>>)
  /\ UNCHANGED <<users, esp0, current, saved>>

(* A program: it computes, traps into the kernel, or touches a page that   *)
(* is not there.  int $0x80 and the fault are the users'.                  *)
Compute == /\ r.eip = LOOP /\ current # Main
           /\ r' = [r EXCEPT !.gpr = Fill(current)]
           /\ UNCHANGED <<users, mem, esp0, inservice, armed, current, saved, left>>

Software(v, error) ==
  /\ r.eip = LOOP /\ Room
  /\ Hardware(v, error)
  /\ UNCHANGED <<users, esp0, inservice, armed, current, saved>>

yield == Software(EX_YIELD, <<>>)
syscall == FromUser /\ Software(EX_SYSCALL, <<>>)
pagefault == FromUser /\ Software(EX_PF, <<6>>)

TimerTick == /\ armed
             /\ armed' = timer.periodic
             /\ Interrupt(timer.vector)
Device(irq) == /\ redirection[irq].on
               /\ Interrupt(redirection[irq].vector)
               /\ UNCHANGED armed

(* __am_kcontext_start: the argument and a return address, then entry.     *)
kcontext_start ==
  /\ r.eip = START
  /\ mem' = Pushed(mem, r.esp, <<r.gpr.eax, 0>>)
  /\ r' = [r EXCEPT !.esp = @ - 2, !.eip = r.gpr.ebx]
  /\ UNCHANGED <<users, esp0, inservice, armed, current, saved, left>>
-----------------------------------------------------------------------------
(* IRQS: the vectors for which the processor pushes an error code; the     *)
(* stubs of the others push 0 in its place.                                *)
ERR == {8, 10, 11, 12, 13, 14}

(* trap: the registers are pushed in the order of struct Context, after a  *)
(* gap for eip to ss3.                                                     *)
trap(m, v) ==
  LET code == IF v \in ERR THEN <<v>> ELSE <<0, v>>
      gap == r.esp - Len(code)
      tf == gap - CONTEXT_SIZE
      all == <<r.gpr.ebp, r.gpr.edi, r.gpr.esi, 0, r.gpr.edx, r.gpr.ecx, r.gpr.ebx, r.gpr.eax, r.ds, 0>>
  IN Pushed(Pushed(Pushed(m, r.esp, code), gap - 5, all), tf, <<tf, 0>>)
Frame(v) == r.esp - (IF v \in ERR THEN 1 ELSE 2) - CONTEXT_SIZE

(* The stack pointer a trap from the kernel had: the hardware saved none.  *)
KernelEsp(tf) == tf + TF_SIZE - 2

(* __am_irq_handle, first part: completes the context.                     *)
Completed(m, tf) ==
  [m EXCEPT ![tf + EIP] = m[tf + TF_EIP], ![tf + CS] = m[tf + TF_CS],
            ![tf + EFLAGS] = m[tf + TF_EFLAGS], ![tf + ESP0] = esp0, ![tf + SS3] = UDATA,
            ![tf + ESP] = IF m[tf + TF_CS] = UCODE THEN m[tf + TF_ESP] ELSE KernelEsp(tf),
            ![tf + CR3] = r.cr3]

eoi(v) == T_IRQ0 <= v /\ v < T_IRQ0 + 32

(* From the stub's cli to the call of user_handler.                        *)
Stub(v) ==
  /\ r.eip = STUB + v
  /\ mem' = Completed(trap(mem, v), Frame(v))
  /\ r' = Regs(Fill(Main + 1), Frame(v) - 2, HANDLER, KCODE, KDATA, 0, r.cr3)
  /\ inservice' = IF eoi(v) THEN {} ELSE inservice
  /\ UNCHANGED <<users, esp0, armed, current, saved, left>>

(* __am_iret.  To the user: iret takes eip .. ss from the context.         *)
RegsIn(m, c, esp) ==
  [gpr |-> [n \in Names |-> m[c + GPRs[n]]], esp |-> esp, eip |-> m[c + EIP], cs |-> m[c + CS],
   ds |-> m[c + DS], eflags |-> m[c + EFLAGS], cr3 |-> r.cr3]

(* To the kernel: esi .. eflags are first moved under the stack pointer to *)
(* return to, from the last to the first, for a new context overlaps there. *)
(* A variant that moves the first of them first.                           *)
MoveOrder_up == <<6, 5, 4, 3, 2, 1>>

MoveOrder == <<1, 2, 3, 4, 5, 6>>
Move(m, c, esp, k) == [m EXCEPT ![esp - k] = m[c + ESP - k]]
Moved(m, c, esp) ==
  LET m1 == Move(m, c, esp, MoveOrder[1])
      m2 == Move(m1, c, esp, MoveOrder[2])
      m3 == Move(m2, c, esp, MoveOrder[3])
      m4 == Move(m3, c, esp, MoveOrder[4])
      m5 == Move(m4, c, esp, MoveOrder[5])
  IN Move(m5, c, esp, MoveOrder[6])
KernelRegs(m, new, c, esp) ==
  LET low == [esi |-> 6, edi |-> 5, ebp |-> 4]
  IN [RegsIn(m, c, esp) EXCEPT
        !.gpr = [n \in Names |-> IF n \in DOMAIN low THEN new[esp - low[n]] ELSE @[n]],
        !.eip = new[esp - 3], !.cs = new[esp - 2], !.eflags = new[esp - 1]]

(* The end of __am_irq_handle: a context without an address space leaves   *)
(* the one that is loaded.  A variant forgets the stack of the next trap.  *)
SwitchSpace_cr3_only(c) ==
  IF mem[c + CR3] = 0 THEN [cr3 |-> r.cr3, esp0 |-> esp0]
  ELSE [cr3 |-> mem[c + CR3], esp0 |-> IF esp0 = 0 THEN mem[c + ESP0] ELSE esp0]

SwitchSpace(c) == IF mem[c + CR3] = 0 THEN [cr3 |-> r.cr3, esp0 |-> esp0]
                  ELSE [cr3 |-> mem[c + CR3], esp0 |-> mem[c + ESP0]]

(* The argument of the kernel's handler.                                   *)
Ctx == mem[r.esp + 1]
Irq == mem[Ctx + TF_IRQ]

(* The words of t's stack from the address on are kept, and what was read  *)
(* of the frame tf is forgotten.                                           *)
Kept(m, t, from) == [a \in DOMAIN m |-> IF StackOf(a) = t /\ a < from THEN 0 ELSE m[a]]
Spent(m, tf) == [a \in DOMAIN m |-> IF a \in tf + TF_IRQ .. tf + TF_EFLAGS THEN 0 ELSE m[a]]

Iret(c, t, s, old) ==
  IF mem[c + CS] = KCODE
  THEN \E new \in {Moved(old, c, mem[c + ESP])} :
         /\ mem' = Kept(new, t, mem[c + ESP])
         /\ r' = [KernelRegs(mem, new, c, mem[c + ESP]) EXCEPT !.cr3 = s.cr3]
  ELSE /\ mem' = Kept(old, t, End(t))
       /\ r' = [RegsIn(mem, c, mem[c + ESP]) EXCEPT !.cr3 = s.cr3]

Return(c, t, s) ==
  /\ Iret(c, t, s, IF c = Ctx THEN mem ELSE Spent(mem, Ctx))
  /\ esp0' = s.esp0
  /\ left' = [left EXCEPT ![t] = Front(@)]

(* The kernel's handler, on the context whose address is its argument: it  *)
(* goes on with any thread, repairs a fault, or serves a call with         *)
(* interrupts on.                                                          *)
Schedule(t) ==
  /\ r.eip = HANDLER /\ Irq \notin {EX_SYSCALL, EX_PF}
  /\ saved' = [u \in Threads |-> IF u = current THEN Ctx ELSE IF u = t THEN 0 ELSE saved[u]]
  /\ current' = t
  /\ \E c \in {IF t = current THEN Ctx ELSE saved[t]} : Return(c, t, SwitchSpace(c))
  /\ UNCHANGED <<users, inservice, armed>>

Repair == /\ r.eip = HANDLER /\ Irq = EX_PF
          /\ Return(Ctx, current, SwitchSpace(Ctx))
          /\ UNCHANGED <<users, inservice, armed, current, saved>>

Serve == /\ r.eip = HANDLER /\ Irq = EX_SYSCALL
         /\ r' = [r EXCEPT !.eip = SERVICE, !.eflags = 1, !.gpr = Fill(current + 20)]
         /\ mem' = Spent(mem, Ctx)
         /\ UNCHANGED <<users, esp0, inservice, armed, current, saved, left>>

(* The call is served: __am_irq_handle returns the context and __am_iret   *)
(* moves to it, restores ds and goes on popping, with interrupts on.       *)
Served ==
  /\ r.eip = SERVICE
  /\ esp0' = SwitchSpace(Ctx).esp0
  /\ r' = [r EXCEPT !.eip = IRET, !.esp = Ctx + 2, !.ds = mem[Ctx + DS], !.cr3 = SwitchSpace(Ctx).cr3]
  /\ UNCHANGED <<users, mem, inservice, armed, current, saved, left>>
user_iret ==
  /\ r.eip = IRET
  /\ r' = [RegsIn(mem, r.esp - 2, mem[r.esp - 2 + ESP]) EXCEPT !.ds = r.ds]
  /\ mem' = Kept(mem, current, End(current))
  /\ left' = [left EXCEPT ![current] = Front(@)]
  /\ UNCHANGED <<users, esp0, inservice, armed, current, saved>>
-----------------------------------------------------------------------------
Vectors == {EX_PF, EX_SYSCALL, EX_YIELD, T_IRQ0 + IRQ_TIMER, T_IRQ0 + IRQ_KBD}
Kernel == \/ \E v \in Vectors : Stub(v)
          \/ Repair \/ Serve \/ Served \/ user_iret \/ kcontext_start
Switches == \E t \in Threads : Schedule(t)
Program == Compute \/ yield \/ syscall \/ pagefault

CteNext == Kernel \/ Switches \/ Program \/ TimerTick \/ Device(IRQ_KBD)

CteSpec == CteInit /\ [][CteNext]_cteVars
-----------------------------------------------------------------------------
(* Registers but the address space.                                        *)
Visible(g) == [g EXCEPT !.cr3 = 0]

(* Whatever happened in between, other traps on the same stack and other   *)
(* threads included, a thread goes on with all the registers it had when   *)
(* its trap came, and starts with those its maker asked for.               *)
GoesOn == \A t \in Threads : Len(left'[t]) < Len(left[t]) => Visible(r') = Visible(Last(left[t]))
ResumesAsLeft == [][GoesOn]_cteVars

(* In user mode the address space is the thread's own, and the next trap   *)
(* will start at the end of the thread's own kernel stack.                 *)
OwnSpaceAndStack == FromUser => r.cr3 = Space(current) /\ esp0 = End(current)

(* The argument of a kernel thread is where its entry looks for it, and    *)
(* stays there whatever the traps push and pop.                            *)
FindsArgument == \A t \in Threads \ users : current = t /\ r.eip = LOOP =>
                   r.esp = End(t) - 2 /\ mem[r.esp + 1] = Arg(t)

(* Whoever runs, a thread or the kernel behind the stub, can be interrupted *)
(* again once its flag allows: the timer is counting, and a vector that is *)
(* not acknowledged is one whose stub is about to run.                     *)
CanBeInterrupted == armed /\ \A v \in inservice : r.eip = STUB + v
=============================================================================
