----------------------------- MODULE NativeCte -----------------------------
(***************************************************************************)
(* Threads and address spaces on a Linux host (am/src/native: cte.c,       *)
(* vme.c): interrupts and yield are signals, a system call and the return  *)
(* from a trap are faults on a trap page, and the pages of a space are     *)
(* mapped into the process while the space is current.  A signal handler   *)
(* only stores the context and redirects the process to irq_handle, which  *)
(* runs on the stack of the thread with the interrupt signals blocked.     *)
(*                                                                         *)
(* The kernel on top is a round-robin scheduler as in yield-os, with a     *)
(* handler for page faults and one for system calls, which may yield.      *)
(* Two signals that come together are left out: SIGUSR1, delivered while   *)
(* SIGUSR2 is being raised, finds its handler interrupted by the other.    *)
(***************************************************************************)
EXTENDS Naturals, Sequences, SequencesExt

CONSTANTS NThreads,     \* the threads are 1 .. NThreads, 0 is main()
          UserThreads,  \* those made by ucontext; each has a space of its own
          Pages         \* pages of the user space

NativeCteAssumption ==
    NThreads \in Nat \ {0} /\ UserThreads \subseteq 1 .. NThreads

Threads == 1 .. NThreads
Outside == <<NThreads + 1, 0>>      \* not in a kernel stack: the end of user space
Depth   == 1 .. 3                   \* contexts on a stack, at most

VARIABLES regs,         \* the registers: pc, sp, gpr1 and the signal mask
          vm_head, ksp, ev,         \* thiscpu; vm_head is 0 for NULL
          mem,          \* the contexts on the kernel stacks
          shown,        \* the user pages of the process, with what is behind
          spaces,       \* the list of a space: PageMap, head first
          pending,      \* interrupt signals that have arrived
          current, cp   \* the scheduler: the thread, and its saved contexts

nativeVars == <<regs, vm_head, ksp, ev, mem, shown, spaces, pending, current, cp>>

----------------------------------------------------------------------------
(* Contexts                                                                *)

Uc(pc, sp, masked) == [pc |-> pc, sp |-> sp, masked |-> masked, gpr1 |-> <<0, 0>>]

\* The context at the end of the stack of t; its ksp is never written.
kcontext(t) == [uc |-> Uc("start", <<t, 0>>, FALSE), vm_head |-> 0, ksp |-> Outside]

ucontext(t) == [uc |-> Uc("user0", Outside, FALSE), vm_head |-> t, ksp |-> <<t, 0>>]

\* The code of a user thread; everything else runs in the program itself.
UserCode == {"user0", "user1", "user2"}

in_userspace(pc) == vm_head # 0 /\ pc \in UserCode

\* "lib" is code of a shared library, "unmasked" the instruction of one after
\* the system call that unblocks the signals.
signal_safe(pc) == pc # "lib"

----------------------------------------------------------------------------
(* The signal handler                                                      *)

\* Where the context goes on: a system call is skipped, all else is retried.
Resumption(event, pc) == IF event = "SYSCALL" THEN "user2" ELSE pc

\* The context goes on the stack in use, or on the kernel stack of a user.
StackFor(uc) == LET top == IF in_userspace(uc.pc) THEN ksp ELSE uc.sp
                IN  <<top[1], top[2] + 1>>

setup_stack(event, uc) ==
    \E c \in {StackFor(uc)} :
       /\ mem' = [mem EXCEPT ![c].uc = [uc EXCEPT !.pc = Resumption(event, uc.pc)]]
       /\ regs' = [pc |-> "irq_handle", sp |-> c, masked |-> TRUE, gpr1 |-> c]

\* sig_handler for a trap of the program itself.
Trap(event, uc) == /\ ev' = event
                   /\ setup_stack(event, uc)
                   /\ UNCHANGED <<vm_head, ksp, shown, spaces, current, cp>>

\* A signal arrives: the virtual timer, or a key from the input thread.
Arrive(s) == /\ s \notin pending
             /\ pending' = pending \cup {s}
             /\ UNCHANGED <<regs, vm_head, ksp, ev, mem, shown, spaces, current, cp>>

\* It is delivered when it is not blocked.  In a shared library it is dropped.
Deliver(s) ==
    /\ s \in pending /\ ~ regs.masked
    /\ pending' = pending \ {s}
    /\ \/ signal_safe(regs.pc) /\ Trap(s, regs)
       \/ /\ ~ signal_safe(regs.pc) /\ ev' = s
          /\ UNCHANGED <<regs, vm_head, ksp, mem, shown, spaces, current, cp>>

\* The fault at 0x100008: the handler loads the context.
iret == /\ regs.pc = "magic"
        /\ ev' = "ERROR"
        /\ regs' = mem[regs.gpr1].uc
        /\ ksp' = mem[regs.gpr1].ksp
        /\ UNCHANGED <<vm_head, mem, shown, spaces, pending, current, cp>>

----------------------------------------------------------------------------
(* Address spaces                                                          *)

\* The entries of a list with one is_mapped.
Marked(list, b) == [k \in DOMAIN list |-> [list[k] EXCEPT !.is_mapped = b]]

\* The pages of the process without those of a list, and with them.
Unmapped(list) == LET gone == {list[k].va : k \in {j \in DOMAIN list : list[j].is_mapped}}
                  IN  [v \in (DOMAIN shown) \ gone |-> shown[v]]
WithPages(view, list) ==
    [v \in DOMAIN view \cup {list[k].va : k \in DOMAIN list} |->
        IF \E k \in DOMAIN list : list[k].va = v
        THEN list[CHOOSE k \in DOMAIN list : list[k].va = v].pa ELSE view[v]]

ListOf(head) == IF head = 0 THEN << >> ELSE spaces[head]

\* __am_switch.
am_switch(head) ==
    /\ vm_head' = head
    /\ IF head = vm_head THEN UNCHANGED <<shown, spaces>>
       ELSE /\ shown' = WithPages(Unmapped(ListOf(vm_head)), ListOf(head))
            /\ spaces' = [s \in DOMAIN spaces |->
                             IF s = vm_head THEN Marked(spaces[s], FALSE)
                             ELSE IF s = head THEN Marked(spaces[s], TRUE) ELSE spaces[s]]

\* map of an address that the space does not have.
map(s, va, pa) ==
    /\ spaces' = [spaces EXCEPT ![s] = <<[va |-> va, pa |-> pa, is_mapped |-> s = vm_head]>> \o @]
    /\ shown' = IF s = vm_head THEN WithPages(shown, <<[va |-> va, pa |-> pa]>>) ELSE shown

Maps(s, va) == \E k \in DOMAIN spaces[s] : spaces[s][k].va = va

----------------------------------------------------------------------------
(* irq_handle and the kernel's handlers                                    *)

\* The first lines of irq_handle.
Entered(c) == [mem EXCEPT ![c].vm_head = vm_head, ![c].ksp = ksp]

\* Its last lines: the space of the context, then the magic call.
Leave(c, head) == /\ am_switch(head)
                  /\ regs' = [regs EXCEPT !.pc = "magic", !.gpr1 = c]

AtHandler(e) == regs.pc = "irq_handle" /\ ev = e /\ mem' = Entered(regs.gpr1)

\* yield-os: the other thread.
Following(t) == IF t = NThreads THEN 1 ELSE t + 1

schedule(prev) == /\ current' = Following(current)
                  /\ cp' = [cp EXCEPT ![current] = prev]

OnSwitch(e) == /\ AtHandler(e) /\ schedule(regs.gpr1)
               /\ \E c \in {cp'[current']} : Leave(c, mem'[c].vm_head)
               /\ UNCHANGED <<ksp, ev, pending>>

\* A key is taken and the thread goes on.
OnKey == /\ AtHandler("IODEV") /\ Leave(regs.gpr1, vm_head)
         /\ UNCHANGED <<ksp, ev, pending, current, cp>>

\* A page for the thread, which then tries again.  va: the address in ev.ref.
OnPageFault(va) ==
    /\ AtHandler("PAGEFAULT") /\ vm_head # 0 /\ ~ Maps(vm_head, va)
    /\ map(vm_head, va, <<vm_head, va>>)
    /\ regs' = [regs EXCEPT !.pc = "magic"]
    /\ UNCHANGED <<vm_head, ksp, ev, pending, current, cp>>

\* A system call returns, or yields on the way.
OnSyscall == /\ AtHandler("SYSCALL")
             /\ \/ Leave(regs.gpr1, vm_head)
                \/ regs' = [regs EXCEPT !.pc = "syscall"] /\ UNCHANGED <<vm_head, shown, spaces>>
             /\ UNCHANGED <<ksp, ev, pending, current, cp>>

YieldInSyscall == /\ regs.pc = "syscall"
                  /\ Trap("YIELD", [regs EXCEPT !.pc = "yielded"]) /\ UNCHANGED pending

AfterYield == /\ regs.pc = "yielded"
              /\ Leave(regs.gpr1, mem[regs.gpr1].vm_head)
              /\ UNCHANGED <<ksp, ev, mem, pending, current, cp>>

----------------------------------------------------------------------------
(* The threads                                                             *)

\* An instruction that only moves on.
Goto(from, to) == /\ regs.pc = from
                  /\ regs' = [regs EXCEPT !.pc = to]
                  /\ UNCHANGED <<vm_head, ksp, ev, mem, shown, spaces, pending, current, cp>>

iset(from, to, enable) ==
    /\ regs.pc = from
    /\ regs' = [regs EXCEPT !.pc = to, !.masked = ~ enable]
    /\ UNCHANGED <<vm_head, ksp, ev, mem, shown, spaces, pending, current, cp>>

\* A kernel thread: putch with the interrupts on, or off, then yield.
KernelCode == \/ Goto("start", "text")
              \/ Goto("text", "lib")
              \/ iset("text", "critical", FALSE)
              \/ Goto("lib", "printed")
              \/ iset("critical", "unmasked", TRUE)
              \/ Goto("unmasked", "printed")

yield(from, to) == /\ regs.pc = from
                   /\ Trap("YIELD", [regs EXCEPT !.pc = to]) /\ UNCHANGED pending

\* It may give a user thread a page, with the interrupts off.
MapFor(s, va) == /\ regs.pc = "critical" /\ ~ Maps(s, va) /\ map(s, va, <<s, va>>)
                 /\ UNCHANGED <<regs, vm_head, ksp, ev, mem, pending, current, cp>>

\* A user thread touches a page and makes a system call.
Touch(va) == /\ regs.pc = "user0"
             /\ \/ va \in DOMAIN shown /\ Goto("user0", "user1")
                \/ va \notin DOMAIN shown /\ Trap("PAGEFAULT", regs) /\ UNCHANGED pending

UserCall == regs.pc = "user1" /\ Trap("SYSCALL", regs) /\ UNCHANGED pending

----------------------------------------------------------------------------
\* main(): the contexts are made, the scheduler takes over with a yield.
NativeCteInit ==
    /\ regs = Uc("main", <<0, 0>>, TRUE)
    /\ vm_head = 0 /\ ksp = Outside /\ ev = "ERROR"
    /\ mem = [c \in (0 .. NThreads + 1) \X Depth |->
                 IF c[2] = 1 /\ c[1] \in UserThreads THEN ucontext(c[1]) ELSE kcontext(c[1])]
    /\ shown = << >>
    /\ spaces = [s \in UserThreads |-> << >>]
    /\ pending = {}
    /\ current = 0
    /\ cp = [t \in 0 .. NThreads |-> <<t, 1>>]

Kernel == \/ \E e \in {"TIMER", "YIELD"} : OnSwitch(e)
          \/ OnKey \/ OnSyscall \/ YieldInSyscall \/ AfterYield
          \/ iret
          \/ yield("main", "boot")

Program == \/ KernelCode
           \/ yield("printed", "text")
           \/ UserCall
           \/ Goto("user2", "user0")

NativeCteNext ==
    \/ Kernel
    \/ Program
    \/ \E va \in Pages : Touch(va) \/ OnPageFault(va)
    \/ \E s \in UserThreads, va \in Pages : MapFor(s, va)
    \/ \E s \in {"TIMER", "IODEV"} : Arrive(s) \/ Deliver(s)

----------------------------------------------------------------------------
(* Properties                                                              *)

\* History: where each thread is to go on, one entry for each trap that has
\* not been returned from.
VARIABLE left

trapped  == regs.pc # "irq_handle" /\ regs'.pc = "irq_handle"
returned == regs.pc = "magic" /\ regs'.pc # "magic"

\* A system call goes on behind it, a yield behind the call; a page fault and
\* an interrupt go on where they came.
Expected == CASE regs.pc = "user1" /\ ev' = "SYSCALL" -> "user2"
              [] ev' = "YIELD" /\ regs.pc = "printed" -> "text"
              [] ev' = "YIELD" /\ regs.pc = "syscall" -> "yielded"
              [] ev' = "YIELD" /\ regs.pc = "main" -> "boot"
              [] OTHER -> regs.pc

NativeInit == NativeCteInit
              /\ left = [t \in 0 .. NThreads |->
                           IF t \in UserThreads THEN <<[pc |-> "user0", sp |-> Outside, masked |-> FALSE]>>
                           ELSE <<[pc |-> "start", sp |-> <<t, 0>>, masked |-> FALSE]>>]

NativeNext ==
    /\ NativeCteNext
    /\ left' = IF trapped THEN [left EXCEPT ![current] =
                    Append(@, [pc |-> Expected, sp |-> regs.sp, masked |-> regs.masked])]
               ELSE IF returned THEN [left EXCEPT ![current] = Front(@)]
               ELSE left

allVars == <<nativeVars, left>>

NativeSpec == /\ NativeInit /\ [][NativeNext]_allVars
              /\ WF_allVars(Kernel /\ NativeNext)
              /\ WF_allVars(Program /\ NativeNext)
              /\ WF_allVars((\E va \in Pages : Touch(va) \/ OnPageFault(va)) /\ NativeNext)
              /\ WF_allVars(Arrive("TIMER") /\ NativeNext)
              /\ SF_allVars(Deliver("TIMER") /\ NativeNext)

\* A thread runs.
Runs == regs.pc \notin {"irq_handle", "magic", "main", "syscall", "yielded"}

\* A thread that runs is the one the scheduler chose, on its own stack; it sees
\* the pages of its own space, all of them and no other; and a user thread that
\* traps will find its own kernel stack empty (cte.c:18, vme.c:54).
OwnPagesAndStack ==
    Runs => /\ regs.sp = IF current \in UserThreads THEN Outside ELSE <<current, 0>>
            /\ vm_head = IF current \in UserThreads THEN current ELSE 0
            /\ shown = WithPages(<< >>, ListOf(vm_head))
            /\ current \in UserThreads => ksp = <<current, 0>>

\* A return from a trap goes on where the thread was left, once for each trap,
\* with the stack and the signal mask it had, whatever ran in between; a thread
\* is never interrupted in a shared library (cte.c:38-92).
GoesOn ==
    /\ returned => /\ left[current] # << >>
                   /\ \E was \in {Last(left[current])} :
                         regs'.pc = was.pc /\ regs'.sp = was.sp /\ regs'.masked = was.masked
    /\ trapped => regs.pc # "lib"
ThreadsGoOn == [][GoesOn]_allVars

\* Every thread runs again and again: one that never yields is interrupted, one
\* whose interrupts are lost in libraries gives way by itself (cte.c:148-158).
Running(t) == Runs /\ current = t
EveryThreadRuns == \A t \in Threads : []<>Running(t)
=============================================================================
