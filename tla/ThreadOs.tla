------------------------------ MODULE ThreadOs ------------------------------
(***************************************************************************)
(* thread-os: kernel threads on every processor of the x86 machine, with   *)
(* the context switch of the runtime below them (cte.c, trap*.S).          *)
(*                                                                         *)
(* An interrupt pushes the registers on the stack the processor is on;     *)
(* on_interrupt runs on that same stack and returns the context of the     *)
(* next thread; only __am_iret leaves the old stack for the new one.  In   *)
(* between the old thread is already in the table, where another processor *)
(* could find it: the threads are dealt out, thread t to the processor     *)
(* t % cpu_count().                                                        *)
(*                                                                         *)
(* Handlers run with interrupts off: the first instruction of every stub   *)
(* is cli (an interrupt before it is a frame more on the same stack, and   *)
(* the stub goes on when that thread does).                                *)
(*                                                                         *)
(* Threads are numbered as in tasks[]; what a thread is about to do stands *)
(* for its registers.                                                      *)
(***************************************************************************)
EXTENDS X86Smp

CONSTANT NTasks                   \* LENGTH(tasks)

ASSUME NTasksAssumption == NTasks \in Nat \ {0}

VARIABLES currents,   \* currents[cpu], None until the first interrupt
          context,    \* task->context: what the thread does when resumed
          stack,      \* the thread whose stack each processor is on, or None
          pc,         \* what each processor does next
          frame,      \* what the interrupted thread was about to do
          locked

taskVars == <<currents, context, stack, pc, frame, locked>>
vars == <<smpVars, taskVars>>

Tasks == 0 .. NTasks - 1
None == NTasks

(* func, one label per step: lock(), the output, unlock(), the delay.      *)
Func == {"lock", "print", "unlock", "delay"}
(* mp_entry: interrupts are off until iset(true).                          *)
Entry == {"iset", "yield"}
(* In the handler: before and after on_interrupt, or in its loop for ever. *)
Handler == {"on_interrupt", "iret", "search"}

Init == /\ SmpInit
        /\ currents = [c \in Cpus |-> None]
        /\ context = [t \in Tasks |-> "lock"]
        /\ stack = [c \in Cpus |-> None]
        /\ pc = [c \in Cpus |-> "iset"]
        /\ frame = [c \in Cpus |-> "iset"]
        /\ locked = 0

(* main: kcontext for every task (the entry is func, the stack its own),   *)
(* the ring of next pointers, mpe_init(mp_entry).                          *)
main(c) == /\ mpe_init(c)
           /\ context' = [t \in Tasks |-> "lock"]
           /\ UNCHANGED <<currents, stack, pc, frame, locked>>

At(c, label) == mode[c] = "user" /\ pc[c] = label
Steps(c, label) == pc' = [pc EXCEPT ![c] = label]

iset(c) == /\ At(c, "iset") /\ Steps(c, "yield")
           /\ UNCHANGED <<smpVars, currents, context, stack, frame, locked>>

(* The timer, or the int $0x81 of yield: the frame goes on the stack the   *)
(* processor is on.                                                        *)
Trap(c) == /\ mode[c] = "user" /\ pc[c] \in Func \cup {"yield"}
           /\ frame' = [frame EXCEPT ![c] = pc[c]]
           /\ Steps(c, "on_interrupt")
           /\ UNCHANGED <<smpVars, currents, context, stack, locked>>

Mine(c, t) == t % ncpu = c
(* The thread that is k links after t in the ring.                         *)
Next_(t, k) == (t + k) % NTasks

Switch(c, from) ==
  \/ \E k \in 1 .. NTasks :
       /\ Mine(c, Next_(from, k)) /\ \A j \in 1 .. k - 1 : ~Mine(c, Next_(from, j))
       /\ currents' = [currents EXCEPT ![c] = Next_(from, k)]
       /\ Steps(c, "iret")
  \/ /\ \A t \in Tasks : ~Mine(c, t)
     /\ Steps(c, "search") /\ UNCHANGED currents

(* A variant that takes the next thread of the ring, wherever it ran.      *)
on_interrupt_any(c) ==
  /\ At(c, "on_interrupt")
  /\ \E from \in {IF currents[c] = None THEN 0 ELSE currents[c]} :
       currents' = [currents EXCEPT ![c] = Next_(from, 1)]
  /\ Steps(c, "iret")
  /\ context' = IF currents[c] = None THEN context
                ELSE [context EXCEPT ![currents[c]] = frame[c]]
  /\ UNCHANGED <<smpVars, stack, frame, locked>>

(* A variant that saves the context of the first interrupt, too: that of   *)
(* mp_entry, as if it were thread 0.                                       *)
on_interrupt_saves_all(c) ==
  /\ At(c, "on_interrupt")
  /\ \E from \in {IF currents[c] = None THEN 0 ELSE currents[c]} :
       /\ context' = [context EXCEPT ![from] = frame[c]]
       /\ Switch(c, from)
  /\ UNCHANGED <<smpVars, stack, frame, locked>>

on_interrupt(c) ==
  /\ At(c, "on_interrupt")
  /\ \/ /\ currents[c] = None
        /\ Switch(c, 0) /\ UNCHANGED context
     \/ /\ currents[c] # None
        /\ context' = [context EXCEPT ![currents[c]] = frame[c]]
        /\ Switch(c, currents[c])
  /\ UNCHANGED <<smpVars, stack, frame, locked>>

(* __am_iret(current->context): the processor moves to that stack and      *)
(* interrupts are on again.                                                *)
iret(c) == /\ At(c, "iret")
           /\ stack' = [stack EXCEPT ![c] = currents[c]]
           /\ Steps(c, context[currents[c]])
           /\ UNCHANGED <<smpVars, currents, context, frame, locked>>

(* A variant whose exchange is not looked at: if (...) for while (...).    *)
lock_once(c) == /\ At(c, "lock") /\ locked' = 1 /\ Steps(c, "print")
                /\ UNCHANGED <<smpVars, currents, context, stack, frame>>

lock(c) == /\ At(c, "lock") /\ locked = 0
           /\ locked' = 1 /\ Steps(c, "print")
           /\ UNCHANGED <<smpVars, currents, context, stack, frame>>

print(c) == /\ At(c, "print") /\ Steps(c, "unlock")
            /\ UNCHANGED <<smpVars, currents, context, stack, frame, locked>>

unlock(c) == /\ At(c, "unlock") /\ locked' = 0 /\ Steps(c, "delay")
             /\ UNCHANGED <<smpVars, currents, context, stack, frame>>

delay(c) == /\ At(c, "delay") /\ Steps(c, "lock")
            /\ UNCHANGED <<smpVars, currents, context, stack, frame, locked>>

BootStep(c) == (Boots(c) \/ Deliver(c)) /\ UNCHANGED taskVars
Works(c) == print(c) \/ unlock(c) \/ delay(c)
Handles(c) == iset(c) \/ on_interrupt(c) \/ iret(c)

Next == \E c \in Cpus : \/ BootStep(c) \/ main(c) \/ Handles(c)
                        \/ Trap(c) \/ lock(c) \/ Works(c)

Spec == Init /\ [][Next]_vars

(* The timer ticks for ever but leaves a thread the time for many steps    *)
(* (TICR is ten million bus clocks), and spinning processors retry faster  *)
(* than the lock comes and goes.                                           *)
FairSpec == /\ Spec
            /\ \A c \in Cpus : /\ WF_vars(BootStep(c) \/ main(c) \/ Handles(c))
                               /\ WF_vars(Trap(c))
            /\ \A t \in Tasks : SF_vars(\E c \in Cpus : stack[c] = t /\ Works(c))
            /\ SF_vars(\E c \in Cpus : lock(c))
-----------------------------------------------------------------------------
OnStack(t) == {c \in Cpus : mode[c] = "user" /\ stack[c] = t}

(* No two processors ever stand on the same thread's stack, not even while *)
(* one of them is on its way out of the thread it just put back.           *)
StackExclusive == \A t \in Tasks : \A c, d \in OnStack(t) : c = d

(* What thread t is doing, wherever that is: in a processor, in the frame  *)
(* of an interrupt, or in its saved context.                               *)
Doing(t) ==
  LET c == t % ncpu IN
  IF stack[c] = t /\ pc[c] \in Func THEN pc[c]
  ELSE IF stack[c] = t /\ pc[c] = "on_interrupt" THEN frame[c]
  ELSE context[t]

Inside == {t \in Tasks : Doing(t) \in {"print", "unlock"}}

(* One thread prints at a time, on all processors together, through every  *)
(* interrupt and switch; and the lock is held exactly when one does, so    *)
(* that no switch can lose the thread that has to release it.              *)
PrintsAlone == /\ \A s, t \in Inside : s = t
               /\ locked = IF Inside = {} THEN 0 ELSE 1

(* Every thread is given a processor again and again, and the output never *)
(* stops (which thread gets the lock is not promised).                     *)
Running(t) == \E c \in Cpus : stack[c] = t /\ pc[c] \in Func
Printed == \E c \in Cpus : pc[c] = "unlock"
Scheduled == \A t \in Tasks : []<>Running(t)
OutputGoesOn == []<>Printed
=============================================================================
