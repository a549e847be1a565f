--------------------------- MODULE MachinesProofs ---------------------------
(***************************************************************************)
(* Proofs about the machines, for any number of processors and threads:    *)
(* no two processors on one stack, one thread printing at a time, and      *)
(* every processor booted once, one at a time, on x86 and on Linux.        *)
(*                                                                         *)
(* No property is inductive.  Exclusion of stacks rests on Dealt: a        *)
(* processor only ever holds threads of its own residue.  Exclusion of     *)
(* printing rests on Placed, which ties what a processor does to the       *)
(* thread it does it for, and on Booting: main, which rewrites every       *)
(* context, runs before any thread does.  Booting once rests on SmpInv,    *)
(* the phases of coming up, each processor after the one before, and of    *)
(* going down, and for the processes of Linux on Phases of NativeSmp.      *)
(* What traps promise rests on CteInv and NativeInv, of the modules that   *)
(* MCMachines instantiates.                                                *)
(*                                                                         *)
(* Then the programs: the two accounts that each keeps of one thing agree, *)
(* by GameInv, and by the invariants of KernelsProofs, which MCMachines    *)
(* instantiates too.                                                       *)
(***************************************************************************)
EXTENDS MCMachines, Integers, FiniteSetTheorems, SequenceTheorems,
        WellFoundedInduction, TLAPS

OnlyAps == {"reset", "record", "boot", "start", "percpu", "user"}
OnlyBoot == {"boot", "start", "main", "mpe", "wait", "user"}

TypeOK == /\ ncpu \in 1 .. MAX_CPU
          /\ mode \in [Cpus -> Modes]
          /\ ipi \in [Cpus -> Seq({"INIT", "STARTUP"})]
          /\ cpu \in [Cpus -> Nat]
          /\ currents \in [Cpus -> Tasks \cup {None}]
          /\ context \in [Tasks -> Func]
          /\ stack \in [Cpus -> Tasks \cup {None}]
          /\ pc \in [Cpus -> Func \cup Entry \cup Handler]
          /\ frame \in [Cpus -> Func \cup Entry]
          /\ locked \in {0, 1}

(* Processor 0 boots alone; the others follow once is_ap is set.           *)
Booting == /\ mode[0] \in OnlyBoot /\ ipi[0] = <<>> /\ jmp_code \in {"none", "boot"}
           /\ mode[0] \in {"mpe", "wait"} => cpu[0] >= 1
           /\ \A c \in Cpus \ {0} :
                /\ mode[c] \in OnlyAps
                /\ mode[c] # "reset" \/ ipi[c] # <<>> => is_ap = 1
           /\ mode[0] \in {"boot", "start", "main"}
                => /\ is_ap = 0 /\ \A c \in Cpus : pc[c] = "iset"
                   /\ \A t \in Tasks : context[t] = "lock"

Dealt == \A c \in Cpus : /\ currents[c] # None => currents[c] % ncpu = c
                         /\ stack[c] # None => stack[c] % ncpu = c

Placed == \A c \in Cpus :
  /\ pc[c] \in Func => stack[c] # None /\ stack[c] = currents[c]
  /\ pc[c] = "on_interrupt" => /\ stack[c] = currents[c]
                               /\ stack[c] # None => frame[c] \in Func
  /\ pc[c] \in Entry => stack[c] = None /\ currents[c] = None
  /\ pc[c] = "iret" => currents[c] # None

Places == Booting /\ Dealt /\ Placed
Mutex == /\ \A s, t \in Tasks : s \in Inside /\ t \in Inside => s = t
         /\ locked = IF Inside = {} THEN 0 ELSE 1
IInv == TypeOK /\ Places /\ Mutex
-----------------------------------------------------------------------------
(* The residue of a thread is a processor.                                 *)
LEMMA Residue == ASSUME NEW n \in 1 .. MAX_CPU, NEW t \in Nat PROVE t % n \in Cpus
  <1>1. n \in Nat /\ n > 0 /\ n <= MAX_CPU /\ MAX_CPU \in Nat BY MaxCpuAssumption
  <1>2. t % n \in 0 .. n - 1 BY <1>1
  <1> QED BY <1>1, <1>2 DEF Cpus

(* Processor 0 is one of them, and None is no thread.                      *)
LEMMA Constants == 0 \in Cpus /\ None \notin Tasks /\ Tasks \subseteq Nat
                   /\ \A t \in Tasks, k \in Nat : Next_(t, k) \in Tasks
  <1>1. MAX_CPU \in Nat \ {0} /\ NTasks \in Nat \ {0} BY MaxCpuAssumption, NTasksAssumption
  <1>2. \A t \in Tasks, k \in Nat : (t + k) % NTasks \in 0 .. NTasks - 1 BY <1>1 DEF Tasks
  <1> QED BY <1>1, <1>2 DEF Cpus, Tasks, None, Next_

(* At power-on processor 0 is alone, and no thread has run.                *)
LEMMA InitIInv == Init => IInv
  <1> SUFFICES ASSUME Init PROVE IInv OBVIOUS
  <1>1. TypeOK
    BY Constants, NTasksAssumption, MaxCpuAssumption
    DEF Init, SmpInit, TypeOK, Func, Entry, Handler, Modes, None
  <1>2. Places
    BY Constants DEF Init, SmpInit, Places, Booting, Dealt, Placed, OnlyBoot, OnlyAps, Func, Entry
  <1>3. Inside = {}
    BY <1>1, Residue, Constants DEF Init, Inside, Doing, Func, TypeOK
  <1>4. Mutex BY <1>3 DEF Mutex, Init
  <1> QED BY <1>1, <1>2, <1>4 DEF IInv

(* What the steps of the runtime below leave alone.                        *)
LEMMA BootFrame == ASSUME NEW c \in Cpus, BootStep(c)
                   PROVE ncpu' = ncpu /\ taskVars' = taskVars
  <1>1. Boots(c) \/ Deliver(c) => ncpu' = ncpu
    BY DEF Boots, Deliver, Goes, load_kernel, start_c, boot_next, await_ready,
       enter_boot_cpu, othercpu_entry, at_record
  <1> QED BY <1>1 DEF BootStep

(* A step of the runtime below the threads does not touch the lock.        *)
LEMMA BootMutex == ASSUME IInv, NEW c \in Cpus, BootStep(c) PROVE Mutex'
  <1>1. \A t \in Tasks : Doing(t)' = Doing(t) BY BootFrame DEF Doing, taskVars
  <1>2. Inside' = Inside BY <1>1 DEF Inside
  <1> QED BY <1>2, BootFrame DEF IInv, Mutex, taskVars

(* A processor that boots another is processor 0, and the other is not.    *)
LEMMA BootTarget == ASSUME IInv, NEW c \in Cpus, boot_next(c)
                    PROVE c = 0 /\ cpu[c] \in Cpus \ {0}
  <1>1. c = 0 /\ cpu[c] >= 1
    BY DEF IInv, Places, Booting, OnlyAps, boot_next, Goes
  <1>2. cpu[c] \in Nat /\ cpu[c] < ncpu /\ ncpu \in 1 .. MAX_CPU
    BY DEF IInv, TypeOK, boot_next
  <1> QED BY <1>1, <1>2, MaxCpuAssumption DEF Cpus

(* A step of the runtime below leaves every thread where it was.           *)
LEMMA BootKeeps == ASSUME IInv, NEW c \in Cpus, BootStep(c) PROVE TypeOK' /\ Places'
  <1> USE DEF Goes, Modes
  <1>0. TypeOK /\ Booting BY DEF IInv, Places
  <1>a. /\ ncpu \in 1 .. MAX_CPU /\ mode \in [Cpus -> Modes]
        /\ ipi \in [Cpus -> Seq({"INIT", "STARTUP"})] /\ cpu \in [Cpus -> Nat]
    BY <1>0 DEF TypeOK
  <1>b. ncpu' \in 1 .. MAX_CPU BY <1>a, BootFrame
  <1>c. SUFFICES /\ mode' \in [Cpus -> Modes] /\ cpu' \in [Cpus -> Nat]
                 /\ ipi' \in [Cpus -> Seq({"INIT", "STARTUP"})]
                 /\ Booting'
    <2>1. currents' = currents /\ context' = context /\ stack' = stack /\ pc' = pc
          /\ frame' = frame /\ locked' = locked /\ ncpu' = ncpu
      BY BootFrame DEF taskVars
    <2>2. Dealt' /\ Placed' BY <2>1 DEF Dealt, Placed, IInv, Places
    <2>3. TypeOK' BY <1>0, <1>c, <1>b, <2>1 DEF TypeOK
    <2> QED BY <2>2, <2>3, <1>c DEF Places
  <1>1. pc' = pc /\ context' = context BY BootFrame DEF taskVars
  <1>2. CASE load_kernel(c)
    BY <1>0, <1>a, <1>1, <1>2, Constants DEF load_kernel, Booting, OnlyBoot, OnlyAps
  <1>3. CASE start_c(c)
    <2>1. CASE is_ap = 1 /\ Goes(c, "start", "percpu")
      BY <1>0, <1>a, <1>1, <1>3, <2>1, Constants DEF start_c, Booting, OnlyBoot, OnlyAps
    <2>2. CASE is_ap = 0 /\ Goes(c, "start", "main")
      BY <1>0, <1>a, <1>1, <1>3, <2>2, Constants DEF start_c, Booting, OnlyBoot, OnlyAps
    <2> QED BY <1>3, <2>1, <2>2 DEF start_c
  <1>4. CASE boot_next(c)
    <2>1. c = 0 /\ cpu[c] \in Cpus \ {0} BY <1>4, BootTarget
    <2>2. <<"INIT", "STARTUP", "STARTUP">> \in Seq({"INIT", "STARTUP"}) OBVIOUS
    <2>3. ipi' \in [Cpus -> Seq({"INIT", "STARTUP"})]
      BY <1>4, <1>a, <2>1, <2>2 DEF boot_next, bootap
    <2>4. mode' \in [Cpus -> Modes] /\ cpu' = cpu /\ is_ap' = 1 /\ jmp_code' = jmp_code
      BY <1>4, <1>a DEF boot_next
    <2>5. mode'[0] = "wait" /\ ipi'[0] = ipi[0] /\ \A d \in Cpus \ {0} : mode'[d] = mode[d]
      BY <1>4, <1>a, <2>1, Constants DEF boot_next, bootap
    <2>6. mode[0] = "mpe" BY <1>4, <2>1 DEF boot_next
    <2>7. Booting' BY <1>0, <2>4, <2>5, <2>6 DEF Booting, OnlyBoot, OnlyAps
    <2> QED BY <1>a, <2>3, <2>4, <2>7
  <1>5. CASE await_ready(c)
    BY <1>0, <1>a, <1>1, <1>5, Constants DEF await_ready, Booting, OnlyBoot, OnlyAps
  <1>6. CASE enter_boot_cpu(c)
    BY <1>0, <1>a, <1>1, <1>6, Constants DEF enter_boot_cpu, Booting, OnlyBoot, OnlyAps
  <1>7. CASE othercpu_entry(c)
    BY <1>0, <1>a, <1>1, <1>7, Constants DEF othercpu_entry, Booting, OnlyBoot, OnlyAps
  <1>8. CASE at_record(c)
    BY <1>0, <1>a, <1>1, <1>8, Constants DEF at_record, Booting, OnlyBoot, OnlyAps
  <1>9. CASE Deliver(c)
    <2>1. c # 0 /\ ipi[c] # <<>> /\ is_ap = 1 BY <1>9, <1>0, Constants DEF Booting, Deliver
    <2>2. /\ Tail(ipi[c]) \in Seq({"INIT", "STARTUP"})
          /\ ipi' = [ipi EXCEPT ![c] = Tail(ipi[c])] /\ UNCHANGED <<is_ap, cpu, jmp_code>>
      BY <1>9, <1>a, <2>1 DEF Deliver
    <2>3. mode' \in [Cpus -> Modes] /\ mode'[c] \in {"reset", "record", mode[c]}
          /\ \A d \in Cpus \ {c} : mode'[d] = mode[d]
      BY <1>9, <1>a DEF Deliver
    <2>4. mode'[c] \in OnlyAps BY <1>0, <2>1, <2>3 DEF Booting, OnlyAps
    <2>5. Booting'
      BY <1>0, <1>1, <1>a, <2>1, <2>2, <2>3, <2>4, Constants DEF Booting
    <2> QED BY <1>a, <2>2, <2>3, <2>5
  <1> QED BY <1>2, <1>3, <1>4, <1>5, <1>6, <1>7, <1>8, <1>9 DEF BootStep, Boots

(* The thread a processor works for is its own.                            *)
LEMMA OwnThread ==
  ASSUME IInv, NEW c \in Cpus, pc[c] \in Func
  PROVE stack[c] \in Tasks /\ stack[c] = currents[c] /\ stack[c] % ncpu = c
        /\ Doing(stack[c]) = pc[c]
  <1>1. stack[c] # None /\ stack[c] = currents[c] BY DEF IInv, Places, Placed
  <1>2. stack[c] \in Tasks /\ stack[c] % ncpu = c BY <1>1 DEF IInv, TypeOK, Places, Dealt
  <1> QED BY <1>1, <1>2 DEF Doing

(* A step that changes what one processor does for its own thread changes  *)
(* that thread's Doing and no other.                                       *)
LEMMA OthersKeep ==
  ASSUME IInv, NEW c \in Cpus, pc[c] \in Func, NEW l \in Func, Steps(c, l),
         UNCHANGED <<ncpu, context, stack, frame>>
  PROVE \A t \in Tasks : Doing(t)' = IF t = stack[c] THEN l ELSE Doing(t)
  <1>1. pc \in [Cpus -> Func \cup Entry \cup Handler] BY DEF IInv, TypeOK
  <1>2. pc' = [pc EXCEPT ![c] = l] BY DEF Steps
  <1>3. ASSUME NEW t \in Tasks PROVE Doing(t)' = IF t = stack[c] THEN l ELSE Doing(t)
    <2>1. ncpu \in 1 .. MAX_CPU /\ t \in Nat BY Constants DEF IInv, TypeOK
    <2>2. t % ncpu \in Cpus BY <2>1, Residue
    <2>3. CASE t = stack[c]
      <3>1. t % ncpu = c BY <2>3, OwnThread
      <3>2. pc'[c] = l BY <1>1, <1>2
      <3> QED BY <2>3, <3>1, <3>2 DEF Doing
    <2>4. CASE t # stack[c]
      <3>1. CASE t % ncpu = c
        <4>1. stack[t % ncpu] # t /\ stack' = stack /\ ncpu' = ncpu /\ context' = context
          BY <2>4, <3>1
        <4> QED BY <4>1, <2>4 DEF Doing
      <3>2. CASE t % ncpu # c
        <4>1. pc'[t % ncpu] = pc[t % ncpu] BY <1>1, <1>2, <2>2, <3>2
        <4> QED BY <4>1, <2>4 DEF Doing
      <3> QED BY <3>1, <3>2
    <2> QED BY <2>3, <2>4
  <1> QED BY <1>3

(* The steps of func.                                                      *)
LEMMA FuncKeeps ==
  ASSUME IInv, NEW c \in Cpus, lock(c) \/ Works(c) PROVE IInv'
  <1>1. PICK l \in Func : Steps(c, l)
    BY DEF lock, Works, print, unlock, delay, Func
  <1>2. /\ mode[c] = "user" /\ pc[c] \in Func
        /\ UNCHANGED <<smpVars, currents, context, stack, frame>>
    BY DEF lock, Works, print, unlock, delay, Func, At
  <1>a. ncpu' = ncpu /\ UNCHANGED <<mode, ipi, cpu, jmp_code, is_ap>> BY <1>2 DEF smpVars
  <1>3. pc' = [pc EXCEPT ![c] = l] BY <1>1 DEF Steps
  <1>4. locked' \in {0, 1} BY DEF lock, Works, print, unlock, delay, IInv, TypeOK
  <1>5. TypeOK' BY <1>2, <1>a, <1>3, <1>4 DEF IInv, TypeOK
  <1>6. Places'
    BY <1>2, <1>a, <1>3 DEF IInv, TypeOK, Places, Booting, Dealt, Placed, OnlyBoot, OnlyAps, Func, Entry
  <1>7. \A t \in Tasks : Doing(t)' = IF t = stack[c] THEN l ELSE Doing(t)
    BY <1>1, <1>2, <1>a, OthersKeep
  <1>8. stack[c] \in Tasks /\ Doing(stack[c]) = pc[c] BY <1>2, OwnThread
  <1>9. Mutex'
    <2>1. CASE lock(c)
      <3>1. locked = 0 /\ locked' = 1 /\ pc'[c] = "print" BY <2>1, <1>3 DEF lock, Steps, IInv, TypeOK
      <3>2. Inside = {} BY <3>1 DEF IInv, Mutex
      <3>3. l = "print" BY <3>1, <1>3 DEF IInv, TypeOK
      <3>4. Inside' = {stack[c]} BY <3>2, <3>3, <1>7, <1>8 DEF Inside
      <3> QED BY <3>1, <3>4 DEF Mutex
    <2>2. CASE print(c)
      <3>1. pc[c] = "print" /\ l = "unlock" /\ locked' = locked
        BY <2>2, <1>3 DEF print, At, Steps, IInv, TypeOK
      <3>2. Inside' = Inside BY <3>1, <1>7, <1>8 DEF Inside
      <3> QED BY <3>1, <3>2 DEF IInv, Mutex
    <2>3. CASE unlock(c)
      <3>1. pc[c] = "unlock" /\ l = "delay" /\ locked' = 0
        BY <2>3, <1>3 DEF unlock, At, Steps, IInv, TypeOK
      <3>2. stack[c] \in Inside BY <3>1, <1>8 DEF Inside
      <3>3. Inside = {stack[c]} BY <3>2 DEF IInv, Mutex, Inside
      <3>4. Inside' = {} BY <3>1, <3>3, <1>7 DEF Inside
      <3> QED BY <3>1, <3>4 DEF Mutex
    <2>4. CASE delay(c)
      <3>1. pc[c] = "delay" /\ l = "lock" /\ locked' = locked
        BY <2>4, <1>3 DEF delay, At, Steps, IInv, TypeOK
      <3>2. Inside' = Inside BY <3>1, <1>7, <1>8 DEF Inside
      <3> QED BY <3>1, <3>2 DEF IInv, Mutex
    <2> QED BY <2>1, <2>2, <2>3, <2>4 DEF Works
  <1> QED BY <1>5, <1>6, <1>9 DEF IInv

(* iset, the frame of an interrupt, the switch, the return: none changes   *)
(* what any thread is doing.                                               *)
LEMMA HandlerKeeps ==
  ASSUME IInv, NEW c \in Cpus, Handles(c) \/ Trap(c) PROVE IInv'
  <1> USE DEF At, Steps
  <1>1. /\ mode[c] = "user" /\ UNCHANGED <<smpVars, locked>>
    BY DEF Handles, iset, on_interrupt, iret, Trap
  <1>a. /\ ncpu' = ncpu /\ locked' = locked /\ UNCHANGED <<mode, ipi, cpu, jmp_code, is_ap>>
    BY <1>1 DEF smpVars
  <1>b. TypeOK /\ Booting /\ Dealt /\ Placed BY DEF IInv, Places
  <1>c. c = 0 => mode[0] = "user" BY <1>1
  <1>2. ncpu \in 1 .. MAX_CPU /\ \A t \in Tasks : t % ncpu \in Cpus
    BY <1>b, Residue, Constants DEF TypeOK
  <1>3. SUFFICES TypeOK' /\ Dealt' /\ Placed' /\ (\A t \in Tasks : Doing(t)' = Doing(t))
                 /\ (\A d \in Cpus : pc'[d] = pc[d] \/ d = c)
    <2>1. Inside' = Inside BY <1>3 DEF Inside
    <2>2. Mutex' BY <1>a, <2>1 DEF IInv, Mutex
    <2>3. mode[0] \notin {"boot", "start", "main"} \/ pc[c] = "iset" BY <1>b DEF Booting
    <2>4. mode[0] \notin {"boot", "start", "main"}
      BY <1>b, <1>1, <1>c, Constants DEF Booting
    <2>5. Booting' BY <1>a, <1>b, <2>4 DEF Booting
    <2> QED BY <1>3, <2>2, <2>5 DEF IInv, Places
  <1>4. CASE iset(c)
    <2>1. /\ pc' = [pc EXCEPT ![c] = "yield"] /\ pc[c] = "iset"
          /\ UNCHANGED <<currents, context, stack, frame>>
      BY <1>4 DEF iset
    <2>2. TypeOK' /\ Dealt' /\ Placed'
      BY <1>a, <1>b, <2>1 DEF TypeOK, Dealt, Placed, Func, Entry, Handler
    <2>3. \A t \in Tasks : Doing(t)' = Doing(t)
      BY <1>a, <1>b, <1>2, <2>1 DEF TypeOK, Doing, Func
    <2> QED BY <1>b, <2>1, <2>2, <2>3 DEF TypeOK
  <1>5. CASE Trap(c)
    <2>1. /\ pc' = [pc EXCEPT ![c] = "on_interrupt"] /\ pc[c] \in Func \cup {"yield"}
          /\ frame' = [frame EXCEPT ![c] = pc[c]]
          /\ UNCHANGED <<currents, context, stack>>
      BY <1>5 DEF Trap
    <2>2. TypeOK' BY <1>a, <1>b, <2>1 DEF TypeOK, Func, Entry, Handler
    <2>3. Dealt' /\ Placed' BY <1>a, <1>b, <2>1 DEF TypeOK, Dealt, Placed, Func, Entry
    <2>4. \A t \in Tasks : Doing(t)' = Doing(t)
      <3>1. pc[c] = "yield" => stack[c] = None BY <1>b DEF Placed, Entry
      <3>2. SUFFICES ASSUME NEW t \in Tasks PROVE Doing(t)' = Doing(t) OBVIOUS
      <3>3. CASE t % ncpu = c
        BY <1>a, <1>b, <2>1, <3>1, <3>3, Constants DEF TypeOK, Doing, Func
      <3>4. CASE t % ncpu # c
        BY <1>a, <1>b, <1>2, <2>1, <3>4 DEF TypeOK, Doing
      <3> QED BY <3>3, <3>4
    <2> QED BY <1>b, <2>1, <2>2, <2>3, <2>4 DEF TypeOK
  <1>6. CASE on_interrupt(c)
    <2> DEFINE n == currents'[c]
               l == pc'[c]
    <2>1. /\ currents' = [currents EXCEPT ![c] = n] /\ pc' = [pc EXCEPT ![c] = l]
          /\ n \in Tasks \cup {None} /\ l \in {"iret", "search"}
          /\ n # None => n % ncpu = c
          /\ l = "iret" => n # None
      <3>0. /\ currents \in [Cpus -> Tasks \cup {None}]
            /\ pc \in [Cpus -> Func \cup Entry \cup Handler]
        BY <1>b DEF TypeOK
      <3>1. PICK from \in Tasks : Switch(c, from)
        BY <1>6, <1>b, NTasksAssumption DEF on_interrupt, TypeOK, Tasks
      <3>2. CASE \A t \in Tasks : ~Mine(c, t)
        <4>1. \A k \in 1 .. NTasks : Next_(from, k) \in Tasks BY Constants
        <4>2. Steps(c, "search") /\ currents' = currents BY <3>1, <3>2, <4>1 DEF Switch
        <4>3. n = currents[c] /\ l = "search" BY <4>2, <3>0
        <4>4. currents = [currents EXCEPT ![c] = currents[c]] BY <3>0
        <4>5. n \in Tasks \cup {None} /\ (n # None => n % ncpu = c) BY <4>3, <3>0, <1>b DEF Dealt
        <4> QED BY <4>2, <4>3, <4>4, <4>5
      <3>3. CASE ~(\A t \in Tasks : ~Mine(c, t))
        <4>1. PICK k \in 1 .. NTasks :
                /\ Mine(c, Next_(from, k)) /\ Steps(c, "iret")
                /\ currents' = [currents EXCEPT ![c] = Next_(from, k)]
          BY <3>1, <3>3 DEF Switch
        <4>2. n = Next_(from, k) BY <4>1, <3>0
        <4>3. l = "iret" BY <4>1, <3>0
        <4>4. Next_(from, k) \in Tasks /\ Next_(from, k) # None
          BY <4>1, Constants, NTasksAssumption
        <4>5. currents' = [currents EXCEPT ![c] = n] BY <4>1, <4>2
        <4>6. pc' = [pc EXCEPT ![c] = l] BY <4>1, <4>3
        <4>7. n % ncpu = c BY <4>1, <4>2 DEF Mine
        <4> QED BY <4>2, <4>3, <4>4, <4>5, <4>6, <4>7
      <3> QED BY <3>2, <3>3
    <2> HIDE DEF n, l
    <2>2. /\ pc[c] = "on_interrupt" /\ UNCHANGED <<stack, frame>>
          /\ stack[c] = currents[c]
          /\ context' = IF currents[c] = None THEN context
                        ELSE [context EXCEPT ![currents[c]] = frame[c]]
      BY <1>6, <1>b DEF on_interrupt, Placed
    <2>3. stack[c] # None => stack[c] \in Tasks /\ frame[c] \in Func
      BY <1>b, <2>2 DEF TypeOK, Placed
    <2>4. TypeOK' BY <1>a, <1>b, <2>1, <2>2, <2>3 DEF TypeOK, Func, Entry, Handler
    <2>5. Dealt' BY <1>a, <1>b, <2>1, <2>2 DEF TypeOK, Dealt
    <2>6. Placed' BY <1>a, <1>b, <2>1, <2>2 DEF TypeOK, Placed, Func, Entry
    <2>7. \A t \in Tasks : Doing(t)' = Doing(t)
      <3>1. SUFFICES ASSUME NEW t \in Tasks PROVE Doing(t)' = Doing(t) OBVIOUS
      <3>2. pc'[c] \in {"iret", "search"} /\ pc'[c] \notin Func BY <1>b, <2>1 DEF TypeOK, Func
      <3>3. CASE t = stack[c]
        <4>1. t % ncpu = c BY <1>b, <3>3, Constants DEF Dealt
        <4>2. Doing(t) = frame[c] BY <2>2, <3>3, <4>1 DEF Doing, Func
        <4>3. context'[t] = frame[c] BY <1>b, <2>2, <3>3, Constants DEF TypeOK
        <4>4. Doing(t)' = context'[t] BY <1>a, <3>2, <4>1 DEF Doing, Func
        <4> QED BY <4>2, <4>3, <4>4
      <3>4. CASE t # stack[c]
        <4>1. context'[t] = context[t] BY <1>b, <2>2, <3>4 DEF TypeOK
        <4>2. CASE t % ncpu = c
          BY <1>a, <2>2, <3>4, <4>1, <4>2 DEF Doing
        <4>3. CASE t % ncpu # c
          <5>1. pc'[t % ncpu] = pc[t % ncpu] BY <1>b, <1>2, <2>1, <4>3 DEF TypeOK
          <5> QED BY <1>a, <2>2, <4>1, <5>1 DEF Doing
        <4> QED BY <4>2, <4>3
      <3> QED BY <3>3, <3>4
    <2> QED BY <1>b, <2>1, <2>4, <2>5, <2>6, <2>7 DEF TypeOK
  <1>7. CASE iret(c)
    <2> DEFINE n == currents[c]
    <2>1. /\ pc[c] = "iret" /\ UNCHANGED <<currents, context, frame>>
          /\ stack' = [stack EXCEPT ![c] = n] /\ pc' = [pc EXCEPT ![c] = context[n]]
      BY <1>7 DEF iret
    <2>2. n \in Tasks /\ n % ncpu = c /\ n # None BY <1>b, <2>1 DEF TypeOK, Placed, Dealt
    <2>3. context[n] \in Func BY <1>b, <2>2 DEF TypeOK
    <2>4. TypeOK' BY <1>a, <1>b, <2>1, <2>2, <2>3 DEF TypeOK, Func, Entry, Handler
    <2>5. Dealt' BY <1>a, <1>b, <2>1, <2>2 DEF TypeOK, Dealt
    <2>6. Placed' BY <1>a, <1>b, <2>1, <2>2, <2>3 DEF TypeOK, Placed, Func, Entry
    <2>7. \A t \in Tasks : Doing(t)' = Doing(t)
      <3>1. SUFFICES ASSUME NEW t \in Tasks PROVE Doing(t)' = Doing(t) OBVIOUS
      <3>2. stack'[c] = n /\ pc'[c] = context[n] BY <1>b, <2>1 DEF TypeOK
      <3>3. CASE t % ncpu = c
        <4>1. Doing(t) = context[t] BY <2>1, <3>3 DEF Doing, Func
        <4>2. CASE t = n BY <1>a, <2>3, <3>2, <3>3, <4>1, <4>2 DEF Doing
        <4>3. CASE t # n
          <5>1. context' = context BY <2>1
          <5> QED BY <1>a, <3>2, <3>3, <4>1, <4>3, <5>1 DEF Doing
        <4> QED BY <4>2, <4>3
      <3>4. CASE t % ncpu # c
        <4>1. pc'[t % ncpu] = pc[t % ncpu] /\ stack'[t % ncpu] = stack[t % ncpu]
          BY <1>b, <1>2, <2>1, <3>4 DEF TypeOK
        <4>2. context' = context /\ frame' = frame BY <2>1
        <4> QED BY <1>a, <4>1, <4>2 DEF Doing
      <3> QED BY <3>3, <3>4
    <2> QED BY <1>b, <2>1, <2>4, <2>5, <2>6, <2>7 DEF TypeOK
  <1> QED BY <1>4, <1>5, <1>6, <1>7 DEF Handles

(* main comes before every thread: only then may it write the contexts.    *)
LEMMA MainKeeps == ASSUME IInv, NEW c \in Cpus, main(c) PROVE IInv'
  <1>1. c = 0 /\ mode[0] = "main"
    BY DEF IInv, Places, Booting, OnlyAps, main, mpe_init, Goes
  <1>2. \A d \in Cpus : pc[d] = "iset" /\ stack[d] = None
    BY <1>1 DEF IInv, Places, Booting, Placed, Entry
  <1>3. /\ ncpu' = ncpu /\ context' = [t \in Tasks |-> "lock"]
        /\ mode' = [mode EXCEPT ![0] = "mpe"] /\ cpu' = [cpu EXCEPT ![0] = 1]
        /\ jmp_code' = "boot" /\ UNCHANGED <<ipi, is_ap, currents, stack, pc, frame, locked>>
    BY <1>1 DEF main, mpe_init, Goes
  <1>4. TypeOK' BY <1>3, Constants DEF IInv, TypeOK, Modes, Func
  <1>5. Booting' BY <1>1, <1>3, Constants DEF IInv, TypeOK, Places, Booting, OnlyBoot, OnlyAps
  <1>6. Dealt' /\ Placed' BY <1>3 DEF IInv, Places, Dealt, Placed
  <1>7. Inside = {} /\ Inside' = {}
    <2>1. \A t \in Tasks : t % ncpu \in Cpus BY Residue, Constants DEF IInv, TypeOK
    <2>2. \A t \in Tasks : Doing(t)' = "lock" BY <1>2, <1>3, <2>1, Constants DEF Doing, Func
    <2>3. Inside' = {} BY <2>2 DEF Inside
    <2>4. Inside = {}
      <3>1. SUFFICES ASSUME NEW t \in Inside PROVE FALSE OBVIOUS
      <3>2. Doing(t) = context[t] BY <1>2, <2>1, <3>1, Constants DEF Doing, Func, Inside
      <3> QED BY <1>1, <3>1, <3>2 DEF IInv, Places, Booting, Inside
    <2> QED BY <2>3, <2>4
  <1>8. Mutex' BY <1>3, <1>7 DEF IInv, Mutex
  <1> QED BY <1>4, <1>5, <1>6, <1>8 DEF IInv, Places
-----------------------------------------------------------------------------
(* Every step of the threads, or of the runtime below them, keeps IInv.    *)
LEMMA NextIInv == ASSUME IInv, [Next]_vars PROVE IInv'
  <1>1. CASE UNCHANGED vars
    <2>1. TypeOK' /\ Places'
      BY <1>1 DEF vars, smpVars, taskVars, IInv, TypeOK, Places, Booting, Dealt, Placed
    <2>2. \A t \in Tasks : Doing(t)' = Doing(t) BY <1>1 DEF vars, smpVars, taskVars, Doing
    <2>3. Inside' = Inside BY <2>2 DEF Inside
    <2>4. Mutex' BY <1>1, <2>3 DEF vars, taskVars, IInv, Mutex
    <2> QED BY <2>1, <2>4 DEF IInv
  <1>2. ASSUME NEW c \in Cpus, BootStep(c) PROVE IInv'
    BY <1>2, BootKeeps, BootMutex DEF IInv
  <1>3. ASSUME NEW c \in Cpus, main(c) PROVE IInv' BY <1>3, MainKeeps
  <1>4. ASSUME NEW c \in Cpus, Handles(c) \/ Trap(c) PROVE IInv' BY <1>4, HandlerKeeps
  <1>5. ASSUME NEW c \in Cpus, lock(c) \/ Works(c) PROVE IInv' BY <1>5, FuncKeeps
  <1> QED BY <1>1, <1>2, <1>3, <1>4, <1>5 DEF Next

(* On any number of processors, with any number of threads, no two         *)
(* processors ever stand on one thread's stack (on_interrupt's residues).  *)
THEOREM StacksExclusive == Spec => []StackExclusive
  <1>1. IInv => StackExclusive
    BY Constants DEF IInv, Places, Dealt, StackExclusive, OnStack
  <1>2. Spec => []IInv BY InitIInv, NextIInv, PTL DEF Spec
  <1> QED BY <1>1, <1>2, PTL

(* One thread at a time is between lock and unlock, and the lock is taken  *)
(* exactly while one is, through every interrupt and switch.               *)
THEOREM OnePrints == Spec => []PrintsAlone
  <1>1. IInv => PrintsAlone
    BY DEF IInv, Mutex, PrintsAlone, Inside
  <1>2. Spec => []IInv BY InitIInv, NextIInv, PTL DEF Spec
  <1> QED BY <1>1, <1>2, PTL
-----------------------------------------------------------------------------
(* The processors of the x86 machine.  Until the first halt they come up   *)
(* one by one, in the order of the loop of mpe_init; afterwards nobody     *)
(* passes the boot record, but what was on its way still arrives.  A       *)
(* processor that INIT has not reached, one on its way, one in the program: *)
Untouched(c) == mode[c] = "reset" /\ ipi[c] = <<>> /\ entered[c] = 0
Coming(c) == /\ entered[c] = 0
             /\ \/ /\ mode[c] = "reset"
                   /\ ipi[c] \in {<<"INIT", "STARTUP", "STARTUP">>, <<"STARTUP", "STARTUP">>}
                \/ /\ mode[c] \in {"record", "boot", "start", "percpu"}
                   /\ ipi[c] \in {<<"STARTUP">>, <<>>}
Up(c) == mode[c] = "user" /\ entered[c] = 1 /\ ipi[c] \in {<<"STARTUP">>, <<>>}

BootModes == {"boot", "start", "percpu"}

SmpTypes == /\ ncpu \in 1 .. MAX_CPU
            /\ mode \in [Cpus -> Modes]
            /\ ipi \in [Cpus -> Seq({"INIT", "STARTUP"})]
            /\ cpu \in [Cpus -> Nat]
            /\ entered \in [Cpus -> {0, 1}]
            /\ image \in {0, 1}

(* Until the first halt: processor 0 alone, then one by one.               *)
ComingUp ==
  /\ ipi[0] = <<>>
  /\ \/ /\ mode[0] \in {"boot", "start", "main"} /\ is_ap = 0 /\ ap_ready = 0 /\ entered[0] = 0
        /\ image = IF mode[0] = "boot" THEN 0 ELSE 1
        /\ \A c \in Cpus \ {0} : Untouched(c)
     \/ /\ mode[0] = "mpe" /\ entered[0] = 0 /\ ap_ready = 0 /\ user_entry /\ image = 1
        /\ cpu[0] \in 1 .. ncpu
        /\ \A c \in Cpus \ {0} : IF c < cpu[0] THEN Up(c) ELSE Untouched(c)
     \/ /\ mode[0] = "wait" /\ entered[0] = 0 /\ user_entry /\ image = 1 /\ is_ap = 1
        /\ cpu[0] \in 1 .. ncpu - 1
        /\ \A c \in Cpus \ {0, cpu[0]} : IF c < cpu[0] THEN Up(c) ELSE Untouched(c)
        /\ IF ap_ready = 1 THEN Up(cpu[0]) ELSE Coming(cpu[0])
     \/ /\ mode[0] = "user" /\ entered[0] = 1 /\ user_entry /\ image = 1
        /\ \A c \in Cpus \ {0} : IF c < ncpu THEN Up(c) ELSE Untouched(c)

(* Once a processor halts nobody enters the boot sector again.             *)
GoingDown ==
  /\ user_entry /\ image = 1
  /\ \A c \in Cpus : /\ mode[c] # "main"
                     /\ mode[c] \in {"boot", "start"} => is_ap = 1
                     /\ mode[c] \in BootModes \cup {"mpe", "wait"} => entered[c] = 0
  /\ \A c, d \in Cpus : mode[c] \in BootModes /\ mode[d] \in BootModes => c = d

SmpInv == SmpTypes /\ IF jmp_code = "loop" THEN GoingDown ELSE ComingUp

(* Every step of the processors keeps the ranges.                          *)
LEMMA SmpTypesKept ==
  ASSUME SmpInv, NEW c \in Cpus, Runs(c) \/ halt(c) \/ Stops(c)
  PROVE /\ ncpu' \in 1 .. MAX_CPU /\ mode' \in [Cpus -> Modes]
        /\ cpu' \in [Cpus -> Nat] /\ ipi' \in [Cpus -> Seq({"INIT", "STARTUP"})]
  <1> USE DEF Goes, Modes
  <1>1. SmpTypes BY DEF SmpInv
  <1>2. ncpu' = ncpu
    BY DEF Runs, Boots, Deliver, load_kernel, start_c, boot_next, await_ready,
       enter_boot_cpu, othercpu_entry, at_record, mpe_init, halt, Stops, stop_next, power_off
  <1>3. mode' \in [Cpus -> Modes]
    BY <1>1 DEF SmpTypes, Runs, Boots, Deliver, load_kernel, start_c, boot_next, await_ready,
       enter_boot_cpu, othercpu_entry, at_record, mpe_init, halt, Stops, stop_next, power_off
  <1>4. cpu' \in [Cpus -> Nat]
    <2>1. \/ cpu' = cpu \/ cpu' = [cpu EXCEPT ![c] = 0] \/ cpu' = [cpu EXCEPT ![c] = 1]
          \/ cpu' = [cpu EXCEPT ![c] = cpu[c] + 1]
      BY DEF Runs, Boots, Deliver, load_kernel, start_c, boot_next, await_ready,
         enter_boot_cpu, othercpu_entry, at_record, mpe_init, halt, Stops, stop_next, power_off
    <2>2. cpu \in [Cpus -> Nat] /\ cpu[c] + 1 \in Nat BY <1>1 DEF SmpTypes
    <2> QED BY <2>1, <2>2
  <1>5. ASSUME NEW t, bootap(t) PROVE ipi' \in [Cpus -> Seq({"INIT", "STARTUP"})]
    <2>1. <<"INIT", "STARTUP", "STARTUP">> \in Seq({"INIT", "STARTUP"}) OBVIOUS
    <2>2. ipi \in [Cpus -> Seq({"INIT", "STARTUP"})] BY <1>1 DEF SmpTypes
    <2>3. ipi' = [ipi EXCEPT ![t] = ipi[t] \o <<"INIT", "STARTUP", "STARTUP">>]
      BY <1>5 DEF bootap
    <2>4. CASE t \in Cpus
      <3>1. ipi[t] \o <<"INIT", "STARTUP", "STARTUP">> \in Seq({"INIT", "STARTUP"})
        BY <2>1, <2>2, <2>4
      <3> QED BY <2>2, <2>3, <3>1
    <2>5. CASE t \notin Cpus BY <2>2, <2>3, <2>5
    <2> QED BY <2>4, <2>5
  <1>6. ipi' = ipi \/ (\E t : bootap(t)) \/ Deliver(c)
    BY DEF Runs, Boots, load_kernel, start_c, boot_next, await_ready,
       enter_boot_cpu, othercpu_entry, at_record, mpe_init, halt, Stops, stop_next, power_off
  <1>7. Deliver(c) => ipi' \in [Cpus -> Seq({"INIT", "STARTUP"})]
    BY <1>1 DEF SmpTypes, Deliver
  <1> QED BY <1>1, <1>2, <1>3, <1>4, <1>5, <1>6, <1>7 DEF SmpTypes

(* Once jmp_code is the endless loop the machine only goes down.           *)
LEMMA DownKept ==
  ASSUME SmpInv, jmp_code = "loop", NEW c \in Cpus, Runs(c) \/ halt(c) \/ Stops(c)
  PROVE SmpInv'
  <1> USE DEF Goes
  <1>1. /\ SmpTypes /\ GoingDown BY DEF SmpInv
  <1>2. /\ ncpu' \in 1 .. MAX_CPU /\ mode' \in [Cpus -> Modes]
        /\ cpu' \in [Cpus -> Nat] /\ ipi' \in [Cpus -> Seq({"INIT", "STARTUP"})]
    BY SmpTypesKept
  <1>3. SUFFICES /\ jmp_code' = "loop" /\ entered' \in [Cpus -> {0, 1}] /\ image' = 1
                 /\ GoingDown'
    BY <1>2 DEF SmpInv, SmpTypes
  <1> USE <1>1 DEF SmpTypes, GoingDown, BootModes
  <1>4. CASE load_kernel(c)
    <2>1. is_ap = 1 /\ mode[c] = "boot" BY <1>4 DEF load_kernel
    <2> QED BY <1>4, <2>1 DEF load_kernel
  <1>5. CASE start_c(c)
    <2>1. is_ap = 1 /\ mode[c] = "start" BY <1>5 DEF start_c
    <2> QED BY <1>5, <2>1 DEF start_c
  <1>6. CASE boot_next(c) BY <1>6 DEF boot_next
  <1>7. CASE await_ready(c) BY <1>7 DEF await_ready
  <1>8. CASE enter_boot_cpu(c) BY <1>8 DEF enter_boot_cpu
  <1>9. CASE othercpu_entry(c) BY <1>9 DEF othercpu_entry
  <1>10. CASE at_record(c) BY <1>10 DEF at_record
  <1>11. CASE mpe_init(c) BY <1>11 DEF mpe_init
  <1>12. CASE Deliver(c) BY <1>12 DEF Deliver
  <1>13. CASE halt(c) BY <1>13 DEF halt
  <1>14. CASE stop_next(c) BY <1>14 DEF stop_next
  <1>15. CASE power_off(c) BY <1>15 DEF power_off
  <1> QED BY <1>4, <1>5, <1>6, <1>7, <1>8, <1>9, <1>10, <1>11, <1>12, <1>13, <1>14, <1>15
          DEF Runs, Boots, Stops

(* Until a halt, a processor between reset and the program is the one that  *)
(* processor 0 waits for.                                                  *)
LEMMA Awaited ==
  ASSUME ComingUp, SmpTypes, NEW c \in Cpus \ {0},
         mode[c] \notin {"reset", "user"} \/ (mode[c] = "reset" /\ ipi[c] # <<>>)
  PROVE /\ mode[0] = "wait" /\ c = cpu[0] /\ Coming(c) /\ ap_ready # 1
  BY DEF ComingUp, Untouched, Up, Coming, SmpTypes

(* A processor below one of them that the machine has.                     *)
LEMMA Under == ASSUME NEW n \in Nat, n <= MAX_CPU, NEW k \in 1 .. n, k < n
               PROVE k \in 1 .. n - 1 /\ k \in Cpus
  BY MaxCpuAssumption DEF Cpus

(* Until then it comes up, one processor after the other.                  *)
LEMMA UpKept ==
  ASSUME SmpInv, jmp_code # "loop", NEW c \in Cpus, Runs(c) \/ halt(c) \/ Stops(c)
  PROVE SmpInv'
  <1> USE DEF Goes
  <1>1. SmpTypes /\ ComingUp BY DEF SmpInv
  <1>2. /\ ncpu' \in 1 .. MAX_CPU /\ mode' \in [Cpus -> Modes]
        /\ cpu' \in [Cpus -> Nat] /\ ipi' \in [Cpus -> Seq({"INIT", "STARTUP"})]
    BY SmpTypesKept
  <1>a. MAX_CPU \in Nat /\ 0 \in Cpus /\ ncpu \in Nat BY <1>1, Constants, MaxCpuAssumption DEF SmpTypes
  <1> USE <1>1, <1>a DEF SmpTypes, ComingUp, Untouched, Up
  <1>b. entered' \in [Cpus -> {0, 1}] /\ image' \in {0, 1}
        /\ (jmp_code' # "loop" => ComingUp') /\ (jmp_code' = "loop" => GoingDown')
        => SmpInv'
    BY <1>2 DEF SmpInv
  <1>4. CASE load_kernel(c)
    <2>1. CASE c = 0 BY <1>4, <2>1, <1>2, <1>b DEF load_kernel
    <2>2. CASE c # 0
      <3>1. mode[0] = "wait" /\ c = cpu[0] /\ Coming(c) /\ ap_ready # 1 /\ is_ap = 1
        BY <1>4, <2>2, Awaited DEF load_kernel
      <3> QED BY <1>4, <2>2, <3>1, <1>2, <1>b DEF load_kernel, Coming
    <2> QED BY <2>1, <2>2
  <1>5. CASE start_c(c)
    <2>1. CASE c = 0 BY <1>5, <2>1, <1>2, <1>b DEF start_c
    <2>2. CASE c # 0
      <3>1. mode[0] = "wait" /\ c = cpu[0] /\ Coming(c) /\ ap_ready # 1 /\ is_ap = 1
        BY <1>5, <2>2, Awaited DEF start_c
      <3> QED BY <1>5, <2>2, <3>1, <1>2, <1>b DEF start_c, Coming
    <2> QED BY <2>1, <2>2
  <1>c. ASSUME mode[c] \in {"main", "mpe", "wait"} PROVE c = 0
    BY <1>c, Awaited DEF Coming
  <1>6. CASE boot_next(c)
    <2>1. c = 0 /\ mode[0] = "mpe" BY <1>6, <1>c DEF boot_next
    <2>a. cpu[0] \in 1 .. ncpu /\ cpu[0] < ncpu BY <1>6, <2>1 DEF boot_next
    <2>b. ncpu <= MAX_CPU OBVIOUS
    <2>2. cpu[0] \in 1 .. ncpu - 1 /\ cpu[0] \in Cpus BY <2>a, <2>b, <1>a, Under
    <2>3. ipi[cpu[0]] = <<>> BY <2>1, <2>2
    <2>4. ipi' = [ipi EXCEPT ![cpu[0]] = <<"INIT", "STARTUP", "STARTUP">>]
      BY <1>6, <2>1, <2>3 DEF boot_next, bootap
    <2> QED BY <1>6, <2>1, <2>2, <2>4, <1>2, <1>b DEF boot_next, Coming
  <1>7. CASE await_ready(c)
    <2>1. c = 0 /\ mode[0] = "wait" BY <1>7, <1>c DEF await_ready
    <2>2. cpu[0] \in 1 .. ncpu - 1 /\ Up(cpu[0]) /\ cpu' = [cpu EXCEPT ![0] = cpu[0] + 1]
      BY <1>7, <2>1 DEF await_ready
    <2> QED BY <1>7, <2>1, <2>2, <1>2, <1>b DEF await_ready
  <1>8. CASE enter_boot_cpu(c)
    <2>1. c = 0 /\ mode[0] = "mpe" /\ cpu[0] = ncpu BY <1>8, <1>c DEF enter_boot_cpu
    <2> QED BY <1>8, <2>1, <1>2, <1>b DEF enter_boot_cpu
  <1>9. CASE othercpu_entry(c)
    <2>1. c # 0 BY <1>9 DEF othercpu_entry
    <2>2. mode[0] = "wait" /\ c = cpu[0] /\ Coming(c) BY <1>9, <2>1, Awaited DEF othercpu_entry
    <2> QED BY <1>9, <2>1, <2>2, <1>2, <1>b DEF othercpu_entry, Coming
  <1>10. CASE at_record(c)
    <2>1. c # 0 BY <1>10 DEF at_record
    <2>2. mode[0] = "wait" /\ c = cpu[0] /\ Coming(c) /\ ap_ready # 1
      BY <1>10, <2>1, Awaited DEF at_record
    <2> QED BY <1>10, <2>1, <2>2, <1>2, <1>b DEF at_record, Coming
  <1>11. CASE mpe_init(c)
    <2>1. c = 0 /\ mode[0] = "main" BY <1>11, <1>c DEF mpe_init
    <2>2. /\ mode' = [mode EXCEPT ![0] = "mpe"] /\ cpu' = [cpu EXCEPT ![0] = 1] /\ user_entry'
          /\ jmp_code' = "boot" /\ UNCHANGED <<ncpu, ipi, is_ap, image, ap_ready, entered>>
      BY <1>11, <2>1 DEF mpe_init
    <2>3. /\ mode'[0] = "mpe" /\ cpu'[0] = 1 /\ 1 \in 1 .. ncpu
          /\ \A d \in Cpus \ {0} : ~(d < 1) /\ mode'[d] = mode[d]
      BY <2>2 DEF Cpus
    <2>4. image = 1 /\ entered[0] = 0 /\ ap_ready = 0 /\ ipi[0] = <<>> /\ \A d \in Cpus \ {0} : Untouched(d)
      BY <2>1
    <2>5. ComingUp' BY <2>2, <2>3, <2>4
    <2> QED BY <2>2, <2>5, <1>b
  <1>12. CASE Deliver(c)
    <2>1. c # 0 /\ ipi[c] # <<>> BY <1>12 DEF Deliver
    <2>2. CASE mode[c] = "user"
      <3>1. Up(c) /\ ipi[c] = <<"STARTUP">>
        BY <2>1, <2>2 DEF Coming
      <3>2. ipi' = [ipi EXCEPT ![c] = <<>>] /\ mode' = mode BY <1>12, <2>2, <3>1 DEF Deliver
      <3> QED BY <1>12, <2>1, <3>1, <3>2, <1>2, <1>b DEF Deliver, Coming
    <2>3. CASE mode[c] # "user"
      <3>1. mode[0] = "wait" /\ c = cpu[0] /\ Coming(c) /\ ap_ready # 1
        BY <2>1, <2>3, Awaited
      <3>2. CASE ipi[c] = <<"INIT", "STARTUP", "STARTUP">>
        <4>1. Head(ipi[c]) = "INIT" /\ Tail(ipi[c]) = <<"STARTUP", "STARTUP">> BY <3>2
        <4> QED BY <1>12, <2>1, <3>1, <3>2, <4>1, <1>2, <1>b DEF Deliver, Coming
      <3>3. CASE ipi[c] = <<"STARTUP", "STARTUP">>
        <4>1. Head(ipi[c]) = "STARTUP" /\ Tail(ipi[c]) = <<"STARTUP">> BY <3>3
        <4> QED BY <1>12, <2>1, <3>1, <3>3, <4>1, <1>2, <1>b DEF Deliver, Coming
      <3>4. CASE ipi[c] = <<"STARTUP">>
        <4>1. Head(ipi[c]) = "STARTUP" /\ Tail(ipi[c]) = <<>> BY <3>4
        <4> QED BY <1>12, <2>1, <3>1, <3>4, <4>1, <1>2, <1>b DEF Deliver, Coming
      <3> QED BY <2>1, <3>1, <3>2, <3>3, <3>4 DEF Coming
    <2> QED BY <2>2, <2>3
  <1>13. CASE halt(c)
    <2>1. \A d \in Cpus : mode[d] \in BootModes \cup {"main"} => d # 0
      BY <1>13 DEF halt, BootModes
    <2>2. \A d \in Cpus : mode[d] \in BootModes \cup {"main"} =>
             d = cpu[0] /\ is_ap = 1 /\ mode[d] # "main" /\ entered[d] = 0
      BY <2>1, Awaited DEF BootModes, Coming
    <2>3. \A d \in Cpus : mode[d] \in {"mpe", "wait"} => entered[d] = 0
      BY Awaited DEF Coming
    <2>4. user_entry /\ image = 1 BY <1>13 DEF halt
    <2>5. GoingDown' BY <1>13, <2>2, <2>3, <2>4 DEF halt, GoingDown, BootModes
    <2> QED BY <1>13, <2>5, <1>b DEF halt
  <1>14. ~Stops(c)
    <2>1. mode[c] # "stop" BY Awaited DEF Coming
    <2> QED BY <2>1 DEF Stops, stop_next, power_off
  <1> QED BY <1>4, <1>5, <1>6, <1>7, <1>8, <1>9, <1>10, <1>11, <1>12, <1>13, <1>14
          DEF Runs, Boots, Stops

(* At power-on no processor has been touched.                              *)
LEMMA InitSmpInv == SmpInit => SmpInv
  BY Constants DEF SmpInit, SmpInv, SmpTypes, ComingUp, Untouched, Modes

(* Every step, of the processors or of the threads on them, keeps SmpInv.  *)
LEMMA NextSmpInv == ASSUME SmpInv, [SmpNext]_smpVars \/ [Next]_vars PROVE SmpInv'
  <1>1. CASE UNCHANGED smpVars
    BY <1>1 DEF smpVars, SmpInv, SmpTypes, ComingUp, GoingDown, Untouched, Coming, Up
  <1>2. CASE \E c \in Cpus : Runs(c) \/ halt(c) \/ Stops(c) BY <1>2, UpKept, DownKept
  <1>3. UNCHANGED vars => UNCHANGED smpVars BY DEF vars
  <1>4. Next => UNCHANGED smpVars \/ \E c \in Cpus : Runs(c)
    BY DEF Next, BootStep, main, Handles, Works, iset, Trap, on_interrupt, iret, lock, print,
           unlock, delay, Runs
  <1> QED BY <1>1, <1>2, <1>3, <1>4 DEF SmpNext

(* Only one processor comes up at a time, and each enters once.            *)
LEMMA SmpInvEnough == SmpInv => OneAtATime /\ EntersOnce
  <1> SUFFICES ASSUME SmpInv PROVE OneAtATime /\ EntersOnce OBVIOUS
  <1>1. SmpTypes BY DEF SmpInv
  <1>2. CASE jmp_code = "loop"
    <2>1. GoingDown BY <1>2 DEF SmpInv
    <2>2. OneAtATime BY <2>1 DEF GoingDown, BootModes, OneAtATime
    <2>3. \A c \in Cpus : entered[c] \in {0, 1} BY <1>1 DEF SmpTypes
    <2>4. EntersOnce BY <2>1, <2>3 DEF GoingDown, EntersOnce
    <2> QED BY <2>2, <2>4
  <1>3. CASE jmp_code # "loop"
    <2>1. ComingUp BY <1>3 DEF SmpInv
    <2>2. \A c \in Cpus \ {0} : mode[c] \in BootModes => mode[0] = "wait" /\ c = cpu[0]
      BY <1>1, <2>1, Awaited DEF BootModes
    <2>3. OneAtATime
      BY <2>2 DEF OneAtATime, BootModes
    <2>4. EntersOnce
      <3>1. image <= 1 /\ \A c \in Cpus : entered[c] <= 1
        <4>1. image \in {0, 1} /\ \A c \in Cpus : entered[c] \in {0, 1} BY <1>1 DEF SmpTypes
        <4> QED BY <4>1
      <3>2. ASSUME NEW c \in Cpus, entered[c] = 1 PROVE user_entry /\ image = 1
        BY <2>1, <3>2 DEF ComingUp, Untouched
      <3> QED BY <3>1, <3>2 DEF EntersOnce
    <2> QED BY <2>3, <2>4
  <1> QED BY <1>2, <1>3
-----------------------------------------------------------------------------
(* The group of Linux processes: the phases of processor 0.                *)
LEMMA Zero == 0 \in Cpus /\ Cpus \subseteq Nat /\ Group!Cpus = Cpus
  BY MaxCpuAssumption DEF Cpus, Group!Cpus

(* The group of processes starts with its first one alone.                 *)
LEMMA InitPhases == Group!NSmpInit => Group!Phases
  BY Zero DEF Group!NSmpInit, Group!Phases

(* The cardinality that NativeSmp sees is that of the standard module.     *)
LEMMA NoInits == Group!Cardinality({}) = 0
  <1>1. Group!Cardinality({}) = Cardinality({}) BY Zenon DEF Group!Cardinality, Cardinality
  <1> QED BY <1>1, FS_EmptySet

(* Every step of the processes keeps the phases.                           *)
LEMMA PhasesKept == ASSUME Group!Phases, Group!NSmpNext PROVE (Group!Phases)'
  <1> USE Zero DEF Group!Moves
  <1>0. MAX_CPU \in Nat /\ s1 \in Nat BY MaxCpuAssumption DEF Group!Phases
  <1>1. CASE Group!ioe_init BY <1>1 DEF Group!Phases, Group!ioe_init
  <1>2. CASE Group!cte_init BY <1>2 DEF Group!Phases, Group!cte_init
  <1>3. CASE Group!start_mpe BY <1>3, <1>0 DEF Group!Phases, Group!start_mpe
  <1>4. CASE Group!fork
    <2>1. s1 <= MAX_CPU /\ s9 \in 1 .. s1 /\ s9 < s1 BY <1>4, <1>0 DEF Group!Phases, Group!fork
    <2>2. s9 \in 1 .. s1 - 1 /\ s9 \in Cpus BY <2>1, <1>0, Under
    <2> QED BY <1>4, <1>0, <2>2 DEF Group!Phases, Group!fork
  <1>5. CASE Group!forked BY <1>5, <1>0 DEF Group!Phases, Group!forked
  <1>6. CASE Group!init_devices
    <2>1. s10 = {} /\ ~ s4 BY <1>6 DEF Group!Phases, Group!init_devices
    <2>2. s3 => s10' = {<<0, 0>>} /\ s4' = TRUE
      BY <1>6, <2>1, NoInits DEF Group!init_devices, Group!initialise
    <2>3. ~ s3 => UNCHANGED <<s10, s4>> BY <1>6 DEF Group!init_devices
    <2>4. /\ s5' = [s5 EXCEPT ![0] = "release"] /\ UNCHANGED <<s1, s2, s3, s6, s7, s8, s9>>
          /\ s5[0] = "devices"
      BY <1>6 DEF Group!init_devices
    <2>5. s4 \in BOOLEAN /\ s3 \in BOOLEAN BY DEF Group!Phases
    <2>6. s4' = s3
      <3>1. CASE s3 = TRUE BY <3>1, <2>2
      <3>2. CASE s3 = FALSE BY <3>2, <2>1, <2>3, <2>5
      <3> QED BY <2>5, <3>1, <3>2
    <2>7. s10' = IF s4' THEN {<<0, 0>>} ELSE {} BY <2>1, <2>2, <2>3, <2>6
    <2> QED BY <2>1, <2>4, <2>5, <2>6, <2>7, <1>0 DEF Group!Phases
  <1>7. CASE Group!release BY <1>7, <1>0 DEF Group!Phases, Group!release
  <1>8. ASSUME NEW c \in Cpus, Group!await(c) PROVE (Group!Phases)'
    BY <1>8, <1>0 DEF Group!Phases, Group!await
  <1>9. ASSUME NEW c \in Cpus, Group!secondary(c) PROVE (Group!Phases)'
    BY <1>9, <1>0 DEF Group!Phases, Group!secondary
  <1>10. ASSUME NEW c \in Cpus, Group!do_io(c) PROVE (Group!Phases)'
    <2>1. s3 /\ s4 /\ s5[c] = "entry" /\ s5[0] \in {"release", "entry", "io"}
      BY <1>10 DEF Group!Phases, Group!do_io
    <2>2. s5' = [s5 EXCEPT ![c] = "io"] /\ UNCHANGED <<s1, s2, s3, s4, s6, s7, s8, s9, s10>>
      BY <1>10, <2>1 DEF Group!do_io
    <2> QED BY <2>1, <2>2 DEF Group!Phases
  <1>11. ASSUME NEW c \in Cpus, Group!DoesIo(c) PROVE (Group!Phases)'
    BY <1>11, <1>0 DEF Group!Phases, Group!DoesIo, Group!late_init, Group!handled
  <1>12. ASSUME NEW c \in Cpus, Group!halt(c) PROVE (Group!Phases)'
    BY <1>12, <1>0 DEF Group!Phases, Group!halt
  <1> QED BY <1>1, <1>2, <1>3, <1>4, <1>5, <1>6, <1>7, <1>8, <1>9, <1>10, <1>11, <1>12
          DEF Group!NSmpNext, Group!Starts, Group!Joins

(* The phases are more than the two promises of NativeSmp.                 *)
LEMMA PhasesEnough == Group!Phases => Group!OneMachine /\ Group!OneHalt
  <1> SUFFICES ASSUME Group!Phases PROVE Group!OneMachine /\ Group!OneHalt OBVIOUS
  <1> USE Zero, MaxCpuAssumption DEF Group!Phases
  <1>1. Group!OneHalt BY DEF Group!OneHalt, Group!Halted, Group!AllDead
  <1>2. \A e \in s10 : e = <<0, 0>> OBVIOUS
  <1>3. ASSUME NEW c \in Cpus \ {0}, Group!Entered(c)
        PROVE /\ \A k \in 0 .. s1 - 1 : s5[k] # "none"
              /\ s3 => s4
              /\ s6[c] = c /\ s7[c]
    <2>1. s5[c] \in {"entry", "io"} /\ s5[0] \in {"release", "entry", "io"} /\ s3 = s4
          /\ \A d \in Cpus \ {0} : d < s1 => s5[d] \in {"read", "released", "entry", "io"}
      BY <1>3 DEF Group!Entered
    <2>2. \A k \in 0 .. s1 - 1 : k \in Cpus /\ k < s1 BY DEF Cpus
    <2> QED BY <2>1, <2>2
  <1>4. \A c \in Cpus : Group!Entered(c) => s6[c] = c
    BY <1>3
  <1> QED BY <1>1, <1>2, <1>3, <1>4 DEF Group!OneMachine
-----------------------------------------------------------------------------
Upright == SmpInv /\ (part = "group" => Group!Phases)

\* What both kinds of machine keep, whichever of them a behaviour is about.
LEMMA UprightKept == ASSUME Upright, [MCNext]_mcVars PROVE Upright'
  <1>1. CASE UNCHANGED mcVars
    <2>1. UNCHANGED smpVars /\ UNCHANGED <<part, s1, s2, s3, s4, s5, s6, s7, s8, s9, s10>>
      BY <1>1 DEF mcVars, vars, pool
    <2>2. SmpInv' BY <2>1, NextSmpInv DEF Upright
    <2> QED BY <2>1, <2>2 DEF Upright, Group!Phases, Group!Cpus
  <1>2. CASE InSmp(SmpNext)
    BY <1>2, NextSmpInv DEF InSmp, Upright
  <1>3. CASE InThreads(Next)
    BY <1>3, NextSmpInv DEF InThreads, Upright
  <1>4. CASE InCte(Cte!CteNext) \/ InNative(Native!NativeNext)
    BY <1>4, NextSmpInv DEF InCte, InNative, Upright
  <1>5. CASE InGroup(Group!NSmpNext)
    BY <1>5, NextSmpInv, PhasesKept DEF InGroup, Upright
  <1>6. CASE \/ InTyping(Typing!GameNext) \/ InBox(Kernels!GaltonNext) \/ InDisks(Kernels!HanoiNext)
             \/ InWalk(Kernels!AntNext) \/ InSnake(Kernels!SnakeNext) \/ InBf(Bf!BfNext)
             \/ InDigest(Kernels!ShaNext) \/ InBlocks(Kernels!ChainNext)
    <2>1. part \notin {"group"} /\ part' = part /\ UNCHANGED vars
      BY <1>6 DEF InTyping, InBox, InDisks, InWalk, InSnake, InBf, InDigest, InBlocks
    <2> QED BY <2>1, NextSmpInv DEF Upright
  <1> QED BY <1>1, <1>2, <1>3, <1>4, <1>5, <1>6 DEF MCNext

(* On every machine of run machines, whatever its processors: one of them  *)
(* at a time comes up, each enters the program once and after the kernel   *)
(* and the devices are there, and a halted group is dead as a whole        *)
(* (start.S, mpe.c of both runtimes).                                      *)
THEOREM ProcessorsComeUp == MCSpec => []ProcessorsStart
  <1>1. MCInit => Upright
    BY InitSmpInv, InitPhases DEF MCInit, Init, Upright
  <1>2. Upright => ProcessorsStart
    BY SmpInvEnough, PhasesEnough DEF Upright, ProcessorsStart
  <1> QED BY <1>1, <1>2, UprightKept, PTL DEF MCSpec

(* The same of the x86 boot by itself, through any number of halts.        *)
THEOREM BootsOnce == SmpSpec => [](OneAtATime /\ EntersOnce)
  <1>1. SmpInv /\ [SmpNext]_smpVars => SmpInv' BY NextSmpInv
  <1> QED BY <1>1, InitSmpInv, SmpInvEnough, PTL DEF SmpSpec
-----------------------------------------------------------------------------
(* The machines of one processor with traps: the invariants of X86Cte and  *)
(* of NativeCte, each while its machine is the one.                        *)
Held == /\ part = "cte" => Cte!CteInv
        /\ part = "native" => Native!NativeInv

(* At the start each of the two machines is set up.                        *)
LEMMA InitHeld == MCInit => Held
  <1> SUFFICES ASSUME MCInit PROVE Held OBVIOUS
  <1>1. part = "cte" => Cte!CteInit BY DEF MCInit
  <1>2. part = "native" => Native!NativeInit BY DEF MCInit
  <1>3. part = "cte" => Cte!CteInv
    BY <1>1, MachinesAssumption, Cte!CteFirst
  <1>4. part = "native" => Native!NativeInv
    BY <1>2, MachinesAssumption, Native!NativeFirst
  <1> QED BY <1>3, <1>4 DEF Held

(* A step is one of the machine that is there, or none of it.              *)
LEMMA OneMachineSteps ==
  ASSUME [MCNext]_mcVars
  PROVE  /\ part' = part
         /\ part = "cte" => [Cte!CteNext]_(Cte!cteVars)
         /\ part = "native" => [Native!NativeNext]_(Native!allVars)
  <1>1. CASE UNCHANGED mcVars
    <2>1. UNCHANGED <<part, s1, s2, s3, s4, s5, s6, s7, s8, s9, s10, s11>>
      BY <1>1 DEF mcVars, pool
    <2> QED BY <2>1 DEF Cte!cteVars, Native!allVars, Native!nativeVars
  <1>2. CASE MCNext
    BY <1>2 DEF MCNext, InSmp, InThreads, InCte, InNative, InGroup, InTyping, InBox, InDisks,
                InWalk, InSnake, InBf, InDigest, InBlocks
  <1> QED BY <1>1, <1>2

(* Every step keeps them, and lets a thread go on only as it was left.     *)
LEMMA HeldKept ==
  ASSUME Held, [MCNext]_mcVars
  PROVE  /\ Held'
         /\ part = "cte" => Cte!GoesOn
         /\ part = "native" => Native!GoesOn
  <1>1. part = "cte" => (Cte!CteInv)' /\ Cte!GoesOn
    BY OneMachineSteps, Cte!CteStep DEF Held
  <1>2. part = "native" => (Native!NativeInv)' /\ Native!GoesOn
    BY OneMachineSteps, Native!NativeStep DEF Held
  <1> QED BY <1>1, <1>2, OneMachineSteps DEF Held

(* The invariant of run machines' traps holds in every state.              *)
LEMMA AlwaysHeld == MCSpec => []Held
  BY InitHeld, HeldKept, PTL DEF MCSpec

(* The thread that runs, under the x86 runtime and under that of Linux,    *)
(* has its own space and stack, sees its own pages and no other, finds its *)
(* argument, and its next trap will come, and start at the end of its own  *)
(* kernel stack (cte.c, vme.c of both runtimes).                           *)
THEOREM OwnSpaces == MCSpec => []OwnSpace
  <1>1. part = "cte" /\ Held
          => Cte!OwnSpaceAndStack /\ Cte!FindsArgument /\ Cte!CanBeInterrupted
    BY Cte!CteInvEnough DEF Held
  <1>2. part = "native" /\ Held => Native!OwnPagesAndStack
    BY Native!RunsOnItsOwn DEF Held
  <1>3. Held => OwnSpace BY <1>1, <1>2 DEF OwnSpace
  <1> QED BY <1>3, AlwaysHeld, PTL

(* A thread goes on as its trap left it, with all its registers, or its    *)
(* stack and signal mask (trap32.S, native/cte.c).                         *)
THEOREM ThreadsGoOnAsLeft == MCSpec => ThreadsResume
  <1>1. Held /\ [MCNext]_mcVars
          => [/\ part = "cte" => Cte!GoesOn
              /\ part = "native" => Native!GoesOn]_mcVars
    BY HeldKept
  <1> QED BY <1>1, AlwaysHeld, PTL DEF MCSpec, ThreadsResume
-----------------------------------------------------------------------------
(* Numbers                                                                 *)

\* A set of numbers that is not empty has a least element.
LEMMA LeastNumber ==
  ASSUME NEW S \in SUBSET Nat, S # {}
  PROVE  \E x \in S : \A y \in S : x <= y
  <1>1. PICK x \in S : \A y \in S : <<y, x>> \notin OpToRel(<, Nat)
    BY WFMin, NatLessThanWellFounded
  <1>2. \A y \in S : ~ (y < x) BY <1>1 DEF OpToRel
  <1> QED BY <1>2

\* Quotient and remainder are the only ones that there are.
LEMMA Divides ==
  ASSUME NEW d \in Nat \ {0}, NEW q \in Int, NEW r \in 0 .. d - 1
  PROVE  (d * q + r) \div d = q /\ (d * q + r) % d = r
  <1>1. PICK a \in Int : a = d * q + r OBVIOUS
  <1>2. PICK x \in Int, y \in 0 .. d - 1 : x = a \div d /\ y = a % d OBVIOUS
  <1>3. a = d * x + y BY <1>2
  <1>4. x = q
    <2>1. CASE x > q
      <3>1. d * x >= d * (q + 1) BY <2>1
      <3>2. d * (q + 1) = d * q + d OBVIOUS
      <3> QED BY <1>1, <1>3, <3>1, <3>2
    <2>2. CASE x < q
      <3>1. d * q >= d * (x + 1) BY <2>2
      <3>2. d * (x + 1) = d * x + d OBVIOUS
      <3> QED BY <1>1, <1>3, <3>1, <3>2
    <2> QED BY <2>1, <2>2
  <1>5. d * q \in Int OBVIOUS
  <1>6. y = r BY <1>1, <1>3, <1>4, <1>5
  <1> QED BY <1>1, <1>2, <1>4, <1>6

\* A number and its remainder have the same remainder, whatever is added.
LEMMA SameRemainder ==
  ASSUME NEW d \in Nat \ {0}, NEW a \in Int, NEW b \in Int
  PROVE  /\ ((a % d) + b) % d = (a + b) % d
         /\ (b - (a % d)) % d = (b - a) % d
  <1>1. PICK x \in Int, y \in 0 .. d - 1 : x = a \div d /\ y = a % d OBVIOUS
  <1>2. a = d * x + y BY <1>1
  <1>3. PICK z \in Int, w \in 0 .. d - 1 : z = (y + b) \div d /\ w = (y + b) % d OBVIOUS
  <1>4. y + b = d * z + w BY <1>3
  <1>5. a + b = d * (x + z) + w
    <2>1. d * (x + z) = d * x + d * z OBVIOUS
    <2>2. d * x \in Int /\ d * z \in Int OBVIOUS
    <2> QED BY <1>2, <1>4, <2>1, <2>2
  <1>6. (a + b) % d = w
    <2>1. x + z \in Int OBVIOUS
    <2>2. (d * (x + z) + w) % d = w BY <2>1, Divides, Zenon
    <2> QED BY <1>5, <2>2
  <1>7. PICK u \in Int, v \in 0 .. d - 1 : u = (b - y) \div d /\ v = (b - y) % d OBVIOUS
  <1>8. b - y = d * u + v BY <1>7
  <1>9. b - a = d * (u - x) + v
    <2>1. d * (u - x) = d * u - d * x OBVIOUS
    <2>2. d * x \in Int /\ d * u \in Int OBVIOUS
    <2> QED BY <1>2, <1>8, <2>1, <2>2
  <1>10. (b - a) % d = v
    <2>1. u - x \in Int OBVIOUS
    <2>2. (d * (u - x) + v) % d = v BY <2>1, Divides, Zenon
    <2> QED BY <1>9, <2>2
  <1>11. ((a % d) + b) % d = w /\ (b - (a % d)) % d = v BY <1>1, <1>3, <1>7
  <1> QED BY <1>6, <1>10, <1>11

\* The cardinality that the instances see is that of the standard module.
LEMMA SameCardinality ==
  \A S : Typing!Cardinality(S) = Cardinality(S)
  BY Zenon DEF Typing!Cardinality, Cardinality

-----------------------------------------------------------------------------
(* The typing game: letters are counted once, and none is left over on the *)
(* screen.                                                                 *)

\* The slots are finitely many, and have a lowest one.
LEMMA SomeSlot ==
  ASSUME Typing!TypingAssumption, NEW S \in SUBSET Typing!Slots
  PROVE  /\ S # {} => Typing!Min(S) \in S
         /\ IsFiniteSet(S) /\ Cardinality(S) \in 0 .. NCHAR
  <1>1. NCHAR \in Nat /\ S \in SUBSET Nat BY DEF Typing!TypingAssumption, Typing!Slots
  <1>2. S # {} => \E x \in S : \A z \in S : x <= z BY <1>1, LeastNumber
  <1>3. IsFiniteSet(1 .. NCHAR) /\ Cardinality(1 .. NCHAR) = NCHAR BY <1>1, FS_Interval
  <1>4. IsFiniteSet(S) /\ Cardinality(S) <= NCHAR BY <1>3, FS_Subset DEF Typing!Slots
  <1>5. Cardinality(S) \in Nat BY <1>4, FS_CardinalityType
  <1>6. Cardinality(S) \in 0 .. NCHAR BY <1>1, <1>4, <1>5
  <1>7. S # {} => Typing!Min(S) \in S BY <1>2, Zenon DEF Typing!Min
  <1> QED BY <1>4, <1>6, <1>7

\* No letter is there at the start, and nothing is shown.
LEMMA InitGame == ASSUME Typing!TypingAssumption, Typing!GameInit PROVE Typing!GameInv
  <1> USE DEF Typing!TypingAssumption, Typing!GameInit, Typing!Free, Typing!Used
  <1>0. FPS \in Nat /\ Ground \in Nat
    <2>1. {FPS, Ground} \subseteq Nat \ {0} OBVIOUS
    <2> QED BY <2>1
  <1>1. Typing!GameTypes
    <2>1. s1 = [s \in Typing!Slots |-> Typing!Free] OBVIOUS
    <2>2. Typing!Free \in Typing!Characters BY <1>0 DEF Typing!Characters
    <2>3. s1 \in [Typing!Slots -> Typing!Characters] BY <2>1, <2>2, Zenon
    <2>4. \A s \in Typing!Slots : Typing!LetterOK(s1[s]) BY <2>1 DEF Typing!LetterOK
    <2>5. s2 \in Int /\ s3 \in Int /\ s4 \in Int /\ s7 = FALSE OBVIOUS
    <2> HIDE DEF Typing!GameInit, Typing!TypingAssumption
    <2> QED BY <2>3, <2>4, <2>5, Zenon DEF Typing!GameTypes, Typing!LetterOK
  <1>2. Typing!Shown BY DEF Typing!Shown, Typing!Places
  <1>3. Typing!Falling = {} BY DEF Typing!Falling
  <1>4. Typing!EachCountedOnce
    BY <1>3, FS_EmptySet, SameCardinality DEF Typing!EachCountedOnce
  <1> QED BY <1>1, <1>2, <1>4 DEF Typing!GameInv

\* The first of these by itself.
LEMMA RemainderOfSum ==
  ASSUME NEW d \in Nat \ {0}, NEW a \in Int, NEW b \in Int
  PROVE  ((a % d) + b) % d = (a + b) % d
  BY SameRemainder, Zenon

\* The remainder of a difference is that of the difference of remainders.
LEMMA RemaindersOfThree ==
  ASSUME NEW d \in Nat \ {0}, NEW a \in Int, NEW b \in Int, NEW c \in Int
  PROVE  (a - b - c) % d = ((a % d) - (b % d) - (c % d)) % d
  <1>0. PICK x \in Int, y \in Int, z \in Int : x = a % d /\ y = b % d /\ z = c % d
    <2>1. a % d \in Int /\ b % d \in Int /\ c % d \in Int OBVIOUS
    <2> QED BY <2>1, Zenon
  <1>1. PICK m \in Int, n \in Int, p \in Int : m = (-b) - c /\ n = x - c /\ p = x - y
    <2>1. (-b) - c \in Int /\ x - c \in Int /\ x - y \in Int BY <1>0
    <2> QED BY <2>1, Zenon
  <1>2. ((a % d) + m) % d = (a + m) % d BY RemainderOfSum, Zenon
  <1>3. (n - (b % d)) % d = (n - b) % d BY <1>1, SameRemainder, Zenon
  <1>4. (p - (c % d)) % d = (p - c) % d BY <1>1, SameRemainder, Zenon
  <1>5. /\ a + m = a - b - c /\ x + m = n - b /\ n - y = p - c /\ p - z = x - y - z
    BY <1>1, <1>0
  <1> QED BY <1>0, <1>2, <1>3, <1>4, <1>5

\* A frame moves every letter; those that land are missed.
LEMMA FrameKeeps ==
  ASSUME Typing!TypingAssumption, Typing!GameInv,
         NEW letter \in Letters, NEW speed \in Speeds, Typing!game_logic_update(letter, speed)
  PROVE  Typing!GameInv'
  <1> USE DEF Typing!Used, Typing!Free
  <1>1. /\ {NCHAR, FPS, Ground} \subseteq Nat \ {0} /\ speed \in Nat \ {0} /\ COUNT \in Nat \ {0}
        /\ NCHAR < COUNT /\ letter # "none"
    <2>1. /\ {NCHAR, FPS, Ground} \subseteq Nat \ {0} /\ Speeds \subseteq Nat \ {0}
          /\ NCHAR \in Nat /\ COUNT \in Nat /\ COUNT > NCHAR /\ "none" \notin Letters
      BY DEF Typing!TypingAssumption
    <2> QED BY <2>1
  <1> DEFINE cs == IF s5 = 0 THEN Typing!WithNew(letter, speed) ELSE s1
             new == IF cs = s1 THEN 0 ELSE 1
             Late == Typing!Missed(cs)
             F == {s \in Typing!Slots : Typing!Used(cs[s]) /\ cs[s].v > 0}
  <1>2. /\ s1' = [s \in Typing!Slots |-> Typing!Moved(cs[s])]
        /\ s3' = (s3 + Cardinality(Late)) % COUNT
        /\ s4' = (s4 + new) % COUNT
        /\ s7' = TRUE /\ s2' = s2 /\ s8' = s8 /\ s9' = s9
    BY SameCardinality, Zenon DEF Typing!game_logic_update
  <1>3. /\ s1 \in [Typing!Slots -> Typing!Characters] /\ \A s \in Typing!Slots : Typing!LetterOK(s1[s])
        /\ s2 \in Int /\ s3 \in Int /\ s4 \in Int
        /\ Typing!Shown /\ Typing!EachCountedOnce
    BY DEF Typing!GameInv, Typing!GameTypes
  <1>4. /\ cs \in [Typing!Slots -> Typing!Characters] /\ \A s \in Typing!Slots : Typing!LetterOK(cs[s])
        /\ \/ cs = s1 /\ F = Typing!Falling
           \/ \E s \in Typing!Slots \ Typing!Falling :
                 cs # s1 /\ F = Typing!Falling \cup {s}
    <2>1. CASE cs = s1
      BY <2>1, <1>3, Zenon DEF Typing!Falling
    <2>2. CASE cs # s1
      <3> DEFINE s == Typing!Min(Typing!Vacant)
                 c == [ch |-> letter, y |-> 0, v |-> speed, t |-> 0]
      <3>1. Typing!Vacant # {} /\ cs = [s1 EXCEPT ![s] = c]
        BY <2>2, Zenon DEF Typing!WithNew
      <3>2. s \in Typing!Slots /\ s1[s].ch = "none"
        <4>1. Typing!Vacant \in SUBSET Typing!Slots BY DEF Typing!Vacant
        <4>2. s \in Typing!Vacant BY <4>1, <3>1, SomeSlot
        <4> QED BY <4>2 DEF Typing!Vacant
      <3>3. c \in Typing!Characters /\ Typing!LetterOK(c)
        BY <1>1 DEF Typing!Characters, Typing!LetterOK
      <3> HIDE DEF s, cs
      <3>4. \A o \in Typing!Slots : cs[o] = IF o = s THEN c ELSE s1[o]
        BY <3>1, <3>2, <1>3
      <3>5. cs \in [Typing!Slots -> Typing!Characters] BY <3>1, <3>2, <3>3, <1>3
      <3>6. \A o \in Typing!Slots : Typing!LetterOK(cs[o])
        BY <3>3, <3>4, <1>3, Zenon
      <3>7. s \notin Typing!Falling BY <3>2 DEF Typing!Falling
      <3>8. F = Typing!Falling \cup {s}
        BY <3>2, <3>4, <1>1 DEF Typing!Falling
      <3> QED BY <2>2, <3>2, <3>5, <3>6, <3>7, <3>8
    <2> QED BY <2>1, <2>2
  <1> HIDE DEF cs, Late, F
  <1>5. ASSUME NEW s \in Typing!Slots
        PROVE  /\ Typing!Moved(cs[s]) \in Typing!Characters /\ Typing!LetterOK(Typing!Moved(cs[s]))
               /\ (Typing!Used(Typing!Moved(cs[s])) /\ Typing!Moved(cs[s]).v > 0)
                     <=> s \in F /\ s \notin Late
               /\ s \in Late => s \in F
    <2> DEFINE c == cs[s]
               d == Typing!Moved(c)
    <2>1. c \in Typing!Characters /\ Typing!LetterOK(c) BY <1>4
    <2>2. /\ s \in F <=> Typing!Used(c) /\ c.v > 0
          /\ s \in Late <=> Typing!Used(c) /\ c.t = 0 /\ Typing!Landed(c)
      BY <1>5 DEF F, Late, Typing!Missed
    <2> HIDE DEF c
    <2>3. /\ d \in Typing!Characters /\ Typing!LetterOK(d)
          /\ (Typing!Used(d) /\ d.v > 0) <=> (Typing!Used(c) /\ c.v > 0)
                                               /\ ~(Typing!Used(c) /\ c.t = 0 /\ Typing!Landed(c))
          /\ Typing!Used(c) /\ c.t = 0 /\ Typing!Landed(c) => c.v > 0
      <3> USE DEF Typing!Characters, Typing!LetterOK
      <3>1. CASE ~Typing!Used(c)
        <4>1. c = Typing!Free /\ ~Typing!Landed(c) BY <3>1, <2>1, <1>1 DEF Typing!Landed
        <4>2. d = c BY <4>1, <3>1 DEF Typing!Moved
        <4> QED BY <4>2, <3>1, <2>1
      <3>2. CASE Typing!Used(c) /\ c.t # 0
        <4>1. c.t \in 1 .. FPS /\ c.v = 0 BY <3>2, <2>1, <1>1
        <4>2. d = IF c.t = 1 THEN Typing!Free ELSE [c EXCEPT !.t = c.t - 1]
          BY <4>1, <3>2 DEF Typing!Moved
        <4> HIDE DEF d
        <4> QED BY <1>1, <4>1, <4>2, <3>2, <2>1
      <3>3. CASE Typing!Used(c) /\ c.t = 0
        <4>1. c.v # 0 /\ c.y < Ground /\ c.v \in Int /\ c.y \in 0 .. Ground BY <3>3, <2>1, <1>1
        <4>2. d = IF c.y + c.v < 0 THEN Typing!Free
                  ELSE IF c.y + c.v >= Ground THEN [c EXCEPT !.v = 0, !.y = Ground, !.t = FPS]
                  ELSE [c EXCEPT !.y = c.y + c.v]
          BY <1>1, <4>1, <3>3 DEF Typing!Moved, Typing!Landed
        <4>3. Typing!Landed(c) <=> c.y + c.v >= Ground BY DEF Typing!Landed
        <4> HIDE DEF d
        <4>4. c \in [ch : Letters \cup {"none"}, y : 0 .. Ground, v : Int, t : 0 .. FPS] BY <2>1
        <4>5. CASE c.y + c.v < 0
          BY <1>1, <4>1, <4>2, <4>3, <4>4, <4>5, <3>3
        <4>6. CASE c.y + c.v >= Ground
          <5>1. d = [c EXCEPT !.v = 0, !.y = Ground, !.t = FPS] BY <4>1, <4>2, <4>6, <1>1
          <5>2. d = [ch |-> c.ch, y |-> Ground, v |-> 0, t |-> FPS] BY <5>1, <4>4
          <5>3. d.ch = c.ch /\ d.y = Ground /\ d.v = 0 /\ d.t = FPS BY <5>2
          <5> QED BY <1>1, <4>1, <4>3, <4>4, <4>6, <3>3, <5>2, <5>3
        <4>7. CASE c.y + c.v \in 0 .. Ground - 1
          <5>1. d = [c EXCEPT !.y = c.y + c.v] BY <4>1, <4>2, <4>7, <1>1
          <5>2. d = [ch |-> c.ch, y |-> c.y + c.v, v |-> c.v, t |-> c.t] BY <5>1, <4>4
          <5>3. d.ch = c.ch /\ d.y = c.y + c.v /\ d.v = c.v /\ d.t = c.t BY <5>2
          <5> QED BY <1>1, <4>1, <4>3, <4>4, <4>7, <3>3, <5>2, <5>3
        <4> QED BY <1>1, <4>1, <4>5, <4>6, <4>7
      <3> QED BY <3>1, <3>2, <3>3
    <2> QED BY <2>2, <2>3 DEF c
  <1>6. /\ s1' \in [Typing!Slots -> Typing!Characters]
        /\ \A s \in Typing!Slots : s1'[s] = Typing!Moved(cs[s])
    BY <1>2, <1>5
  <1>7. Typing!Falling' = F \ Late /\ Late \subseteq F
    <2>1. Typing!Falling' = {s \in Typing!Slots : Typing!Used(s1'[s]) /\ s1'[s].v > 0}
      BY DEF Typing!Falling
    <2>2. F \subseteq Typing!Slots /\ Late \subseteq Typing!Slots BY DEF F, Late, Typing!Missed
    <2> QED BY <1>5, <1>6, <2>1, <2>2, Zenon
  <1>8. Typing!GameTypes'
    <2>1. s3' \in Int /\ s4' \in Int
      <3>1. Cardinality(Late) \in Int BY SomeSlot DEF Late, Typing!Missed
      <3>2. new \in Int OBVIOUS
      <3> QED BY <1>1, <1>2, <1>3, <3>1, <3>2
    <2> QED BY <1>2, <1>3, <1>5, <1>6, <2>1 DEF Typing!GameTypes, Typing!LetterOK
  <1>9. Typing!Shown' BY <1>2, <1>3 DEF Typing!Shown
  <1>10. Typing!EachCountedOnce'
    <2> DEFINE k == Cardinality(Typing!Falling)
               n == Cardinality(F \ Late)
               m == Cardinality(Late)
    <2>1. /\ Typing!Falling \in SUBSET Typing!Slots /\ F \in SUBSET Typing!Slots
          /\ Late \in SUBSET Typing!Slots /\ F \ Late \in SUBSET Typing!Slots
      BY DEF Typing!Falling, F, Late, Typing!Missed
    <2>2. /\ k \in 0 .. NCHAR /\ n \in 0 .. NCHAR /\ m \in 0 .. NCHAR
          /\ IsFiniteSet(Typing!Falling) /\ IsFiniteSet(F)
      BY <2>1, SomeSlot
    <2>3. Cardinality(F) = k + new
      <3>1. CASE cs = s1 BY <3>1, <1>4, <2>2
      <3>2. CASE cs # s1
        BY <3>2, <1>4, <2>2, FS_AddElement
      <3> QED BY <3>1, <3>2
    <2>4. n = Cardinality(F) - m
      <3>1. F \cap Late = Late BY <1>7
      <3> QED BY <3>1, <2>2, FS_Difference
    <2>5. (s4 - s2 - s3) % COUNT = k
      BY <1>3, SameCardinality DEF Typing!EachCountedOnce
    <2> HIDE DEF k, n, m
    <2>6. (s4' - s2' - s3') % COUNT = n
      <3>0. ASSUME NEW u \in Int, NEW w \in Int
            PROVE  (u - s2 - w) % COUNT = ((u % COUNT) - (s2 % COUNT) - (w % COUNT)) % COUNT
        <4>1. COUNT \in Nat \ {0} BY <1>1
        <4>2. s2 \in Int BY <1>3
        <4> QED BY <4>1, <4>2, RemaindersOfThree, Zenon
      <3>1. PICK x \in Int, y \in Int, z \in Int, u \in Int, w \in Int :
               x = s4 /\ y = s2 /\ z = s3 /\ u = s4 + new /\ w = s3 + m
        <4>1. s4 + new \in Int /\ s3 + m \in Int BY <1>3, <2>2
        <4> QED BY <1>3, <4>1, Zenon
      <3>2. k \in Int /\ n \in 0 .. COUNT - 1 /\ n = k + ((u - y - w) - (x - y - z))
        BY <1>1, <1>3, <2>2, <2>3, <2>4, <3>1
      <3>3. (u - y - w) % COUNT = ((u % COUNT) - (y % COUNT) - (w % COUNT)) % COUNT
        BY <3>0, <3>1, Zenon
      <3>4. (s4' - s2' - s3') % COUNT
               = ((s4' % COUNT) - (s2' % COUNT) - (s3' % COUNT)) % COUNT
        <4>1. s4' \in Int /\ s2' \in Int /\ s3' \in Int BY <1>8 DEF Typing!GameTypes
        <4> QED BY <1>1, <4>1, RemaindersOfThree
      <3>5. s4' % COUNT = u % COUNT /\ s2' % COUNT = y % COUNT /\ s3' % COUNT = w % COUNT
        BY <1>1, <1>2, <3>1 DEF m
      <3>6. (u - y - w) % COUNT = n
        <4>1. PICK p \in Int, q \in Int : p = x - y - z /\ q = n - k
          <5>1. x - y - z \in Int /\ n - k \in Int BY <3>1, <3>2
          <5> QED BY <5>1, Zenon
        <4>2. ((p % COUNT) + q) % COUNT = (p + q) % COUNT
          <5>1. COUNT \in Nat \ {0} BY <1>1
          <5> QED BY <5>1, RemainderOfSum, Zenon
        <4>3. p % COUNT = k /\ u - y - w = p + q /\ k + q = n BY <2>5, <3>1, <3>2, <4>1
        <4>4. n % COUNT = n BY <1>1, <3>2
        <4> QED BY <4>2, <4>3, <4>4
      <3> QED BY <3>3, <3>4, <3>5, <3>6
    <2> QED BY <1>2, <1>7, <2>6, SameCardinality DEF Typing!EachCountedOnce, n, m
  <1> QED BY <1>8, <1>9, <1>10 DEF Typing!GameInv

\* A key sends the lowest letter up, which no longer falls.
LEMMA HitKeeps ==
  ASSUME Typing!TypingAssumption, Typing!GameInv, NEW letter \in Letters, Typing!check_hit(letter),
         Typing!Targets(letter) # {}
  PROVE  Typing!GameInv'
  <1> USE DEF Typing!Used
  <1> DEFINE T == Typing!Targets(letter)
             s == Typing!Min(Typing!Lowest(T))
  <1>1. /\ s2' = (s2 + 1) % COUNT /\ s1' = [s1 EXCEPT ![s].v = -HitSpeed]
        /\ s3' = s3 /\ s4' = s4 /\ s7' = s7 /\ s8' = s8 /\ s9' = s9
    BY DEF Typing!check_hit
  <1>2. /\ s1 \in [Typing!Slots -> Typing!Characters] /\ \A o \in Typing!Slots : Typing!LetterOK(s1[o])
        /\ s2 \in Int /\ s3 \in Int /\ s4 \in Int /\ s7 \in BOOLEAN
        /\ Typing!Shown /\ Typing!EachCountedOnce
    BY DEF Typing!GameInv, Typing!GameTypes
  <1>3. Ground \in Nat /\ HitSpeed \in Nat \ {0} /\ letter # "none"
    <2>1. /\ {Ground, HitSpeed} \subseteq Nat \ {0} /\ "none" \notin Letters
      BY DEF Typing!TypingAssumption
    <2> QED BY <2>1
  <1>c. COUNT \in Nat \ {0} /\ NCHAR \in Nat /\ NCHAR < COUNT
    <2>1. NCHAR \in Nat /\ COUNT \in Nat /\ COUNT > NCHAR
      BY DEF Typing!TypingAssumption
    <2> QED BY <2>1
  <1>4. s \in Typing!Slots /\ s1[s].ch = letter /\ s1[s].v > 0
    <2>1. T \subseteq Typing!Slots BY DEF Typing!Targets
    <2>2. \A o \in T : s1[o].y \in 0 .. Ground BY <1>2, <2>1 DEF Typing!Characters
    <2> DEFINE S == {Ground - s1[o].y : o \in T}
    <2>3. S \in SUBSET Nat /\ S # {}
      <3>1. \A o \in T : Ground - s1[o].y \in Nat BY <1>3, <2>2
      <3> QED BY <3>1
    <2>4. PICK z \in S : \A x \in S : z <= x BY <2>3, LeastNumber
    <2>5. PICK p \in T : z = Ground - s1[p].y BY <2>4
    <2>6. \A o \in T : s1[o].y <= s1[p].y
      <3> TAKE o \in T
      <3>1. z <= Ground - s1[o].y BY <2>4
      <3> QED BY <3>1, <2>2, <2>5, <1>3
    <2>7. p \in Typing!Lowest(T) BY <2>6, Zenon DEF Typing!Lowest
    <2>8. Typing!Lowest(T) \in SUBSET Typing!Slots BY <2>1 DEF Typing!Lowest
    <2>9. s \in Typing!Lowest(T) BY <2>7, <2>8, SomeSlot
    <2> QED BY <2>9 DEF Typing!Lowest, Typing!Targets
  <1> HIDE DEF s, T
  <1>5. /\ s1' \in [Typing!Slots -> Typing!Characters]
        /\ \A o \in Typing!Slots : o # s => s1'[o] = s1[o]
        /\ s1'[s].ch = s1[s].ch /\ s1'[s].y = s1[s].y /\ s1'[s].t = s1[s].t /\ s1'[s].v = -HitSpeed
    BY <1>1, <1>2, <1>3, <1>4 DEF Typing!Characters
  <1>6. s1[s].t \in 0 .. FPS /\ s1[s].y \in 0 .. Ground /\ s1[s].t = 0 /\ s1[s].y < Ground
    <2>1. FPS \in Nat
      <3>1. {FPS} \subseteq Nat \ {0} BY DEF Typing!TypingAssumption
      <3> QED BY <3>1
    <2>2. s1[s] \in Typing!Characters /\ Typing!LetterOK(s1[s]) BY <1>2, <1>4
    <2> QED BY <2>1, <2>2, <1>3, <1>4 DEF Typing!Characters, Typing!LetterOK
  <1>7. Typing!GameTypes'
    <2>1. Typing!LetterOK(s1'[s])
      BY <1>3, <1>4, <1>5, <1>6 DEF Typing!LetterOK
    <2>2. \A o \in Typing!Slots : Typing!LetterOK(s1'[o])
      BY <2>1, <1>2, <1>5, Zenon
    <2>3. s2' \in Int BY <1>1, <1>2, <1>c
    <2> QED BY <1>1, <1>2, <1>5, <2>2, <2>3, Zenon DEF Typing!GameTypes, Typing!LetterOK
  <1>8. Typing!Shown'
    <2>1. \A o \in Typing!Slots : s1'[o].ch = s1[o].ch /\ s1'[o].y = s1[o].y BY <1>5
    <2>2. Typing!Places' = Typing!Places BY <2>1 DEF Typing!Places
    <2> QED BY <1>1, <1>2, <2>2 DEF Typing!Shown
  <1>9. Typing!EachCountedOnce'
    <2>1. Typing!Falling' = Typing!Falling \ {s} /\ s \in Typing!Falling
      BY <1>3, <1>4, <1>5 DEF Typing!Falling
    <2> DEFINE k == Cardinality(Typing!Falling)
               n == Cardinality(Typing!Falling \ {s})
    <2>2. k \in 0 .. NCHAR /\ n \in 0 .. NCHAR /\ IsFiniteSet(Typing!Falling)
      <3>1. Typing!Falling \in SUBSET Typing!Slots /\ Typing!Falling \ {s} \in SUBSET Typing!Slots
        BY DEF Typing!Falling
      <3> QED BY <3>1, SomeSlot
    <2>3. n = k - 1 BY <2>1, <2>2, FS_RemoveElement
    <2>4. (s4 - s2 - s3) % COUNT = k
      BY <1>2, SameCardinality DEF Typing!EachCountedOnce
    <2> HIDE DEF k, n
    <2>5. (s4' - s2' - s3') % COUNT = n
      <3>1. PICK p \in Int, q \in Int, x \in Int : p = s4 - s3 /\ q = s4 - s2 - s3 /\ x = s2 + 1
        <4>1. s4 - s3 \in Int /\ s4 - s2 - s3 \in Int /\ s2 + 1 \in Int BY <1>2
        <4> QED BY <4>1, Zenon
      <3>2. s2' = x % COUNT BY <1>1, <3>1
      <3>3. (p - (x % COUNT)) % COUNT = (p - x) % COUNT
        BY <1>c, <3>1, SameRemainder, Zenon
      <3>4. ((q % COUNT) + (-1)) % COUNT = (q + (-1)) % COUNT
        BY <1>c, <3>1, SameRemainder
      <3>5. /\ p - x = q + (-1) /\ s4' - s2' - s3' = p - (x % COUNT)
            /\ q % COUNT = k /\ (k + (-1)) % COUNT = n
        <4>1. n % COUNT = n BY <1>c, <2>2
        <4>2. k + (-1) = n BY <2>2, <2>3
        <4>3. x % COUNT \in Int BY <1>c, <3>1
        <4> QED BY <4>1, <4>2, <4>3, <1>1, <1>2, <2>4, <3>1, <3>2
      <3> QED BY <3>3, <3>4, <3>5
    <2> QED BY <2>1, <2>5, SameCardinality DEF Typing!EachCountedOnce, n
  <1> QED BY <1>7, <1>8, <1>9 DEF Typing!GameInv

\* The letters and the counts stay as they are, and what is drawn is drawn.
LEMMA SameLetters ==
  ASSUME Typing!GameInv, s1' = s1, s2' = s2, s3' = s3, s4' = s4, Typing!Shown', s7' \in BOOLEAN
  PROVE  Typing!GameInv'
  <1>1. Typing!GameTypes' BY DEF Typing!GameInv, Typing!GameTypes, Typing!LetterOK
  <1>2. Typing!EachCountedOnce'
    BY DEF Typing!GameInv, Typing!EachCountedOnce, Typing!Falling
  <1> QED BY <1>1, <1>2 DEF Typing!GameInv

\* Every step of the game keeps its invariant.
LEMMA GameKeeps == ASSUME Typing!TypingAssumption, Typing!GameInv, [Typing!GameNext]_pool
                   PROVE  Typing!GameInv'
  <1>1. CASE \E letter \in Letters, speed \in Speeds : Typing!game_logic_update(letter, speed)
    BY <1>1, FrameKeeps
  <1>2. CASE \E letter \in Letters : Typing!check_hit(letter)
    <2>1. PICK letter \in Letters : Typing!check_hit(letter) BY <1>2
    <2>2. CASE Typing!Targets(letter) = {}
      BY <2>1, <2>2, SameLetters
      DEF Typing!check_hit, Typing!GameInv, Typing!GameTypes, Typing!Shown, Typing!Places
    <2>3. CASE Typing!Targets(letter) # {} BY <2>1, <2>3, HitKeeps
    <2> QED BY <2>2, <2>3
  <1>3. CASE Typing!render
    <2>1. /\ s9' = (s9 \ s8) \cup Typing!Places /\ s8' = Typing!Places /\ s7' = FALSE
          /\ s1' = s1 /\ s2' = s2 /\ s3' = s3 /\ s4' = s4 /\ s9 = s8
      BY <1>3 DEF Typing!render, Typing!Blanked, Typing!GameInv, Typing!Shown
    <2>2. Typing!Shown' BY <2>1 DEF Typing!Shown, Typing!Places
    <2> QED BY <2>1, <2>2, SameLetters
  <1>4. ASSUME s1' = s1, s2' = s2, s3' = s3, s4' = s4, s7' = s7, s8' = s8, s9' = s9
        PROVE  Typing!GameInv'
    BY <1>4, SameLetters DEF Typing!GameInv, Typing!GameTypes, Typing!Shown, Typing!Places
  <1>5. CASE Typing!updated \/ Typing!no_key \/ Typing!nothing_new \/ Typing!frame_due
    BY <1>4, <1>5 DEF Typing!updated, Typing!no_key, Typing!nothing_new, Typing!frame_due
  <1>6. CASE UNCHANGED pool BY <1>4, <1>6 DEF pool
  <1> QED BY <1>1, <1>2, <1>3, <1>5, <1>6 DEF Typing!GameNext

\* The two promises of the game.
LEMMA GameEnough == ASSUME Typing!GameInv PROVE Typing!EachCountedOnce /\ Typing!NothingStale
  BY DEF Typing!GameInv, Typing!GameTypes, Typing!Shown, Typing!NothingStale

-----------------------------------------------------------------------------
(* The programs together, each while it is the one.                         *)
Agreed == /\ part = "typing" => Typing!GameInv
          /\ part = "box" => Kernels!BoxInv
          /\ part = "towers" => Kernels!TowersInv
          /\ part = "ant" => Kernels!AntInv
          /\ part = "snake" => Kernels!SnakeInv
          /\ part = "digest" => Kernels!ShaInv
          /\ part = "chain" => Kernels!ChainInv

\* At the start each program is set up.
LEMMA InitAgreed == MCInit => Agreed
  <1> SUFFICES ASSUME MCInit PROVE Agreed OBVIOUS
  <1>1. /\ part = "typing" => Typing!GameInit
        /\ part = "box" => Kernels!GaltonInit
        /\ part = "towers" => Kernels!HanoiInit
        /\ part = "ant" => Kernels!AntInit
        /\ part = "snake" => Kernels!SnakeInit
        /\ part = "digest" => Kernels!ShaInit
        /\ part = "chain" => Kernels!ChainInit
    BY DEF MCInit
  <1> QED BY <1>1, ProgramsAssumption, InitGame, Kernels!InitBox, Kernels!InitTowers, Kernels!InitWalk,
             Kernels!InitTurns, Kernels!InitDigest, Kernels!InitChain DEF Agreed

\* A step is one of the program that is there, or none of it.
LEMMA OneProgramSteps ==
  ASSUME [MCNext]_mcVars
  PROVE  /\ part' = part
         /\ part = "typing" => [Typing!GameNext]_pool
         /\ part = "box" => [Kernels!GaltonNext]_(Kernels!galtonVars)
         /\ part = "towers" => [Kernels!HanoiNext]_(Kernels!hanoiVars)
         /\ part = "ant" => [Kernels!AntNext]_(Kernels!antVars)
         /\ part = "snake" => [Kernels!SnakeNext]_(Kernels!snakeVars)
         /\ part = "digest" => [Kernels!ShaNext]_(Kernels!shaVars)
         /\ part = "chain" => [Kernels!ChainNext]_(Kernels!chainVars)
  <1>1. CASE UNCHANGED mcVars
    BY <1>1 DEF mcVars, pool, Kernels!galtonVars, Kernels!hanoiVars, Kernels!antVars,
                Kernels!snakeVars, Kernels!shaVars, Kernels!chainVars
  <1>2. CASE MCNext
    BY <1>2 DEF MCNext, InSmp, InThreads, InCte, InNative, InGroup, InTyping, InBox, InDisks,
                InWalk, InSnake, InBf, InDigest, InBlocks
  <1> QED BY <1>1, <1>2

\* Every step keeps them.
LEMMA AgreedKept == ASSUME Agreed, [MCNext]_mcVars PROVE Agreed'
  <1>1. part = "typing" => Typing!GameInv'
    BY OneProgramSteps, ProgramsAssumption, GameKeeps DEF Agreed
  <1>2. part = "box" => Kernels!BoxInv'
    BY OneProgramSteps, ProgramsAssumption, Kernels!BoxKeeps DEF Agreed
  <1>3. part = "towers" => Kernels!TowersInv'
    BY OneProgramSteps, ProgramsAssumption, Kernels!TowersKeeps DEF Agreed
  <1>4. part = "ant" => Kernels!AntInv'
    BY OneProgramSteps, Kernels!AntKeeps DEF Agreed
  <1>5. part = "snake" => Kernels!SnakeInv'
    BY OneProgramSteps, ProgramsAssumption, Kernels!SnakeKeeps DEF Agreed
  <1>6. part = "digest" => Kernels!ShaInv'
    BY OneProgramSteps, ProgramsAssumption, Kernels!DigestKeeps DEF Agreed
  <1>7. part = "chain" => Kernels!ChainInv'
    BY OneProgramSteps, ProgramsAssumption, Kernels!ChainKeeps DEF Agreed
  <1> QED BY <1>1, <1>2, <1>3, <1>4, <1>5, <1>6, <1>7, OneProgramSteps DEF Agreed

(* In every program of run machines, whatever its sizes: letters made are   *)
(* the letters counted and shown, the balls are where the board has balls,  *)
(* the disks stand in order and as they are drawn, the blocks of the digest *)
(* are those of the padded message, array and plane agree about the ant,    *)
(* the tiles are the snake's ring, and each block of the chain has the hash *)
(* of its predecessor (am-kernels).                                         *)
THEOREM ProgramsKeepAccounts == MCSpec => []AccountsAgree
  <1>1. Agreed => AccountsAgree
    <2> SUFFICES ASSUME Agreed PROVE AccountsAgree OBVIOUS
    <2>1. part = "typing" => Typing!EachCountedOnce /\ Typing!NothingStale
      BY GameEnough DEF Agreed
    <2>2. part = "towers" => Kernels!DisksInOrder /\ Kernels!ScreenShowsTowers
      BY ProgramsAssumption, Kernels!TowersEnough DEF Agreed
    <2>3. /\ part = "box" => Kernels!BallsConserved
          /\ part = "ant" => Kernels!WindowIsPlane
          /\ part = "snake" => Kernels!DrawnWhereItIs
          /\ part = "digest" => Kernels!BlocksOfStandard
          /\ part = "chain" => Kernels!ChainHolds
      BY DEF Agreed, Kernels!BoxInv, Kernels!AntInv, Kernels!SnakeInv, Kernels!ShaInv, Kernels!ChainInv
    <2> QED BY <2>1, <2>2, <2>3 DEF AccountsAgree
  <1> QED BY <1>1, InitAgreed, AgreedKept, PTL DEF MCSpec
=============================================================================
