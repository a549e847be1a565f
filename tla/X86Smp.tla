------------------------------- MODULE X86Smp -------------------------------
(***************************************************************************)
(* How the x86 runtime of the abstract machine brings its processors up    *)
(* and stops them: the boot sector, mpe_init, the handshake on ap_ready,   *)
(* halt.  Processor 0 starts at power-on; every other one waits for the    *)
(* two interrupts, INIT and STARTUP, that send it to the boot record, whose *)
(* first word (jmp_code) takes it to the boot sector or, once the machine  *)
(* is being stopped, into a tight loop.                                    *)
(*                                                                         *)
(* All processors share ONE boot stack (0xa000) and one copy of the        *)
(* descriptors lidt and lgdt read (x86.h), and the boot sector loads the   *)
(* kernel unless the boot record says that another processor already did.  *)
(*                                                                         *)
(* An interrupt is on its way (in ipi) for any time; those of one target   *)
(* arrive in the order they were sent.  The four writes of one             *)
(* __am_lapic_bootap are a single step.                                    *)
(***************************************************************************)
EXTENDS Naturals, Sequences

CONSTANT MAX_CPU                  \* the most processors the runtime takes

ASSUME MaxCpuAssumption == MAX_CPU \in Nat \ {0}

VARIABLES ncpu,        \* __am_ncpu: the processors in the machine's MP table
          mode,        \* what each processor is doing
          ipi,         \* interrupts on their way to each processor
          is_ap,       \* BootRecord.is_ap
          jmp_code,    \* BootRecord.jmp_code: "none", "boot" or "loop"
          image,       \* times the boot sector loaded the kernel
          ap_ready,    \* static int ap_ready
          user_entry,  \* the entry of mpe_init is set
          cpu,         \* loop variable of mpe_init, then of stop_the_world
          entered,     \* times each processor called user_entry
          power        \* the machine is on

smpVars == <<ncpu, mode, ipi, is_ap, jmp_code, image, ap_ready, user_entry, cpu, entered, power>>

Cpus == 0 .. MAX_CPU - 1

(* "reset": waiting for STARTUP.  "record": at the boot record.  "boot":   *)
(* on the boot stack, kernel not entered.  "start": _start_c.  "percpu":   *)
(* __am_percpu_init on its own stack.  "main": processor 0 in main.  "mpe", *)
(* "wait": its loop in mpe_init.  "user": in user_entry.  "loop": jmp to   *)
(* itself.  "stop": in halt, stopping the others.                          *)
Modes == {"reset", "record", "boot", "start", "percpu", "main", "mpe", "wait",
          "user", "loop", "stop"}

SmpInit == /\ ncpu \in 1 .. MAX_CPU
           /\ mode = [c \in Cpus |-> IF c = 0 THEN "boot" ELSE "reset"]
           /\ ipi = [c \in Cpus |-> <<>>]
           /\ is_ap = 0 /\ jmp_code = "none"
           /\ image = 0 /\ ap_ready = 0 /\ user_entry = FALSE
           /\ cpu = [c \in Cpus |-> 0]
           /\ entered = [c \in Cpus |-> 0]
           /\ power = TRUE

Goes(c, from, to) == /\ UNCHANGED ncpu
                     /\ power /\ mode[c] = from
                     /\ mode' = [mode EXCEPT ![c] = to]

bootap(target) == ipi' = [ipi EXCEPT ![target] = @ \o <<"INIT", "STARTUP", "STARTUP">>]

(* load_kernel, on the boot stack: all but the first find it in memory.    *)
load_kernel(c) ==
  /\ Goes(c, "boot", "start")
  /\ \/ is_ap = 1 /\ UNCHANGED <<image, ap_ready, user_entry>>
     \/ is_ap = 0 /\ image' = image + 1 /\ ap_ready' = 0 /\ user_entry' = FALSE
  /\ UNCHANGED <<ipi, is_ap, jmp_code, cpu, entered, power>>

(* The kernel's entry, still on the boot stack: the boot record says once  *)
(* more who this is.  Both ways end on the processor's own stack.          *)
start_c(c) ==
  /\ \/ is_ap = 1 /\ Goes(c, "start", "percpu")
     \/ is_ap = 0 /\ Goes(c, "start", "main")
  /\ UNCHANGED <<ipi, is_ap, jmp_code, image, ap_ready, user_entry, cpu, entered, power>>

mpe_init(c) ==
  /\ Goes(c, "main", "mpe")
  /\ user_entry' = TRUE /\ jmp_code' = "boot"
  /\ cpu' = [cpu EXCEPT ![c] = 1]
  /\ UNCHANGED <<ipi, is_ap, image, ap_ready, entered, power>>

boot_next(c) ==
  /\ cpu[c] < ncpu /\ Goes(c, "mpe", "wait")
  /\ is_ap' = 1 /\ bootap(cpu[c])
  /\ UNCHANGED <<jmp_code, image, ap_ready, user_entry, cpu, entered, power>>

(* A variant that does not wait for the processor it started.              *)
await_ready_never(c) ==
  /\ Goes(c, "wait", "mpe")
  /\ ap_ready' = 0 /\ cpu' = [cpu EXCEPT ![c] = @ + 1]
  /\ UNCHANGED <<ipi, is_ap, jmp_code, image, user_entry, entered, power>>

await_ready(c) ==
  /\ ap_ready = 1 /\ Goes(c, "wait", "mpe")
  /\ ap_ready' = 0 /\ cpu' = [cpu EXCEPT ![c] = @ + 1]
  /\ UNCHANGED <<ipi, is_ap, jmp_code, image, user_entry, entered, power>>

enter_boot_cpu(c) ==
  /\ cpu[c] >= ncpu /\ Goes(c, "mpe", "user")
  /\ entered' = [entered EXCEPT ![c] = @ + 1]
  /\ UNCHANGED <<ipi, is_ap, jmp_code, image, ap_ready, user_entry, cpu, power>>

(* A variant that calls the program before it reports to processor 0.      *)
othercpu_entry_silent(c) ==
  /\ Goes(c, "percpu", "user")
  /\ entered' = [entered EXCEPT ![c] = @ + 1]
  /\ UNCHANGED <<ipi, is_ap, jmp_code, image, ap_ready, user_entry, cpu, power>>

othercpu_entry(c) ==
  /\ Goes(c, "percpu", "user")
  /\ ap_ready' = 1
  /\ entered' = [entered EXCEPT ![c] = @ + 1]
  /\ UNCHANGED <<ipi, is_ap, jmp_code, image, user_entry, cpu, power>>

(* The interrupts reach their target, whatever it is doing: INIT resets it, *)
(* STARTUP moves a processor that is reset and no other.                   *)
Deliver(c) ==
  /\ power /\ ipi[c] # <<>>
  /\ ipi' = [ipi EXCEPT ![c] = Tail(@)]
  /\ mode' = [mode EXCEPT ![c] = IF Head(ipi[c]) = "INIT" THEN "reset"
                                 ELSE IF @ = "reset" THEN "record" ELSE @]
  /\ UNCHANGED <<ncpu, is_ap, jmp_code, image, ap_ready, user_entry, cpu, entered, power>>

at_record(c) ==
  /\ \/ jmp_code = "boot" /\ Goes(c, "record", "boot")
     \/ jmp_code = "loop" /\ Goes(c, "record", "loop")
  /\ UNCHANGED <<ipi, is_ap, jmp_code, image, ap_ready, user_entry, cpu, entered, power>>

(* halt: interrupts off, the boot record becomes a loop and every other    *)
(* processor is sent there before the power goes.                          *)
halt(c) ==
  /\ Goes(c, "user", "stop")
  /\ jmp_code' = "loop"
  /\ cpu' = [cpu EXCEPT ![c] = 0]
  /\ UNCHANGED <<ipi, is_ap, image, ap_ready, user_entry, entered, power>>

stop_next(c) ==
  /\ power /\ mode[c] = "stop" /\ cpu[c] < ncpu
  /\ IF cpu[c] = c THEN UNCHANGED ipi ELSE bootap(cpu[c])
  /\ cpu' = [cpu EXCEPT ![c] = @ + 1]
  /\ UNCHANGED <<ncpu, mode, is_ap, jmp_code, image, ap_ready, user_entry, entered, power>>

power_off(c) ==
  /\ power /\ mode[c] = "stop" /\ cpu[c] >= ncpu
  /\ power' = FALSE
  /\ UNCHANGED <<ncpu, mode, ipi, is_ap, jmp_code, image, ap_ready, user_entry, cpu, entered>>

Boots(c) == \/ load_kernel(c) \/ start_c(c)
            \/ boot_next(c) \/ await_ready(c) \/ enter_boot_cpu(c)
            \/ othercpu_entry(c) \/ at_record(c)
Stops(c) == stop_next(c) \/ power_off(c)
Runs(c) == Boots(c) \/ mpe_init(c) \/ Deliver(c)

SmpNext == \E c \in Cpus : Runs(c) \/ halt(c) \/ Stops(c)

(* A processor that can go on does, and interrupts arrive.                 *)
SmpSpec == /\ SmpInit /\ [][SmpNext]_smpVars
           /\ \A c \in Cpus : WF_smpVars(Runs(c) \/ Stops(c))
-----------------------------------------------------------------------------
(* Two processors are never on the boot stack together, nor in             *)
(* __am_percpu_init, whose lgdt and lidt read the same static descriptor.  *)
OneAtATime ==
  /\ \A c, d \in Cpus : mode[c] \in {"boot", "start"} /\ mode[d] \in {"boot", "start"} => c = d
  /\ \A c, d \in Cpus : mode[c] = "percpu" /\ mode[d] = "percpu" => c = d

(* The kernel is loaded once, so no processor runs on data that a late     *)
(* loader wiped, and each enters the program at most once: one that was    *)
(* stopped never comes back.                                               *)
EntersOnce == image <= 1 /\ \A c \in Cpus : /\ entered[c] <= 1
                                            /\ entered[c] = 1 => user_entry /\ image = 1

Stopping == {c \in Cpus : mode[c] = "stop"}

AllIn == \A c \in 0 .. ncpu - 1 : mode[c] = "user"
=============================================================================
