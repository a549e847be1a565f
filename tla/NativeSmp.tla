----------------------------- MODULE NativeSmp -----------------------------
(***************************************************************************)
(* The processors of a machine that is a group of Linux processes          *)
(* (am/src/native: platform.c, mpe.c, ioe.c, trm.c).  The sections of the  *)
(* program are mapped shared, so that the globals are common to all; the   *)
(* structure of a cpu is private, and copied by fork.  The secondaries     *)
(* wait for a byte in a pipe, the devices are initialised after the last   *)
(* fork and before the first byte, and a halt kills the group.             *)
(***************************************************************************)
EXTENDS Naturals, FiniteSets

CONSTANTS MAX_CPU

NativeSmpAssumption == MAX_CPU \in Nat \ {0}

Cpus == 0 .. MAX_CPU - 1

VARIABLES ncpu,             \* from the environment
          am_mpe_init, has_ioe, ioe_init_done,     \* globals
          pc,               \* of each process; "none" before its fork
          cpuid, timer,     \* private: the number, and whether the timer runs
          sync_pipe,        \* bytes in the pipe
          next,             \* i of the loops of mpe_init
          inits             \* who initialised the devices, in a set of pairs

smpVars == <<ncpu, am_mpe_init, has_ioe, ioe_init_done, pc, cpuid, timer, sync_pipe, next, inits>>

Moves(c, to) == pc' = [pc EXCEPT ![c] = to]

----------------------------------------------------------------------------
(* main(), with the interrupts and the devices that the program asks for   *)

ioe_init == /\ pc[0] = "main" /\ ~ has_ioe
            /\ cpuid[0] = 0 /\ ~ ioe_init_done
            /\ has_ioe' = TRUE
            /\ UNCHANGED <<ncpu, am_mpe_init, ioe_init_done, pc, cpuid, timer, sync_pipe, next, inits>>

\* setitimer, which a fork does not hand on.
cte_init == /\ pc[0] = "main" /\ timer' = [timer EXCEPT ![0] = TRUE]
            /\ UNCHANGED <<ncpu, am_mpe_init, has_ioe, ioe_init_done, pc, cpuid, sync_pipe, next, inits>>

start_mpe == /\ pc[0] = "main"
             /\ am_mpe_init' = TRUE /\ next' = 1 /\ Moves(0, "fork")
             /\ UNCHANGED <<ncpu, has_ioe, ioe_init_done, cpuid, timer, sync_pipe, inits>>

fork == /\ pc[0] = "fork" /\ next < ncpu
        /\ pc' = [pc EXCEPT ![next] = "read"]
        /\ cpuid' = [cpuid EXCEPT ![next] = cpuid[0]]
        /\ timer' = [timer EXCEPT ![next] = FALSE]
        /\ next' = next + 1
        /\ UNCHANGED <<ncpu, am_mpe_init, has_ioe, ioe_init_done, sync_pipe, inits>>

forked == /\ pc[0] = "fork" /\ next = ncpu
          /\ Moves(0, "devices") /\ next' = 1
          /\ UNCHANGED <<ncpu, am_mpe_init, has_ioe, ioe_init_done, cpuid, timer, sync_pipe, inits>>

\* __am_ioe_init.
initialise(c) == /\ inits' = inits \cup {<<c, Cardinality(inits)>>}
                 /\ ioe_init_done' = TRUE

init_devices == /\ pc[0] = "devices"
                /\ Moves(0, "release")
                /\ IF has_ioe THEN initialise(0) ELSE UNCHANGED <<inits, ioe_init_done>>
                /\ UNCHANGED <<ncpu, am_mpe_init, has_ioe, cpuid, timer, sync_pipe, next>>

\* One byte for each of them.
release == /\ pc[0] = "release"
           /\ IF next < ncpu THEN sync_pipe' = sync_pipe + 1 /\ next' = next + 1 /\ UNCHANGED pc
                             ELSE Moves(0, "entry") /\ UNCHANGED <<sync_pipe, next>>
           /\ UNCHANGED <<ncpu, am_mpe_init, has_ioe, ioe_init_done, cpuid, timer, inits>>

----------------------------------------------------------------------------
(* A secondary, which takes whatever byte comes first                      *)

await(c) == /\ pc[c] = "read" /\ sync_pipe > 0
            /\ sync_pipe' = sync_pipe - 1 /\ Moves(c, "released")
            /\ UNCHANGED <<ncpu, am_mpe_init, has_ioe, ioe_init_done, cpuid, timer, next, inits>>

secondary(c) == /\ pc[c] = "released"
                /\ cpuid' = [cpuid EXCEPT ![c] = c]
                /\ timer' = [timer EXCEPT ![c] = TRUE]
                /\ Moves(c, "entry")
                /\ UNCHANGED <<ncpu, am_mpe_init, has_ioe, ioe_init_done, sync_pipe, next, inits>>

----------------------------------------------------------------------------
(* The entry, on every processor                                           *)

\* do_io, by a program that called ioe_init: the first one initialises the
\* devices if nobody has, which takes longer than the look.
do_io(c) == /\ pc[c] = "entry" /\ has_ioe
            /\ Moves(c, IF ioe_init_done THEN "io" ELSE "late")
            /\ UNCHANGED <<ncpu, am_mpe_init, has_ioe, ioe_init_done, cpuid, timer, sync_pipe, next, inits>>

late_init(c) == /\ pc[c] = "late"
                /\ initialise(c) /\ Moves(c, "io")
                /\ UNCHANGED <<ncpu, am_mpe_init, has_ioe, cpuid, timer, sync_pipe, next>>

handled(c) == /\ pc[c] = "io" /\ Moves(c, "entry")
              /\ UNCHANGED <<ncpu, am_mpe_init, has_ioe, ioe_init_done, cpuid, timer, sync_pipe, next, inits>>

\* halt, and __am_exit_platform: the whole group once there is one.
halt(c) == /\ pc[c] \in {"main", "entry"}
           /\ pc' = IF am_mpe_init /\ ncpu > 1 THEN [k \in Cpus |-> IF pc[k] = "none" THEN "none" ELSE "dead"]
                                            ELSE [pc EXCEPT ![c] = "dead"]
           /\ UNCHANGED <<ncpu, am_mpe_init, has_ioe, ioe_init_done, cpuid, timer, sync_pipe, next, inits>>

----------------------------------------------------------------------------
\* init_platform, up to the call of main.
NSmpInit == /\ ncpu \in 1 .. MAX_CPU
            /\ am_mpe_init = FALSE /\ has_ioe = FALSE /\ ioe_init_done = FALSE
            /\ pc = [c \in Cpus |-> IF c = 0 THEN "main" ELSE "none"]
            /\ cpuid = [c \in Cpus |-> 0] /\ timer = [c \in Cpus |-> FALSE]
            /\ sync_pipe = 0 /\ next = 0 /\ inits = {}

Starts == start_mpe \/ fork \/ forked \/ init_devices \/ release
Joins(c) == await(c) \/ secondary(c)
DoesIo(c) == late_init(c) \/ handled(c)

NSmpNext == \/ ioe_init \/ cte_init \/ Starts
            \/ \E c \in Cpus : Joins(c) \/ do_io(c) \/ DoesIo(c) \/ halt(c)

NSmpFair == WF_smpVars(Starts) /\ \A c \in Cpus : WF_smpVars(Joins(c)) /\ WF_smpVars(DoesIo(c))
NSmpSpec == NSmpInit /\ [][NSmpNext]_smpVars /\ NSmpFair

----------------------------------------------------------------------------
(* Properties                                                              *)

Entered(c) == pc[c] \in {"entry", "io", "late"}

\* The devices that a program asks for are initialised once, by the first
\* processor, after the last fork and before anyone else runs; and the ones that
\* run know who they are and have a timer (mpe.c:8-38, ioe.c:56-82).
OneMachine ==
    /\ \A e \in inits : e = <<0, 0>>
    /\ \A c \in Cpus \ {0} : Entered(c) =>
          /\ \A k \in 0 .. ncpu - 1 : pc[k] # "none"
          /\ has_ioe => ioe_init_done
          /\ cpuid[c] = c /\ timer[c]
    /\ \A c, d \in Cpus : Entered(c) /\ Entered(d) /\ cpuid[c] = cpuid[d] => c = d

\* A machine that is halted is dead as a whole (mpe.c:31-36, platform.c:178-183).
AllIn == \A c \in 0 .. ncpu - 1 : Entered(c)
AllDead == \A c \in Cpus : pc[c] \in {"none", "dead"}
Halted == \E c \in Cpus : pc[c] = "dead"
OneHalt == Halted => AllDead
\* What makes them true at every step, phase by phase of processor 0.
Phases ==
    /\ ncpu \in 1 .. MAX_CPU /\ next \in Nat /\ sync_pipe \in Nat
    /\ am_mpe_init \in BOOLEAN /\ has_ioe \in BOOLEAN /\ ioe_init_done \in BOOLEAN
    /\ cpuid \in [Cpus -> Nat] /\ timer \in [Cpus -> BOOLEAN]
    /\ pc \in [Cpus -> {"none", "main", "fork", "devices", "release", "read", "released",
                        "entry", "io", "dead"}]
    /\ cpuid[0] = 0
    /\ \A c \in Cpus \ {0} : pc[c] \in {"entry", "io"} => cpuid[c] = c /\ timer[c]
    /\ IF ioe_init_done THEN inits = {<<0, 0>>} ELSE inits = {}
    /\ \/ /\ pc[0] = "main" /\ ~ am_mpe_init /\ ~ ioe_init_done /\ sync_pipe = 0
          /\ \A c \in Cpus \ {0} : pc[c] = "none"
       \/ /\ pc[0] = "fork" /\ am_mpe_init /\ ~ ioe_init_done /\ sync_pipe = 0
          /\ next \in 1 .. ncpu
          /\ \A c \in Cpus \ {0} : pc[c] = IF c < next THEN "read" ELSE "none"
       \/ /\ pc[0] = "devices" /\ am_mpe_init /\ ~ ioe_init_done /\ sync_pipe = 0
          /\ \A c \in Cpus \ {0} : pc[c] = IF c < ncpu THEN "read" ELSE "none"
       \/ /\ pc[0] \in {"release", "entry", "io"} /\ am_mpe_init /\ ioe_init_done = has_ioe
          /\ \A c \in Cpus \ {0} : IF c < ncpu THEN pc[c] \in {"read", "released", "entry", "io"}
                                               ELSE pc[c] = "none"
       \/ /\ pc[0] = "dead" /\ \A c \in Cpus : pc[c] \in {"none", "dead"}
=============================================================================
