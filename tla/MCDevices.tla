----------------------------- MODULE MCDevices ------------------------------
(***************************************************************************)
(* The devices of the abstract machine, one device per behaviour:          *)
(*   vme     address spaces in page tables (X86Vme)                        *)
(*   rtc     the clock (X86Ioe)                                            *)
(*   disk    the disk, the kernel that is loaded from it (X86Disk)         *)
(*   htif    the console of the simulator (Htif)                           *)
(*   input   the queue of keys (NativeIoe)                                 *)
(*   kbd     the keyboard (X86Ioe)                                         *)
(*   tables  descriptors, memory and processors at boot (X86Tables)        *)
(*   audio   the sound (NativeIoe)                                         *)
(* They share the variables s1 .. s14; a device that needs fewer leaves the *)
(* others at 0.                                                            *)
(***************************************************************************)
EXTENDS Integers, Sequences

\* The page tables: levels, entries, those of the kernel, pages, frames, spaces.
CONSTANTS VmeLevels, VmeFan, VmeKernel, VmePages, VmeFrames, VmeSpaces

\* The machine and the linker, as X86Tables names them.
CONSTANTS NIBBLE, MAX_CPU, TssAt, TssSize, Entries, Irqs, UserIrqs, NR_IRQ,
          ProgramEnds, Extended, MpTables

\* The console, the queue of keys and the sound, as Htif and NativeIoe name them.
CONSTANTS CHARS, TypeAhead, KEY_QUEUE_LEN, KEYS, PIPE, SOUND, Pieces, LEN

\* The clock, the keyboard and the disk, as X86Ioe and X86Disk name them.
CONSTANTS SECONDS, MINUTES, HOURS, TickGap, MaxMissed,
          RELEASE, PREFIX, Keys, Prefixed, keylut, BufferSize,
          SECTSIZE, ARGSECTS, Sectors, MAINARG_ADDR, HEADER_ADDR, HeaderSize, MemSize,
          Images, Requests

VARIABLES part, s1, s2, s3, s4, s5, s6, s7, s8, s9, s10, s11, s12, s13, s14

pool == <<s1, s2, s3, s4, s5, s6, s7, s8, s9, s10, s11, s12, s13, s14>>
mcVars == <<part, pool>>

----------------------------------------------------------------------------
(* What the devices are given                                              *)

\* Kernels: a segment in one piece, with a bss, with two segments in either order.
Header(p, f, m, o) == [paddr |-> p, filesz |-> f, memsz |-> m, offset |-> o]
Kernels == {<<Header(6, 2, 2, 4)>>,
            <<Header(8, 5, 7, 2), Header(17, 1, 4, 9)>>,
            <<Header(16, 2, 3, 6), Header(9, 3, 4, 1)>>}

Request(w, b, n, a) == [write |-> w, blkno |-> b, blkcnt |-> n, buf |-> a]
Calls == {Request(TRUE, 6, 2, 9), Request(FALSE, 5, 2, 15),
          Request(TRUE, 5, 1, 16), Request(FALSE, 7, 1, 8)}

\* The keys of three scan codes.
ThreeKeys == [c \in 0 .. 7 |-> CASE c = 1 -> 43 [] c = 2 -> 30 [] c = 3 -> 57 [] OTHER -> 0]

\* The stubs of the vectors; the types in MP tables, in any order.
Stubs == [v \in 0 .. NR_IRQ |-> 82 * v + 5]
TypesOfEntries == {<<0>>, <<0, 1, 2>>, <<0, 0, 1, 0, 2, 3>>, <<1, 0, 3, 0>>}

----------------------------------------------------------------------------
(* The devices                                                             *)

Vme == INSTANCE VmeProofs WITH
    Levels <- VmeLevels, Fan <- VmeFan, Kernel <- VmeKernel, Pages <- VmePages,
    Frames <- VmeFrames, Spaces <- VmeSpaces,
    mem <- s1, free <- s2, kpt <- s3, cur <- s4, ptr <- s5, panic <- s6

\* The clock and the keyboard are parts of their own: the same variables serve both.
Ioe == INSTANCE X86Ioe WITH
    now <- s1, phase <- s2, at <- s3, rtc <- s4, t0 <- s5, t1 <- s6, begun <- s7,
    buffer <- s1, down <- s2, polling <- s3, held <- s4

Disk == INSTANCE X86Disk WITH
    disk <- s1, status <- s2, command <- s3, mem <- s4, image <- s5, job <- s6,
    at <- s7, seg <- s8, request <- s9, before <- s10

Console == INSTANCE Htif WITH
    tohost <- s1, fromhost <- s2, htif_console_buf <- s3, call <- s4, at <- s5,
    returned <- s6, keys <- s7, wanted <- s8, queue <- s9, typed <- s10, got <- s11,
    put <- s12, shown <- s13

Setup == INSTANCE X86Tables WITH
    at <- s1, end <- s2, ext <- s3, mp <- s4, tss <- s5, heap <- s6, ptr <- s7,
    ncpu <- s8, gdt <- s9, tr <- s10, idt <- s11

\* Keyboard and sound, in the same way.
Sdl == INSTANCE NativeIoe WITH
    key_queue <- s1, key_f <- s2, key_r <- s3, key_queue_lock <- s4, event <- s5,
    poll <- s6, k <- s7, pending <- s8, pressed <- s9,
    pipe <- s1, count <- s2, opened <- s3, play <- s4, written <- s5, len <- s6,
    n <- s7, old <- s8, back <- s9, nread <- s10, rest <- s11, stream <- s12,
    heard <- s13, raced <- s14

ASSUME DevicesAssumption ==
       /\ Vme!VmeAssumption
       /\ Ioe!RtcAssumption
       /\ Disk!DiskAssumption
       /\ Console!HtifAssumption
       /\ Sdl!InputAssumption
       /\ Ioe!KbdAssumption
       /\ Setup!TablesAssumption
       /\ Sdl!AudioAssumption

----------------------------------------------------------------------------
MCInit ==
    \/ /\ part = "vme" /\ Vme!VmeInit
       /\ s7 = 0 /\ s8 = 0 /\ s9 = 0 /\ s10 = 0 /\ s11 = 0 /\ s12 = 0
       /\ s13 = 0 /\ s14 = 0
    \/ /\ part = "rtc" /\ Ioe!RtcInit
       /\ s8 = 0 /\ s9 = 0 /\ s10 = 0 /\ s11 = 0 /\ s12 = 0 /\ s13 = 0
       /\ s14 = 0
    \/ /\ part = "disk" /\ Disk!DiskInit
       /\ s11 = 0 /\ s12 = 0 /\ s13 = 0 /\ s14 = 0
    \/ /\ part = "htif" /\ Console!HtifInit
       /\ s14 = 0
    \/ /\ part = "input" /\ Sdl!InputInit
       /\ s10 = 0 /\ s11 = 0 /\ s12 = 0 /\ s13 = 0 /\ s14 = 0
    \/ /\ part = "kbd" /\ Ioe!KbdInit
       /\ s5 = 0 /\ s6 = 0 /\ s7 = 0 /\ s8 = 0 /\ s9 = 0 /\ s10 = 0
       /\ s11 = 0 /\ s12 = 0 /\ s13 = 0 /\ s14 = 0
    \/ /\ part = "tables" /\ Setup!TablesInit
       /\ s12 = 0 /\ s13 = 0 /\ s14 = 0
    \/ /\ part = "audio" /\ Sdl!AudioInit

\* A step of one device.
InVme(A) == /\ part = "vme" /\ A
            /\ UNCHANGED <<part, s7, s8, s9, s10, s11, s12, s13, s14>>
InRtc(A) == /\ part = "rtc" /\ A
            /\ UNCHANGED <<part, s8, s9, s10, s11, s12, s13, s14>>
InDisk(A) == part = "disk" /\ A /\ UNCHANGED <<part, s11, s12, s13, s14>>
InConsole(A) == part = "htif" /\ A /\ UNCHANGED <<part, s14>>
InInput(A) == part = "input" /\ A /\ UNCHANGED <<part, s10, s11, s12, s13, s14>>
InKbd(A) == /\ part = "kbd" /\ A
            /\ UNCHANGED <<part, s5, s6, s7, s8, s9, s10, s11, s12, s13, s14>>
InSetup(A) == part = "tables" /\ A /\ UNCHANGED <<part, s12, s13, s14>>
InAudio(A) == part = "audio" /\ A /\ UNCHANGED part

\* Bound: a program asks for the date again before the one it has is two seconds
\* old.
AsksSoon == s3[1] = "idle" => Ioe!Age < 2

MCNext == \/ InVme(Vme!VmeNext)
          \/ InRtc(Ioe!RtcNext /\ AsksSoon')
          \/ InDisk(Disk!DiskNext)
          \/ InConsole(Console!HtifNext)
          \/ InInput(Sdl!InputNext)
          \/ InKbd(Ioe!KbdNext)
          \/ InSetup(Setup!TablesNext)
          \/ InAudio(Sdl!AudioNext)

\* The fairness that the specification of each device states.  A behaviour has one
\* device, so that actions of several can share a condition.
MCFair ==
    /\ WF_mcVars(\/ InDisk(Disk!Complete) \/ InConsole(Console!HostTakes)
                 \/ InInput(Sdl!store_key) \/ InKbd(Ioe!input_keybrd))
    /\ WF_mcVars(\/ InDisk(Disk!issue) \/ InConsole(Console!HostReads)
                 \/ InInput(Sdl!advance) \/ InKbd(Ioe!Again))
    /\ WF_mcVars(\/ InDisk(Disk!move) \/ InConsole(Console!HostGives)
                 \/ InInput(Sdl!raise) \/ InAudio(~s14 /\ Sdl!ProgramGoesOn))
    /\ WF_mcVars(\/ InDisk(Disk!load_arguments) \/ InConsole(Console!set_tohost)
                 \/ InInput(Sdl!interrupt) \/ InAudio(~s14 /\ Sdl!SdlGoesOn))
    /\ WF_mcVars(\/ InDisk(Disk!load_program) \/ InConsole(Console!answer)
                 \/ InInput(Sdl!take))
    /\ WF_mcVars(InDisk(Disk!jump)) /\ WF_mcVars(InDisk(Disk!blkio_done))
    /\ SF_mcVars(InConsole(Console!getchar) \/ InInput(Sdl!lock_queue))
    /\ SF_mcVars(InInput(Sdl!lock_poll))

MCSpec == MCInit /\ [][MCNext]_mcVars /\ MCFair

----------------------------------------------------------------------------
(* What the devices promise                                                *)

\* The calls on address spaces do to what the processor sees of each space just
\* what they promise, whatever was in the pages they get and whatever the other
\* spaces did before; a page is where the caller asked, with its rights
\* (x86/qemu/vme.c; module AddressSpaces is the promise).
SpacesKeepPromise ==
    /\ part = "vme" => Vme!Promise!Init
    /\ [][part = "vme" => Vme!PromisedStep /\ Vme!MappedAsAsked]_mcVars

\* What the runtime sets up: descriptors, heap and processors as the machine and
\* the linker gave them when main is entered; the kernel in every address space,
\* and every page free, the kernel's, or a table of exactly one space, so that none
\* leaks and none is freed twice (x86/qemu/trm.c, cte.c, vme.c).
MachineIsSetUp == /\ part = "tables" => Setup!MachineIsSetUp
                  /\ part = "vme" => Vme!KernelInEverySpace /\ Vme!OwnsItsTables

\* The answers of slow devices are right: no date is torn by a tick and the rate
\* counts the seconds that passed; a kernel is entered as it was linked, and a call
\* on the disk did what it was asked and nothing else (ioe.c, start.S, main.c of
\* x86/qemu).
DevicesAnswer ==
    [][/\ part = "rtc" => Ioe!DateIsWhole /\ Ioe!RateRead
       /\ part = "disk" => Disk!Loaded /\ Disk!BlocksArrived]_mcVars

\* Keys, characters and sound arrive in order, none twice and none lost, whatever
\* comes in between (htif.c, native/ioe/input.c, native/ioe/audio.c, x86/qemu/ioe.c);
\* the sound as long as the two threads that count it do not meet.
ConsoleInOrder ==
    [][/\ part = "htif" => Console!KeyInOrder /\ Console!CharInOrder
       /\ part = "input" => Sdl!OldestTaken
       /\ part = "kbd" => Ioe!HeldIsKnown'
       /\ part = "audio" => Sdl!HeardInOrder']_mcVars

\* No wait is for ever: for the disk, for the host of the console, for a key that
\* is in a queue, for the end of the sound.
DevicesGoOn ==
    \A k \in 0 .. 5 :
       []<>(/\ part = "disk" => s7 = "run"
            /\ part = "htif" => IF k \in 0 .. 3 THEN Console!Got(k) ELSE Console!Returned
            /\ part = "input" => Sdl!KeyTaken(k)
            /\ part = "kbd" => k = 0 \/ Ioe!ByteRead(k)
            /\ part = "audio" => Sdl!Ended)
=============================================================================
