------------------------------ MODULE X86Disk ------------------------------
(***************************************************************************)
(* The ATA disk of the x86 runtime and its two drivers: the boot loader,   *)
(* abstract-machine/am/src/x86/qemu/boot/main.c, which copies the argument *)
(* string and the segments of the kernel's image into memory, and the     *)
(* device AM_DISK_BLKIO of ioe.c, which reads and writes runs of blocks.   *)
(* A disk answers after any delay; one that is busy drops a command and    *)
(* has no data.  A memory word and a word of a sector are the same size.   *)
(***************************************************************************)
EXTENDS Integers, Sequences, FiniteSets

CONSTANTS SECTSIZE,   \* words in a sector
          ARGSECTS,   \* ARGSIZE / SECTSIZE
          Sectors,    \* sectors on the disk
          MAINARG_ADDR, HEADER_ADDR, HeaderSize,
          MemSize,    \* words of memory
          Images,     \* program headers of each kernel that may be loaded
          Requests    \* calls of AM_DISK_BLKIO

VARIABLES disk,       \* the words of each sector
          status,     \* "ready", "busy", or "drq": a sector can be moved
          command,    \* what the disk was told to do, and its sector
          mem,        \* memory
          image,      \* the program headers of the kernel
          job,        \* the sectors still to move, and their place in memory
          at,         \* where the processor is
          seg,        \* the segment being loaded, -1 when the kernel runs
          request,    \* the call of AM_DISK_BLKIO
          before      \* disk and memory when the call began (history)

diskVars == <<disk, status, command, mem, image, job, at, seg, request, before>>

Words   == 0 .. SECTSIZE - 1
Word(s, w) == 10 * s + w + 1          \* every word of the image is different
Nothing == [write |-> FALSE, sect |-> -1]

----------------------------------------------------------------------------
(* The controller                                                          *)

\* The command is done: a read has its sector at hand, a write wants it.
Complete == /\ status = "busy"
            /\ status' = IF command = Nothing THEN "ready" ELSE "drq"
            /\ UNCHANGED <<disk, command, mem, image, job, at, seg, request, before>>

\* A command: a busy disk, or one that still has a sector to move, drops it.
Told(write, sect) ==
    IF status = "ready"
      THEN status' = "busy" /\ command' = [write |-> write, sect |-> sect]
      ELSE UNCHANGED <<status, command>>

\* The words of the data port: a disk that is not ready for them gives -1.
DataPort == [w \in Words |-> IF status = "drq" THEN disk[command.sect][w] ELSE -1]

\* A sector has gone through the port: the disk is ready after a read, and
\* busy writing after a write.
Moved(write) ==
    IF status = "drq"
      THEN status' = (IF write THEN "busy" ELSE "ready") /\ command' = Nothing
      ELSE UNCHANGED <<status, command>>

----------------------------------------------------------------------------
(* The driver: wait_disk, the command, wait_disk, the sector               *)

\* A variant: nothing is waited for.
wait_disk_never == TRUE

wait_disk == status # "busy"

\* A job is a sequence of sectors and the place of each in memory.
Sector(a, sect, write) == [addr |-> a, sect |-> sect, write |-> write]

issue == /\ at = "issue" /\ job # <<>> /\ wait_disk
         /\ Told(job[1].write, job[1].sect)
         /\ at' = "move"
         /\ UNCHANGED <<disk, mem, image, job, seg, request, before>>

\* Where a sector of memory begins: a word below 0 does not exist.
InSector(m, a) == \E w \in Words : m = a + w

move == /\ at = "move" /\ wait_disk
        /\ \E j \in {job[1]} :
              /\ IF j.write /\ status = "drq"
                   THEN disk' = [disk EXCEPT ![command.sect] = [w \in Words |-> mem[j.addr + w]]]
                   ELSE UNCHANGED disk
              /\ mem' = IF j.write THEN mem
                        ELSE [m \in DOMAIN mem |-> IF InSector(m, j.addr) THEN DataPort[m - j.addr]
                                                                          ELSE mem[m]]
              /\ Moved(j.write)
        /\ job' = Tail(job)
        /\ at' = "issue"
        /\ UNCHANGED <<image, seg, request, before>>

----------------------------------------------------------------------------
(* The boot loader                                                         *)

FirstSector(disk_offset) == (disk_offset \div SECTSIZE) + ARGSECTS + 1

Start(buf) == (buf \div SECTSIZE) * SECTSIZE

\* The sectors of copy_from_disk: whole ones, from the one that buf is in.
Whole(buf, nbytes) == (buf + nbytes - Start(buf) + SECTSIZE - 1) \div SECTSIZE

copy_from_disk(buf, nbytes, disk_offset) ==
    [k \in 1 .. Whole(buf, nbytes) |->
        Sector(Start(buf) + (k - 1) * SECTSIZE, FirstSector(disk_offset) + k - 1, FALSE)]

Bss(ph) == ph.paddr + ph.filesz .. ph.paddr + ph.memsz - 1

\* The words that a copy changes, and the loading of a segment.
Overwritten(buf, nbytes) == Start(buf) .. Start(buf) + Whole(buf, nbytes) * SECTSIZE - 1
Touched(ph) == Overwritten(ph.paddr, ph.filesz) \cup Bss(ph)

Memory(ph) == ph.paddr .. ph.paddr + ph.memsz - 1
Arguments == MAINARG_ADDR .. MAINARG_ADDR + ARGSECTS * SECTSIZE - 1

Headers == [paddr : Nat, filesz : Nat, memsz : Nat, offset : Nat]

\* A kernel is on the disk and in memory as the linker laid it out: what is loaded
\* later, in whole sectors, is beside the arguments and the segments before it.
Linked(headers) ==
    /\ headers # <<>>
    /\ \A k \in DOMAIN headers : \A ph \in {headers[k]} :
          /\ ph.paddr % SECTSIZE = ph.offset % SECTSIZE /\ ph.filesz <= ph.memsz
          /\ FirstSector(ph.offset) + Whole(ph.paddr, ph.filesz) <= Sectors
          /\ Memory(ph) \subseteq 0 .. MemSize - 1 /\ Touched(ph) \cap Arguments = {}
          /\ \A l \in 1 .. k - 1 : Touched(ph) \cap Memory(headers[l]) = {}

DiskAssumption ==
    /\ SECTSIZE \in Nat \ {0} /\ ARGSECTS \in Nat /\ Sectors \in Nat /\ ARGSECTS < Sectors
    /\ MAINARG_ADDR \in Nat /\ MAINARG_ADDR % SECTSIZE = 0
    /\ MemSize \in Nat /\ Arguments \subseteq 0 .. MemSize - 1
    /\ HEADER_ADDR \in Nat /\ HeaderSize \in Nat
    /\ Overwritten(HEADER_ADDR, HeaderSize) \cap Arguments = {}
    /\ \A headers \in Images : headers \in Seq(Headers) /\ Linked(headers)
    /\ \A r \in Requests : r \in [write : BOOLEAN, blkno : Nat, blkcnt : Nat, buf : Nat]

Zeroed(S) == [m \in DOMAIN mem |-> IF m \in S THEN 0 ELSE mem[m]]

\* load_kernel: the arguments and the headers first.
load_arguments ==
    /\ at = "begin"
    /\ job' = copy_from_disk(MAINARG_ADDR, ARGSECTS * SECTSIZE, -ARGSECTS * SECTSIZE)
                \o copy_from_disk(HEADER_ADDR, HeaderSize, 0)
    /\ at' = "issue"
    /\ UNCHANGED <<disk, status, command, mem, image, seg, request, before>>

Copied == at = "issue" /\ job = <<>> /\ seg >= 0

\* load_program: the segment before it is copied, its bss is cleared, and the
\* next one is copied.
load_program == /\ Copied /\ seg < Len(image)
                /\ \E ph \in {image[seg + 1]} : job' = copy_from_disk(ph.paddr, ph.filesz, ph.offset)
                /\ mem' = Zeroed(IF seg = 0 THEN {} ELSE Bss(image[seg]))
                /\ seg' = seg + 1
                /\ UNCHANGED <<disk, status, command, image, at, request, before>>

\* The entry point is called.
jump == /\ Copied /\ seg = Len(image)
        /\ mem' = Zeroed(Bss(image[seg]))
        /\ at' = "run" /\ seg' = -1
        /\ UNCHANGED <<disk, status, command, image, job, request, before>>

----------------------------------------------------------------------------
(* The device of the runtime                                               *)

Blocks(r) == [k \in 1 .. r.blkcnt |-> Sector(r.buf + (k - 1) * SECTSIZE, r.blkno + k - 1, r.write)]

disk_blkio(r) == /\ at = "run"
                 /\ job' = Blocks(r) /\ request' = r
                 /\ before' = [disk |-> disk, mem |-> mem]
                 /\ at' = "issue"
                 /\ UNCHANGED <<disk, status, command, mem, image, seg>>

blkio_done == /\ at = "issue" /\ job = <<>> /\ seg = -1
              /\ at' = "run" /\ before' = <<>> /\ request' = <<>>
              /\ UNCHANGED <<disk, status, command, mem, image, seg, job>>

DiskInit == /\ disk = [s \in 0 .. Sectors - 1 |-> [w \in Words |-> Word(s, w)]]
            /\ status = "ready" /\ command = Nothing
            /\ mem = [m \in 0 .. MemSize - 1 |-> -2]
            /\ image \in Images
            /\ job = <<>> /\ at = "begin" /\ seg = 0
            /\ request = <<>> /\ before = <<>>

DiskNext == \/ Complete
            \/ load_arguments
            \/ load_program
            \/ jump
            \/ issue
            \/ move
            \/ \E r \in Requests : disk_blkio(r)
            \/ blkio_done

\* The disk answers, and a program waits for its answer.
DiskSpec == /\ DiskInit /\ [][DiskNext]_diskVars
            /\ WF_diskVars(Complete) /\ WF_diskVars(issue) /\ WF_diskVars(move)
            /\ WF_diskVars(load_arguments) /\ WF_diskVars(load_program)
            /\ WF_diskVars(jump) /\ WF_diskVars(blkio_done)

----------------------------------------------------------------------------
\* The word of the image at an offset in the file.
File(f) == Word(ARGSECTS + 1 + (f \div SECTSIZE), f % SECTSIZE)

\* When the kernel is entered, every word of its segments is the file's, its
\* bss is zero although the copies write whole sectors, and the arguments are
\* where main will look for them.
Loaded ==
    at # "run" /\ at' = "run" /\ seg # -1 =>
         /\ \A k \in DOMAIN image : \A ph \in {image[k]} :
               /\ \A b \in 0 .. ph.filesz - 1 : mem'[ph.paddr + b] = File(ph.offset + b)
               /\ \A b \in ph.filesz .. ph.memsz - 1 : mem'[ph.paddr + b] = 0
         /\ \A a \in 0 .. ARGSECTS * SECTSIZE - 1 :
               mem'[MAINARG_ADDR + a] = Word(1 + (a \div SECTSIZE), a % SECTSIZE)
LoadedAsLinked == [][Loaded]_diskVars

\* What a call of AM_DISK_BLKIO does is what it was asked for, however late
\* the disk answers: a write leaves the buffer's words in its blocks and
\* nothing else, a read leaves the blocks' words in the buffer and nothing else.
In(x, first, n) == x \in first .. first + n - 1

BlocksArrived ==
    at = "issue" /\ at' = "run" /\ seg = -1 =>
         \E r \in {request} :
            /\ disk = [s \in DOMAIN disk |-> [w \in Words |->
                         IF r.write /\ In(s, r.blkno, r.blkcnt)
                           THEN before.mem[r.buf + (s - r.blkno) * SECTSIZE + w]
                           ELSE before.disk[s][w]]]
            /\ mem = [m \in DOMAIN mem |->
                        IF ~r.write /\ In(m, r.buf, r.blkcnt * SECTSIZE)
                          THEN before.disk[r.blkno + ((m - r.buf) \div SECTSIZE)][(m - r.buf) % SECTSIZE]
                          ELSE before.mem[m]]
BlocksArrive == [][BlocksArrived]_diskVars

\* No wait for the disk is for ever: the kernel is entered, and every call
\* returns to it.
DiskAnswers == []<>(at = "run")
=============================================================================
