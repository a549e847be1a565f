----------------------------- MODULE X86Tables -----------------------------
(***************************************************************************)
(* What the boot processor of the x86 runtime sets up before main:         *)
(* abstract-machine/am/src/x86/qemu/trm.c and cte.c with the descriptors   *)
(* of x86.h.  The fields of a descriptor are cut out of a base, a limit or *)
(* an address and scattered; the processor puts them together again.  A    *)
(* hexadecimal digit has NIBBLE values here, 16 in the source: a word has  *)
(* eight digits whatever their number of values.                           *)
(***************************************************************************)
EXTENDS Integers, Sequences, FiniteSets

CONSTANTS NIBBLE,
          MAX_CPU,
          TssAt, TssSize,   \* where the processor's TSS is
          Entries,          \* the stub of each vector, and one for the others
          Irqs, UserIrqs,   \* vectors of IRQS, those with DPL_USER
          NR_IRQ,
          ProgramEnds,      \* the end of the program, in 64 KiB
          Extended,         \* CMOS: memory above 16 MiB, in 64 KiB
          MpTables          \* types of the entries of the MP table

\* How many numbers n digits make.
Digits == LET digits[n \in 0 .. 8] == IF n = 0 THEN 1 ELSE NIBBLE * digits[n - 1] IN digits

TablesAssumption ==
    /\ NIBBLE \in Nat \ {0, 1} /\ MAX_CPU \in Nat \ {0} /\ NR_IRQ \in Nat
    /\ TssAt \subseteq 0 .. Digits[8] - 1 /\ TssSize \in 1 .. Digits[5]
    /\ UserIrqs \subseteq Irqs /\ Irqs \subseteq 0 .. NR_IRQ - 1
    /\ Entries \in [0 .. NR_IRQ -> Nat]
    /\ ProgramEnds \subseteq Nat /\ Extended \subseteq 0 .. Digits[4] - 1
    /\ MpTables \subseteq Seq(Nat)

VARIABLES at,           \* the initialisation that runs
          end, ext, mp, tss,    \* what the machine and the linker gave
          heap,         \* bounds of the heap
          ptr,          \* the walk through the MP table
          ncpu,
          gdt, tr, idt

tablesVars == <<at, end, ext, mp, tss, heap, ptr, ncpu, gdt, tr, idt>>
machine    == <<end, ext, mp, tss>>

Low(v, n) == v % Digits[n]
Top(v, n) == v \div Digits[n]

DPL_KERN == 0
DPL_USER == 3
STA_X == 8
STA_RW == 2
STS_T32A == 9
STS_TG == 15
SEG_KCODE == 1
SEG_KDATA == 2
SEG_UCODE == 3
SEG_UDATA == 4
SEG_TSS   == 5
KSEL(seg) == 8 * seg + DPL_KERN
USEL(seg) == 8 * seg + DPL_USER

----------------------------------------------------------------------------
(* x86.h: descriptors                                                      *)

SegDesc(lim_15_0, base_15_0, base_23_16, type, s, dpl, lim_19_16, l, db, g, base_31_24) ==
    [lim_15_0 |-> lim_15_0, base_15_0 |-> base_15_0, base_23_16 |-> base_23_16,
     type |-> type, s |-> s, dpl |-> dpl, p |-> 1, lim_19_16 |-> lim_19_16,
     l |-> l, db |-> db, g |-> g, base_31_24 |-> base_31_24]

\* Limit in bytes.
SEG16(type, base, lim, dpl) ==
    SegDesc(Low(lim, 4), Low(base, 4), Low(Top(base, 4), 2), type, 0, dpl,
            Low(Top(lim, 4), 1), 0, 1, 0, Low(Top(base, 6), 2))

\* A variant: the limit is in pages and read in bytes.
SEG32_bytes(type, base, lim, dpl) ==
    SegDesc(Low(Top(lim, 3), 4), Low(base, 4), Low(Top(base, 4), 2), type, 1, dpl,
            Low(Top(lim, 7), 1), 0, 1, 0, Low(Top(base, 6), 2))

\* Limit in pages.
SEG32(type, base, lim, dpl) ==
    SegDesc(Low(Top(lim, 3), 4), Low(base, 4), Low(Top(base, 4), 2), type, 1, dpl,
            Low(Top(lim, 7), 1), 0, 1, 1, Low(Top(base, 6), 2))

GATE32(type, cs, entry, dpl) ==
    [off_15_0 |-> Low(entry, 4), cs |-> cs, type |-> type, s |-> 0, dpl |-> dpl,
     p |-> 1, off_31_16 |-> Top(entry, 4)]

\* How the processor reads them.
Base(d)   == d.base_15_0 + d.base_23_16 * Digits[4] + d.base_31_24 * Digits[6]
Limit(d) ==
    IF d.g = 0 THEN d.lim_15_0 + d.lim_19_16 * Digits[4]
    ELSE (d.lim_15_0 + d.lim_19_16 * Digits[4] + 1) * Digits[3] - 1
Offset(g) == g.off_15_0 + g.off_31_16 * Digits[4]

----------------------------------------------------------------------------
(* trm.c                                                                   *)

\* __am_heap_init: two bytes of the CMOS, in 64 KiB; the heap begins at the
\* next MiB.
MiB == 16
RoundUp(a, size) == ((a + size - 1) \div size) * size

MemoryEnd(lo, hi) == lo + (hi + 1) * Digits[2]

heap_init == /\ at = "heap"
             /\ heap' = <<RoundUp(end, MiB), MemoryEnd(Low(ext, 2), Top(ext, 2))>>
             /\ at' = "lapic"
             /\ UNCHANGED <<machine, ptr, ncpu, gdt, tr, idt>>

\* The table as bytes: an entry is 20 bytes for a processor, which has type
\* 0, and 8 for anything else.  Its other bytes may be 0 as well.
Entry(type) == [b \in 1 .. (IF type = 0 THEN 20 ELSE 8) |-> IF b = 1 THEN type ELSE 0]

\* The bytes of the first n entries.
Bytes(types) ==
    LET bytes[n \in 0 .. Len(types)] == IF n = 0 THEN <<>> ELSE bytes[n - 1] \o Entry(types[n])
    IN bytes

Step(type) == IF type = 0 THEN 12 + 8 ELSE 8

\* One pass of the loop of __am_lapic_init; more than MAX_CPU is a panic.
lapic_step == /\ at = "lapic"
              /\ \E table \in {Bytes(mp)[Len(mp)]} :
                    IF ptr < Len(table)
                      THEN /\ ncpu' = ncpu + (IF table[ptr + 1] = 0 THEN 1 ELSE 0)
                           /\ ncpu' <= MAX_CPU
                           /\ ptr' = ptr + Step(table[ptr + 1])
                           /\ UNCHANGED at
                      ELSE at' = "gdt" /\ UNCHANGED <<ncpu, ptr>>
              /\ UNCHANGED <<machine, heap, gdt, tr, idt>>

All32 == Digits[8] - 1

initgdt ==
    /\ at = "gdt"
    /\ gdt' = [seg \in SEG_KCODE .. SEG_TSS |->
                 CASE seg = SEG_KCODE -> SEG32(STA_X + STA_RW, 0, All32, DPL_KERN)
                   [] seg = SEG_KDATA -> SEG32(STA_RW, 0, All32, DPL_KERN)
                   [] seg = SEG_UCODE -> SEG32(STA_X + STA_RW, 0, All32, DPL_USER)
                   [] seg = SEG_UDATA -> SEG32(STA_RW, 0, All32, DPL_USER)
                   [] seg = SEG_TSS   -> SEG16(STS_T32A, tss, TssSize - 1, DPL_KERN)]
    /\ tr' = KSEL(SEG_TSS)
    /\ at' = "idt"
    /\ UNCHANGED <<machine, heap, ptr, ncpu, idt>>

Dpl(v) == IF v \in UserIrqs THEN DPL_USER ELSE DPL_KERN

\* cte_init: the stub of a vector, or the one of all the others.
cte_init ==
    /\ at = "idt"
    /\ idt' = [v \in 0 .. NR_IRQ - 1 |->
                 IF v \in Irqs THEN GATE32(STS_TG, KSEL(SEG_KCODE), Entries[v], Dpl(v))
                               ELSE GATE32(STS_TG, KSEL(SEG_KCODE), Entries[NR_IRQ], DPL_KERN)]
    /\ at' = "main"
    /\ UNCHANGED <<machine, heap, ptr, ncpu, gdt, tr>>

TablesInit == /\ at = "heap" /\ end \in ProgramEnds /\ ext \in Extended
              /\ mp \in MpTables /\ tss \in TssAt
              /\ heap = <<0, 0>> /\ ptr = 0 /\ ncpu = 0
              /\ gdt = <<>> /\ tr = 0 /\ idt = <<>>

TablesNext == \/ heap_init
              \/ lapic_step
              \/ initgdt
              \/ cte_init

TablesSpec == TablesInit /\ [][TablesNext]_tablesVars

----------------------------------------------------------------------------
\* When main is entered the processor finds what was meant: four segments
\* that cover all of memory, two of them for the user, a task segment where
\* this processor's is and as long as it is, and for every vector the entry
\* of its own stub, which an instruction of the user's can reach only for the
\* two that are his; the heap is the memory from the program's end on, and
\* every processor of the table was counted once (trm.c:61, 70, 89; cte.c:112).
SegmentsCover ==
    /\ \A seg \in SEG_KCODE .. SEG_UDATA :
          /\ Base(gdt[seg]) = 0 /\ Limit(gdt[seg]) = All32 /\ gdt[seg].s = 1
          /\ gdt[seg].dpl = IF seg \in {SEG_KCODE, SEG_KDATA} THEN 0 ELSE 3
          /\ gdt[seg].type >= 8 <=> seg \in {SEG_KCODE, SEG_UCODE}
    /\ \E d \in {gdt[tr \div 8]} :
          Base(d) = tss /\ Limit(d) = TssSize - 1 /\ d.s = 0 /\ d.type = STS_T32A
VectorsEnter ==
    \A v \in 0 .. NR_IRQ - 1 :
       /\ Offset(idt[v]) = Entries[IF v \in Irqs THEN v ELSE NR_IRQ]
       /\ gdt[idt[v].cs \div 8].dpl = 0
       /\ idt[v].dpl = 3 <=> v \in UserIrqs
ResourcesCounted ==
    /\ ncpu = Cardinality({n \in DOMAIN mp : mp[n] = 0})
    /\ heap[2] = Digits[2] + ext
    /\ heap[1] >= end /\ heap[1] < end + MiB /\ heap[1] % MiB = 0

MachineIsSetUp == at = "main" => SegmentsCover /\ VectorsEnter /\ ResourcesCounted
=============================================================================
