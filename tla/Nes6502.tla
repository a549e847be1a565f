------------------------------ MODULE Nes6502 -------------------------------
(***************************************************************************)
(* The processor of LiteNES (litenes: cpu.c, cpu-addressing.c).  Every     *)
(* operator takes a machine m and gives the next one.  The machine has the *)
(* registers A, X, Y, SP and PC, the flags P as the set of the bits that   *)
(* are set, and what its bus reaches: a READ may change it too.            *)
(***************************************************************************)
EXTENDS NesPpu

-----------------------------------------------------------------------------
\* What the processor reaches by an address (memory.c): its RAM of 2 KiB, the
\* registers of the picture unit (NesPpu), the joypad (psg.c) and the cartridge
\* (mmc.c).  A machine m has the fields ram, rom, mmc_id and chr for those, ppu,
\* and pad = [p, prev_write, keys].

\* p counts the reads of the joypad since its strobe; key k is down when k is in
\* keys.  Key 0 is On/Off; from the tenth read on there is nothing to read.
PadKeys == 0 .. 8

pad_read(m) ==
    [m |-> [m EXCEPT !.pad.p = @ + 1],
     v |-> IF m.pad.p < 9 /\ m.pad.p + 1 \in m.pad.keys THEN 1 ELSE 0]

psgio_read(m, a) == IF a = 16406 THEN pad_read(m) ELSE [m |-> m, v |-> 0]

psgio_write(m, a, v) ==
    [m EXCEPT !.pad.p = IF a = 16406 /\ v % 2 = 0 /\ m.pad.prev_write = 1 THEN 0 ELSE @,
              !.pad.prev_write = v % 2]

\* Mapper 3 puts a page of the cartridge into the pattern tables.  There is room
\* for one page: the code copies what lies after it for the other three.
mmc_write(m, a, v) ==
    [m EXCEPT !.rom = Put(@, a, v),
              !.ppu = IF m.mmc_id = 3 /\ v % 4 = 0 THEN ppu_copy(@, 0, m.chr) ELSE @]

Ram(m, a) == Get(m.ram, a % 2048)

FromPpu(m, r) == [m |-> [m EXCEPT !.ppu = r.p], v |-> r.v]

memory_readb(m, a) ==
    CASE a \div 8192 \in {0, 3} -> [m |-> m, v |-> Ram(m, a)]
      [] a \div 8192 = 1 -> FromPpu(m, ppuio_read(m.ppu, a))
      [] a \div 8192 = 2 -> psgio_read(m, a)
      [] OTHER -> [m |-> m, v |-> Get(m.rom, a)]

\* Object memory is filled from OAMADDR on, which comes back to where it was.
dma_from_zero(m, v) ==                                              \* mutant
    [m EXCEPT !.ppu.PPU_SPRRAM = Sparse([k \in 0 .. 255 |-> Ram(m, 256 * v + k)])]

dma(m, v) ==
    [m EXCEPT !.ppu.PPU_SPRRAM =
        Sparse([k \in 0 .. 255 |-> Ram(m, 256 * v + ((k - m.ppu.OAMADDR) % 256))])]

memory_writeb(m, a, v) ==
    CASE a = 16404 -> dma(m, v)
      [] a # 16404 /\ a \div 8192 \in {0, 3} -> [m EXCEPT !.ram = Put(@, a % 2048, v)]
      [] a # 16404 /\ a \div 8192 = 1 -> [m EXCEPT !.ppu = ppuio_write(@, a, v)]
      [] a # 16404 /\ a \div 8192 = 2 -> psgio_write(m, a, v)
      [] a # 16404 /\ a \div 8192 > 3 -> mmc_write(m, a, v)

-----------------------------------------------------------------------------
\* The registers.

\* Bits of P: carry, zero, interrupt, decimal, break, unused, overflow, negative.
C == 0
Z == 1
I == 2
D == 3
B == 4
U == 5
V == 6
N == 7

Bits(v) == {k \in 0 .. 7 : Bit(v, k)}
ByteOfBits(S) == LET W(k) == IF k \in S THEN 2^k ELSE 0
                 IN  W(0) + W(1) + W(2) + W(3) + W(4) + W(5) + W(6) + W(7)

Flag(m, f, set) == [m EXCEPT !.P = IF set THEN @ \cup {f} ELSE @ \ {f}]
ZN(m, v) == Flag(Flag(m, Z, v = 0), N, v >= 128)
CarryOf(m) == IF C \in m.P THEN 1 ELSE 0

-----------------------------------------------------------------------------
\* Words and the stack.

\* A word, low byte first, from two accesses that each give a machine and a byte.
Word(low, high) == [m |-> high.m, v |-> low.v + 256 * high.v]
HighByte(low, a) == Word(low, memory_readb(low.m, a % 65536))
memory_readw(m, a) == HighByte(memory_readb(m, a), a + 1)

memory_writew(m, a, w) == memory_writeb(memory_writeb(m, a, w % 256), a + 1, w \div 256)

cpu_stack_pushb(m, v) ==
    memory_writeb([m EXCEPT !.SP = (@ - 1) % 256], 256 + m.SP, v)

cpu_stack_pushw(m, w) ==
    memory_writew([m EXCEPT !.SP = (@ - 2) % 256], 255 + m.SP, w)

cpu_stack_popb(m) ==
    memory_readb([m EXCEPT !.SP = (@ + 1) % 256], 256 + ((m.SP + 1) % 256))

cpu_stack_popw(m) ==
    memory_readw([m EXCEPT !.SP = (@ + 2) % 256], 255 + ((m.SP + 2) % 256))

-----------------------------------------------------------------------------
\* Addressing: what the instruction works on, and the cycle it may add.  Every
\* mode that names memory reads it, the stores included.

Advance(m, size) == [m EXCEPT !.PC = (@ + size) % 65536]
Crosses(a, m) == IF a \div 256 # m.PC \div 256 THEN 1 ELSE 0

Implied(m) == [m |-> m, v |-> 0, a |-> 0, extra |-> 0]

\* The byte r that was read from address a; pages says whether the mode adds a
\* cycle when a is not in the page of the next instruction.
Located(r, a, size, pages) ==
    [m |-> Advance(r.m, size), v |-> r.v, a |-> a,
     extra |-> IF pages THEN Crosses(a, Advance(r.m, size)) ELSE 0]

ReadAt(m, a, size, pages) == Located(memory_readb(m, a % 65536), a, size, pages)

cpu_address_immediate(m) == Located(memory_readb(m, m.PC), 0, 1, FALSE)

ZeroPage(r, index) == ReadAt(r.m, (r.v + index) % 256, 1, FALSE)
cpu_address_zero_page(m, index) == ZeroPage(memory_readb(m, m.PC), index)

AbsoluteAt(r, index, pages) == ReadAt(r.m, r.v + index, 2, pages)
cpu_address_absolute(m) == AbsoluteAt(memory_readw(m, m.PC), 0, FALSE)
cpu_address_absolute_x(m) == AbsoluteAt(memory_readw(m, m.PC), m.X, TRUE)

AbsoluteY(r, y) == ReadAt(r.m, (r.v + y) % 65536, 2, TRUE)
cpu_address_absolute_y(m) == AbsoluteY(memory_readw(m, m.PC), m.Y)

Relative(m, offset) ==
    [Implied(m) EXCEPT !.a = m.PC + offset, !.extra = Crosses(m.PC + offset, m)]
SignedByte(v) == IF Bit(v, 7) THEN v - 256 ELSE v
RelativeTo(r) == Relative(Advance(r.m, 1), SignedByte(r.v))
cpu_address_relative(m) == RelativeTo(memory_readb(m, m.PC))

\* The word is read within one page, as the 6502 does.
WithinPage(a) == IF a % 256 = 255 THEN a - 255 ELSE a + 1
IndirectTo(w) == [Implied(Advance(w.m, 2)) EXCEPT !.a = w.v]
Pointer(m, a) == HighByte(memory_readb(m, a), WithinPage(a))
IndirectAt(r) == IndirectTo(Pointer(r.m, r.v))
cpu_address_indirect(m) == IndirectAt(memory_readw(m, m.PC))

\* A pointer in page zero, which ends where the page does.
ZeroPointer(m, a) == HighByte(memory_readb(m, a % 256), (a + 1) % 256)
PointedAt(w) == ReadAt(w.m, w.v, 1, FALSE)
IndirectX(r, x) == PointedAt(ZeroPointer(r.m, r.v + x))
cpu_address_indirect_x(m) == IndirectX(memory_readb(m, m.PC), m.X)

PointedAtY(w, y) == ReadAt(w.m, (w.v + y) % 65536, 1, TRUE)
IndirectY(r, y) == PointedAtY(ZeroPointer(r.m, r.v), y)
cpu_address_indirect_y(m) == IndirectY(memory_readb(m, m.PC), m.Y)

Address(mode, m) ==
    CASE mode = "implied" -> Implied(m)
      [] mode = "immediate" -> cpu_address_immediate(m)
      [] mode = "zero_page" -> cpu_address_zero_page(m, 0)
      [] mode = "zero_page_x" -> cpu_address_zero_page(m, m.X)
      [] mode = "zero_page_y" -> cpu_address_zero_page(m, m.Y)
      [] mode = "absolute" -> cpu_address_absolute(m)
      [] mode = "absolute_x" -> cpu_address_absolute_x(m)
      [] mode = "absolute_y" -> cpu_address_absolute_y(m)
      [] mode = "relative" -> cpu_address_relative(m)
      [] mode = "indirect" -> cpu_address_indirect(m)
      [] mode = "indirect_x" -> cpu_address_indirect_x(m)
      [] mode = "indirect_y" -> cpu_address_indirect_y(m)

-----------------------------------------------------------------------------
\* Instructions: machine, operand value, operand address.

\* The sum or difference r of A and v, with the carry and the overflow it leaves.
Result(m, r, carry, overflow) ==
    [ZN(Flag(Flag(m, C, carry), V, overflow), r % 256) EXCEPT !.A = r % 256]

Sum(m, v, r) == Result(m, r, r > 255, Bit(m.A, 7) = Bit(v, 7) /\ Bit(m.A, 7) # Bit(r, 7))
adc(m, v) == Sum(m, v, m.A + v + CarryOf(m))

Difference(m, v, r) == Result(m, r, r >= 0, Bit(m.A, 7) # Bit(v, 7) /\ Bit(m.A, 7) # Bit(r, 7))
sbc(m, v) == Difference(m, v, m.A - v - (1 - CarryOf(m)))

compare(m, reg, v) == Flag(ZN(Flag(m, C, reg >= v), (reg - v) % 256), Z, reg = v)

bit(m, v) == Flag(Flag(Flag(m, Z, (m.A & v) = 0), V, Bit(v, 6)), N, Bit(v, 7))

Load(m, reg, v) == ZN([m EXCEPT ![reg] = v], v)

\* What a shift gives and the bit it moves out.
Shifted(op, m, v) ==
    CASE op = "asl" -> <<(2 * v) % 256, Bit(v, 7)>>
      [] op = "lsr" -> <<v \div 2, Bit(v, 0)>>
      [] op = "rol" -> <<((2 * v) % 256) + CarryOf(m), Bit(v, 7)>>
      [] op = "ror" -> <<(v \div 2) + 128 * CarryOf(m), Bit(v, 0)>>

ShiftInto(m, s) == Flag(Load(m, "A", s[1]), C, s[2])
ShiftA(op, m) == ShiftInto(m, Shifted(op, m, m.A))
ShiftOut(m, s, a) == memory_writeb(Flag(ZN(m, s[1]), C, s[2]), a % 65536, s[1])
ShiftMem(op, m, v, a) == ShiftOut(m, Shifted(op, m, v), a)

Step(m, v, a) == memory_writeb(ZN(m, v % 256), a % 65536, v % 256)

Branch(m, a, taken) == IF taken THEN [m EXCEPT !.PC = a % 65536] ELSE m

jsr(m, a) == [cpu_stack_pushw(m, (m.PC - 1) % 65536) EXCEPT !.PC = a]
Return(w, skip) == [w.m EXCEPT !.PC = (w.v + skip) % 65536]
rts(m) == Return(cpu_stack_popw(m), 1)

cpu_nmi_interrupt_address(m) == memory_readw(m, 65530).v

PushStatus(m, flags) == cpu_stack_pushb(m, ByteOfBits(flags))
brk(m) ==
    [PushStatus(cpu_stack_pushw(m, (m.PC - 1) % 65536), m.P)
        EXCEPT !.P = @ \cup {U, B}, !.PC = cpu_nmi_interrupt_address(m)]

PopFlags(r, dropped) == [r.m EXCEPT !.P = (Bits(r.v) \ dropped) \cup {U}]
rti(m) == Return(cpu_stack_popw(PopFlags(cpu_stack_popb(m), {})), 0)
plp(m) == PopFlags(cpu_stack_popb(m), {B})

LoadA(r) == Load(r.m, "A", r.v)
pla(m) == LoadA(cpu_stack_popb(m))

\* The shifts, steps and stores that other processors combine with arithmetic.
OraA(m, v) == Load(m, "A", m.A | v)
AndA(m, v) == Load(m, "A", m.A & v)
EorA(m, v) == Load(m, "A", m.A ^^ v)
CompareA(m, v) == compare(m, m.A, v)

Extended(op, m, v, a) ==
    CASE op = "aso" -> OraA(ShiftMem("asl", m, v, a), Shifted("asl", m, v)[1])
      [] op = "rla" -> AndA(ShiftMem("rol", m, v, a), Shifted("rol", m, v)[1])
      [] op = "lse" -> EorA(ShiftMem("lsr", m, v, a), Shifted("lsr", m, v)[1])
      [] op = "rra" -> adc(ShiftMem("ror", m, v, a), Shifted("ror", m, v)[1])
      [] op = "axs" -> memory_writeb(m, a % 65536, m.A & m.X)
      [] op = "axa" -> memory_writeb(m, a % 65536, m.A & m.X & (a \div 256))
      [] op = "lax" -> Load(Load(m, "X", v), "A", v)
      [] op = "dcm" -> CompareA(memory_writeb(m, a % 65536, (v - 1) % 256), (v - 1) % 256)
      [] op = "ins" -> sbc(memory_writeb(m, a % 65536, (v + 1) % 256), (v + 1) % 256)

Perform(op, m, v, a) ==
    CASE op \in {"nop", "FE"} -> m
      [] op = "adc" -> adc(m, v)
      [] op = "sbc" -> sbc(m, v)
      [] op = "and" -> AndA(m, v)
      [] op = "ora" -> OraA(m, v)
      [] op = "eor" -> EorA(m, v)
      [] op = "bit" -> bit(m, v)
      [] op = "cmp" -> CompareA(m, v)
      [] op = "cpx" -> compare(m, m.X, v)
      [] op = "cpy" -> compare(m, m.Y, v)
      [] op = "asla" -> ShiftA("asl", m)
      [] op = "lsra" -> ShiftA("lsr", m)
      [] op = "rola" -> ShiftA("rol", m)
      [] op = "rora" -> ShiftA("ror", m)
      [] op \in {"asl", "lsr", "rol", "ror"} -> ShiftMem(op, m, v, a)
      [] op = "inc" -> Step(m, v + 1, a)
      [] op = "dec" -> Step(m, v - 1, a)
      [] op = "inx" -> Load(m, "X", (m.X + 1) % 256)
      [] op = "iny" -> Load(m, "Y", (m.Y + 1) % 256)
      [] op = "dex" -> Load(m, "X", (m.X - 1) % 256)
      [] op = "dey" -> Load(m, "Y", (m.Y - 1) % 256)
      [] op = "lda" -> Load(m, "A", v)
      [] op = "ldx" -> Load(m, "X", v)
      [] op = "ldy" -> Load(m, "Y", v)
      [] op = "sta" -> memory_writeb(m, a % 65536, m.A)
      [] op = "stx" -> memory_writeb(m, a % 65536, m.X)
      [] op = "sty" -> memory_writeb(m, a % 65536, m.Y)
      [] op = "tax" -> Load(m, "X", m.A)
      [] op = "txa" -> Load(m, "A", m.X)
      [] op = "tay" -> Load(m, "Y", m.A)
      [] op = "tya" -> Load(m, "A", m.Y)
      [] op = "tsx" -> Load(m, "X", m.SP)
      [] op = "txs" -> [m EXCEPT !.SP = m.X]
      [] op = "bcs" -> Branch(m, a, C \in m.P)
      [] op = "beq" -> Branch(m, a, Z \in m.P)
      [] op = "bmi" -> Branch(m, a, N \in m.P)
      [] op = "bvs" -> Branch(m, a, V \in m.P)
      [] op = "bne" -> Branch(m, a, Z \notin m.P)
      [] op = "bcc" -> Branch(m, a, C \notin m.P)
      [] op = "bpl" -> Branch(m, a, N \notin m.P)
      [] op = "bvc" -> Branch(m, a, V \notin m.P)
      [] op = "jmp" -> [m EXCEPT !.PC = a]
      [] op = "jsr" -> jsr(m, a)
      [] op = "rts" -> rts(m)
      [] op = "brk" -> brk(m)
      [] op = "rti" -> rti(m)
      [] op = "clc" -> Flag(m, C, FALSE)
      [] op = "cld" -> Flag(m, D, FALSE)
      [] op = "cli" -> Flag(m, I, FALSE)
      [] op = "clv" -> Flag(m, V, FALSE)
      [] op = "sec" -> Flag(m, C, TRUE)
      [] op = "sed" -> Flag(m, D, TRUE)
      [] op = "sei" -> Flag(m, I, TRUE)
      [] op = "php" -> cpu_stack_pushb(m, ByteOfBits(m.P \cup {B, U}))
      [] op = "pha" -> cpu_stack_pushb(m, m.A)
      [] op = "pla" -> pla(m)
      [] op = "plp" -> plp(m)
      [] OTHER -> Extended(op, m, v, a)

-----------------------------------------------------------------------------
\* The table of the 229 codes cpu_init fills, by the fields of the code: name,
\* addressing mode and cycles.  A code it leaves out has no name.

Row(op) == op \div 32 + 1
Col(op) == ((op \div 4) % 8) + 1
Grid(modes, cycles, op) == <<modes[Col(op)], cycles[Col(op)]>>
Undefined == <<"", "implied", 0>>

ArithmeticCode(op) ==
    LET name == <<"ora", "and", "eor", "adc", "sta", "lda", "cmp", "sbc">>[Row(op)]
        g == Grid(<<"indirect_x", "zero_page", "immediate", "absolute", "indirect_y",
                    "zero_page_x", "absolute_y", "absolute_x">>,
                  IF name = "sta" THEN <<6, 3, 0, 4, 6, 4, 5, 5>>
                  ELSE IF name = "and" THEN <<6, 3, 2, 2, 5, 4, 4, 4>>
                  ELSE <<6, 3, 2, 4, 5, 4, 4, 4>>, op)
    IN  IF g[2] = 0 THEN Undefined ELSE <<name>> \o g

\* The one-byte codes of a column, and the modes of the codes that are in it.
Single(names, cycles, op) ==
    IF names[Row(op)] = "" THEN Undefined ELSE <<names[Row(op)], "implied", cycles[Row(op)]>>

ShiftCode(op) ==
    LET row == Row(op)
        name == <<"asl", "rol", "lsr", "ror", "stx", "ldx", "dec", "inc">>[row]
        x == row \in {5, 6}
    IN  CASE Col(op) = 1 -> IF row = 6 THEN <<"ldx", "immediate", 2>> ELSE Undefined
          [] Col(op) = 2 -> <<name, "zero_page", IF x THEN 3 ELSE 5>>
          [] Col(op) = 3 -> Single(<<"asla", "rola", "lsra", "rora", "txa", "tax", "dex", "nop">>,
                                   [k \in 1 .. 8 |-> 2], op)
          [] Col(op) = 4 -> <<name, "absolute", IF x THEN 4 ELSE 6>>
          [] Col(op) = 5 -> Undefined
          [] Col(op) = 6 -> IF x THEN <<name, "zero_page_y", 4>> ELSE <<name, "zero_page_x", 6>>
          [] Col(op) = 7 -> Single(<<"FE", "FE", "FE", "FE", "txs", "tsx", "FE", "FE">>,
                                   <<1, 1, 1, 1, 2, 2, 1, 1>>, op)
          [] Col(op) = 8 -> CASE row = 5 -> Undefined
                              [] row = 6 -> <<name, "absolute_y", 4>>
                              [] OTHER -> <<name, "absolute_x", 7>>

ExtendedCode(op) ==
    LET row == Row(op)
        name == <<"aso", "rla", "lse", "rra", "axs", "lax", "dcm", "ins">>[row]
        g == CASE row = 5 -> Grid(<<"indirect_x", "zero_page", "", "absolute", "indirect_y",
                                    "zero_page_y", "", "absolute_y">>, <<6, 3, 0, 4, 6, 4, 0, 5>>, op)
               [] row = 6 -> Grid(<<"indirect_x", "zero_page", "", "absolute", "indirect_y",
                                    "zero_page_y", "", "absolute_y">>, <<6, 3, 0, 4, 5, 4, 0, 4>>, op)
               [] OTHER -> Grid(<<"indirect_x", "zero_page", "", "absolute", "indirect_y",
                                  "zero_page_x", "absolute_y", "absolute_x">>,
                                <<8, 5, 0, 6, 8, 6, 7, 7>>, op)
    IN  CASE row = 8 /\ Col(op) = 3 -> <<"sbc", "immediate", 2>>
          [] g[2] = 0 -> Undefined
          [] row = 5 /\ Col(op) \in {5, 8} -> <<"axa">> \o g
          [] OTHER -> <<name>> \o g

\* The codes without a place in the other three groups.
ControlCode(op) ==
    LET row == Row(op)
        yx == <<"", "", "", "", "sty", "ldy", "cpy", "cpx">>[row]
        Named(name, mode, cycles) ==
            IF name = "" THEN <<"FE", mode, 1>> ELSE <<name, mode, cycles>>
    IN  CASE Col(op) = 1 ->
                 <<<<"brk", "implied", 7>>, <<"jsr", "absolute", 6>>, <<"rti", "implied", 6>>,
                   <<"rts", "implied", 6>>, <<"FE", "immediate", 1>>, <<"ldy", "immediate", 2>>,
                   <<"cpy", "immediate", 2>>, <<"cpx", "immediate", 2>>>>[row]
          [] Col(op) = 2 -> IF row = 2 THEN <<"bit", "zero_page", 3>> ELSE Named(yx, "zero_page", 3)
          [] Col(op) = 3 -> Single(<<"php", "plp", "pha", "pla", "dey", "tay", "iny", "inx">>,
                                   <<3, 4, 3, 4, 2, 2, 2, 2>>, op)
          [] Col(op) = 4 -> CASE row = 2 -> <<"bit", "absolute", 4>>
                              [] row = 3 -> <<"jmp", "absolute", 3>>
                              [] row = 4 -> <<"jmp", "indirect", 5>>
                              [] OTHER -> Named(yx, "absolute", 4)
          [] Col(op) = 5 -> <<<<"bpl", "bmi", "bvc", "bvs", "bcc", "bcs", "bne", "beq">>[row],
                              "relative", 2>>
          [] Col(op) = 6 -> IF row \in {5, 6} THEN <<yx, "zero_page_x", 4>>
                            ELSE <<"FE", "zero_page_x", 1>>
          [] Col(op) = 7 -> Single(<<"clc", "sec", "cli", "sei", "tya", "clv", "cld", "sed">>,
                                   [k \in 1 .. 8 |-> 2], op)
          [] Col(op) = 8 -> CASE row = 5 -> Undefined
                              [] row = 6 -> <<"ldy", "absolute_x", 4>>
                              [] OTHER -> <<"FE", "absolute_x", 1>>

Code(op) ==
    CASE op % 4 = 0 -> ControlCode(op)
      [] op % 4 = 1 -> ArithmeticCode(op)
      [] op % 4 = 2 -> ShiftCode(op)
      [] op % 4 = 3 -> ExtendedCode(op)

OpTable == [op \in 0 .. 255 |-> Code(op)]

-----------------------------------------------------------------------------
\* Lifecycle.

PowerUp == [A |-> 0, X |-> 0, Y |-> 0, SP |-> 0, P |-> {I, U}, PC |-> 0]

cpu_reset(m) ==
    [m EXCEPT !.PC = memory_readw(m, 65532).v, !.SP = (@ - 3) % 256, !.P = @ \cup {I}]

\* The flags go to the stack after I is set and the unused bit cleared.
Interrupt(m, n) ==
    [PushStatus(cpu_stack_pushw(n, m.PC), n.P) EXCEPT !.PC = cpu_nmi_interrupt_address(m)]
interrupt_status_first(m) ==                                        \* mutant
    [cpu_stack_pushw(PushStatus(m, m.P), m.PC) EXCEPT !.PC = cpu_nmi_interrupt_address(m)]
cpu_interrupt(m) == Interrupt(m, [m EXCEPT !.P = (@ \cup {I}) \ {U}])

\* One turn of the loop of cpu_run: the machine and the cycles it took.  A code
\* that is not in the table takes none.
Execute(code, operand) ==
    [m |-> Perform(code[1], operand.m, operand.v, operand.a), cycles |-> code[3] + operand.extra]
Decode(code, m) ==
    IF code[1] = "" THEN [m |-> m, cycles |-> 0] ELSE Execute(code, Address(code[2], m))
Fetched(r) == Decode(OpTable[r.v], Advance(r.m, 1))
cpu_step(m) == Fetched(memory_readb(m, m.PC))
=============================================================================
