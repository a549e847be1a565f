-------------------------------- MODULE MiniRv --------------------------------
(***************************************************************************)
(* The macros of inst-replace.h, which rebuild the RV32 instructions from  *)
(* addi, add, lui, lw, lbu, sw, sb and jalr, two scratch registers and the *)
(* words below the stack pointer.  A word has four bytes of BYTE_BITS bits *)
(* (8 in the tool, where the constants 16, 24 and 0x1f below stand).       *)
(***************************************************************************)
EXTENDS Integers, Sequences, SequencesExt, Bitwise

CONSTANTS BYTE_BITS

Radix == 2^BYTE_BITS
XLEN == 4 * BYTE_BITS
Word == 0 .. 2^XLEN - 1
Reg == {"x0", "sp", "gp", "tp", "s0", "s1", "a0", "a1"}
ByteOf(w, k) == (w \div Radix^k) % Radix
Negative(w) == w >= 2^(XLEN - 1)
Signed(w) == IF Negative(w) THEN w - 2^XLEN ELSE w

-----------------------------------------------------------------------------
\* Memory: tables of constants, an array that needs no initial value, and the
\* bytes around the stack pointer.

SP == 2 * Radix * Radix
SameResult == 8
Check0 == 16
Slt1 == SameResult + Radix + 16
Sltu1 == Slt1 + 8
Or1 == Sltu1 + 8
SameArray == 4 * Radix
And8 == 4 * Radix * Radix
Or8 == And8 + Radix^2
Xor8 == Or8 + Radix^2
Sll8 == Xor8 + Radix^2
Srl8 == Sll8 + 4 * XLEN * Radix
Sra8 == Srl8 + 4 * XLEN * Radix
TablesEnd == Sra8 + 4 * XLEN * Radix

Ram == (SP - 28 .. SP + 7) \cup (SameArray .. SameArray + Radix - 1)

\* A row holds Radix entries, one per value of a byte.
Row(a, base, size) == (a - base) \div (size * Radix)
Col(a, base, size) == ((a - base) \div size) % Radix

\* Arithmetic shift to the right of the byte i put into the top byte.
SraEntry(i, j) == (Signed(i * Radix^3) \div 2^j) % 2^XLEN

Rom(a) ==
    CASE a \in SameResult .. SameResult + 7 -> IF a = SameResult THEN 1 ELSE 0
      [] a \in Check0 .. Check0 + Radix - 1 -> IF a = Check0 THEN 0 ELSE 1
      [] a \in Slt1 .. Slt1 + 7  -> <<0, 1, 0, 0, 1, 1, 0, 1>>[a - Slt1 + 1]
      [] a \in Sltu1 .. Sltu1 + 7 -> <<0, 1, 1, 1, 0, 0, 0, 1>>[a - Sltu1 + 1]
      [] a \in Or1 .. Or1 + 3 -> <<0, 1, 1, 1>>[a - Or1 + 1]
      [] a \in And8 .. Or8 - 1 -> Row(a, And8, 1) & Col(a, And8, 1)
      [] a \in Or8 .. Xor8 - 1 -> Row(a, Or8, 1) | Col(a, Or8, 1)
      [] a \in Xor8 .. Sll8 - 1 -> Row(a, Xor8, 1) ^^ Col(a, Xor8, 1)
      [] a \in Sll8 .. Srl8 - 1 ->
            ByteOf((Col(a, Sll8, 4) * 2^Row(a, Sll8, 4)) % 2^XLEN, a % 4)
      [] a \in Srl8 .. Sra8 - 1 ->
            ByteOf((Col(a, Srl8, 4) * Radix^3) \div 2^Row(a, Srl8, 4), a % 4)
      [] a \in Sra8 .. TablesEnd - 1 ->
            ByteOf(SraEntry(Col(a, Sra8, 4), Row(a, Sra8, 4)), a % 4)

-----------------------------------------------------------------------------
\* The eight instructions.  la stands for lui and addi, pc for the target of
\* the last jump.

Add(rd, rs1, rs2) == <<"add", rd, rs1, rs2>>
Addi(rd, rs1, imm) == <<"addi", rd, rs1, imm>>
Mv(rd, rs1) == Addi(rd, rs1, 0)
La(rd, addr) == <<"addi", rd, "x0", addr>>
Li(rd, imm) == <<"addi", rd, "x0", imm>>
Mem(op, r, base, off) == <<op, r, base, off>>
Jalr(rd, rs1) == <<"jalr", rd, rs1, 0>>

Load(s, a) == IF a \in Ram THEN s.mem[a] ELSE Rom(a)
Value(s, r) == IF r = "x0" THEN 0 ELSE s.reg[r]
Put(s, rd, w) == IF rd = "x0" THEN s ELSE [s EXCEPT !.reg[rd] = w % 2^XLEN]

Exec(s, i) ==
    LET addr == Value(s, i[3]) + i[4]
    IN  CASE i[1] = "add"  -> Put(s, i[2], Value(s, i[3]) + Value(s, i[4]))
          [] i[1] = "addi" -> Put(s, i[2], Value(s, i[3]) + i[4])
          [] i[1] = "lbu"  -> Put(s, i[2], Load(s, addr))
          [] i[1] = "lw"   -> Put(s, i[2], Load(s, addr) + Load(s, addr + 1) * Radix
                                 + Load(s, addr + 2) * Radix^2 + Load(s, addr + 3) * Radix^3)
          [] i[1] = "sb"   -> [s EXCEPT !.mem[addr] = Value(s, i[2]) % Radix]
          [] i[1] = "sw"   -> LET w == Value(s, i[2])
                              IN  [s EXCEPT !.mem = [@ EXCEPT
                                     ![addr] = ByteOf(w, 0), ![addr + 1] = ByteOf(w, 1),
                                     ![addr + 2] = ByteOf(w, 2), ![addr + 3] = ByteOf(w, 3)]]
          [] i[1] = "jalr" -> [Put(s, i[2], s.link) EXCEPT !.pc = Value(s, i[3])]

Run(s, program) ==
    LET after[n \in 0 .. Len(program)] ==
            IF n = 0 THEN s ELSE Exec(after[n - 1], program[n])
    IN  after[Len(program)]

-----------------------------------------------------------------------------
\* Slots below the stack pointer, and the macros.

VAR_A == 4
VAR_B == 5
VAR_C == 6
VAR_D == 7
Sw(r, n) == Mem("sw", r, "sp", -4 * n)
Lw(r, n) == Mem("lw", r, "sp", -4 * n)
Sb(r, n, b) == Mem("sb", r, "sp", -4 * n + b)
Lbu(r, n, b) == Mem("lbu", r, "sp", -4 * n + b)

not(rd, rs1) ==
    <<Sw("gp", 3), Sw(rs1, VAR_C), La("tp", Xor8 + (Radix - 1) * Radix)>>
    \o FlattenSeq([k \in 1 .. 4 |->
         <<Lbu("gp", VAR_C, 4 - k), Add("gp", "gp", "tp"), Mem("lbu", "gp", "gp", 0),
           Sb("gp", VAR_D, 4 - k)>>])
    \o <<Lw("gp", 3), Lw(rd, VAR_D)>>

sub(rd, rs1, rs2) == not("tp", rs2) \o <<Add(rd, rs1, "tp"), Addi(rd, rd, 1)>>

getbyte(rd, rs1, b) == <<Sw(rs1, VAR_C), Lbu(rd, VAR_C, b)>>

sh(rs, base, off) ==
    <<Mem("sb", rs, base, off)>> \o getbyte("tp", rs, 1)
    \o <<Mem("sb", "tp", base, off + 1)>>

Doublings(rd, rs1, n) ==
    IF n = 0 THEN IF rd = rs1 THEN <<>> ELSE <<Mv(rd, rs1)>>
    ELSE [k \in 1 .. n |-> IF k = 1 THEN Add(rd, rs1, rs1) ELSE Add(rd, rd, rd)]

slli(rd, rs1, imm) ==
    IF imm >= 3 * BYTE_BITS
    THEN <<Sw("x0", VAR_A), Sb(rs1, VAR_A, 3), Lw(rd, VAR_A)>>
         \o Doublings(rd, rd, imm - 3 * BYTE_BITS)
    ELSE IF imm >= 2 * BYTE_BITS
    THEN <<Sw("x0", VAR_A)>> \o sh(rs1, "sp", -4 * VAR_A + 2) \o <<Lw(rd, VAR_A)>>
         \o Doublings(rd, rd, imm - 2 * BYTE_BITS)
    ELSE Doublings(rd, rs1, imm)

msb(rd, rs1) == getbyte(rd, rs1, 3) \o slli(rd, rd, 1) \o getbyte(rd, rd, 1)

\* The three sign bits of rs1, rs2 and rs1 - rs2 make an index in gp.
Signs(rs1, rs2) ==
    <<Sw("s0", 1), Sw("s1", 2), Sw(rs2, VAR_A), Mv("s0", rs1), Lw("s1", VAR_A)>>
    \o msb("gp", "s0") \o slli("gp", "gp", 1)
    \o msb("tp", "s1") \o <<Add("gp", "gp", "tp")>> \o slli("gp", "gp", 1)
    \o sub("tp", "s0", "s1") \o msb("tp", "tp") \o <<Add("gp", "gp", "tp")>>

\* Mutant: the registers restored after the result is loaded.
slt_template_late(lut, rd, rs1, rs2) ==
    Signs(rs1, rs2)
    \o <<La("tp", lut), Add("tp", "tp", "gp"), Mem("lbu", rd, "tp", 0), Lw("s1", 2), Lw("s0", 1)>>

slt_template(lut, rd, rs1, rs2) ==
    Signs(rs1, rs2)
    \o <<La("tp", lut), Add("tp", "tp", "gp"), Lw("s1", 2), Lw("s0", 1), Mem("lbu", rd, "tp", 0)>>

slt(rd, rs1, rs2) == slt_template(Slt1, rd, rs1, rs2)
sltu(rd, rs1, rs2) == slt_template(Sltu1, rd, rs1, rs2)

logic8(lut_reg, b) ==
    <<Lbu("tp", VAR_A, b), Sb("tp", VAR_D, 1), Lbu("tp", VAR_B, b), Sb("tp", VAR_D, 0),
      Lw("tp", VAR_D), Add("tp", lut_reg, "tp"), Mem("lbu", "tp", "tp", 0),
      Sb("tp", VAR_C, b)>>

logic(lut, rd, rs1, rs2) ==
    IF rd = "x0" THEN <<>>
    ELSE <<Sw(rs1, VAR_A), Sw(rs2, VAR_B), La(rd, lut), Sw("x0", VAR_D)>>
         \o logic8(rd, 3) \o logic8(rd, 2) \o logic8(rd, 1) \o logic8(rd, 0)
         \o <<Lw(rd, VAR_C)>>

\* 0 in rd when the bytes are the same: whether the mark written at the one is
\* erased through the other.
check_8bit_same(table, rd, b) ==
    <<Lbu(rd, VAR_A, b), Add("tp", table, rd), Addi(rd, "x0", 1), Mem("sb", rd, "tp", 0),
      Lbu(rd, VAR_B, b), Add(rd, table, rd), Mem("sb", "x0", rd, 0), Mem("lbu", rd, "tp", 0)>>

seq(rd, rs1, rs2) ==
    <<Sw(rs1, VAR_A), Sw(rs2, VAR_B), Sw("s0", 1), Sw("s1", 2), La("s0", SameArray)>>
    \o check_8bit_same("s0", "gp", 0)
    \o FlattenSeq([b \in 1 .. 3 |->
         check_8bit_same("s0", "s1", b) \o <<Add("gp", "gp", "s1")>>])
    \o <<La("tp", SameResult), Add("tp", "tp", "gp"), Mem("lbu", rd, "tp", 0),
         Lw("s1", 2), Lw("s0", 1)>>

check_8bit_0(table, rd, b) ==
    <<Lbu(rd, VAR_A, b), Add(rd, table, rd), Mem("lbu", rd, rd, 0)>>

seqz(rd, rs1) ==
    <<Sw(rs1, VAR_A), Sw("s0", 1), La("s0", Check0)>>
    \o check_8bit_0("s0", "gp", 0)
    \o FlattenSeq([b \in 1 .. 3 |->
         check_8bit_0("s0", "tp", b) \o <<Add("gp", "gp", "tp")>>])
    \o <<La("tp", SameResult), Add("tp", "tp", "gp"), Mem("lbu", rd, "tp", 0), Lw("s0", 1)>>

-----------------------------------------------------------------------------
\* Shifts by a table row per amount.  getshamt clobbers tp.

getshamt(rd, rs1) ==
    <<Sb(rs1, VAR_B, 0), Lbu(rd, VAR_B, 0), La("tp", And8 + (XLEN - 1) * Radix),
      Add(rd, rd, "tp"), Mem("lbu", rd, rd, 0)>>

shift_byte(base, b) ==
    <<Lbu("tp", VAR_A, b)>> \o slli("tp", "tp", 2)
    \o <<Add("tp", base, "tp"), Mem("lw", "tp", "tp", 0)>>

\* s0 = the address of the row for the shift amount in rs2.
RowOf(table, rs2) ==
    getshamt("s0", rs2) \o <<Sw("x0", VAR_B), Sb("s0", VAR_B, 1), Lw("s0", VAR_B)>>
    \o slli("s0", "s0", 2) \o <<La("tp", table), Add("s0", "s0", "tp")>>

sll(rd, rs1, rs2) ==
    <<Sw("s0", 1), Sw(rs1, VAR_A)>> \o RowOf(Sll8, rs2)
    \o <<Sw("x0", VAR_B)>> \o shift_byte("s0", 3)
    \o <<Sb("tp", VAR_B, 3), Lw("gp", VAR_B)>>
    \o shift_byte("s0", 2) \o sh("tp", "sp", -4 * VAR_B + 2)
    \o <<Lw("tp", VAR_B), Add("gp", "gp", "tp")>>
    \o shift_byte("s0", 1) \o slli("tp", "tp", BYTE_BITS) \o <<Add("gp", "gp", "tp")>>
    \o shift_byte("s0", 0) \o <<Lw("s0", 1), Add(rd, "gp", "tp")>>

\* The row address is in s0: bytes 2, 1 and 0 are gathered from what byte 3 of
\* the shifted words leaves of them, and byte 3 is added, signed or not.
ShiftRightFrom(rd, arith) ==
    shift_byte("s0", 2) \o <<Sw("tp", VAR_B)>>
    \o shift_byte("s0", 1) \o <<Sw("tp", VAR_C)>>
    \o shift_byte("s0", 0) \o <<Sw("tp", VAR_D)>>
    \o <<Lbu("gp", VAR_B, 1), Lbu("tp", VAR_C, 2), Add("gp", "gp", "tp"),
         Lbu("tp", VAR_D, 3), Add("gp", "gp", "tp"), Sw("gp", VAR_D),
         Lbu("gp", VAR_B, 2), Lbu("tp", VAR_C, 3), Add("gp", "gp", "tp"),
         Sb("gp", VAR_D, 1), Lbu("gp", VAR_B, 3), Sb("gp", VAR_D, 2), Lw("gp", VAR_D)>>
    \o (IF arith THEN <<La("tp", Sra8 - Srl8), Add("s0", "s0", "tp")>> ELSE <<>>)
    \o shift_byte("s0", 3) \o <<Lw("s0", 1), Add(rd, "gp", "tp")>>

shift_right(rd, rs1, rs2, arith) ==
    <<Sw("s0", 1), Sw(rs1, VAR_A)>> \o RowOf(Srl8, rs2) \o ShiftRightFrom(rd, arith)

shift_right_imm(rd, rs1, imm, arith) ==
    IF imm = 3 * BYTE_BITS
    THEN IF arith
         THEN <<Sw(rs1, VAR_A), La("tp", Sra8 + imm * 4 * Radix), Lbu(rd, VAR_A, 3)>>
              \o slli(rd, rd, 2) \o <<Add("tp", "tp", rd), Mem("lw", rd, "tp", 0)>>
         ELSE getbyte(rd, rs1, 3)
    ELSE <<Sw("s0", 1), Sw(rs1, VAR_A), La("s0", Srl8 + imm * 4 * Radix)>>
         \o ShiftRightFrom(rd, arith)

-----------------------------------------------------------------------------
\* Loads and stores of bytes and halves that are not base instructions.

lb(rd, base, off) ==
    <<Sw("x0", VAR_A), Mem("lbu", rd, base, off), Sb(rd, VAR_A, 3), Lw(rd, VAR_A)>>
    \o shift_right_imm(rd, rd, 3 * BYTE_BITS, TRUE)

lhu(rd, base, off) ==
    <<Sw("x0", VAR_A), Mem("lbu", "tp", base, off + 1), Sb("tp", VAR_A, 1), Lw("tp", VAR_A),
      Mem("lbu", rd, base, off), Add(rd, rd, "tp")>>

lh(rd, base, off) ==
    <<Sw("x0", VAR_A), Mem("lbu", "gp", base, off + 1), Sb("gp", VAR_A, 3), Lw("gp", VAR_A)>>
    \o shift_right_imm("gp", "gp", 2 * BYTE_BITS, TRUE)
    \o <<Mem("lbu", rd, base, off), Add(rd, rd, "gp")>>

-----------------------------------------------------------------------------
\* Branches: the target and the fall-through are put side by side below sp, and
\* tp (0 or 1) selects one.

branch_resolve(target, next, one_is_target) ==
    slli("tp", "tp", 2)
    \o <<Add("tp", "sp", "tp"),
         La("gp", IF one_is_target THEN target ELSE next), Sw("gp", VAR_A),
         La("gp", IF one_is_target THEN next ELSE target), Sw("gp", VAR_B),
         Mem("lw", "tp", "tp", -4 * VAR_B), Jalr("x0", "tp")>>

\* tp = 1 when r > 0 does not hold: the sign of r, or of r - 1.
NotPositive(r) ==
    msb("gp", r) \o <<Addi("tp", r, -1)>> \o msb("tp", "tp")
    \o <<Add("gp", "gp", "tp"), La("tp", Or1), Add("tp", "gp", "tp"), Mem("lbu", "tp", "tp", 0)>>

Equal(rs1, rs2) == IF rs2 = "x0" THEN seqz("tp", rs1)
                   ELSE IF rs1 = "x0" THEN seqz("tp", rs2) ELSE seq("tp", rs1, rs2)

beq(rs1, rs2, target, next) == Equal(rs1, rs2) \o branch_resolve(target, next, TRUE)
bne(rs1, rs2, target, next) == Equal(rs1, rs2) \o branch_resolve(target, next, FALSE)

blt(rs1, rs2, target, next) ==
    IF rs2 = "x0" THEN msb("tp", rs1) \o branch_resolve(target, next, TRUE)
    ELSE IF rs1 = "x0" THEN NotPositive(rs2) \o branch_resolve(target, next, FALSE)
    ELSE slt("tp", rs1, rs2) \o branch_resolve(target, next, TRUE)

bge(rs1, rs2, target, next) ==
    IF rs1 = "x0" THEN NotPositive(rs2) \o branch_resolve(target, next, TRUE)
    ELSE slt("tp", rs1, rs2) \o branch_resolve(target, next, FALSE)

bltu(rs1, rs2, target, next) ==
    sltu("tp", rs1, rs2) \o branch_resolve(target, next, TRUE)
bgeu(rs1, rs2, target, next) ==
    sltu("tp", rs1, rs2) \o branch_resolve(target, next, FALSE)

jal(rd, target) == IF rd = "x0" THEN <<La("tp", target), Jalr("x0", "tp")>>
                   ELSE <<La(rd, target), Jalr(rd, rd)>>

\* Pseudo-instructions: the same macros with operands swapped or zero.
neg(rd, rs) == sub(rd, "x0", rs)
snez(rd, rs) == sltu(rd, "x0", rs)
sltz(rd, rs) == msb(rd, rs)
sgt(rd, rs1, rs2) == slt(rd, rs2, rs1)
sgtu(rd, rs1, rs2) == sltu(rd, rs2, rs1)
sgtz(rd, rs) == slt(rd, "x0", rs)
beqz(rs, target, next) == beq(rs, "x0", target, next)
bnez(rs, target, next) == bne(rs, "x0", target, next)
blez(rs, target, next) == bge("x0", rs, target, next)
bgez(rs, target, next) == bge(rs, "x0", target, next)
bltz(rs, target, next) == blt(rs, "x0", target, next)
bgtz(rs, target, next) == blt("x0", rs, target, next)
bgt(rs, rt, target, next) == blt(rt, rs, target, next)
ble(rs, rt, target, next) == bge(rt, rs, target, next)
bgtu(rs, rt, target, next) == bltu(rt, rs, target, next)
bleu(rs, rt, target, next) == bgeu(rt, rs, target, next)
=============================================================================
