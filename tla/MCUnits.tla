------------------------------- MODULE MCUnits -------------------------------
(***************************************************************************)
(* The parts that only compute, one evaluation per behaviour: a unit, what *)
(* it is given and what it gives.                                          *)
(*   execute    decoder, ALU and branch decision (IDU.sv, ALU.sv, PCN.sv)  *)
(*   generate   the immediate of a word (IMMGen.sv)                        *)
(*   memory     a store and then a load (MemControl.sv)                    *)
(*   int64      double-word division, product, shift and counts            *)
(*   minirv     one macro of the minirv tool chain                         *)
(***************************************************************************)
EXTENDS IDU, ALU, Bitwise

CONSTANTS Units,          \* the units this run evaluates
          MEM_WIDTH, BYTE, RAM_SIZE,
          Values,         \* what is stored, and the fill of the memory
          WORD_BITS,      \* bits of a word of int64.c
          BYTE_BITS,      \* bits of a byte of the minirv macros
          Operands        \* values of their operands

M == INSTANCE MemControl WITH DATA_WIDTH <- MEM_WIDTH
I == INSTANCE Int64
V == INSTANCE MiniRv

VARIABLES unit, given, got
unitVars == <<unit, given, got>>

Pending == <<>>

-----------------------------------------------------------------------------
\* What RV64I says the register, immediate and branch instructions compute, on
\* words of DATA_WIDTH bits, in plain arithmetic, and where its formats keep the
\* bits of an immediate.

Flag(P) == IF P THEN 1 ELSE 0

\* The full-width operations: funct3, "alternative" (funct7 or funct6 says
\* subtract, or shift in the sign).
Full(f3, alternative, a, b) ==
    LET sh == b % DATA_WIDTH
    IN  CASE f3 = 0 -> (IF alternative THEN a - b ELSE a + b) % WORDS
          [] f3 = 1 -> (a * 2^sh) % WORDS
          [] f3 = 2 -> Flag(Signed(DATA_WIDTH, a) < Signed(DATA_WIDTH, b))
          [] f3 = 3 -> Flag(a < b)
          [] f3 = 4 -> a ^^ b
          [] f3 = 5 -> ((IF alternative THEN Signed(DATA_WIDTH, a) ELSE a) \div 2^sh) % WORDS
          [] f3 = 6 -> a | b
          [] OTHER  -> a & b

\* The half-width operations: the same on the low halves, sign-extended.
HalfOp(f3, alternative, a, b) ==
    LET x  == a % HALF_WORDS
        y  == b % HALF_WORDS
        sh == b % HALF_WIDTH
        r  == CASE f3 = 0 -> IF alternative THEN x - y ELSE x + y
                [] f3 = 1 -> x * 2^sh
                [] OTHER  -> (IF alternative THEN Signed(HALF_WIDTH, x) ELSE x) \div 2^sh
    IN  Signed(HALF_WIDTH, r % HALF_WORDS) % WORDS

BranchTaken(f3, a, b) ==
    CASE f3 = 0 -> a = b
      [] f3 = 1 -> a # b
      [] f3 = 4 -> Signed(DATA_WIDTH, a) < Signed(DATA_WIDTH, b)
      [] f3 = 5 -> Signed(DATA_WIDTH, a) >= Signed(DATA_WIDTH, b)
      [] f3 = 6 -> a < b
      [] OTHER  -> a >= b

\* Where each format keeps bit k of its immediate.
FormatOf(op) ==
    CASE op \in {"Ity", "I64ty", "Load", "Jalr"} -> "I"
      [] op = "Store"            -> "S"
      [] op = "Branch"           -> "B"
      [] op \in {"Auipc", "Lui"} -> "U"
      [] op = "Jal"              -> "J"
      [] OTHER                   -> "R"

\* The sign, which the bits from Top on repeat, is bit 31 of the word.
Top(format) == CASE format \in {"I", "S"} -> 11 [] format = "B" -> 12
                 [] format = "J" -> 20 [] OTHER -> 31

\* The place of a bit below the sign.
Place(format, k) ==
    CASE format = "I" -> 20 + k
      [] format = "S" -> IF k < 5 THEN 7 + k ELSE 20 + k
      [] format = "B" -> IF k = 11 THEN 7 ELSE IF k < 5 THEN 7 + k ELSE 20 + k
      [] format = "J" -> IF k = 11 THEN 20 ELSE IF k < 11 THEN 20 + k ELSE k
      [] format = "U" -> k

\* The bits that a format has no room for.
Absent(format, k) == \/ format = "R"
                     \/ format \in {"B", "J"} /\ k = 0
                     \/ format = "U" /\ k < 12

-----------------------------------------------------------------------------
\* execute, generate.

\* <<opcode, funct3, funct7>> of the legal instructions.  33 is SRAI with a
\* shift amount above 31: funct6 is 16 and funct7 is not 32.
Legal ==
    ({"Rty"} \X (0 .. 7) \X {0}) \cup ({"Rty"} \X {0, 5} \X {32})
    \cup ({"Ity"} \X (0 .. 7) \X {0, 1}) \cup ({"Ity"} \X {5} \X {32, 33})
    \cup ({"R64ty", "I64ty"} \X {0, 1, 5} \X {0}) \cup ({"R64ty", "I64ty"} \X {5} \X {32})
    \cup ({"R64ty"} \X {0} \X {32}) \cup ({"I64ty"} \X {0} \X {1, 32})
    \cup ({"Branch"} \X {0, 1, 4, 5, 6, 7} \X {0, 32})

InitExecute ==
    \E l \in Legal, a \in Word, b \in Word :
        given = [inst |-> [ZeroInst EXCEPT !.opcode = l[1], !.funct3 = l[2], !.funct7 = l[3]],
                 a |-> a, b |-> b]

\* IMMGen moves and repeats bits, so words with one odd bit tell any two
\* routings apart.
OddBits == {{j, k} : j, k \in WordBits} \cup {{}}
Word32(op, odd, rest) ==
    [opcode |-> op, bit |-> [k \in WordBits |-> IF k \in odd THEN 1 - rest ELSE rest]]

InitGenerate ==
    \E op \in Opcodes \cup {"Undef"}, odd \in OddBits, rest \in {0, 1} :
        given = Word32(op, odd, rest)

Execute ==
    got' = [C |-> AluC(given.a, given.b, AluOp(given.inst)),
            take |-> take_branch(given.inst.funct3,
                                 AluCmp(given.a, given.b, AluOp(given.inst)))]

Generate == got' = imme(given)

Op == given.inst.opcode
Alternative == IF Op \in {"Rty", "R64ty"} \/ given.inst.funct3 = 5
               THEN given.inst.funct7 \in {32, 33} ELSE FALSE
ShiftsHalfLeft == Op \in {"R64ty", "I64ty"} /\ given.inst.funct3 = 1
Done(u) == unit = u /\ got # Pending

\* Decoding and computing agree with the manual for every operation but the
\* half-width left shift (IDU.sv aluop, ALU.sv C).
ComputesRv64 ==
    Done("execute") /\ ~ ShiftsHalfLeft =>
        /\ Op \in {"Rty", "Ity"} =>
               got.C = Full(given.inst.funct3, Alternative, given.a, given.b)
        /\ Op \in {"R64ty", "I64ty"} =>
               got.C = HalfOp(given.inst.funct3, Alternative, given.a, given.b)

\* A branch is taken exactly when the manual says so (ALU.sv cmp, PCN.sv).
BranchesRv64 ==
    Done("execute") /\ Op = "Branch" =>
        got.take = BranchTaken(given.inst.funct3, given.a, given.b)

\* Every bit of the immediate comes from the place where the format keeps it,
\* the sign fills the rest, and formats without one give 0: what the field imm
\* of an instruction stands for in the other modules (IMMGen.sv).
GathersImmediate ==
    Done("generate") =>
        \A k \in 0 .. 63 :
            LET format == FormatOf(given.opcode)
            IN  got[64 - k] = IF Absent(format, k) THEN 0
                              ELSE IF k >= Top(format) THEN given.bit[31]
                              ELSE given.bit[Place(format, k)]

\* tests/bit.c:7 "uint8_t mask = 1 << offset;": SLLW shifts to the left.
SllwShifts ==
    Done("execute") /\ ShiftsHalfLeft =>
        got.C = HalfOp(given.inst.funct3, Alternative, given.a, given.b)

-----------------------------------------------------------------------------
\* memory: a store and then a load, of every width at every address, over a
\* memory that is not empty.

InitMemory ==
    \E fill \in {0, 2^BYTE - 1}, saddr \in M!PAddrs, swid \in 0 .. 7, sdata \in Values,
       laddr \in M!PAddrs, lwid \in 0 .. 6 :
        given = [fill |-> fill, saddr |-> saddr, swid |-> swid, sdata |-> sdata,
                 laddr |-> laddr, lwid |-> lwid]

Before == [a \in M!PAddrs |-> given.fill]

StoreLoad ==
    got' = << M!MemRead(M!MemWrite(Before, given.saddr, given.swid, given.sdata),
                        given.laddr, given.lwid) >>

\* The alignment rule of RV64: the address is a multiple of the width.
WidthOf(wid) == <<1, 2, 4, 8, 1, 2, 4>>[wid + 1]
LegalStore == given.swid < 4 /\ given.saddr % WidthOf(given.swid) = 0

\* The range of a load of n bytes, as integers.
InRange(x, n, signed) ==
    LET m == 2^(BYTE * n)
    IN  IF signed THEN 2 * x >= -m /\ 2 * x < m ELSE x >= 0 /\ x < m

\* A store and a load of one width at one aligned address: the load returns the
\* stored value, cut to the width and extended by the kind of load, whatever
\* was in memory before (MemControl.sv:39-107).  Stated without bytes, as the
\* one value of its range that is congruent to what was stored.
LoadReturnsStore ==
    Done("memory") /\ LegalStore /\ given.laddr = given.saddr
        /\ WidthOf(given.lwid) = WidthOf(given.swid) =>
        LET x == IF given.lwid < 4 THEN Signed(MEM_WIDTH, got[1]) ELSE got[1]
        IN  /\ InRange(x, WidthOf(given.lwid), given.lwid < 4)
            /\ (x - given.sdata) % 2^(BYTE * WidthOf(given.lwid)) = 0

\* A load that has no byte in common with the store, or comes after a store that
\* is not aligned, reads what was there before: no width touches a neighbour
\* and a misaligned store has no effect at all (MemControl.sv:39-69).
OtherBytesKept ==
    Done("memory")
        /\ (LegalStore => \/ given.laddr + WidthOf(given.lwid) <= given.saddr
                          \/ given.saddr + WidthOf(given.swid) <= given.laddr)
        /\ given.laddr + WidthOf(given.lwid) <= 2^RAM_SIZE
    => got[1] = M!MemRead(Before, given.laddr, given.lwid)

-----------------------------------------------------------------------------
\* int64: one dividend against every divisor.

Divisors == I!DWord \ {0}
Shifts == 0 .. 2 * WORD_BITS - 1

InitInt64 == given \in I!DWord

Arithmetic ==
    got' = [udivmod |-> [d \in Divisors |-> I!udivmoddi4(given, d)],
            divmod  |-> [d \in Divisors |-> I!divmoddi4(given, d)],
            mod     |-> [d \in Divisors |-> I!moddi3(given, d)],
            mul     |-> [d \in I!DWord |-> I!multi3(given, d)],
            shl     |-> [k \in Shifts |-> I!ashldi3(given, k)],
            clz     |-> I!clzdi2(given),
            ctz     |-> I!ctzdi2(given)]

DMod == 2^(2 * WORD_BITS)
AsSigned(x) == Signed(2 * WORD_BITS, x)
Size(x) == IF x < 0 THEN -x ELSE x
SignOf(x) == IF x < 0 THEN -1 ELSE 1

\* The shortcuts and the loop of __udivmoddi4 agree with division, and the
\* signed forms round towards zero with a remainder that has the sign of the
\* dividend, the most negative dividend included (int64.c:355-620).
DivisionCorrect ==
    Done("int64") =>
        \A d \in Divisors :
            LET x == AsSigned(given)
                y == AsSigned(d)
                q == SignOf(x) * SignOf(y) * (Size(x) \div Size(y))
                r == x - q * y
            IN  /\ got.udivmod[d] = <<given \div d, given % d>>
                /\ got.divmod[d] = <<q % DMod, r % DMod>>
                /\ got.mod[d] = r % DMod

\* Products and shifts are those of the integers, cut to a double word: no carry
\* between the words is lost (multi3.c, ashldi3.c).
ProductCorrect ==
    Done("int64") =>
        /\ \A v \in I!DWord : got.mul[v] = (given * v) % DMod
        /\ \A k \in Shifts : got.shl[k] = (given * 2^k) % DMod

\* The counts of zeros name the highest and the lowest bit set (int64.c:626-717).
CountsZeros ==
    Done("int64") /\ given # 0 =>
        /\ given \div 2^(2 * WORD_BITS - 1 - got.clz) = 1
        /\ given % 2^got.ctz = 0 /\ (given \div 2^got.ctz) % 2 = 1

-----------------------------------------------------------------------------
\* minirv: a macro, its registers, and two values, x in s0 and a0 and y in s1
\* and a1.

Arith3 == {"sub", "slt", "sltu", "and", "or", "xor", "sll", "srl", "sra", "sgt", "sgtu"}
Immediate == {"slti", "sltiu", "andi", "ori", "xori"}
ShiftImm == {"slli", "srli", "srai"}
Unary == {"not", "neg", "seqz", "snez", "sltz", "sgtz"}
Branches2 == {"beq", "bne", "blt", "bge", "bltu", "bgeu", "bgt", "ble", "bgtu", "bleu"}
Branches1 == {"beqz", "bnez", "blez", "bgez", "bltz", "bgtz"}
Branches == Branches1 \cup Branches2
Loads == {"lb", "lh", "lhu"}
Dest == {"a0", "s0", "s1", "x0"}
Left == {"a0", "s0", "x0"}
Right == {"a1", "s1", "s0", "x0"}

Macro(op, rd, rs1, rs2, x, y, imm) ==
    [op |-> op, rd |-> rd, rs1 |-> rs1, rs2 |-> rs2, x |-> x, y |-> y, imm |-> imm]

MacroCalls ==
    {Macro(op, rd, r1, r2, x, y, 0) :
        op \in Arith3, rd \in Dest, r1 \in Left, r2 \in Right, x \in Operands, y \in Operands}
    \cup {Macro(op, rd, r1, "tp", x, 1, i) :
        op \in Immediate, rd \in Dest, r1 \in Left, x \in Operands, i \in Operands}
    \cup {Macro(op, rd, r1, "tp", x, 1, i) :
        op \in ShiftImm, rd \in Dest, r1 \in Left, x \in Operands, i \in 0 .. V!XLEN - 1}
    \cup {Macro(op, rd, r1, "x0", x, 1, 0) :
        op \in Unary, rd \in Dest, r1 \in Left, x \in Operands}
    \cup {Macro(op, "x0", r1, r2, x, y, 0) :
        op \in Branches2, r1 \in Left, r2 \in Right, x \in Operands, y \in Operands}
    \cup {Macro(op, "x0", r1, "x0", x, 1, 0) : op \in Branches1, r1 \in Left, x \in Operands}
    \cup {Macro(op, rd, base, "x0", x, y, i) :
        op \in Loads, rd \in Dest, base \in {"sp", "a0", "s0"}, x \in {V!SP}, y \in Operands,
        i \in {0, 2}}
    \cup {Macro("sh", "x0", base, r2, V!SP, y, i) :
        base \in {"sp", "a0"}, r2 \in {"a1", "s1", "x0"}, y \in Operands, i \in {0, 2}}
    \cup {Macro("jal", rd, "x0", "x0", 1, 1, 0) : rd \in Dest}

Target == 77
Next4 == 99
Link == 33

\* The word at sp and the one after it hold y.
Start(g) ==
    [reg |-> [r \in V!Reg |-> CASE r \in {"s0", "a0"} -> g.x
                                [] r \in {"s1", "a1"} -> g.y
                                [] r = "sp" -> V!SP
                                [] OTHER -> 5],
     mem |-> [a \in V!Ram |-> IF a >= V!SP THEN V!ByteOf(g.y, a % 4) ELSE a % 2],
     pc |-> 0, link |-> Link]

Program(g) ==
    LET li == <<V!Li("tp", g.imm)>>
    IN  CASE g.op = "sub" -> V!sub(g.rd, g.rs1, g.rs2)
          [] g.op = "slt" -> V!slt(g.rd, g.rs1, g.rs2)
          [] g.op = "sltu" -> V!sltu(g.rd, g.rs1, g.rs2)
          [] g.op = "and" -> V!logic(V!And8, g.rd, g.rs1, g.rs2)
          [] g.op = "or" -> V!logic(V!Or8, g.rd, g.rs1, g.rs2)
          [] g.op = "xor" -> V!logic(V!Xor8, g.rd, g.rs1, g.rs2)
          [] g.op = "sll" -> V!sll(g.rd, g.rs1, g.rs2)
          [] g.op = "srl" -> V!shift_right(g.rd, g.rs1, g.rs2, FALSE)
          [] g.op = "sra" -> V!shift_right(g.rd, g.rs1, g.rs2, TRUE)
          [] g.op = "slti" -> li \o V!slt(g.rd, g.rs1, "tp")
          [] g.op = "sltiu" -> li \o V!sltu(g.rd, g.rs1, "tp")
          [] g.op = "andi" -> li \o V!logic(V!And8, g.rd, g.rs1, "tp")
          [] g.op = "ori" -> li \o V!logic(V!Or8, g.rd, g.rs1, "tp")
          [] g.op = "xori" -> li \o V!logic(V!Xor8, g.rd, g.rs1, "tp")
          [] g.op = "slli" -> V!slli(g.rd, g.rs1, g.imm)
          [] g.op = "srli" -> V!shift_right_imm(g.rd, g.rs1, g.imm, FALSE)
          [] g.op = "srai" -> V!shift_right_imm(g.rd, g.rs1, g.imm, TRUE)
          [] g.op = "not" -> V!not(g.rd, g.rs1)
          [] g.op = "seqz" -> V!seqz(g.rd, g.rs1)
          [] g.op = "neg" -> V!neg(g.rd, g.rs1)
          [] g.op = "snez" -> V!snez(g.rd, g.rs1)
          [] g.op = "sltz" -> V!sltz(g.rd, g.rs1)
          [] g.op = "sgtz" -> V!sgtz(g.rd, g.rs1)
          [] g.op = "sgt" -> V!sgt(g.rd, g.rs1, g.rs2)
          [] g.op = "sgtu" -> V!sgtu(g.rd, g.rs1, g.rs2)
          [] g.op = "beq" -> V!beq(g.rs1, g.rs2, Target, Next4)
          [] g.op = "bne" -> V!bne(g.rs1, g.rs2, Target, Next4)
          [] g.op = "blt" -> V!blt(g.rs1, g.rs2, Target, Next4)
          [] g.op = "bge" -> V!bge(g.rs1, g.rs2, Target, Next4)
          [] g.op = "bltu" -> V!bltu(g.rs1, g.rs2, Target, Next4)
          [] g.op = "bgeu" -> V!bgeu(g.rs1, g.rs2, Target, Next4)
          [] g.op = "beqz" -> V!beqz(g.rs1, Target, Next4)
          [] g.op = "bnez" -> V!bnez(g.rs1, Target, Next4)
          [] g.op = "blez" -> V!blez(g.rs1, Target, Next4)
          [] g.op = "bgez" -> V!bgez(g.rs1, Target, Next4)
          [] g.op = "bltz" -> V!bltz(g.rs1, Target, Next4)
          [] g.op = "bgtz" -> V!bgtz(g.rs1, Target, Next4)
          [] g.op = "bgt" -> V!bgt(g.rs1, g.rs2, Target, Next4)
          [] g.op = "ble" -> V!ble(g.rs1, g.rs2, Target, Next4)
          [] g.op = "bgtu" -> V!bgtu(g.rs1, g.rs2, Target, Next4)
          [] g.op = "bleu" -> V!bleu(g.rs1, g.rs2, Target, Next4)
          [] g.op = "lb" -> V!lb(g.rd, g.rs1, g.imm)
          [] g.op = "lh" -> V!lh(g.rd, g.rs1, g.imm)
          [] g.op = "lhu" -> V!lhu(g.rd, g.rs1, g.imm)
          [] g.op = "sh" -> V!sh(g.rs2, g.rs1, g.imm)
          [] g.op = "jal" -> V!jal(g.rd, Target)

InitMiniRv == given \in MacroCalls

Expand == got' = V!Run(Start(given), Program(given))

XMod == 2^V!XLEN
Rs1 == V!Value(Start(given), given.rs1)
Rs2 == IF given.rs2 = "tp" THEN given.imm % XMod ELSE V!Value(Start(given), given.rs2)
Bool(p) == IF p THEN 1 ELSE 0
ShiftBy == Rs2 % V!XLEN
Half(k) == V!ByteOf(given.y, k) + V!Radix * V!ByteOf(given.y, k + 1)
SignExtend(v, bits) == IF v >= 2^(bits - 1) THEN XMod - 2^bits + v ELSE v

\* What RV32I, at this width, puts into rd.
Result ==
    CASE given.op = "sub" -> (Rs1 - Rs2) % XMod
      [] given.op \in {"slt", "slti"} -> Bool(V!Signed(Rs1) < V!Signed(Rs2))
      [] given.op \in {"sltu", "sltiu"} -> Bool(Rs1 < Rs2)
      [] given.op \in {"and", "andi"} -> Rs1 & Rs2
      [] given.op \in {"or", "ori"} -> Rs1 | Rs2
      [] given.op \in {"xor", "xori"} -> Rs1 ^^ Rs2
      [] given.op \in {"sll", "slli"} -> (Rs1 * 2^ShiftBy) % XMod
      [] given.op \in {"srl", "srli"} -> Rs1 \div 2^ShiftBy
      [] given.op \in {"sra", "srai"} -> (V!Signed(Rs1) \div 2^ShiftBy) % XMod
      [] given.op = "not" -> XMod - 1 - Rs1
      [] given.op = "neg" -> (0 - Rs1) % XMod
      [] given.op = "seqz" -> Bool(Rs1 = 0)
      [] given.op = "snez" -> Bool(Rs1 # 0)
      [] given.op = "sgtz" -> Bool(V!Signed(Rs1) > 0)
      [] given.op = "sgt" -> Bool(V!Signed(Rs1) > V!Signed(Rs2))
      [] given.op = "sgtu" -> Bool(Rs1 > Rs2)
      [] given.op = "sltz" -> Bool(V!Negative(Rs1))
      [] given.op = "lb" -> SignExtend(V!ByteOf(given.y, given.imm), BYTE_BITS)
      [] given.op = "lh" -> SignExtend(Half(given.imm), 2 * BYTE_BITS)
      [] given.op = "lhu" -> Half(given.imm)
      [] given.op = "jal" -> Link

Taken ==
    CASE given.op \in {"beq", "beqz"} -> Rs1 = Rs2
      [] given.op \in {"bne", "bnez"} -> Rs1 # Rs2
      [] given.op \in {"blt", "bltz"} -> V!Signed(Rs1) < V!Signed(Rs2)
      [] given.op \in {"bge", "bgez"} -> V!Signed(Rs1) >= V!Signed(Rs2)
      [] given.op \in {"bgt", "bgtz"} -> V!Signed(Rs1) > V!Signed(Rs2)
      [] given.op \in {"ble", "blez"} -> V!Signed(Rs1) <= V!Signed(Rs2)
      [] given.op = "bltu" -> Rs1 < Rs2
      [] given.op = "bgeu" -> Rs1 >= Rs2
      [] given.op = "bgtu" -> Rs1 > Rs2
      [] given.op = "bleu" -> Rs1 <= Rs2

SeqzIntoS0 == given.op = "seqz" /\ given.rd = "s0"

\* Every macro computes its instruction, whichever registers coincide: results,
\* branch directions and the target of a jump (inst-replace.h).
MacrosCompute ==
    Done("minirv") /\ ~ SeqzIntoS0 =>
        /\ given.op \in Branches => got.pc = IF Taken THEN Target ELSE Next4
        /\ given.op = "jal" => got.pc = Target
        /\ given.op \notin Branches \cup {"sh"} /\ given.rd # "x0" =>
               got.reg[given.rd] = Result

\* And it disturbs nothing else: every register but rd, tp and gp keeps its
\* value, and so does every byte at or above sp that a store does not name
\* (inst-replace.h:5-11).
MacrosPreserve ==
    Done("minirv") =>
        LET start == Start(given)
            stored == IF given.op = "sh" THEN {V!SP + given.imm, V!SP + given.imm + 1} ELSE {}
        IN  /\ \A r \in V!Reg \ {given.rd, "tp", "gp"} : got.reg[r] = start.reg[r]
            /\ \A a \in {k \in V!Ram : k >= V!SP} :
                   got.mem[a] = IF a \in stored THEN V!ByteOf(Rs2, a - V!SP - given.imm)
                                ELSE start.mem[a]

\* inst-replace.h:255 ".macro seqz rd, rs1   # set if 0", for every rd.
SeqzSetsIfZero ==
    Done("minirv") /\ SeqzIntoS0 => got.reg[given.rd] = Result

-----------------------------------------------------------------------------
Init ==
    /\ unit \in Units
    /\ got = Pending
    /\ \/ unit = "execute" /\ InitExecute
       \/ unit = "generate" /\ InitGenerate
       \/ unit = "memory" /\ InitMemory
       \/ unit = "int64" /\ InitInt64
       \/ unit = "minirv" /\ InitMiniRv

Evaluate(u) == unit = u /\ got = Pending /\ UNCHANGED <<unit, given>>

Next ==
    \/ Evaluate("execute") /\ Execute
    \/ Evaluate("generate") /\ Generate
    \/ Evaluate("memory") /\ StoreLoad
    \/ Evaluate("int64") /\ Arithmetic
    \/ Evaluate("minirv") /\ Expand

Spec == Init /\ [][Next]_unitVars
=============================================================================
