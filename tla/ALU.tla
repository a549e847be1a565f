-------------------------------- MODULE ALU --------------------------------
(***************************************************************************)
(* The arithmetic unit, vsrc/resource/ALU.sv, for any even DATA_WIDTH (64  *)
(* in the source).  A word is a number in 0 .. 2^DATA_WIDTH - 1.           *)
(***************************************************************************)
EXTENDS Integers

CONSTANT DATA_WIDTH

\* What the provers are not told of powers; TLC evaluates it.
ASSUME PowersOfTwo ==
    /\ DATA_WIDTH \in Nat \ {0} /\ DATA_WIDTH % 2 = 0 /\ 2^0 = 1 /\ 2^1 = 2
    /\ \A m, n \in 0 .. DATA_WIDTH :
          2^m \in Nat \ {0} /\ (m + n <= DATA_WIDTH => 2^(m + n) = 2^m * 2^n)

HALF_WIDTH == DATA_WIDTH \div 2
WORDS      == 2^DATA_WIDTH
HALF_WORDS == 2^HALF_WIDTH

Word == 0 .. WORDS - 1

\* x[i], and the number of w digits of b bits each, digit[0] the lowest.
BitAt(x, i) == (x \div 2^i) % 2
Assemble(w, b, digit) ==
    LET low[n \in 0 .. w] == IF n = 0 THEN 0 ELSE low[n - 1] + digit[n - 1] * 2^(b * (n - 1))
    IN  low[w]

\* utils_pkg.sv: the low w bits of x, sign- or zero-extended to a word, and
\* the two's-complement value of a word of w bits.
Sext(w, x) == IF x >= 2^(w - 1) THEN x + 2^DATA_WIDTH - 2^w ELSE x
Zext(w, x) == x
Signed(w, x) == IF x >= 2^(w - 1) THEN x - 2^w ELSE x

Low(x)  == x % HALF_WORDS
High(x) == x \div HALF_WORDS

----------------------------------------------------------------------------
(* Adder: two halves joined by a carry; every operation but the additions  *)
(* adds the two's complement of B.                                         *)

Rhs(B, op) == IF op \in {"ALU_ADD", "ALU_ADDW"} THEN B
                                                ELSE ((WORDS - 1 - B) + 1) % WORDS

Add32(A, B, op) == (Low(A) + Low(Rhs(B, op))) % HALF_WORDS
Carry(A, B, op) == (Low(A) + Low(Rhs(B, op))) \div HALF_WORDS
Add64(A, B, op) ==
    ((High(A) + High(Rhs(B, op)) + Carry(A, B, op)) % HALF_WORDS) * HALF_WORDS
        + Add32(A, B, op)

----------------------------------------------------------------------------
(* Shifter: one arithmetic right shift of {fillbit, shed}; a left shift    *)
(* reverses the operand before it and the result after it.                 *)

\* Mutant: a half-width shift uses the full shift amount.
Shamt_full(B, op) == B % DATA_WIDTH

Shamt(B, op) == IF op \in {"ALU_SLL", "ALU_SRL", "ALU_SRA"} THEN B % DATA_WIDTH
                                                            ELSE B % HALF_WIDTH

Fillbit(A, op) == CASE op = "ALU_SRA"  -> BitAt(A, DATA_WIDTH - 1)
                    [] op = "ALU_SRAW" -> BitAt(A, HALF_WIDTH - 1)
                    [] OTHER           -> 0

Reversed(w, x) == Assemble(w, 1, [i \in 0 .. w - 1 |-> BitAt(x, w - 1 - i)])

Shed(A, op) == CASE op = "ALU_SLL"  -> Reversed(DATA_WIDTH, A)
                 [] op = "ALU_SLLW" -> Reversed(HALF_WIDTH, A)
                 [] op = "ALU_SRLW" -> Zext(HALF_WIDTH, Low(A))
                 [] op = "ALU_SRAW" -> Sext(HALF_WIDTH, Low(A))
                 [] OTHER           -> A

\* The DATA_WIDTH low bits of $signed({fillbit, shed}) >>> shamt.
Shift(A, B, op) ==
    ((Shed(A, op) - Fillbit(A, op) * WORDS) \div 2^Shamt(B, op)) % WORDS

Shift64(A, B, op) == CASE op = "ALU_SLL"  -> Reversed(DATA_WIDTH, Shift(A, B, op))
                       [] op = "ALU_SLLW" -> Reversed(HALF_WIDTH, A)
                       [] OTHER           -> Shift(A, B, op)

----------------------------------------------------------------------------
(* Bitwise operations, the result multiplexer and the comparison flag      *)

\* A bit of the result is set when the two operand bits add up to one of sums.
Bitwise2(A, B, sums) ==
    Assemble(DATA_WIDTH, 1, [i \in 0 .. DATA_WIDTH - 1 |->
                                IF BitAt(A, i) + BitAt(B, i) \in sums THEN 1 ELSE 0])

Compare(A, B, op) == CASE op = "ALU_EQ"   -> A = B
                       [] op = "ALU_SLT"  -> Signed(DATA_WIDTH, A) < Signed(DATA_WIDTH, B)
                       [] op = "ALU_SLTU" -> A < B
                       [] OTHER           -> FALSE

AluCmp(A, B, op) == IF Compare(A, B, op) THEN 1 ELSE 0

AluC(A, B, op) ==
    CASE op \in {"ALU_ADD", "ALU_SUB"}             -> Add64(A, B, op)
      [] op = "ALU_OR"  -> Bitwise2(A, B, {1, 2})
      [] op = "ALU_AND" -> Bitwise2(A, B, {2})
      [] op = "ALU_XOR" -> Bitwise2(A, B, {1})
      [] op \in {"ALU_SLL", "ALU_SRL", "ALU_SRA"}  -> Shift64(A, B, op)
      [] op \in {"ALU_EQ", "ALU_SLT", "ALU_SLTU"}  -> AluCmp(A, B, op)
      [] op = "ALU_COPY_B"                         -> B
      [] op \in {"ALU_ADDW", "ALU_SUBW"}           -> Sext(HALF_WIDTH, Add32(A, B, op))
      [] op \in {"ALU_SLLW", "ALU_SRLW", "ALU_SRAW"} ->
             Sext(HALF_WIDTH, Low(Shift64(A, B, op)))
      [] OTHER -> 0

----------------------------------------------------------------------------
(* The next-pc choice, vsrc/resource/PCN.sv: whether a branch is taken,    *)
(* from funct3 ("detail") and the comparison flag of the ALU.              *)

\* The even codes branch when the comparison holds, the odd ones when it does
\* not; codes 2 and 3 never do.
take_branch(detail, cmp) == \/ detail \in {0, 4, 6} /\ cmp = 1
                            \/ detail \in {1, 5, 7} /\ cmp = 0

pcn(specinst, detail, cmp, take_target, nonetake_target) ==
    IF specinst \in {"S_JAL", "S_JALR"} \/ (specinst = "S_BR" /\ take_branch(detail, cmp))
    THEN take_target ELSE nonetake_target
=============================================================================
