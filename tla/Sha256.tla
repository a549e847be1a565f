------------------------------- MODULE Sha256 -------------------------------
(***************************************************************************)
(* How am-kernels/kernels/blockchain/src/sha256.cpp cuts a message into    *)
(* blocks: update keeps what does not fill a block and final pads it.  A   *)
(* digest is a function of the blocks that transform was given, one after  *)
(* the other; they stand for it.  Byte k of the message is the number k.   *)
(***************************************************************************)
EXTENDS Integers, Sequences

CONSTANTS BLOCK_SIZE,   \* SHA224_256_BLOCK_SIZE
          Lens,         \* bytes of a call of update
          Updates       \* calls of update for one message

\* A block has room for the mark and for eight bytes of length.
ShaAssumption == BLOCK_SIZE \in Nat /\ BLOCK_SIZE > 9 /\ Lens \subseteq Nat

VARIABLES m_block,      \* two blocks; what init leaves there is any byte
          m_len, m_tot_len,
          transformed,  \* the blocks that transform has been given
          fed,          \* bytes of the message so far
          updates,      \* calls of update so far
          at            \* "init", "update" or "final"

shaVars == <<m_block, m_len, m_tot_len, transformed, fed, updates, at>>

Garbage == -1
Zero    == 0
Mark    == -128
LengthByte(bits, k) == <<bits, k>>      \* byte k of SHA2_UNPACK32(bits, ...)

Bytes(n, c) == [k \in 1 .. n |-> c]

\* memcpy into m_block, from place p on.
Copy(block, p, bytes) ==
    [k \in DOMAIN block |-> IF k > p /\ k <= p + Len(bytes) THEN bytes[k - p] ELSE block[k]]

Blocks(bytes) == [b \in 1 .. Len(bytes) \div BLOCK_SIZE |->
                    SubSeq(bytes, (b - 1) * BLOCK_SIZE + 1, b * BLOCK_SIZE)]

----------------------------------------------------------------------------
init == /\ at = "init" /\ at' = "update"
        /\ m_block' = Bytes(2 * BLOCK_SIZE, Garbage)
        /\ m_len' = 0 /\ m_tot_len' = 0 /\ transformed' = <<>>
        /\ fed' = 0 /\ updates' = 0

\* Too little for a block: it is kept.
Keeps(message) ==
    /\ m_len + Len(message) < BLOCK_SIZE
    /\ m_block' = Copy(m_block, m_len, message)
    /\ m_len' = m_len + Len(message)
    /\ UNCHANGED <<transformed, m_tot_len>>

\* The kept bytes are filled up and transformed, whole blocks of the message
\* after them, and what is left is kept.
\* A variant: one block of the message fewer is counted.
Passes_uncounted(message) ==
    LET rem     == BLOCK_SIZE - m_len
        shifted == SubSeq(message, rem + 1, Len(message))
    IN /\ m_len + Len(message) >= BLOCK_SIZE
       /\ transformed' = transformed
             \o <<SubSeq(m_block, 1, m_len) \o SubSeq(message, 1, rem)>> \o Blocks(shifted)
       /\ m_len' = Len(shifted) % BLOCK_SIZE
       /\ m_block' = Copy(Copy(m_block, m_len, SubSeq(message, 1, rem)), 0,
                          SubSeq(shifted, Len(shifted) - m_len' + 1, Len(shifted)))
       /\ m_tot_len' = m_tot_len + BLOCK_SIZE * (Len(shifted) \div BLOCK_SIZE)

Passes(message) ==
    LET rem     == BLOCK_SIZE - m_len
        shifted == SubSeq(message, rem + 1, Len(message))
    IN /\ m_len + Len(message) >= BLOCK_SIZE
       /\ transformed' = transformed
             \o <<SubSeq(m_block, 1, m_len) \o SubSeq(message, 1, rem)>> \o Blocks(shifted)
       /\ m_len' = Len(shifted) % BLOCK_SIZE
       /\ m_block' = Copy(Copy(m_block, m_len, SubSeq(message, 1, rem)), 0,
                          SubSeq(shifted, Len(shifted) - m_len' + 1, Len(shifted)))
       /\ m_tot_len' = m_tot_len + BLOCK_SIZE * (Len(shifted) \div BLOCK_SIZE + 1)

update(len) == /\ at = "update" /\ updates < Updates
               /\ LET message == [k \in 1 .. len |-> fed + k]
                  IN  Keeps(message) \/ Passes(message)
               /\ fed' = fed + len /\ updates' = updates + 1 /\ UNCHANGED at

\* One block more when the mark and the length do not fit.
Padding == IF BLOCK_SIZE - 9 < m_len % BLOCK_SIZE THEN 2 ELSE 1

\* The mark behind the kept bytes, zeros, and the length at the end.
PaddedBlock(pm_len, len_b) ==
    LET zeroed == Copy(m_block, m_len, Bytes(pm_len - m_len, Zero))
    IN  Copy(Copy(zeroed, m_len, <<Mark>>), pm_len - 4, [k \in 1 .. 4 |-> LengthByte(len_b, k)])

final == /\ at = "update" /\ at' = "final"
         /\ LET pm_len == Padding * BLOCK_SIZE
            IN /\ m_block' = PaddedBlock(pm_len, 8 * (m_tot_len + m_len))
               /\ transformed' = transformed \o Blocks(SubSeq(m_block', 1, pm_len))
         /\ UNCHANGED <<m_len, m_tot_len, fed, updates>>

ShaInit == /\ at = "init" /\ m_block = Bytes(2 * BLOCK_SIZE, Garbage)
           /\ m_len = 0 /\ m_tot_len = 0 /\ transformed = <<>> /\ fed = 0 /\ updates = 0

ShaNext == \/ init
           \/ \E len \in Lens : update(len)
           \/ final

ShaSpec == ShaInit /\ [][ShaNext]_shaVars

----------------------------------------------------------------------------
\* The blocks of a message as the standard has them.
ZeroBytes(n) == CHOOSE z \in 0 .. BLOCK_SIZE - 1 : (n + 1 + z + 8) % BLOCK_SIZE = 0
Padded(n) == [k \in 1 .. n |-> k] \o <<Mark>> \o Bytes(ZeroBytes(n) + 4, Zero)
             \o [k \in 1 .. 4 |-> LengthByte(8 * n, k)]

\* However a message is handed over, in pieces that end before, at and behind
\* the end of a block, its digest is that of the standard's blocks: no byte is
\* lost, repeated or left over from before (sha256.cpp:73, 95).
BlocksOfStandard == at = "final" => transformed = Blocks(Padded(fed))

\* What holds at every moment of a message: the blocks so far are its first ones,
\* and what is kept follows them.
ShaTypes == /\ m_block \in [1 .. 2 * BLOCK_SIZE -> Int]
            /\ m_len \in 0 .. BLOCK_SIZE - 1 /\ fed \in Nat /\ fed = m_tot_len + m_len
            /\ Len(transformed) \in Nat
ShaInv ==
    /\ at = "update" =>
         /\ ShaTypes
         /\ m_tot_len = BLOCK_SIZE * Len(transformed)
         /\ transformed = Blocks([k \in 1 .. m_tot_len |-> k])
         /\ \A k \in 1 .. m_len : m_block[k] = m_tot_len + k
    /\ BlocksOfStandard
=============================================================================
