-------------------------------- MODULE Int64 --------------------------------
(***************************************************************************)
(* Double-word arithmetic for machines that lack it: the division of       *)
(* klib's int64.c, and the product and the shift of the libgcc of the npc  *)
(* platform.  A double word is a pair of words of WORD_BITS bits; every    *)
(* sum, difference and shift wraps at its width.                           *)
(***************************************************************************)
EXTENDS Integers, Sequences, SequencesExt

CONSTANTS WORD_BITS       \* bits of si_int, a power of two

Radix == 2^WORD_BITS
DWord == 0 .. Radix^2 - 1
High(x) == x \div Radix
Low(x) == x % Radix
Make(high, low) == high * Radix + low

Shl(x, k) == (x * 2^k) % Radix
Shr(x, k) == x \div 2^k
PowerOf2(x) == \E k \in 0 .. WORD_BITS - 1 : x = 2^k

-----------------------------------------------------------------------------
\* Counting zeros by halving: WORD_BITS/2, ..., 2, then the last two bits.

Halves == [i \in 1 .. WORD_BITS |-> WORD_BITS \div 2^i]
HalvesAbove1 == SelectSeq(Halves, LAMBDA h : h > 1)

clzsi2(a) ==
    LET Halve(s, h) == LET t == IF Shr(s.x, h) % 2^h = 0 THEN h ELSE 0
                       IN  [x |-> Shr(s.x, h - t), r |-> s.r + t]
        s == FoldLeft(Halve, [x |-> a, r |-> 0], HalvesAbove1)
    IN  s.r + (IF s.x < 2 THEN 2 - s.x ELSE 0)

ctzsi2(a) ==
    LET Halve(s, h) == LET t == IF s.x % 2^h = 0 THEN h ELSE 0
                       IN  [x |-> Shr(s.x, t), r |-> s.r + t]
        s == FoldLeft(Halve, [x |-> a, r |-> 0], HalvesAbove1)
        x == s.x % 4
    IN  s.r + (IF x % 2 = 0 THEN 2 - x \div 2 ELSE 0)

clzdi2(a) == IF High(a) = 0 THEN clzsi2(Low(a)) + WORD_BITS ELSE clzsi2(High(a))
ctzdi2(a) == IF Low(a) = 0 THEN ctzsi2(High(a)) + WORD_BITS ELSE ctzsi2(Low(a))

-----------------------------------------------------------------------------
\* Division.  The dividend n shifted by sr against the remainder register r:
\* n << (2*WORD_BITS - sr) in q and n >> sr in r, word by word.

Aligned(n, sr) ==
    IF sr = WORD_BITS THEN [q |-> Make(Low(n), 0), r |-> High(n)]
    ELSE IF sr < WORD_BITS
    THEN [q |-> Make(Shl(Low(n), WORD_BITS - sr), 0),
          r |-> Make(Shr(High(n), sr),
                     Shl(High(n), WORD_BITS - sr) + Shr(Low(n), sr))]
    ELSE [q |-> Make(Shl(High(n), 2 * WORD_BITS - sr) + Shr(Low(n), sr - WORD_BITS),
                     Shl(Low(n), 2 * WORD_BITS - sr)),
          r |-> Shr(High(n), sr - WORD_BITS)]

\* One turn of the loop: r:q << 1 with the last carry entering q, and d taken
\* from r when r >= d, which the sign of d - r - 1 tells.
DivStep(d, s) ==
    LET r == (2 * s.r + s.q \div (Radix^2 \div 2)) % Radix^2
        q == (2 * s.q + s.carry) % Radix^2
        carry == IF (d - r - 1) % Radix^2 >= Radix^2 \div 2 THEN 1 ELSE 0
    IN  [q |-> q, r |-> (r - carry * d) % Radix^2, carry |-> carry]

ShiftSubtract(n, d, sr) ==
    LET start == [carry |-> 0, q |-> Aligned(n, sr).q, r |-> Aligned(n, sr).r]
        end == FoldLeft(LAMBDA s, i : DivStep(d, s), start, [i \in 1 .. sr |-> i])
    IN  <<(2 * end.q + end.carry) % Radix^2, end.r>>

\* <<quotient, remainder>>: the shortcuts by the words that are zero, a power of
\* two as divisor, a divisor with more digits, then the loop.  A divisor of 0
\* is undefined.
udivmoddi4(n, d) ==
    LET nh == High(n)  nl == Low(n)  dh == High(d)  dl == Low(d)
        ahead == clzsi2(dh) - clzsi2(nh)
    IN  IF nh = 0
        THEN IF dh = 0 THEN <<nl \div dl, nl % dl>> ELSE <<0, nl>>
        ELSE IF dl = 0
        THEN IF nl = 0 THEN <<nh \div dh, Make(nh % dh, 0)>>
             ELSE IF PowerOf2(dh) THEN <<Shr(nh, ctzsi2(dh)), Make(nh % dh, nl)>>
             ELSE IF ahead \notin 0 .. WORD_BITS - 2 THEN <<0, n>>
             ELSE ShiftSubtract(n, d, ahead + 1)
        ELSE IF dh = 0
        THEN IF PowerOf2(dl)
             THEN LET sr == ctzsi2(dl)
                  IN  << IF dl = 1 THEN n
                         ELSE Make(Shr(nh, sr), Shl(nh, WORD_BITS - sr) + Shr(nl, sr)),
                         nl % dl >>
             ELSE ShiftSubtract(n, d, 1 + WORD_BITS + clzsi2(dl) - clzsi2(nh))
        ELSE IF ahead \notin 0 .. WORD_BITS - 1 THEN <<0, n>>
        ELSE ShiftSubtract(n, d, ahead + 1)

Negative(x) == x >= Radix^2 \div 2
NegateIf(cond, x) == IF cond THEN (0 - x) % Radix^2 ELSE x
Magnitude(x) == NegateIf(Negative(x), x)

divdi3(a, b) == NegateIf(Negative(a) # Negative(b), udivmoddi4(Magnitude(a), Magnitude(b))[1])
moddi3(a, b) == NegateIf(Negative(a), udivmoddi4(Magnitude(a), Magnitude(b))[2])
divmoddi4(a, b) == <<divdi3(a, b), (a - divdi3(a, b) * b) % Radix^2>>

-----------------------------------------------------------------------------
\* Product and left shift (libgcc).

\* The do loop of __multi3 over the bits of v_low; high is the part of u that
\* the shifts have pushed out of u_low, with w.high already added to it.
RECURSIVE MulLow(_, _, _, _, _)
MulLow(u, v, high, wh, wl) ==
    LET sum == (wl + u) % Radix
        take == v % 2 = 1
        wl2 == IF take THEN sum ELSE wl
        wh2 == IF take THEN ((IF sum < wl THEN 1 ELSE 0) + high + wh) % Radix ELSE wh
        high2 == u \div (Radix \div 2) + Shl(high, 1)
    IN  IF v \div 2 = 0 THEN Make(wh2, wl2)
        ELSE MulLow(Shl(u, 1), v \div 2, high2, wh2, wl2)

muluw3(x, y) == (x * y) % Radix

multi3(u, v) ==
    LET w == MulLow(Low(u), Low(v), 0, 0, 0)
        cross == (IF High(u) # 0 THEN muluw3(Low(v), High(u)) ELSE 0)
                 + (IF High(v) # 0 THEN muluw3(Low(u), High(v)) ELSE 0)
    IN  Make((High(w) + cross) % Radix, Low(w))

ashldi3(u, b) ==
    IF b = 0 THEN u
    ELSE IF b >= WORD_BITS THEN Make(Shl(Low(u), b - WORD_BITS), 0)
    ELSE Make(Shl(High(u), b) + Shr(Low(u), WORD_BITS - b), Shl(Low(u), b))
=============================================================================
