---------------------------- MODULE DevicesProofs ----------------------------
(***************************************************************************)
(* Proofs about the devices of run devices, for all values of its          *)
(* constants, in the variables s1 .. s14 that MCDevices gives them.        *)
(*                                                                         *)
(* The page tables of x86 keep the promise of AddressSpaces: VmeProofs,    *)
(* through the instance that MCDevices makes.                              *)
(*                                                                         *)
(* What stands in memory before main, X86Tables.  A descriptor is a number *)
(* of which each field is some of the digits; that the processor, which    *)
(* puts the fields together from other digits, gets back what was meant    *)
(* is arithmetic of Digits[n], powers of a base of which the provers know  *)
(* nothing.  The processors are those entries of the MP table that the     *)
(* walk has come to, whose sizes add up to the pointer (Walked).           *)
(*                                                                         *)
(* Keys, characters and sound arrive in order.  For each of the four       *)
(* devices an invariant says what is on its way, piece by piece, between   *)
(* the two sides: which key comes next and how far behind it is            *)
(* (HtifInv, InputInv), whether the last byte of a key that is not read    *)
(* yet agrees with the key (KbdInv), which bytes of the sound are in the   *)
(* pipe and how many the count is off by (AudioInv).                       *)
(*                                                                         *)
(* Slow devices answer right.  The date: the registers read so far are     *)
(* those of the time it is, or the second that was read is not, and the    *)
(* tick is so near that no other comes before the second is read again     *)
(* (DateTold); the estimate began where the hour was as many seconds ago   *)
(* as have passed (EstimateTold).  The disk: each word of memory and each  *)
(* sector has the value it is to have, or a move that will give it is      *)
(* still in the job (Will); the moves that are left agree, since a kernel  *)
(* is linked beside itself and its arguments (Linked).                     *)
(***************************************************************************)
EXTENDS MCDevices, FiniteSetTheorems, SequenceTheorems, TLAPS

----------------------------------------------------------------------------
(* Address spaces                                                          *)

\* While the behaviour is about address spaces, their invariant.
Mapped == part = "vme" => Vme!VmeInv

\* A step of the devices is one of the address spaces, or leaves them alone.
LEMMA OneDeviceSteps ==
    ASSUME [MCNext]_mcVars
    PROVE  /\ part' = part
           /\ part = "vme" => [Vme!VmeNext]_(Vme!vmeVars)
<1>1. CASE UNCHANGED mcVars
  <2>1. UNCHANGED <<part, s1, s2, s3, s4, s5, s6>>
    BY <1>1 DEF mcVars, pool
  <2> QED
    BY <2>1 DEF Vme!vmeVars
<1>2. CASE MCNext
  BY <1>2 DEF MCNext, InVme, InRtc, InDisk, InConsole, InInput, InKbd, InSetup, InAudio
<1> QED
  BY <1>1, <1>2

\* At the start no page is a table, and the promise begins with no space.
LEMMA SpacesStart == MCInit => Mapped /\ (part = "vme" => Vme!Promise!Init)
<1> SUFFICES ASSUME MCInit
             PROVE  Mapped /\ (part = "vme" => Vme!Promise!Init)
  OBVIOUS
<1>1. part = "vme" => Vme!VmeInit
  BY DEF MCInit
<1>2. part = "vme" => Vme!VmeInv /\ Vme!Promise!Init
  BY <1>1, DevicesAssumption, Vme!VmeStarts
<1> QED
  BY <1>2 DEF Mapped

\* A step keeps the invariant, and is one that the promise allows.
LEMMA SpacesKept ==
    ASSUME Mapped, [MCNext]_mcVars
    PROVE  Mapped' /\ (part = "vme" => Vme!PromisedStep /\ Vme!MappedAsAsked)
<1>1. part = "vme" => Vme!VmeInv' /\ Vme!PromisedStep /\ Vme!MappedAsAsked
  BY DevicesAssumption, OneDeviceSteps, Vme!VmeStepKeeps DEF Mapped
<1> QED
  BY <1>1, OneDeviceSteps DEF Mapped

\* What the processor sees of each address space changes with the calls just as they
\* promise, and a page is where the caller asked, with its rights; for any number of
\* levels and entries, any memory and any number of spaces (x86/qemu/vme.c).
THEOREM PromiseKept == MCSpec => SpacesKeepPromise
<1>1. Mapped /\ [MCNext]_mcVars
        => [part = "vme" => Vme!PromisedStep /\ Vme!MappedAsAsked]_mcVars
  BY SpacesKept
<1> QED
  BY <1>1, SpacesStart, SpacesKept, PTL DEF MCSpec, SpacesKeepPromise

----------------------------------------------------------------------------
(* Descriptors: fields are digits of a number                              *)

\* The numbers of n digits are those below D[n].
D == Setup!Digits

\* The numbers of digits are powers.
LEMMA DigitSteps ==
    ASSUME Setup!TablesAssumption
    PROVE  D[0] = 1 /\ \A n \in 0 .. 7 : D[n + 1] = NIBBLE * D[n]
<1> DEFINE Next(a, i) == IF i = 0 THEN 1 ELSE NIBBLE * a[i - 1]
           G == {n \in Nat : \E a : a = [i \in 0 .. n |-> Next(a, i)]}
<1>1. 0 \in G
  <2>1. PICK a : a = [i \in 0 .. 0 |-> 1]
    OBVIOUS
  <2>2. \A i \in 0 .. 0 : i = 0
    OBVIOUS
  <2>3. a = [i \in 0 .. 0 |-> Next(a, i)]
    BY <2>1, <2>2
  <2> QED
    BY <2>3
<1>2. ASSUME NEW n \in Nat, n \in G PROVE n + 1 \in G
  <2>1. PICK a : a = [i \in 0 .. n |-> Next(a, i)]
    BY <1>2
  <2>2. PICK b : b = [i \in 0 .. n + 1 |-> IF i \in 0 .. n THEN a[i] ELSE Next(a, i)]
    OBVIOUS
  <2>3. ASSUME NEW i \in 0 .. n + 1 PROVE b[i] = Next(b, i)
    <3>1. i = 0 \/ i - 1 \in 0 .. n
      OBVIOUS
    <3>2. i # 0 => b[i - 1] = a[i - 1]
      BY <2>2, <3>1
    <3>3. Next(b, i) = Next(a, i)
      BY <3>2
    <3>4. i \in 0 .. n => a[i] = Next(a, i)
      BY <2>1
    <3> HIDE DEF Next
    <3> QED
      BY <2>2, <3>3, <3>4
  <2> HIDE DEF Next
  <2>4. b = [i \in 0 .. n + 1 |-> Next(b, i)]
    BY <2>2, <2>3
  <2> QED
    BY <2>4
<1> HIDE DEF G
<1>3. G = Nat
  BY <1>1, <1>2, Vme!Induction DEF G
<1>4. 8 \in Nat /\ \E a : a = [i \in 0 .. 8 |-> Next(a, i)]
  BY <1>3 DEF G
<1>5. D = [i \in 0 .. 8 |-> Next(D, i)]
  BY <1>4 DEF D, Setup!Digits
<1>6. D[0] = 1
  BY <1>5
<1>7. ASSUME NEW i \in 0 .. 7 PROVE D[i + 1] = NIBBLE * D[i]
  <2>1. i + 1 \in 0 .. 8 /\ i + 1 # 0 /\ (i + 1) - 1 = i
    OBVIOUS
  <2>2. D[i + 1] = Next(D, i + 1)
    BY <1>5, <2>1
  <2> QED
    BY <2>1, <2>2
<1> QED
  BY <1>6, <1>7

\* A word of m + n digits is n digits over m.
LEMMA DigitsMultiply ==
    ASSUME Setup!TablesAssumption
    PROVE  /\ NIBBLE \in Nat \ {0} /\ \A n \in 0 .. 8 : D[n] \in Nat \ {0}
           /\ D[1] = NIBBLE /\ D[4] = D[2] * D[2] /\ D[5] = D[1] * D[4] /\ D[6] = D[2] * D[4]
           /\ D[8] = D[2] * D[6] /\ D[8] = D[5] * D[3] /\ D[8] = D[1] * D[7]
<1>1. PICK N \in Nat \ {0} : N = NIBBLE
  BY DEF Setup!TablesAssumption
<1>2. /\ D[0] = 1 /\ D[0 + 1] = N * D[0] /\ D[1 + 1] = N * D[1] /\ D[2 + 1] = N * D[2]
      /\ D[3 + 1] = N * D[3] /\ D[4 + 1] = N * D[4] /\ D[5 + 1] = N * D[5]
      /\ D[6 + 1] = N * D[6] /\ D[7 + 1] = N * D[7]
  BY <1>1, DigitSteps
<1>3. PICK a, b \in Nat \ {0} : a = N * N /\ b = a * a
  BY <1>1
<1>4. /\ D[0] = 1 /\ D[1] = N /\ D[2] = a /\ D[3] = N * a /\ D[4] = N * (N * a)
      /\ D[5] = N * (N * (N * a)) /\ D[6] = N * (N * (N * (N * a)))
      /\ D[7] = N * (N * (N * (N * (N * a))))
      /\ D[8] = N * (N * (N * (N * (N * (N * a)))))
  BY <1>2, <1>3
<1>5. D[4] = b /\ D[5] = N * b /\ D[6] = a * b /\ D[7] = N * (a * b) /\ D[8] = b * b
  BY <1>3, <1>4
<1>6. \A x, y \in Nat \ {0} : x * y \in Nat \ {0}
  OBVIOUS
<1>7. /\ D[0] \in Nat \ {0} /\ D[1] \in Nat \ {0} /\ D[2] \in Nat \ {0} /\ D[3] \in Nat \ {0}
      /\ D[4] \in Nat \ {0} /\ D[5] \in Nat \ {0} /\ D[6] \in Nat \ {0}
      /\ D[7] \in Nat \ {0} /\ D[8] \in Nat \ {0}
  BY <1>3, <1>4, <1>5, <1>6
<1> QED
  BY <1>1, <1>3, <1>4, <1>5, <1>7

\* A number is its lower digits and those above them.
LEMMA LowAndTop ==
    ASSUME NEW a \in Nat, NEW d \in Nat \ {0}
    PROVE  /\ a % d \in Nat /\ a % d < d /\ a \div d \in Nat /\ a = (a % d) + (a \div d) * d
           /\ a < d => a % d = a /\ a \div d = 0
<1>1. a % d \in Nat /\ a % d < d /\ a \div d \in Nat /\ a = d * (a \div d) + (a % d)
  OBVIOUS
<1>2. a < d => a \div d = 0
  BY Vme!Quotient
<1> QED
  BY <1>1, <1>2

\* The digits above less than all of them are less than the others.
LEMMA TopIsLess ==
    ASSUME NEW a \in Nat, NEW d \in Nat \ {0}, NEW e \in Nat \ {0}, a < e * d
    PROVE  a \div d < e
<1>1. PICK q \in Nat : q = a \div d
  BY LowAndTop
<1>2. a >= d * q
  BY <1>1, LowAndTop
<1>3. ASSUME q >= e PROVE FALSE
  <2>1. d * q >= d * e
    BY <1>3
  <2> QED
    BY <1>2, <2>1
<1> QED
  BY <1>1, <1>3

\* The largest number of digits has the largest of its digits everywhere.
LEMMA LargestOfDigits ==
    ASSUME NEW d \in Nat \ {0}, NEW e \in Nat \ {0}
    PROVE  (d * e - 1) \div d = e - 1 /\ (d * e - 1) % d = d - 1
<1>1. d * e - 1 \in Nat /\ e - 1 \in Nat /\ d - 1 \in Nat
  OBVIOUS
<1>2. d * e - 1 = d * (e - 1) + (d - 1)
  OBVIOUS
<1>3. (d * e - 1) \div d = e - 1
  BY <1>1, <1>2, Vme!Quotient
<1>4. PICK m \in Nat, r \in Nat : m = d * e - 1 /\ r = (d * e - 1) % d
  BY <1>1, LowAndTop
<1>5. m = r + (m \div d) * d
  BY <1>4, LowAndTop
<1>6. m = r + (e - 1) * d /\ m = d * (e - 1) + (d - 1)
  BY <1>2, <1>3, <1>4, <1>5
<1>7. r = d - 1
  BY <1>1, <1>6
<1> QED
  BY <1>3, <1>4, <1>7

\* The processor reads the entry that a gate was made of.
LEMMA GateReads ==
    ASSUME Setup!TablesAssumption, NEW e \in Nat, NEW cs, NEW dpl,
           NEW g, g = Setup!GATE32(Setup!STS_TG, cs, e, dpl)
    PROVE  Setup!Offset(g) = e /\ g.cs = cs /\ g.dpl = dpl
<1>1. PICK d \in Nat \ {0} : d = D[4]
  BY DigitsMultiply
<1>2. g.off_15_0 = e % d /\ g.off_31_16 = e \div d /\ g.cs = cs /\ g.dpl = dpl
  BY <1>1 DEF Setup!GATE32, Setup!Low, Setup!Top, D
<1>3. e = (e % d) + (e \div d) * d
  BY LowAndTop
<1>4. Setup!Offset(g) = (e % d) + (e \div d) * d
  BY <1>1, <1>2 DEF Setup!Offset, D
<1> QED
  BY <1>2, <1>3, <1>4

\* The base that a descriptor was made of.
LEMMA BaseReads ==
    ASSUME Setup!TablesAssumption, NEW b \in 0 .. D[8] - 1, NEW d,
           d.base_15_0 = Setup!Low(b, 4), d.base_23_16 = Setup!Low(Setup!Top(b, 4), 2),
           d.base_31_24 = Setup!Low(Setup!Top(b, 6), 2)
    PROVE  Setup!Base(d) = b
<1>1. PICK p, q, r \in Nat \ {0} : p = D[2] /\ q = D[4] /\ r = D[6]
  BY DigitsMultiply
<1>2. b \in Nat /\ b < p * r /\ r = p * q
  BY <1>1, DigitsMultiply
<1>3. b \div r < p
  BY <1>1, <1>2, TopIsLess
<1>4. PICK t \in Nat : t = b \div q
  BY <1>1, <1>2, LowAndTop
<1>5. t = p * (b \div r) + (t % p)
  <2>1. /\ b \div q = p * (b \div (p * q)) + ((b \div q) % p)
        /\ b \div q \in Nat /\ (b \div q) % p \in 0 .. p - 1
    BY <1>2, Vme!HigherDigits, Zenon
  <2> QED
    BY <1>2, <1>4, <2>1
<1>6. (b \div r) % p = b \div r /\ b \div r \in Nat
  BY <1>1, <1>2, <1>3, LowAndTop
<1>7. b = (b % q) + t * q /\ t % p \in Nat /\ b % q \in Nat
  BY <1>1, <1>2, <1>4, LowAndTop
<1>8. PICK x, y, z \in Nat : x = b % q /\ y = t % p /\ z = b \div r
  BY <1>6, <1>7
<1>9. b = x + (p * z + y) * q /\ r = p * q
  BY <1>2, <1>5, <1>7, <1>8
<1>10. b = x + y * q + z * r
  BY <1>1, <1>8, <1>9
<1>11. d.base_15_0 = x /\ d.base_23_16 = y /\ d.base_31_24 = z
  BY <1>1, <1>4, <1>6, <1>8 DEF Setup!Low, Setup!Top, D
<1> QED
  BY <1>1, <1>10, <1>11 DEF Setup!Base, D

\* A segment of the kernel or of the user covers all of memory.
LEMMA SegmentReads ==
    ASSUME Setup!TablesAssumption, NEW type, NEW dpl,
           NEW d, d = Setup!SEG32(type, 0, Setup!All32, dpl)
    PROVE  /\ Setup!Base(d) = 0 /\ Setup!Limit(d) = Setup!All32
           /\ d.s = 1 /\ d.dpl = dpl /\ d.type = type
<1>0. \A k \in 0 .. 8 : D[k] \in Nat \ {0}
  BY DigitsMultiply
<1>a. PICK n \in Nat \ {0} : n = D[1]
  BY <1>0
<1>b. PICK a \in Nat \ {0} : a = D[3]
  BY <1>0
<1>c. PICK b \in Nat \ {0} : b = D[4]
  BY <1>0
<1>d. PICK c \in Nat \ {0} : c = D[5]
  BY <1>0
<1>e. PICK e \in Nat \ {0} : e = D[7]
  BY <1>0
<1>f. PICK f \in Nat \ {0} : f = D[8]
  BY <1>0
<1>1. n = D[1] /\ a = D[3] /\ b = D[4] /\ c = D[5] /\ e = D[7] /\ f = D[8]
  BY <1>a, <1>b, <1>c, <1>d, <1>e, <1>f
<1>2. f = a * c /\ f = e * n /\ c = b * n /\ f - 1 \in Nat
  BY <1>1, DigitsMultiply
<1>3. (f - 1) \div a = c - 1 /\ (c - 1) % b = b - 1
  <2>1. (a * c - 1) \div a = c - 1 /\ (a * c - 1) % a = a - 1
    BY LargestOfDigits, Zenon
  <2>2. (b * n - 1) \div b = n - 1 /\ (b * n - 1) % b = b - 1
    BY LargestOfDigits, Zenon
  <2> QED
    BY <1>2, <2>1, <2>2, Zenon
<1>4. (f - 1) \div e = n - 1 /\ (n - 1) % n = n - 1
  <2>1. (e * n - 1) \div e = n - 1 /\ (e * n - 1) % e = e - 1
    BY LargestOfDigits, Zenon
  <2>2. n - 1 \in Nat /\ n - 1 < n
    OBVIOUS
  <2>3. (n - 1) % n = n - 1
    BY <2>2, LowAndTop
  <2> QED
    BY <1>2, <2>1, <2>3, Zenon
<1>5. /\ d.lim_15_0 = b - 1 /\ d.lim_19_16 = n - 1 /\ d.g = 1
      /\ d.s = 1 /\ d.dpl = dpl /\ d.type = type
      /\ d.base_15_0 = Setup!Low(0, 4) /\ d.base_23_16 = Setup!Low(Setup!Top(0, 4), 2)
      /\ d.base_31_24 = Setup!Low(Setup!Top(0, 6), 2)
  BY <1>1, <1>3, <1>4 DEF Setup!SEG32, Setup!SegDesc, Setup!All32, Setup!Low, Setup!Top, D
<1>6. 0 \in 0 .. D[8] - 1
  BY <1>1
<1>7. Setup!Base(d) = 0
  BY <1>5, <1>6, BaseReads
<1>8. (b - 1) + (n - 1) * b + 1 = c
  <2>1. (n - 1) * b = n * b - b
    OBVIOUS
  <2>2. PICK x \in Nat : x = n * b
    OBVIOUS
  <2>3. (n - 1) * b = x - b /\ c = x
    BY <1>2, <2>1, <2>2
  <2> QED
    BY <2>3
<1>9. Setup!Limit(d) = c * a - 1
  BY <1>1, <1>5, <1>8 DEF Setup!Limit, D
<1> QED
  BY <1>1, <1>2, <1>5, <1>7, <1>9 DEF Setup!All32, D

\* The task segment is where the processor's TSS is, and as long.
LEMMA TaskReads ==
    ASSUME Setup!TablesAssumption, NEW t \in TssAt, NEW dpl,
           NEW d, d = Setup!SEG16(Setup!STS_T32A, t, TssSize - 1, dpl)
    PROVE  /\ Setup!Base(d) = t /\ Setup!Limit(d) = TssSize - 1
           /\ d.s = 0 /\ d.type = Setup!STS_T32A
<1>1. PICK n, b, c \in Nat \ {0} : n = D[1] /\ b = D[4] /\ c = D[5]
  BY DigitsMultiply
<1>2. PICK l \in Nat : l = TssSize - 1 /\ l < n * b
  <2>1. c = n * b
    BY <1>1, DigitsMultiply
  <2>2. TssSize \in 1 .. c
    BY <1>1 DEF Setup!TablesAssumption, D
  <2>3. TssSize - 1 \in Nat /\ TssSize - 1 < c
    BY <2>2
  <2> QED
    BY <2>1, <2>3
<1>3. l \div b < n
  BY <1>1, <1>2, TopIsLess
<1>4. (l \div b) % n = l \div b /\ l = (l % b) + (l \div b) * b
  BY <1>1, <1>2, <1>3, LowAndTop
<1>5. /\ d.lim_15_0 = l % b /\ d.lim_19_16 = l \div b /\ d.g = 0
      /\ d.s = 0 /\ d.type = Setup!STS_T32A
      /\ d.base_15_0 = Setup!Low(t, 4) /\ d.base_23_16 = Setup!Low(Setup!Top(t, 4), 2)
      /\ d.base_31_24 = Setup!Low(Setup!Top(t, 6), 2)
  BY <1>1, <1>2, <1>4 DEF Setup!SEG16, Setup!SegDesc, Setup!Low, Setup!Top, D
<1>6. t \in 0 .. D[8] - 1
  BY DEF Setup!TablesAssumption, D
<1>7. Setup!Base(d) = t
  BY <1>5, <1>6, BaseReads
<1>8. Setup!Limit(d) = l
  BY <1>1, <1>4, <1>5 DEF Setup!Limit, D
<1> QED
  BY <1>2, <1>5, <1>7, <1>8

----------------------------------------------------------------------------
(* The walk through the MP table                                           *)

\* A processor's entry has twenty bytes, another one eight; the first is its type.
LEMMA EntryIs ==
    ASSUME NEW type \in Nat
    PROVE  /\ Setup!Entry(type) \in Seq(Nat) /\ Len(Setup!Entry(type)) = Setup!Step(type)
           /\ Setup!Entry(type)[1] = type /\ Setup!Step(type) \in 1 .. 20
<1>1. PICK n \in {8, 20} : n = (IF type = 0 THEN 20 ELSE 8)
  OBVIOUS
<1>2. Setup!Entry(type) = [b \in 1 .. n |-> IF b = 1 THEN type ELSE 0]
  BY <1>1 DEF Setup!Entry
<1>3. Setup!Step(type) = n
  BY <1>1 DEF Setup!Step
<1> QED
  BY <1>2, <1>3

\* The bytes of the table, an entry after the other.
LEMMA BytesSteps ==
    ASSUME NEW types \in Seq(Nat)
    PROVE  /\ Setup!Bytes(types)[0] = <<>>
           /\ \A n \in 0 .. Len(types) - 1 :
                 Setup!Bytes(types)[n + 1] = Setup!Bytes(types)[n] \o Setup!Entry(types[n + 1])
<1> DEFINE Next(a, i) == IF i = 0 THEN <<>> ELSE a[i - 1] \o Setup!Entry(types[i])
           G == {n \in Nat : \E a : a = [i \in 0 .. n |-> Next(a, i)]}
           B == Setup!Bytes(types)
<1>0. Len(types) \in Nat
  OBVIOUS
<1>1. 0 \in G
  <2>1. PICK a : a = [i \in 0 .. 0 |-> <<>>]
    OBVIOUS
  <2>2. \A i \in 0 .. 0 : i = 0
    OBVIOUS
  <2>3. a = [i \in 0 .. 0 |-> Next(a, i)]
    BY <2>1, <2>2
  <2> QED
    BY <2>3
<1>2. ASSUME NEW n \in Nat, n \in G PROVE n + 1 \in G
  <2>1. PICK a : a = [i \in 0 .. n |-> Next(a, i)]
    BY <1>2
  <2>2. PICK b : b = [i \in 0 .. n + 1 |-> IF i \in 0 .. n THEN a[i] ELSE Next(a, i)]
    OBVIOUS
  <2>3. ASSUME NEW i \in 0 .. n + 1 PROVE b[i] = Next(b, i)
    <3>1. i = 0 \/ i - 1 \in 0 .. n
      OBVIOUS
    <3>2. i # 0 => b[i - 1] = a[i - 1]
      BY <2>2, <3>1
    <3>3. Next(b, i) = Next(a, i)
      BY <3>2
    <3>4. i \in 0 .. n => a[i] = Next(a, i)
      BY <2>1
    <3> HIDE DEF Next
    <3> QED
      BY <2>2, <3>3, <3>4
  <2> HIDE DEF Next
  <2>4. b = [i \in 0 .. n + 1 |-> Next(b, i)]
    BY <2>2, <2>3
  <2> QED
    BY <2>4
<1> HIDE DEF G
<1>3. G = Nat
  BY <1>1, <1>2, Vme!Induction DEF G
<1>4. \E a : a = [i \in 0 .. Len(types) |-> Next(a, i)]
  BY <1>0, <1>3 DEF G
<1>5. B = [i \in 0 .. Len(types) |-> Next(B, i)]
  BY <1>4 DEF Setup!Bytes
<1>6. B[0] = <<>>
  BY <1>0, <1>5
<1>7. ASSUME NEW i \in 0 .. Len(types) - 1 PROVE B[i + 1] = B[i] \o Setup!Entry(types[i + 1])
  <2>1. i + 1 \in 0 .. Len(types) /\ i + 1 # 0 /\ (i + 1) - 1 = i
    BY <1>0
  <2>2. B[i + 1] = Next(B, i + 1)
    BY <1>5, <2>1
  <2> QED
    BY <2>1, <2>2
<1> QED
  BY <1>6, <1>7

\* Where an entry begins in the table, its type is found.
LEMMA TypeFound ==
    ASSUME NEW types \in Seq(Nat)
    PROVE  /\ \A n \in 0 .. Len(types) : Setup!Bytes(types)[n] \in Seq(Nat)
           /\ \A m \in 0 .. Len(types), n \in 0 .. Len(types) :
                 n < m => /\ Len(Setup!Bytes(types)[n]) < Len(Setup!Bytes(types)[m])
                          /\ Setup!Bytes(types)[m][Len(Setup!Bytes(types)[n]) + 1] = types[n + 1]
<1> DEFINE Found(m, n) == /\ Len(Setup!Bytes(types)[n]) \in Nat
                          /\ Len(Setup!Bytes(types)[n]) < Len(Setup!Bytes(types)[m])
                          /\ Setup!Bytes(types)[m][Len(Setup!Bytes(types)[n]) + 1] = types[n + 1]
           G == {m \in Nat : m <= Len(types)
                               => /\ Setup!Bytes(types)[m] \in Seq(Nat)
                                  /\ \A n \in 0 .. m : n < m => Found(m, n)}
<1>0. Len(types) \in Nat
  OBVIOUS
<1>1. 0 \in G
  <2>1. <<>> \in Seq(Nat) /\ \A n \in 0 .. 0 : ~ (n < 0)
    OBVIOUS
  <2>2. Setup!Bytes(types)[0] = <<>>
    BY BytesSteps
  <2> HIDE DEF Found
  <2> QED
    BY <2>1, <2>2
<1>2. ASSUME NEW m \in Nat, m \in G PROVE m + 1 \in G
  <2>0. m + 1 \in Nat
    OBVIOUS
  <2> SUFFICES ASSUME m + 1 <= Len(types)
               PROVE  /\ Setup!Bytes(types)[m + 1] \in Seq(Nat)
                      /\ \A n \in 0 .. m + 1 : n < m + 1 => Found(m + 1, n)
    BY <2>0, Zenon
  <2>1. Setup!Bytes(types)[m] \in Seq(Nat) /\ \A n \in 0 .. m : n < m => Found(m, n)
    BY <1>0, <1>2
  <2>2. PICK t \in Nat : t = types[m + 1]
    BY <1>0
  <2>3. m \in 0 .. Len(types) - 1
    BY <1>0
  <2>4. Setup!Bytes(types)[m + 1] = Setup!Bytes(types)[m] \o Setup!Entry(t)
    BY <2>2, <2>3, BytesSteps, Zenon
  <2>5. /\ Setup!Entry(t) \in Seq(Nat) /\ Len(Setup!Entry(t)) = Setup!Step(t)
        /\ Setup!Entry(t)[1] = t /\ Setup!Step(t) \in 1 .. 20
    BY EntryIs, Zenon
  <2>6. PICK b \in Seq(Nat), e \in Seq(Nat) : b = Setup!Bytes(types)[m] /\ e = Setup!Entry(t)
    BY <2>1, <2>5, Zenon
  <2>7. Len(e) = Setup!Step(t) /\ e[1] = t /\ Setup!Bytes(types)[m + 1] = b \o e
    BY <2>4, <2>5, <2>6, Zenon
  <2>8. Len(e) \in Nat \ {0} /\ Len(b) \in Nat
    <3>1. Len(e) \in 1 .. 20
      BY <2>5, <2>7, Zenon
    <3>2. \A n \in 1 .. 20 : n \in Nat \ {0}
      OBVIOUS
    <3>3. Len(b) \in Nat
      OBVIOUS
    <3> QED
      BY <3>1, <3>2, <3>3, Zenon
  <2>9. /\ b \o e \in Seq(Nat) /\ Len(b \o e) \in Nat /\ Len(b) < Len(b \o e)
        /\ \A k \in 1 .. Len(b) : (b \o e)[k] = b[k]
        /\ (b \o e)[Len(b) + 1] = e[1]
    BY <2>8
  <2>10. ASSUME NEW n \in 0 .. m + 1, n < m + 1 PROVE Found(m + 1, n)
    <3>1. CASE n = m
      <4>1. (b \o e)[Len(b) + 1] = types[n + 1]
        BY <2>2, <2>7, <2>9, <3>1, Zenon
      <4> QED
        BY <2>6, <2>7, <2>8, <2>9, <3>1, <4>1, Zenon
    <3>2. CASE n # m
      <4>1. n \in 0 .. m /\ n < m
        BY <2>10, <3>2
      <4>2. Found(m, n)
        BY <2>1, <4>1
      <4>3. PICK k : k = Len(Setup!Bytes(types)[n])
        OBVIOUS
      <4>4. k \in Nat /\ k < Len(b) /\ b[k + 1] = types[n + 1]
        BY <2>6, <4>2, <4>3, Zenon
      <4>5. k + 1 \in 1 .. Len(b) /\ k < Len(b \o e)
        <5>1. PICK l \in Nat, p \in Nat : l = Len(b) /\ p = Len(b \o e)
          BY <2>8, <2>9
        <5>2. l < p /\ k < l /\ p \in Nat
          BY <2>9, <4>4, <5>1
        <5>3. k + 1 \in 1 .. l /\ k < p
          BY <4>4, <5>2
        <5> QED
          BY <5>1, <5>3, Zenon
      <4>6. (b \o e)[k + 1] = types[n + 1]
        BY <2>9, <4>4, <4>5, Zenon
      <4> QED
        BY <2>7, <4>3, <4>4, <4>5, <4>6, Zenon
    <3> QED
      BY <3>1, <3>2
  <2> QED
    BY <2>7, <2>9, <2>10, Zenon
<1> HIDE DEF G
<1>3. G = Nat
  BY <1>1, <1>2, Vme!Induction DEF G
<1>4. ASSUME NEW m \in 0 .. Len(types)
      PROVE  /\ Setup!Bytes(types)[m] \in Seq(Nat)
             /\ \A n \in 0 .. m : n < m => Found(m, n)
  <2>1. m \in Nat /\ m <= Len(types)
    BY <1>0
  <2> QED
    BY <1>3, <2>1, Zenon DEF G
<1>5. ASSUME NEW m \in 0 .. Len(types), NEW n \in 0 .. Len(types), n < m PROVE Found(m, n)
  <2>1. n \in 0 .. m
    BY <1>0, <1>5
  <2> QED
    BY <1>4, <1>5, <2>1, Zenon
<1> QED
  BY <1>4, <1>5, Zenon

----------------------------------------------------------------------------
(* What is set up: at, end, ext, mp, tss, heap, ptr, ncpu, gdt, tr and idt *)
(* of X86Tables are s1 .. s11.                                             *)

\* The processors among the first n entries: type 0.
Zeros(n) == {k \in 1 .. n : s4[k] = 0}

\* The walk has come to the entry after the n-th, and counted the processors before it.
Walked(n) == s7 = Len(Setup!Bytes(s4)[n]) /\ s8 = Cardinality(Zeros(n))

\* What init_gdt and cte_init put into a segment and a gate.
SegType(seg) == IF seg \in {Setup!SEG_KCODE, Setup!SEG_UCODE}
                THEN Setup!STA_X + Setup!STA_RW ELSE Setup!STA_RW
SegDpl(seg) == IF seg \in {Setup!SEG_KCODE, Setup!SEG_KDATA}
               THEN Setup!DPL_KERN ELSE Setup!DPL_USER
StubOf(v) == Entries[IF v \in Irqs THEN v ELSE NR_IRQ]

DplOf(v) == IF v \in Irqs THEN Setup!Dpl(v) ELSE Setup!DPL_KERN

\* The parts of the invariant: what the machine and the linker gave stays; each
\* initialisation, once it has run, has made what it makes.
Placed == /\ s1 \in {"heap", "lapic", "gdt", "idt", "main"}
          /\ s2 \in ProgramEnds /\ s3 \in Extended /\ s4 \in MpTables /\ s5 \in TssAt
HeapMade == s6 = <<Setup!RoundUp(s2, Setup!MiB), Setup!MemoryEnd(Setup!Low(s3, 2), Setup!Top(s3, 2))>>
GdtMade == /\ \A seg \in 1 .. 4 : s9[seg] = Setup!SEG32(SegType(seg), 0, Setup!All32, SegDpl(seg))
           /\ s9[5] = Setup!SEG16(Setup!STS_T32A, s5, TssSize - 1, Setup!DPL_KERN)
           /\ s10 = Setup!KSEL(Setup!SEG_TSS)
IdtMade == \A v \in 0 .. NR_IRQ - 1 :
              s11[v] = Setup!GATE32(Setup!STS_TG, Setup!KSEL(Setup!SEG_KCODE), StubOf(v), DplOf(v))

SetupInv == /\ Placed
            /\ s1 # "heap" => HeapMade
            /\ s1 \in {"heap", "lapic"} => \E n \in 0 .. Len(s4) : Walked(n)
            /\ s1 \in {"gdt", "idt", "main"} => s8 = Cardinality(Zeros(Len(s4)))
            /\ s1 \in {"idt", "main"} => GdtMade
            /\ s1 = "main" => IdtMade

\* One more entry has one processor more, or none.
LEMMA ZerosGrow ==
    ASSUME NEW n \in Nat
    PROVE  /\ Cardinality(Zeros(n)) \in Nat
           /\ Cardinality(Zeros(n + 1)) = Cardinality(Zeros(n)) + (IF s4[n + 1] = 0 THEN 1 ELSE 0)
           /\ Cardinality(Zeros(0)) = 0
<1>1. IsFiniteSet(Zeros(n)) /\ Cardinality(Zeros(n)) \in Nat
  <2>1. IsFiniteSet(1 .. n)
    BY FS_Interval
  <2>2. Zeros(n) \subseteq 1 .. n
    BY DEF Zeros
  <2> QED
    BY <2>1, <2>2, FS_Subset, FS_CardinalityType
<1>2. s4[n + 1] = 0 => Zeros(n + 1) = Zeros(n) \cup {n + 1} /\ n + 1 \notin Zeros(n)
  BY DEF Zeros
<1>3. s4[n + 1] # 0 => Zeros(n + 1) = Zeros(n)
  BY DEF Zeros
<1>4. s4[n + 1] = 0 => Cardinality(Zeros(n + 1)) = Cardinality(Zeros(n)) + 1
  BY <1>1, <1>2, FS_AddElement
<1>5. Zeros(0) = {}
  BY DEF Zeros
<1> QED
  BY <1>1, <1>3, <1>4, <1>5, FS_EmptySet

\* At the start nothing is set up, and the walk is before the first entry.
LEMMA SetupStarts ==
    ASSUME Setup!TablesAssumption, Setup!TablesInit
    PROVE  SetupInv
<1>1. /\ s1 = "heap" /\ s2 \in ProgramEnds /\ s3 \in Extended /\ s4 \in MpTables /\ s5 \in TssAt
      /\ s7 = 0 /\ s8 = 0
  BY DEF Setup!TablesInit
<1>2. s4 \in Seq(Nat) /\ 0 \in 0 .. Len(s4)
  BY <1>1 DEF Setup!TablesAssumption
<1>3. Len(Setup!Bytes(s4)[0]) = 0
  <2>1. Setup!Bytes(s4)[0] = <<>>
    BY <1>2, BytesSteps
  <2>2. Len(<<>>) = 0
    OBVIOUS
  <2> QED
    BY <2>1, <2>2, Zenon
<1>4. Cardinality(Zeros(0)) = 0
  BY ZerosGrow
<1>5. Walked(0)
  BY <1>1, <1>3, <1>4 DEF Walked
<1> QED
  BY <1>1, <1>2, <1>5 DEF SetupInv, Placed

\* The heap is that between the program and the end of memory.
LEMMA HeapInitKeeps ==
    ASSUME SetupInv, Setup!heap_init
    PROVE  SetupInv'
<1>1. /\ s1 = "heap" /\ s1' = "lapic"
      /\ s2' = s2 /\ s3' = s3 /\ s4' = s4 /\ s5' = s5 /\ s7' = s7 /\ s8' = s8
      /\ s6' = <<Setup!RoundUp(s2, Setup!MiB), Setup!MemoryEnd(Setup!Low(s3, 2), Setup!Top(s3, 2))>>
  BY DEF Setup!heap_init, Setup!machine
<1>2. Placed' /\ HeapMade'
  BY <1>1 DEF Placed, HeapMade, SetupInv
<1>3. PICK n \in 0 .. Len(s4) : Walked(n)
  BY <1>1 DEF SetupInv
<1>4. Walked(n)' /\ n \in 0 .. Len(s4')
  BY <1>1, <1>3 DEF Walked, Zeros
<1>5. \E k \in 0 .. Len(s4') : Walked(k)'
  BY <1>4
<1> QED
  BY <1>1, <1>2, <1>5 DEF SetupInv

\* A step of the walk counts the entry it is at, and goes to the next one; at the end
\* of the table it has counted all.
LEMMA LapicStepKeeps ==
    ASSUME Setup!TablesAssumption, SetupInv, Setup!lapic_step
    PROVE  SetupInv'
<1> DEFINE table == Setup!Bytes(s4)[Len(s4)]
<1>1. /\ s1 = "lapic"
      /\ s2' = s2 /\ s3' = s3 /\ s4' = s4 /\ s5' = s5 /\ s6' = s6 /\ s9' = s9 /\ s10' = s10
  BY DEF Setup!lapic_step, Setup!machine
<1>2. IF s7 < Len(table)
        THEN /\ s8' = s8 + (IF table[s7 + 1] = 0 THEN 1 ELSE 0)
             /\ s7' = s7 + Setup!Step(table[s7 + 1]) /\ s1' = s1
        ELSE s1' = "gdt" /\ s8' = s8 /\ s7' = s7
  BY DEF Setup!lapic_step
<1>3. s4 \in Seq(Nat) /\ Len(s4) \in Nat
  BY DEF SetupInv, Placed, Setup!TablesAssumption
<1>4. PICK n \in 0 .. Len(s4) : Walked(n)
  BY <1>1 DEF SetupInv
<1>5. HeapMade' /\ Placed'
  <2>1. HeapMade'
    BY <1>1 DEF SetupInv, HeapMade
  <2>2. s1' \in {"lapic", "gdt"}
    BY <1>1, <1>2
  <2> QED
    BY <1>1, <2>1, <2>2 DEF SetupInv, Placed
<1> HIDE DEF table
<1>6. CASE n = Len(s4)
  <2>1. ~ (s7 < Len(table))
    BY <1>4, <1>6 DEF Walked, table
  <2>2. s1' = "gdt" /\ s8' = s8
    BY <1>2, <2>1
  <2>3. (s8 = Cardinality(Zeros(Len(s4))))'
    BY <1>1, <1>4, <1>6, <2>2 DEF Walked, Zeros
  <2> QED
    BY <1>5, <2>2, <2>3 DEF SetupInv
<1>7. CASE n # Len(s4)
  <2>1. n \in Nat /\ n < Len(s4) /\ n \in 0 .. Len(s4) - 1 /\ Len(s4) \in 0 .. Len(s4)
        /\ n + 1 \in 0 .. Len(s4)
    BY <1>3, <1>7
  <2>2. s7 < Len(table) /\ table[s7 + 1] = s4[n + 1]
    <3>1. /\ Len(Setup!Bytes(s4)[n]) < Len(Setup!Bytes(s4)[Len(s4)])
          /\ Setup!Bytes(s4)[Len(s4)][Len(Setup!Bytes(s4)[n]) + 1] = s4[n + 1]
      BY <1>3, <2>1, TypeFound, Zenon
    <3> QED
      BY <1>4, <3>1, Zenon DEF Walked, table
  <2>3. /\ s8' = s8 + (IF s4[n + 1] = 0 THEN 1 ELSE 0)
        /\ s7' = s7 + Setup!Step(s4[n + 1]) /\ s1' = "lapic"
    BY <1>1, <1>2, <2>2
  <2>4. s8' = Cardinality(Zeros(n + 1))
    BY <1>4, <2>1, <2>3, ZerosGrow DEF Walked
  <2>5. s7' = Len(Setup!Bytes(s4)[n + 1])
    <3>1. PICK t \in Nat : t = s4[n + 1]
      BY <1>3, <2>1
    <3>2. Setup!Bytes(s4)[n + 1] = Setup!Bytes(s4)[n] \o Setup!Entry(t)
      BY <1>3, <2>1, <3>1, BytesSteps, Zenon
    <3>3. Setup!Bytes(s4)[n] \in Seq(Nat)
      BY <1>3, <2>1, TypeFound
    <3>4. Setup!Entry(t) \in Seq(Nat) /\ Len(Setup!Entry(t)) = Setup!Step(t)
      BY EntryIs
    <3>5. \A a, b \in Seq(Nat) : Len(a \o b) = Len(a) + Len(b)
      OBVIOUS
    <3>6. Len(Setup!Bytes(s4)[n] \o Setup!Entry(t)) = Len(Setup!Bytes(s4)[n]) + Setup!Step(t)
      BY <3>3, <3>4, <3>5, Zenon
    <3> QED
      BY <1>4, <2>3, <3>1, <3>2, <3>6, Zenon DEF Walked
  <2>6. Walked(n + 1)' /\ n + 1 \in 0 .. Len(s4')
    BY <1>1, <2>1, <2>4, <2>5 DEF Walked, Zeros
  <2>7. \E k \in 0 .. Len(s4') : Walked(k)'
    BY <2>6
  <2> QED
    BY <1>5, <2>3, <2>7 DEF SetupInv
<1> QED
  BY <1>6, <1>7

\* The segments.
LEMMA InitGdtKeeps ==
    ASSUME SetupInv, Setup!initgdt
    PROVE  SetupInv'
<1>1. /\ s1 = "gdt" /\ s1' = "idt"
      /\ s2' = s2 /\ s3' = s3 /\ s4' = s4 /\ s5' = s5 /\ s6' = s6 /\ s8' = s8
  BY DEF Setup!initgdt, Setup!machine
<1>2. Placed' /\ HeapMade' /\ (s8 = Cardinality(Zeros(Len(s4))))'
  BY <1>1 DEF Placed, HeapMade, SetupInv, Zeros
<1>3. /\ s9'[1] = Setup!SEG32(Setup!STA_X + Setup!STA_RW, 0, Setup!All32, Setup!DPL_KERN)
      /\ s9'[2] = Setup!SEG32(Setup!STA_RW, 0, Setup!All32, Setup!DPL_KERN)
      /\ s9'[3] = Setup!SEG32(Setup!STA_X + Setup!STA_RW, 0, Setup!All32, Setup!DPL_USER)
      /\ s9'[4] = Setup!SEG32(Setup!STA_RW, 0, Setup!All32, Setup!DPL_USER)
      /\ s9'[5] = Setup!SEG16(Setup!STS_T32A, s5, TssSize - 1, Setup!DPL_KERN)
      /\ s10' = Setup!KSEL(Setup!SEG_TSS)
  BY DEF Setup!initgdt, Setup!SEG_KCODE, Setup!SEG_KDATA, Setup!SEG_UCODE, Setup!SEG_UDATA,
         Setup!SEG_TSS
<1>4. /\ SegType(1) = Setup!STA_X + Setup!STA_RW /\ SegType(2) = Setup!STA_RW
      /\ SegType(3) = Setup!STA_X + Setup!STA_RW /\ SegType(4) = Setup!STA_RW
      /\ SegDpl(1) = Setup!DPL_KERN /\ SegDpl(2) = Setup!DPL_KERN
      /\ SegDpl(3) = Setup!DPL_USER /\ SegDpl(4) = Setup!DPL_USER
  BY DEF SegType, SegDpl, Setup!SEG_KCODE, Setup!SEG_KDATA, Setup!SEG_UCODE
<1>5. ASSUME NEW seg \in 1 .. 4
      PROVE  s9'[seg] = Setup!SEG32(SegType(seg), 0, Setup!All32, SegDpl(seg))
  <2>1. seg = 1 \/ seg = 2 \/ seg = 3 \/ seg = 4
    OBVIOUS
  <2> QED
    BY <1>3, <1>4, <2>1, Zenon
<1>6. GdtMade'
  BY <1>1, <1>3, <1>5 DEF GdtMade
<1> QED
  BY <1>1, <1>2, <1>6 DEF SetupInv

\* The gates.
LEMMA CteInitKeeps ==
    ASSUME SetupInv, Setup!cte_init
    PROVE  SetupInv'
<1>1. /\ s1 = "idt" /\ s1' = "main" /\ s2' = s2 /\ s3' = s3 /\ s4' = s4 /\ s5' = s5
      /\ s6' = s6 /\ s8' = s8 /\ s9' = s9 /\ s10' = s10
  BY DEF Setup!cte_init, Setup!machine
<1>2. Placed' /\ HeapMade' /\ (s8 = Cardinality(Zeros(Len(s4))))' /\ GdtMade'
  BY <1>1 DEF Placed, HeapMade, SetupInv, Zeros, GdtMade
<1>3. ASSUME NEW v \in 0 .. NR_IRQ - 1
      PROVE  s11'[v] = Setup!GATE32(Setup!STS_TG, Setup!KSEL(Setup!SEG_KCODE), StubOf(v), DplOf(v))
  BY DEF Setup!cte_init, StubOf, DplOf
<1>4. IdtMade'
  BY <1>3 DEF IdtMade
<1> QED
  BY <1>1, <1>2, <1>4 DEF SetupInv

\* A step keeps the invariant.
LEMMA SetupKept ==
    ASSUME Setup!TablesAssumption, SetupInv, [Setup!TablesNext]_(Setup!tablesVars)
    PROVE  SetupInv'
<1>1. CASE UNCHANGED Setup!tablesVars
  <2>1. UNCHANGED <<s1, s2, s3, s4, s5, s6, s7, s8, s9, s10, s11>>
    BY <1>1 DEF Setup!tablesVars
  <2> QED
    BY <2>1 DEF SetupInv, Placed, HeapMade, Walked, Zeros, GdtMade, IdtMade
<1>2. CASE Setup!TablesNext
  BY <1>2, HeapInitKeeps, LapicStepKeeps, InitGdtKeeps, CteInitKeeps DEF Setup!TablesNext
<1> QED
  BY <1>1, <1>2

\* What was set up is what was meant.
LEMMA SetupEnough ==
    ASSUME Setup!TablesAssumption, SetupInv
    PROVE  Setup!MachineIsSetUp
<1> SUFFICES ASSUME s1 = "main"
             PROVE  Setup!SegmentsCover /\ Setup!VectorsEnter /\ Setup!ResourcesCounted
  BY DEF Setup!MachineIsSetUp
<1>1. Placed /\ HeapMade /\ GdtMade /\ IdtMade /\ s8 = Cardinality(Zeros(Len(s4)))
  BY DEF SetupInv
<1>2. Setup!SegmentsCover
  <2>1. ASSUME NEW seg \in 1 .. 4
        PROVE  /\ Setup!Base(s9[seg]) = 0 /\ Setup!Limit(s9[seg]) = Setup!All32 /\ s9[seg].s = 1
               /\ s9[seg].dpl = SegDpl(seg) /\ s9[seg].type = SegType(seg)
    BY <1>1, SegmentReads DEF GdtMade
  <2>2. ASSUME NEW seg \in 1 .. 4
        PROVE  /\ SegDpl(seg) = IF seg \in {Setup!SEG_KCODE, Setup!SEG_KDATA} THEN 0 ELSE 3
               /\ SegType(seg) >= 8 <=> seg \in {Setup!SEG_KCODE, Setup!SEG_UCODE}
    BY DEF SegDpl, SegType, Setup!DPL_KERN, Setup!DPL_USER, Setup!STA_X, Setup!STA_RW
  <2>3. /\ Setup!Base(s9[5]) = s5 /\ Setup!Limit(s9[5]) = TssSize - 1
        /\ s9[5].s = 0 /\ s9[5].type = Setup!STS_T32A
    BY <1>1, TaskReads DEF GdtMade, Placed
  <2>4. s10 \div 8 = 5
    BY <1>1 DEF GdtMade, Setup!KSEL, Setup!SEG_TSS, Setup!DPL_KERN
  <2>5. Setup!SEG_KCODE .. Setup!SEG_UDATA = 1 .. 4
    BY DEF Setup!SEG_KCODE, Setup!SEG_UDATA
  <2> QED
    BY <2>1, <2>2, <2>3, <2>4, <2>5, Zenon DEF Setup!SegmentsCover
<1>3. Setup!VectorsEnter
  <2> SUFFICES ASSUME NEW v \in 0 .. NR_IRQ - 1
               PROVE  /\ Setup!Offset(s11[v]) = StubOf(v)
                      /\ s9[s11[v].cs \div 8].dpl = 0
                      /\ s11[v].dpl = 3 <=> v \in UserIrqs
    BY Zenon DEF Setup!VectorsEnter, StubOf
  <2>1. StubOf(v) \in Nat
    BY DEF StubOf, Setup!TablesAssumption
  <2>2. s11[v] = Setup!GATE32(Setup!STS_TG, Setup!KSEL(Setup!SEG_KCODE), StubOf(v), DplOf(v))
    BY <1>1 DEF IdtMade
  <2>3. /\ Setup!Offset(s11[v]) = StubOf(v) /\ s11[v].cs = Setup!KSEL(Setup!SEG_KCODE)
        /\ s11[v].dpl = DplOf(v)
    <3>1. PICK e \in Nat : e = StubOf(v)
      BY <2>1
    <3>a. PICK g, cs, dpl : /\ g = s11[v] /\ dpl = DplOf(v)
                            /\ cs = Setup!KSEL(Setup!SEG_KCODE)
      OBVIOUS
    <3>2. g = Setup!GATE32(Setup!STS_TG, cs, e, dpl)
      BY <2>2, <3>1, <3>a, Zenon
    <3>3. Setup!Offset(g) = e /\ g.cs = cs /\ g.dpl = dpl
      BY <3>2, GateReads
    <3> QED
      BY <3>1, <3>a, <3>3, Zenon
  <2>4. s11[v].cs \div 8 = 1
    BY <2>3 DEF Setup!KSEL, Setup!SEG_KCODE, Setup!DPL_KERN
  <2>5. s9[1].dpl = SegDpl(1) /\ SegDpl(1) = 0
    <3>1. s9[1] = Setup!SEG32(SegType(1), 0, Setup!All32, SegDpl(1))
      BY <1>1 DEF GdtMade
    <3>2. s9[1].dpl = SegDpl(1)
      BY <3>1, SegmentReads
    <3> QED
      BY <3>2 DEF SegDpl, Setup!SEG_KCODE, Setup!SEG_KDATA, Setup!DPL_KERN
  <2>6. DplOf(v) = 3 <=> v \in UserIrqs
    BY DEF DplOf, Setup!Dpl, Setup!DPL_KERN, Setup!DPL_USER, Setup!TablesAssumption
  <2> QED
    BY <2>3, <2>4, <2>5, <2>6, Zenon
<1>4. Setup!ResourcesCounted
  <2>1. s2 \in Nat /\ s3 \in Nat /\ s4 \in Seq(Nat)
    BY <1>1 DEF Placed, Setup!TablesAssumption
  <2>2. s8 = Setup!Cardinality({n \in DOMAIN s4 : s4[n] = 0})
    <3>1. {n \in DOMAIN s4 : s4[n] = 0} = Zeros(Len(s4))
      BY <2>1 DEF Zeros
    <3>2. \A S : Setup!Cardinality(S) = Cardinality(S)
      BY Zenon DEF Setup!Cardinality, Cardinality
    <3> QED
      BY <1>1, <3>1, <3>2
  <2>3. s6[2] = D[2] + s3
    <3>1. PICK d \in Nat \ {0} : d = D[2]
      BY DigitsMultiply
    <3>2. s6[2] = (s3 % d) + ((s3 \div d) + 1) * d
      BY <1>1, <3>1 DEF HeapMade, Setup!MemoryEnd, Setup!Low, Setup!Top, D
    <3>3. s3 = (s3 % d) + (s3 \div d) * d /\ s3 % d \in Nat /\ s3 \div d \in Nat
      BY <2>1, LowAndTop
    <3>4. ((s3 \div d) + 1) * d = (s3 \div d) * d + d
      BY <3>3
    <3>5. PICK x, y \in Nat : x = s3 % d /\ y = (s3 \div d) * d
      BY <3>3
    <3> QED
      BY <2>1, <3>1, <3>2, <3>3, <3>4, <3>5
  <2>4. s6[1] >= s2 /\ s6[1] < s2 + Setup!MiB /\ s6[1] % Setup!MiB = 0
    <3>1. s6[1] = ((s2 + 16 - 1) \div 16) * 16
      BY <1>1 DEF HeapMade, Setup!RoundUp, Setup!MiB
    <3> QED
      BY <2>1, <3>1 DEF Setup!MiB
  <2> QED
    BY <2>2, <2>3, <2>4 DEF Setup!ResourcesCounted, D
<1> QED
  BY <1>2, <1>3, <1>4

----------------------------------------------------------------------------
(* Together                                                                *)

\* While the behaviour is about the setup of the machine, its invariant.
Made == part = "tables" => SetupInv

\* A step of the devices is one of the setup, or leaves it alone.
LEMMA OneSetupSteps ==
    ASSUME [MCNext]_mcVars
    PROVE  /\ part' = part
           /\ part = "tables" => [Setup!TablesNext]_(Setup!tablesVars)
<1>1. CASE UNCHANGED mcVars
  <2>1. UNCHANGED <<part, s1, s2, s3, s4, s5, s6, s7, s8, s9, s10, s11>>
    BY <1>1 DEF mcVars, pool
  <2> QED
    BY <2>1 DEF Setup!tablesVars
<1>2. CASE MCNext
  BY <1>2 DEF MCNext, InVme, InRtc, InDisk, InConsole, InInput, InKbd, InSetup, InAudio
<1> QED
  BY <1>1, <1>2

\* When main is entered the processor finds what was meant in its descriptors, the heap
\* and the processors are those of the machine; the kernel is in every address space and
\* every page is free, the kernel's, or a table of exactly one space; for words of any
\* size, any table of processors, any memory (x86/qemu/trm.c, cte.c, vme.c).
THEOREM SetUpRight == MCSpec => []MachineIsSetUp
<1>1. MCInit => Mapped /\ Made
  <2> SUFFICES ASSUME MCInit PROVE Made
    BY SpacesStart
  <2>1. part = "tables" => Setup!TablesInit
    BY DEF MCInit
  <2> QED
    BY <2>1, SetupStarts, DevicesAssumption DEF Made
<1>2. Mapped /\ Made /\ [MCNext]_mcVars => Mapped' /\ Made'
  BY SpacesKept, OneSetupSteps, SetupKept, DevicesAssumption DEF Made
<1>3. Mapped /\ Made => MachineIsSetUp
  BY SetupEnough, DevicesAssumption, Vme!KernelSees, Vme!OwnedOnce
     DEF Mapped, Made, MachineIsSetUp
<1> QED
  BY <1>1, <1>2, <1>3, PTL DEF MCSpec

----------------------------------------------------------------------------
(* The console of the simulator                                            *)

\* Htif has tohost in s1, fromhost in s2, htif_console_buf in s3, call in s4, at in s5,
\* returned in s6, keys in s7, wanted in s8, queue in s9, typed in s10, got in s11, put
\* in s12 and shown in s13.

\* Numbers modulo CHARS.
Onward(a, n) == (a + n) % CHARS
Chars == 0 .. CHARS - 1

Messages == [dev : {0, 1}, cmd : {0, 1}, data : Nat]
Asks(x)   == x # Console!Empty /\ x.dev = 1 /\ x.cmd = 0
Shows(x)  == x # Console!Empty /\ x.dev = 1 /\ x.cmd = 1

Ones(P) == IF P THEN 1 ELSE 0

\* Where the key that was asked for, or its request, may be.
Asking == s5 = "set" /\ Asks(s4)
Sought == s8 > 0
Queued == \E i \in DOMAIN s9 : s9[i].dev = 1
Buffed == s3 > 0

Ahead   == Ones(Buffed \/ Asks(s2) \/ Queued)
Unshown == Ones(Shows(s1)) + Ones(s5 = "set" /\ Shows(s4))

HtifTypes ==
    /\ s1 \in {Console!Empty} \cup Messages /\ s2 \in {Console!Empty} \cup Messages
    /\ s4 \in {Console!Empty} \cup Messages
    /\ s9 \in Seq(Messages) /\ s7 \in Seq(Chars) /\ s8 \in Nat
    /\ s3 \in -1 .. CHARS
    /\ s10 \in Chars /\ s11 \in Chars /\ s12 \in Chars /\ s13 \in Chars
    /\ s5 \in {"idle", "set", "answer", "off"}

\* Answers are of reads and of system calls; the loop that waits for an answer is of a
\* system call.
IsReply(m) == m.cmd = 0 /\ m.data < CHARS
RepliesFit == /\ \A i \in DOMAIN s9 : IsReply(s9[i])
              /\ s2 # Console!Empty => IsReply(s2)
              /\ s5 \in {"set", "answer"} => s4 # Console!Empty
              /\ s4 # Console!Empty /\ s4.dev = 0 => s4.cmd = 0
              /\ s5 = "answer" => s4.dev = 0

\* There is one request for a key, or one answer to it, when the buffer says so.
OneRequest ==
    /\ s3 = -1 <=> Asking \/ Asks(s1) \/ Sought \/ Queued \/ Asks(s2)
    /\ Asking => ~ Asks(s1) /\ ~ Sought /\ ~ Queued /\ ~ Asks(s2)
    /\ Asks(s1) => ~ Sought /\ ~ Queued /\ ~ Asks(s2)
    /\ Sought => ~ Queued /\ ~ Asks(s2)
    /\ Queued => ~ Asks(s2)
    /\ s8 <= 1
    /\ \A i, j \in DOMAIN s9 : s9[i].dev = 1 /\ s9[j].dev = 1 => i = j

\* The keys that the program has not got, from the next one on.
NextKey == /\ Buffed => s3 - 1 = Onward(s11, 1)
           /\ Asks(s2) => s2.data = Onward(s11, 1)
           /\ \A i \in DOMAIN s9 : s9[i].dev = 1 => s9[i].data = Onward(s11, 1)
KeysFollow == /\ \A i \in DOMAIN s7 : s7[i] = Onward(s11, Ahead + i)
              /\ s10 = Onward(s11, Ahead + Len(s7)) /\ Ahead + Len(s7) <= TypeAhead

\* The characters that are not yet shown, at most two.
CharsFollow == /\ Shows(s1) => s1.data = Onward(s13, 1)
               /\ s5 = "set" /\ Shows(s4) => s4.data = s12
               /\ s12 = Onward(s13, Unshown)

ConsoleWorks == RepliesFit /\ OneRequest /\ NextKey /\ KeysFollow /\ CharsFollow
HtifInv == /\ HtifTypes
           /\ s5 = "off" => s1 = Console!Exit
           /\ s5 # "off" => ConsoleWorks

\* Once around changes nothing.
LEMMA Around ==
    ASSUME NEW n \in Nat, NEW N \in Nat \ {0}
    PROVE  (n + N) % N = n % N
<1>1. PICK q \in Nat, r \in 0 .. N - 1 : q = n \div N /\ r = n % N
  OBVIOUS
<1>2. n = N * q + r
  BY <1>1
<1>3. n + N = N * (q + 1) + r /\ n + N \in Nat
  BY <1>2
<1>4. PICK x \in Nat, y \in 0 .. N - 1 : x = (n + N) \div N /\ y = (n + N) % N
  BY <1>3
<1>5. n + N = N * x + y
  BY <1>3, <1>4
<1>6. x = q + 1
  <2>1. CASE x > q + 1
    <3>1. N * x >= N * (q + 2)
      BY <2>1
    <3>2. N * (q + 2) = N * (q + 1) + N
      OBVIOUS
    <3> QED
      BY <1>3, <1>5, <3>1, <3>2
  <2>2. CASE x < q + 1
    <3>1. N * (q + 1) >= N * (x + 1)
      BY <2>2
    <3>2. N * (x + 1) = N * x + N
      OBVIOUS
    <3> QED
      BY <1>3, <1>5, <3>1, <3>2
  <2> QED
    BY <2>1, <2>2
<1> QED
  BY <1>1, <1>3, <1>4, <1>5, <1>6

\* Counting on modulo CHARS.
LEMMA OnwardTwice ==
    ASSUME Console!HtifAssumption, NEW a \in Chars, NEW n \in Nat
    PROVE  /\ Onward(a, n) \in Chars /\ Onward(a, 0) = a /\ Console!Next1(a) = Onward(a, 1)
           /\ Onward(Onward(a, 1), n) = Onward(a, n + 1) /\ Onward(a, 1) # a
           /\ n < CHARS => (Onward(a, n) - a) % CHARS = n
<1>1. PICK N \in Nat \ {0, 1} : N = CHARS
  BY DEF Console!HtifAssumption
<1>2. Onward(a, n) \in Chars /\ Onward(a, 0) = a /\ Console!Next1(a) = Onward(a, 1)
  BY <1>1 DEF Onward, Chars, Console!Next1
<1>3. a + 1 < N => Onward(a, 1) = a + 1
  BY <1>1 DEF Onward, Chars
<1>4. a + 1 = N => Onward(a, 1) = 0
  BY <1>1 DEF Onward, Chars
<1>5. a + 1 < N \/ a + 1 = N
  BY <1>1 DEF Chars
<1>6. Onward(Onward(a, 1), n) = Onward(a, n + 1)
  <2>1. CASE a + 1 < N
    <3>1. (a + 1) + n = a + (n + 1)
      BY DEF Chars
    <3> QED
      BY <1>3, <2>1, <3>1 DEF Onward
  <2>2. CASE a + 1 = N
    <3>1. a + (n + 1) = n + N /\ 0 + n = n
      BY <1>1, <2>2 DEF Chars
    <3>2. (n + N) % N = n % N
      BY <1>1, Around
    <3> QED
      BY <1>1, <1>4, <2>2, <3>1, <3>2 DEF Onward
  <2> QED
    BY <1>5, <2>1, <2>2
<1>7. Onward(a, 1) # a
  BY <1>1, <1>3, <1>4, <1>5 DEF Chars
<1>8. ASSUME n < CHARS PROVE (Onward(a, n) - a) % CHARS = n
  <2>1. CASE a + n < N
    <3>1. Onward(a, n) = a + n
      BY <1>1, <2>1 DEF Onward, Chars
    <3>2. (a + n) - a = n /\ n % N = n
      BY <1>1, <1>8 DEF Chars
    <3> QED
      BY <1>1, <3>1, <3>2
  <2>2. CASE ~ (a + n < N)
    <3>1. Onward(a, n) = a + n - N
      BY <1>1, <1>8, <2>2 DEF Onward, Chars
    <3>2. (a + n - N) - a = n - N /\ (n - N) % N = n
      BY <1>1, <1>8 DEF Chars
    <3> QED
      BY <1>1, <3>1, <3>2
  <2> QED
    BY <2>1, <2>2
<1> QED
  BY <1>2, <1>6, <1>7, <1>8

\* At the start nothing is asked for and nothing is on its way.
LEMMA HtifStarts ==
    ASSUME Console!HtifAssumption, Console!HtifInit
    PROVE  HtifInv
<1>1. /\ s1 = Console!Empty /\ s2 = Console!Empty /\ s3 = 0 /\ s4 = Console!Empty /\ s5 = "idle"
      /\ s7 = <<>> /\ s8 = 0 /\ s9 = <<>> /\ s10 = 0 /\ s11 = 0 /\ s12 = 0 /\ s13 = 0
  BY DEF Console!HtifInit
<1>2. CHARS \in Nat \ {0, 1} /\ TypeAhead \in Nat /\ 0 \in Chars /\ Onward(0, 0) = 0
  BY DEF Console!HtifAssumption, Chars, Onward
<1>3. /\ ~ Asks(s1) /\ ~ Asks(s2) /\ ~ Asking /\ ~ Queued /\ ~ Sought /\ ~ Buffed
      /\ ~ Shows(s1)
  BY <1>1 DEF Asks, Asking, Queued, Sought, Buffed, Shows
<1>4. Ahead = 0 /\ Unshown = 0
  BY <1>1, <1>3 DEF Ahead, Unshown, Ones
<1>5. HtifTypes
  BY <1>1, <1>2 DEF HtifTypes
<1>6. RepliesFit
  BY <1>1 DEF RepliesFit
<1>7. OneRequest
  BY <1>1, <1>3 DEF OneRequest
<1>8. NextKey /\ KeysFollow
  BY <1>1, <1>2, <1>3, <1>4 DEF NextKey, KeysFollow
<1>9. CharsFollow
  BY <1>1, <1>2, <1>3, <1>4 DEF CharsFollow
<1> QED
  BY <1>1, <1>5, <1>6, <1>7, <1>8, <1>9 DEF HtifInv, ConsoleWorks

\* A sequence that grows at its end, and one that loses its first element.
LEMMA Queues ==
    ASSUME NEW S, NEW q \in Seq(S)
    PROVE  /\ DOMAIN q = 1 .. Len(q) /\ Len(q) \in Nat
           /\ \A i \in DOMAIN q : q[i] \in S
           /\ \A m \in S : /\ Append(q, m) \in Seq(S)
                           /\ Len(Append(q, m)) = Len(q) + 1
                           /\ DOMAIN Append(q, m) = 1 .. Len(q) + 1
                           /\ \A i \in 1 .. Len(q) : Append(q, m)[i] = q[i]
                           /\ Append(q, m)[Len(q) + 1] = m
           /\ q # << >> => /\ Len(q) > 0 /\ Head(q) = q[1] /\ Head(q) \in S
                           /\ Tail(q) \in Seq(S) /\ Len(Tail(q)) = Len(q) - 1
                           /\ DOMAIN Tail(q) = 1 .. Len(q) - 1
                           /\ \A i \in 1 .. Len(q) - 1 : Tail(q)[i] = q[i + 1]
<1>1. DOMAIN q = 1 .. Len(q) /\ Len(q) \in Nat /\ \A i \in DOMAIN q : q[i] \in S
  OBVIOUS
<1>2. ASSUME NEW m \in S
      PROVE  /\ Append(q, m) \in Seq(S)
             /\ Len(Append(q, m)) = Len(q) + 1
             /\ DOMAIN Append(q, m) = 1 .. Len(q) + 1
             /\ \A i \in 1 .. Len(q) : Append(q, m)[i] = q[i]
             /\ Append(q, m)[Len(q) + 1] = m
  OBVIOUS
<1>3. ASSUME q # << >>
      PROVE  /\ Len(q) > 0 /\ Head(q) = q[1] /\ Head(q) \in S
             /\ Tail(q) \in Seq(S) /\ Len(Tail(q)) = Len(q) - 1
             /\ DOMAIN Tail(q) = 1 .. Len(q) - 1
             /\ \A i \in 1 .. Len(q) - 1 : Tail(q)[i] = q[i + 1]
  BY <1>3
<1> QED
  BY <1>1, <1>2, <1>3

\* A message is something.
LEMMA NotEmpty ==
    \A m \in Messages : m # Console!Empty
<1> SUFFICES ASSUME NEW m \in Messages, m = Console!Empty
             PROVE  FALSE
  OBVIOUS
<1>1. "dev" \in DOMAIN m
  BY DEF Messages
<1>2. DOMAIN Console!Empty = {}
  BY DEF Console!Empty
<1> QED
  BY <1>1, <1>2

\* The host takes a request: a read is noted, a character is shown, a system call gets
\* its answer.
LEMMA HostTakesKeeps ==
    ASSUME Console!HtifAssumption, HtifTypes, ConsoleWorks, Console!HostTakes
    PROVE  HtifTypes' /\ ConsoleWorks' /\ Console!KeyInOrder /\ Console!CharInOrder
<1>1. /\ s1 \in Messages /\ s1' = Console!Empty
      /\ UNCHANGED <<s2, s3, s4, s5, s7, s10, s11, s12>>
  BY DEF HtifTypes, Console!HostTakes, Console!HostRest
<1>2. /\ Buffed' = Buffed /\ Asks(s2)' = Asks(s2) /\ Asking' = Asking
      /\ ~ Asks(s1)' /\ ~ Shows(s1)' /\ (s5 = "set" /\ Shows(s4))' = (s5 = "set" /\ Shows(s4))
  BY <1>1 DEF Buffed, Asks, Asking, Shows
<1>3. CASE s1.dev = 0
  <2>1. ~ Asks(s1) /\ ~ Shows(s1) /\ s8' = s8 /\ s13' = s13
    BY <1>1, <1>3 DEF Console!HostTakes, HtifTypes, Asks, Shows
  <2>2. PICK m : m = Console!Command(0, 0, 0)
    OBVIOUS
  <2>3. m \in Messages /\ m.dev = 0 /\ m.cmd = 0 /\ m.data = 0 /\ s9' = Append(s9, m)
    BY <1>1, <1>3, <2>2 DEF Console!HostTakes, Console!Command, Messages
  <2>4. /\ s9' \in Seq(Messages) /\ DOMAIN s9' = 1 .. Len(s9) + 1
        /\ DOMAIN s9 = 1 .. Len(s9) /\ Len(s9) \in Nat
        /\ \A i \in 1 .. Len(s9) : s9'[i] = s9[i]
        /\ s9'[Len(s9) + 1] = m
    BY <2>3, Queues DEF HtifTypes
  <2>5. \A i \in DOMAIN s9' : \/ i \in DOMAIN s9 /\ s9'[i] = s9[i]
                              \/ s9'[i].dev = 0 /\ IsReply(s9'[i])
    BY <2>3, <2>4 DEF IsReply, Console!HtifAssumption
  <2>6. Queued' = Queued /\ Sought' = Sought
    BY <2>1, <2>4, <2>5 DEF Queued, Sought
  <2>7. HtifTypes'
    BY <1>1, <2>1, <2>4 DEF HtifTypes
  <2>8. RepliesFit'
    BY <1>1, <2>4, <2>5 DEF RepliesFit, ConsoleWorks
  <2>9. OneRequest'
    <3>1. \A i, j \in DOMAIN s9' : s9'[i].dev = 1 /\ s9'[j].dev = 1 => i = j
      BY <2>4, <2>5 DEF OneRequest, ConsoleWorks
    <3> QED
      BY <1>1, <1>2, <2>1, <2>6, <3>1 DEF OneRequest, ConsoleWorks
  <2>10. Ahead' = Ahead /\ Unshown' = Unshown
    BY <1>2, <2>1, <2>6 DEF Ahead, Unshown, Ones
  <2>11. NextKey' /\ KeysFollow'
    BY <1>1, <1>2, <2>4, <2>5, <2>10 DEF NextKey, KeysFollow, ConsoleWorks
  <2>12. CharsFollow'
    BY <1>1, <1>2, <2>1, <2>10 DEF CharsFollow, ConsoleWorks
  <2> QED
    BY <1>1, <2>1, <2>7, <2>8, <2>9, <2>11, <2>12 DEF ConsoleWorks, Console!KeyInOrder,
       Console!CharInOrder
<1>4. CASE Asks(s1)
  <2>1. /\ ~ Shows(s1) /\ s8' = s8 + 1 /\ s13' = s13 /\ s9' = s9
    BY <1>1, <1>4 DEF Console!HostTakes, HtifTypes, Asks, Shows
  <2>2. s8 = 0 /\ ~ Queued /\ ~ Asks(s2) /\ ~ Asking /\ s3 = -1
    BY <1>4 DEF OneRequest, ConsoleWorks, Sought, HtifTypes
  <2>3. Queued' = Queued /\ Sought'
    BY <2>1, <2>2 DEF Queued, Sought
  <2>7. HtifTypes'
    BY <1>1, <2>1 DEF HtifTypes
  <2>8. RepliesFit'
    BY <1>1, <2>1 DEF RepliesFit, ConsoleWorks
  <2>9. OneRequest'
    BY <1>1, <1>2, <2>1, <2>2, <2>3 DEF OneRequest, ConsoleWorks
  <2>10. Ahead' = Ahead /\ Unshown' = Unshown
    BY <1>2, <2>1, <2>3 DEF Ahead, Unshown, Ones
  <2>11. NextKey' /\ KeysFollow'
    BY <1>1, <1>2, <2>1, <2>10 DEF NextKey, KeysFollow, ConsoleWorks
  <2>12. CharsFollow'
    BY <1>1, <1>2, <2>1, <2>10 DEF CharsFollow, ConsoleWorks
  <2> QED
    BY <1>1, <2>1, <2>7, <2>8, <2>9, <2>11, <2>12 DEF ConsoleWorks, Console!KeyInOrder,
       Console!CharInOrder
<1>5. CASE Shows(s1)
  <2>1. /\ ~ Asks(s1) /\ s8' = s8 /\ s13' = s1.data /\ s9' = s9
    BY <1>1, <1>5 DEF Console!HostTakes, HtifTypes, Asks, Shows
  <2>2. Queued' = Queued /\ Sought' = Sought
    BY <2>1 DEF Queued, Sought
  <2>3. s13' = Onward(s13, 1) /\ s13' \in Chars /\ s13' = Console!Next1(s13)
    BY <1>5, <2>1, OnwardTwice, 1 \in Nat DEF CharsFollow, ConsoleWorks, HtifTypes
  <2>4. Unshown' \in Nat /\ Unshown = Unshown' + 1
    BY <1>2, <1>5 DEF Unshown, Ones
  <2>5. s12 = Onward(s13', Unshown')
    <3>1. PICK w \in Nat : w = Unshown'
      BY <2>4
    <3>2. s12 = Onward(s13, w + 1)
      BY <2>4, <3>1 DEF CharsFollow, ConsoleWorks
    <3>3. Onward(Onward(s13, 1), w) = Onward(s13, w + 1)
      BY OnwardTwice DEF HtifTypes
    <3> QED
      BY <2>3, <3>1, <3>2, <3>3
  <2>7. HtifTypes'
    BY <1>1, <2>1, <2>3 DEF HtifTypes
  <2>8. RepliesFit'
    BY <1>1, <2>1 DEF RepliesFit, ConsoleWorks
  <2>9. OneRequest'
    BY <1>1, <1>2, <2>1, <2>2 DEF OneRequest, ConsoleWorks
  <2>10. Ahead' = Ahead
    BY <1>2, <2>2 DEF Ahead, Ones
  <2>11. NextKey' /\ KeysFollow'
    BY <1>1, <1>2, <2>1, <2>10 DEF NextKey, KeysFollow, ConsoleWorks
  <2>12. CharsFollow'
    BY <1>1, <1>2, <2>5 DEF CharsFollow, ConsoleWorks
  <2> QED
    BY <1>1, <2>3, <2>7, <2>8, <2>9, <2>11, <2>12 DEF ConsoleWorks, Console!KeyInOrder,
       Console!CharInOrder
<1>6. s1.dev = 0 \/ Asks(s1) \/ Shows(s1)
  BY DEF Console!HostTakes, HtifTypes, Messages, Asks, Shows
<1> QED
  BY <1>3, <1>4, <1>5, <1>6

\* One more is one more modulo CHARS.
LEMMA OneMore ==
    ASSUME NEW n \in Nat, NEW N \in Nat \ {0, 1}
    PROVE  (n + 1) % N = ((n % N) + 1) % N
<1>1. PICK q \in Nat, r \in 0 .. N - 1 : q = n \div N /\ r = n % N
  OBVIOUS
<1>2. n = N * q + r
  BY <1>1
<1>3. PICK x \in Nat, y \in 0 .. N - 1 : x = (n + 1) \div N /\ y = (n + 1) % N
  OBVIOUS
<1>4. n + 1 = N * x + y
  BY <1>3
<1>5. N * (q + 1) = N * q + N /\ N * (q + 2) = N * q + 2 * N /\ N * q \in Int
  OBVIOUS
<1>6. x <= q + 1
  <2>1. CASE x > q + 1
    <3>1. N * x >= N * (q + 2)
      BY <2>1
    <3> QED
      BY <1>2, <1>4, <1>5, <3>1
  <2> QED
    BY <2>1
<1>7. x >= q
  <2>1. CASE x < q
    <3>1. N * q >= N * (x + 1) /\ N * (x + 1) = N * x + N /\ N * x \in Int
      BY <2>1
    <3> QED
      BY <1>2, <1>4, <1>5, <3>1
  <2> QED
    BY <2>1
<1>8. CASE x = q
  <2>1. y = r + 1
    BY <1>2, <1>4, <1>5, <1>8
  <2>2. r + 1 < N /\ (r + 1) % N = r + 1
    BY <2>1
  <2> QED
    BY <1>1, <1>3, <2>1, <2>2
<1>9. CASE x = q + 1
  <2>1. y + N = r + 1
    BY <1>2, <1>4, <1>5, <1>9
  <2>2. r + 1 = N /\ y = 0 /\ N % N = 0
    BY <2>1
  <2> QED
    BY <1>1, <1>3, <2>2
<1> QED
  BY <1>6, <1>7, <1>8, <1>9

\* Counting on by one.
LEMMA OnwardOne ==
    ASSUME Console!HtifAssumption, NEW a \in Chars, NEW n \in Nat
    PROVE  Onward(Onward(a, n), 1) = Onward(a, n + 1)
<1>1. PICK N \in Nat \ {0, 1} : N = CHARS
  BY DEF Console!HtifAssumption
<1>2. PICK b \in Nat : b = a + n
  BY <1>1 DEF Chars
<1>3. (b + 1) % N = ((b % N) + 1) % N
  BY OneMore
<1>4. a + (n + 1) = b + 1
  BY <1>1, <1>2 DEF Chars
<1> QED
  BY <1>1, <1>2, <1>3, <1>4 DEF Onward

\* The host gives a key that is waited for to the answers: it is the next one.
LEMMA HostReadsKeeps ==
    ASSUME Console!HtifAssumption, HtifTypes, ConsoleWorks, Console!HostReads
    PROVE  HtifTypes' /\ ConsoleWorks' /\ Console!KeyInOrder /\ Console!CharInOrder
<1>1. UNCHANGED <<s1, s2, s3, s4, s5, s6, s10, s11, s12, s13>>
  BY DEF Console!HostReads, Console!HostRest
<1>2. /\ Buffed' = Buffed /\ Asks(s2)' = Asks(s2) /\ Asking' = Asking
      /\ Asks(s1)' = Asks(s1) /\ Unshown' = Unshown
  BY <1>1 DEF Buffed, Asks, Asking, Shows, Unshown
<1>3. /\ s8 = 1 /\ s8' = 0 /\ ~ Queued /\ ~ Asks(s2) /\ ~ Asking /\ ~ Asks(s1)
      /\ s3 = -1 /\ ~ Buffed
  BY DEF Console!HostReads, Sought, OneRequest, ConsoleWorks, HtifTypes, Buffed
<1>4. Ahead = 0
  BY <1>3 DEF Ahead, Ones
<1>5. /\ Len(s7) \in Nat /\ Len(s7) > 0 /\ DOMAIN s7 = 1 .. Len(s7)
      /\ s7' \in Seq(Chars) /\ Len(s7') = Len(s7) - 1 /\ DOMAIN s7' = 1 .. Len(s7) - 1
      /\ Head(s7) \in Chars /\ Head(s7) = s7[1]
      /\ \A i \in 1 .. Len(s7) - 1 : s7'[i] = s7[i + 1]
  BY Queues DEF Console!HostReads, HtifTypes
<1>6. /\ \A i \in 1 .. Len(s7) : s7[i] = Onward(s11, i)
      /\ s10 = Onward(s11, Len(s7)) /\ Len(s7) <= TypeAhead
  BY <1>4, <1>5 DEF KeysFollow, ConsoleWorks
<1>7. PICK m : m = Console!Command(1, 0, Head(s7))
  OBVIOUS
<1>8. /\ m \in Messages /\ m.dev = 1 /\ IsReply(m) /\ m.data = Onward(s11, 1)
      /\ s9' = Append(s9, m)
  BY <1>5, <1>6, <1>7 DEF Console!HostReads, Console!Command, Messages, IsReply, Chars,
     Console!HtifAssumption
<1>9. /\ s9' \in Seq(Messages) /\ DOMAIN s9' = 1 .. Len(s9) + 1
      /\ DOMAIN s9 = 1 .. Len(s9) /\ Len(s9) \in Nat
      /\ \A i \in 1 .. Len(s9) : s9'[i] = s9[i]
      /\ s9'[Len(s9) + 1] = m
  BY <1>8, Queues DEF HtifTypes
<1>10. \A i \in DOMAIN s9' : \/ i \in DOMAIN s9 /\ s9'[i] = s9[i] /\ s9'[i].dev # 1
                             \/ i = Len(s9) + 1 /\ s9'[i] = m
  BY <1>3, <1>9 DEF Queued
<1>11. Queued' /\ ~ Sought'
  BY <1>3, <1>8, <1>9 DEF Queued, Sought
<1>12. Ahead' = 1
  BY <1>11 DEF Ahead, Ones
<1>13. HtifTypes'
  BY <1>1, <1>3, <1>5, <1>9 DEF HtifTypes
<1>14. RepliesFit'
  BY <1>1, <1>8, <1>9, <1>10 DEF RepliesFit, ConsoleWorks
<1>15. OneRequest'
  <2>1. \A i, j \in DOMAIN s9' : s9'[i].dev = 1 /\ s9'[j].dev = 1 => i = j
    BY <1>10
  <2> QED
    BY <1>1, <1>2, <1>3, <1>11, <2>1 DEF OneRequest, ConsoleWorks
<1>16. NextKey'
  BY <1>1, <1>2, <1>3, <1>8, <1>10 DEF NextKey
<1>17. KeysFollow'
  <2>1. \A i \in DOMAIN s7' : s7'[i] = Onward(s11, 1 + i)
    BY <1>5, <1>6
  <2>2. s10 = Onward(s11, 1 + Len(s7'))
    BY <1>5, <1>6
  <2> QED
    BY <1>1, <1>5, <1>6, <1>12, <2>1, <2>2 DEF KeysFollow
<1>18. CharsFollow'
  BY <1>1, <1>2 DEF CharsFollow, ConsoleWorks
<1> QED
  BY <1>1, <1>13, <1>14, <1>15, <1>16, <1>17, <1>18 DEF ConsoleWorks, Console!KeyInOrder,
     Console!CharInOrder

\* The host gives the oldest answer.
LEMMA HostGivesKeeps ==
    ASSUME Console!HtifAssumption, HtifTypes, ConsoleWorks, Console!HostGives
    PROVE  HtifTypes' /\ ConsoleWorks' /\ Console!KeyInOrder /\ Console!CharInOrder
<1>1. /\ UNCHANGED <<s1, s3, s4, s5, s6, s7, s8, s10, s11, s12, s13>>
      /\ s2 = Console!Empty
  BY DEF Console!HostGives, Console!HostRest
<1>2. /\ Buffed' = Buffed /\ Asking' = Asking /\ Asks(s1)' = Asks(s1) /\ Unshown' = Unshown
      /\ ~ Asks(s2) /\ Sought' = Sought
  BY <1>1 DEF Buffed, Asks, Asking, Shows, Unshown, Sought
<1>3. /\ Len(s9) \in Nat /\ Len(s9) > 0 /\ DOMAIN s9 = 1 .. Len(s9)
      /\ s9' \in Seq(Messages) /\ DOMAIN s9' = 1 .. Len(s9) - 1
      /\ s2' \in Messages /\ s2' = s9[1]
      /\ \A i \in 1 .. Len(s9) - 1 : s9'[i] = s9[i + 1]
  BY Queues DEF Console!HostGives, HtifTypes
<1>4. PICK m \in Messages : m = s2'
  BY <1>3
<1>5. m # Console!Empty /\ IsReply(m)
  <2>1. IsReply(s9[1])
    BY <1>3 DEF RepliesFit, ConsoleWorks
  <2> QED
    BY <1>3, <1>4, <2>1, NotEmpty
<1>6. Asks(s2)' <=> m.dev = 1
  BY <1>4, <1>5 DEF Asks, IsReply
<1>7. m.dev = 1 => Queued /\ ~ Queued'
  <2>1. SUFFICES ASSUME m.dev = 1 PROVE Queued /\ ~ Queued'
    OBVIOUS
  <2>2. 1 \in DOMAIN s9 /\ s9[1].dev = 1
    BY <1>3, <1>4, <2>1
  <2>3. \A i \in DOMAIN s9 : s9[i].dev = 1 => i = 1
    BY <2>2 DEF OneRequest, ConsoleWorks
  <2>4. ASSUME NEW i \in DOMAIN s9', s9'[i].dev = 1 PROVE FALSE
    <3>1. i \in 1 .. Len(s9) - 1 /\ s9'[i] = s9[i + 1]
      BY <1>3, <2>4
    <3>2. i + 1 \in 1 .. Len(s9) /\ i + 1 # 1
      BY <1>3, <3>1
    <3> QED
      BY <1>3, <2>3, <2>4, <3>1, <3>2
  <2> QED
    BY <2>2, <2>4 DEF Queued
<1>8. m.dev # 1 => Queued' = Queued
  <2>1. ASSUME m.dev # 1, Queued PROVE Queued'
    <3>1. PICK i \in 1 .. Len(s9) : s9[i].dev = 1
      BY <1>3, <2>1 DEF Queued
    <3>2. i # 1 /\ i - 1 \in 1 .. Len(s9) - 1 /\ (i - 1) + 1 = i
      BY <1>3, <1>4, <2>1, <3>1
    <3> QED
      BY <1>3, <3>1, <3>2 DEF Queued
  <2>2. ASSUME Queued' PROVE Queued
    BY <1>3, <2>2 DEF Queued
  <2> QED
    BY <2>1, <2>2 DEF Queued
<1>9. Ahead' = Ahead
  BY <1>2, <1>6, <1>7, <1>8 DEF Ahead, Ones
<1>10. HtifTypes'
  BY <1>1, <1>3 DEF HtifTypes
<1>11. RepliesFit'
  BY <1>1, <1>3, <1>4, <1>5 DEF RepliesFit, ConsoleWorks
<1>12. OneRequest'
  <2>1. ASSUME NEW i \in DOMAIN s9', NEW j \in DOMAIN s9', s9'[i].dev = 1, s9'[j].dev = 1
        PROVE  i = j
    <3>1. PICK a \in DOMAIN s9, b \in DOMAIN s9 : a = i + 1 /\ b = j + 1
      BY <1>3
    <3>2. s9[a].dev = 1 /\ s9[b].dev = 1
      BY <1>3, <2>1, <3>1
    <3>3. a = b
      BY <3>2 DEF OneRequest, ConsoleWorks
    <3> QED
      BY <1>3, <3>1, <3>3
  <2> QED
    BY <1>1, <1>2, <1>6, <1>7, <1>8, <2>1 DEF OneRequest, ConsoleWorks
<1>13. NextKey'
  <2>1. \A i \in DOMAIN s9 : s9[i].dev = 1 => s9[i].data = Onward(s11, 1)
    BY DEF NextKey, ConsoleWorks
  <2>2. Asks(s2)' => s2'.data = Onward(s11, 1)
    BY <1>3, <1>4, <1>6, <2>1
  <2>3. \A i \in DOMAIN s9' : s9'[i].dev = 1 => s9'[i].data = Onward(s11, 1)
    BY <1>3, <2>1
  <2>4. Buffed' => s3' - 1 = Onward(s11, 1)
    BY <1>1, <1>2 DEF NextKey, ConsoleWorks
  <2> QED
    BY <1>1, <2>2, <2>3, <2>4 DEF NextKey
<1>14. KeysFollow' /\ CharsFollow'
  BY <1>1, <1>2, <1>9 DEF KeysFollow, CharsFollow, ConsoleWorks
<1> QED
  BY <1>1, <1>10, <1>11, <1>12, <1>13, <1>14 DEF ConsoleWorks, Console!KeyInOrder,
     Console!CharInOrder

\* The next key is pressed.
LEMMA TypeKeeps ==
    ASSUME Console!HtifAssumption, HtifTypes, ConsoleWorks, Console!Type
    PROVE  HtifTypes' /\ ConsoleWorks' /\ Console!KeyInOrder /\ Console!CharInOrder
<1>1. /\ UNCHANGED <<s1, s2, s3, s4, s5, s6, s8, s9, s11, s12, s13>>
      /\ s10' = Console!Next1(s10) /\ s7' = Append(s7, s10')
  BY DEF Console!Type, Console!HostRest
<1>2. /\ Buffed' = Buffed /\ Asking' = Asking /\ Asks(s1)' = Asks(s1) /\ Unshown' = Unshown
      /\ Asks(s2)' = Asks(s2) /\ Sought' = Sought /\ Queued' = Queued /\ Ahead' = Ahead
  BY <1>1 DEF Buffed, Asks, Asking, Shows, Unshown, Sought, Queued, Ahead
<1>3. s10' \in Chars /\ s10' = Onward(s10, 1)
  BY <1>1, OnwardTwice, 1 \in Nat DEF HtifTypes
<1>4. PICK L \in Nat : L = Len(s7)
  BY DEF HtifTypes
<1>5. PICK A \in 0 .. 1 : A = Ahead
  BY DEF Ahead, Ones
<1>6. /\ s7' \in Seq(Chars) /\ Len(s7') = L + 1 /\ DOMAIN s7' = 1 .. L + 1 /\ DOMAIN s7 = 1 .. L
      /\ \A i \in 1 .. L : s7'[i] = s7[i]
      /\ s7'[L + 1] = s10'
  BY <1>1, <1>3, <1>4, Queues DEF HtifTypes
<1>7. A + L <= TypeAhead /\ TypeAhead < CHARS /\ TypeAhead \in Nat /\ CHARS \in Nat
  BY <1>4, <1>5 DEF KeysFollow, ConsoleWorks, Console!HtifAssumption
<1>8. A + L \in Nat /\ s10 = Onward(s11, A + L) /\ s11 \in Chars
  BY <1>4, <1>5 DEF KeysFollow, ConsoleWorks, HtifTypes
<1>9. (s10 - s11) % CHARS = A + L
  <2>1. A + L < CHARS
    BY <1>7
  <2> QED
    BY <1>8, <2>1, OnwardTwice
<1>10. A + L < TypeAhead
  BY <1>9 DEF Console!Type
<1>11. s10' = Onward(s11, A + L + 1)
  BY <1>3, <1>8, OnwardOne
<1>12. KeysFollow'
  <2>1. \A i \in DOMAIN s7' : s7'[i] = Onward(s11, A + i)
    <3>1. A + (L + 1) = A + L + 1
      OBVIOUS
    <3>2. \A i \in 1 .. L : s7[i] = Onward(s11, A + i)
      BY <1>5, <1>6 DEF KeysFollow, ConsoleWorks
    <3> QED
      BY <1>6, <1>11, <3>1, <3>2
  <2>2. A + (L + 1) = A + L + 1 /\ A + (L + 1) <= TypeAhead
    BY <1>7, <1>10
  <2> QED
    BY <1>1, <1>2, <1>5, <1>6, <1>11, <2>1, <2>2 DEF KeysFollow
<1>13. HtifTypes'
  BY <1>1, <1>3, <1>6 DEF HtifTypes
<1>14. RepliesFit' /\ NextKey' /\ CharsFollow'
  BY <1>1, <1>2 DEF RepliesFit, NextKey, CharsFollow, ConsoleWorks
<1>15. OneRequest'
  BY <1>1, <1>2 DEF OneRequest, ConsoleWorks
<1> QED
  BY <1>1, <1>12, <1>13, <1>14, <1>15 DEF ConsoleWorks, Console!KeyInOrder,
     Console!CharInOrder

\* A key that comes while the program waits for something else goes to the buffer.
LEMMA CheckKeeps ==
    ASSUME Console!HtifAssumption, HtifTypes, ConsoleWorks, Console!check_fromhost,
           UNCHANGED <<s1, s4, s5, s7, s8, s9, s10, s11, s12, s13>>
    PROVE  HtifTypes' /\ ConsoleWorks' /\ Console!KeyInOrder /\ Console!CharInOrder
<1>1. /\ Asking' = Asking /\ Asks(s1)' = Asks(s1) /\ Unshown' = Unshown
      /\ Sought' = Sought /\ Queued' = Queued
  BY DEF Asks, Asking, Shows, Unshown, Sought, Queued
<1>2. CASE s2 = Console!Empty
  <2>1. UNCHANGED <<s2, s3>>
    BY <1>2 DEF Console!check_fromhost
  <2>2. Buffed' = Buffed /\ Asks(s2)' = Asks(s2) /\ Ahead' = Ahead
    BY <1>1, <2>1 DEF Buffed, Asks, Ahead, Queued
  <2>3. HtifTypes' /\ RepliesFit'
    BY <2>1 DEF HtifTypes, RepliesFit, ConsoleWorks
  <2>4. OneRequest'
    BY <1>1, <2>1, <2>2 DEF OneRequest, ConsoleWorks
  <2>5. NextKey' /\ KeysFollow' /\ CharsFollow'
    BY <1>1, <2>1, <2>2 DEF NextKey, KeysFollow, CharsFollow, ConsoleWorks
  <2> QED
    BY <2>3, <2>4, <2>5 DEF ConsoleWorks, Console!KeyInOrder, Console!CharInOrder
<1>3. CASE s2 # Console!Empty
  <2>1. /\ s2 \in Messages /\ s2.dev = 1 /\ s2.cmd = 0 /\ s2.data < CHARS
        /\ s2' = Console!Empty /\ s3' = 1 + s2.data
    BY <1>3 DEF Console!check_fromhost, HtifTypes, RepliesFit, IsReply, ConsoleWorks
  <2>2. PICK d \in Nat : d = s2.data
    BY <2>1 DEF Messages
  <2>3. Asks(s2) /\ d = Onward(s11, 1)
    BY <1>3, <2>1, <2>2 DEF Asks, NextKey, ConsoleWorks
  <2>4. ~ Asking /\ ~ Asks(s1) /\ ~ Sought /\ ~ Queued
    BY <2>3 DEF OneRequest, ConsoleWorks
  <2>5. CHARS \in Nat /\ s3' \in 1 .. CHARS
    BY <2>1, <2>2 DEF Console!HtifAssumption
  <2>6. ~ Asks(s2)' /\ Buffed' /\ s3' # -1 /\ s3' - 1 = Onward(s11, 1)
    BY <2>1, <2>2, <2>3 DEF Asks, Buffed
  <2>7. Ahead = 1 /\ Ahead' = 1
    BY <2>3, <2>6 DEF Ahead, Ones
  <2>8. HtifTypes' /\ RepliesFit'
    BY <2>1, <2>5 DEF HtifTypes, RepliesFit, ConsoleWorks
  <2>9. OneRequest'
    BY <1>1, <2>4, <2>6 DEF OneRequest, ConsoleWorks
  <2>10. NextKey'
    BY <2>4, <2>6 DEF NextKey, ConsoleWorks, Queued
  <2>11. KeysFollow' /\ CharsFollow'
    BY <1>1, <2>7 DEF KeysFollow, CharsFollow, ConsoleWorks
  <2> QED
    BY <2>8, <2>9, <2>10, <2>11 DEF ConsoleWorks, Console!KeyInOrder, Console!CharInOrder
<1> QED
  BY <1>2, <1>3

\* The program takes the key that it has asked for, and asks for the next one.
LEMMA GetcharKeeps ==
    ASSUME Console!HtifAssumption, HtifTypes, ConsoleWorks, Console!getchar
    PROVE  HtifTypes' /\ ConsoleWorks' /\ Console!KeyInOrder /\ Console!CharInOrder
<1>1. /\ UNCHANGED <<s1, s7, s8, s9, s10, s12, s13>>
      /\ s5 = "idle" /\ s2' = Console!Empty /\ s6' = Console!Buffer - 1
  BY DEF Console!getchar, Console!HostIdle
<1>2. /\ ~ Asking /\ Asks(s1)' = Asks(s1) /\ Sought' = Sought /\ Queued' = Queued
      /\ ~ Asks(s2)'
  BY <1>1 DEF Asking, Asks, Sought, Queued
<1>3. /\ s2 # Console!Empty => Asks(s2) /\ Console!Buffer > 0 /\ Console!Buffer - 1 = Onward(s11, 1)
      /\ s2 = Console!Empty => ~ Asks(s2) /\ Console!Buffer = s3
  <2>1. CASE s2 = Console!Empty
    BY <2>1 DEF Asks, Console!Buffer
  <2>2. CASE s2 # Console!Empty
    <3>1. /\ s2 \in Messages /\ s2.dev = 1 /\ s2.cmd = 0
          /\ Console!Buffer = 1 + s2.data
      BY <2>2 DEF Console!getchar, HtifTypes, RepliesFit, IsReply, ConsoleWorks,
         Console!Buffer
    <3>2. PICK d \in Nat : d = s2.data
      BY <3>1 DEF Messages
    <3>3. Asks(s2) /\ d = Onward(s11, 1)
      BY <2>2, <3>1, <3>2 DEF Asks, NextKey, ConsoleWorks
    <3> QED
      BY <2>2, <3>1, <3>2, <3>3
  <2> QED
    BY <2>1, <2>2
<1>4. PICK b \in Int : b = Console!Buffer /\ b >= -1
  <2>1. CASE s2 = Console!Empty
    BY <1>3, <2>1 DEF HtifTypes
  <2>2. CASE s2 # Console!Empty
    <3>1. Console!Buffer = 1 + s2.data /\ s2.data \in Nat
      BY <2>2 DEF Console!getchar, HtifTypes, Messages, RepliesFit, IsReply,
         ConsoleWorks, Console!Buffer
    <3> QED
      BY <3>1
  <2> QED
    BY <2>1, <2>2
<1>5. /\ Console!Command(1, 0, 0) \in Messages
      /\ Console!Command(1, 0, 0).dev = 1 /\ Console!Command(1, 0, 0).cmd = 0
  BY DEF Console!Command, Messages
<1>6. PICK m \in Messages :
         m = Console!Command(1, 0, 0) /\ m.dev = 1 /\ m.cmd = 0 /\ m # Console!Empty
  BY <1>5, NotEmpty
<1>7. CASE b = -1
  <2>1. s2 = Console!Empty /\ s3 = -1
    BY <1>3, <1>4, <1>7
  <2>2. UNCHANGED <<s3, s4, s5, s11, s2>>
    BY <1>1, <1>4, <1>7, <2>1 DEF Console!getchar
  <2>3. /\ Buffed' = Buffed /\ Asking' = Asking /\ Asks(s2)' = Asks(s2)
        /\ Ahead' = Ahead /\ Unshown' = Unshown
    BY <1>1, <1>2, <2>2 DEF Buffed, Asking, Asks, Shows, Ahead, Unshown
  <2>4. HtifTypes' /\ RepliesFit'
    BY <1>1, <2>2 DEF HtifTypes, RepliesFit, ConsoleWorks
  <2>5. OneRequest'
    BY <1>1, <1>2, <2>2, <2>3 DEF OneRequest, ConsoleWorks
  <2>6. NextKey' /\ KeysFollow' /\ CharsFollow'
    BY <1>1, <2>2, <2>3 DEF NextKey, KeysFollow, CharsFollow, ConsoleWorks
  <2> QED
    BY <1>1, <2>2, <2>4, <2>5, <2>6 DEF ConsoleWorks, Console!KeyInOrder,
       Console!CharInOrder
<1>8. CASE b >= 0
  <2>1. s3' = -1 /\ s4' = m /\ s5' = "set"
    BY <1>4, <1>6, <1>8 DEF Console!getchar, Console!Asked
  <2>2. ~ Asks(s1) /\ ~ Sought /\ ~ Queued
    BY <1>3, <1>4, <1>8 DEF OneRequest, ConsoleWorks
  <2>3. Asking' /\ ~ Buffed' /\ Unshown' = Unshown /\ ~ (s5' = "set" /\ Shows(s4'))
    BY <1>1, <1>6, <2>1 DEF Asking, Asks, Buffed, Unshown, Shows
  <2>4. Ahead' = 0
    BY <1>2, <2>2, <2>3 DEF Ahead, Ones
  <2>5. OneRequest'
    BY <1>1, <1>2, <2>1, <2>2, <2>3 DEF OneRequest, ConsoleWorks
  <2>6. RepliesFit'
    BY <1>1, <1>6, <2>1 DEF RepliesFit, ConsoleWorks
  <2>7. NextKey'
    BY <1>1, <1>2, <2>2, <2>3 DEF NextKey, Queued
  <2>8. s11' \in Chars /\ (b > 0 => s11' = Onward(s11, 1)) /\ (b = 0 => s11' = s11)
    BY <1>4, OnwardTwice, 1 \in Nat DEF Console!getchar, HtifTypes
  <2>9. HtifTypes'
    BY <1>1, <1>6, <2>1, <2>8 DEF HtifTypes, Console!HtifAssumption
  <2>10. Console!KeyInOrder
    <3>1. CASE b > 0
      <4>1. Console!Buffer - 1 = Onward(s11, 1)
        BY <1>3, <1>4, <3>1 DEF NextKey, ConsoleWorks, Buffed
      <4> QED
        BY <1>1, <2>8, <3>1, <4>1 DEF Console!KeyInOrder
    <3>2. CASE b = 0
      BY <2>8, <3>2 DEF Console!KeyInOrder
    <3> QED
      BY <1>8, <3>1, <3>2
  <2>11. KeysFollow'
    <3>1. PICK L \in Nat : L = Len(s7) /\ DOMAIN s7 = 1 .. L
      BY DEF HtifTypes
    <3>2. CASE b > 0
      <4>1. Ahead = 1
        BY <1>3, <1>4, <3>2 DEF Ahead, Ones, Buffed
      <4>2. /\ \A i \in 1 .. L : s7[i] = Onward(s11, 1 + i)
            /\ s10 = Onward(s11, 1 + L) /\ 1 + L <= TypeAhead
        BY <3>1, <4>1 DEF KeysFollow, ConsoleWorks
      <4>3. \A n \in Nat : Onward(s11', n) = Onward(s11, n + 1)
        BY <2>8, <3>2, OnwardTwice DEF HtifTypes
      <4>4. \A n \in Nat : n + 1 = 1 + n
        OBVIOUS
      <4>5. /\ \A i \in 1 .. L : s7[i] = Onward(s11', 0 + i)
            /\ s10 = Onward(s11', 0 + L)
        BY <4>2, <4>3, <4>4
      <4> QED
        BY <1>1, <2>4, <3>1, <4>2, <4>5 DEF KeysFollow, Console!HtifAssumption
    <3>3. CASE b = 0
      <4>1. Ahead = 0
        BY <1>3, <1>4, <2>2, <3>3 DEF Ahead, Ones, Buffed
      <4> QED
        BY <1>1, <2>4, <2>8, <3>3, <4>1 DEF KeysFollow, ConsoleWorks
    <3> QED
      BY <1>8, <3>2, <3>3
  <2>12. CharsFollow'
    BY <1>1, <2>3 DEF CharsFollow, ConsoleWorks
  <2> QED
    BY <1>1, <2>5, <2>6, <2>7, <2>9, <2>10, <2>11, <2>12 DEF ConsoleWorks,
       Console!CharInOrder
<1> QED
  BY <1>4, <1>7, <1>8

\* A character is put: at most two are not yet shown, this one and the one before it.
LEMMA PutcharKeeps ==
    ASSUME Console!HtifAssumption, HtifTypes, ConsoleWorks, Console!putchar
    PROVE  HtifTypes' /\ ConsoleWorks' /\ Console!KeyInOrder /\ Console!CharInOrder
<1>1. /\ UNCHANGED <<s1, s2, s3, s7, s8, s9, s10, s6, s11, s13>>
      /\ s5 = "idle" /\ s5' = "set" /\ s12' = Console!Next1(s12) /\ s4' = Console!Command(1, 1, s12')
  BY DEF Console!putchar, Console!HostIdle
<1>2. s12' \in Chars /\ s12' = Onward(s12, 1) /\ s12' \in Nat
  BY <1>1, OnwardTwice, 1 \in Nat DEF HtifTypes, Chars, Console!HtifAssumption
<1>3. s4' \in Messages /\ s4'.dev = 1 /\ s4'.cmd = 1 /\ s4'.data = s12' /\ s4' # Console!Empty
  BY <1>1, <1>2, NotEmpty DEF Console!Command, Messages
<1>4. /\ Asks(s1)' = Asks(s1) /\ Sought' = Sought /\ Queued' = Queued /\ Buffed' = Buffed
      /\ Asks(s2)' = Asks(s2) /\ ~ Asking /\ ~ Asking' /\ Ahead' = Ahead
  BY <1>1, <1>3 DEF Asks, Asking, Sought, Queued, Buffed, Ahead
<1>5. PICK w \in Nat : w = Unshown /\ Unshown' = w + 1
  BY <1>1, <1>3 DEF Unshown, Shows, Ones
<1>6. s12' = Onward(s13, w + 1)
  BY <1>2, <1>5, OnwardOne DEF CharsFollow, ConsoleWorks, HtifTypes
<1>7. HtifTypes' /\ RepliesFit'
  BY <1>1, <1>2, <1>3 DEF HtifTypes, RepliesFit, ConsoleWorks
<1>8. OneRequest'
  BY <1>1, <1>4 DEF OneRequest, ConsoleWorks
<1>9. NextKey' /\ KeysFollow'
  BY <1>1, <1>4 DEF NextKey, KeysFollow, ConsoleWorks
<1>10. CharsFollow'
  BY <1>1, <1>3, <1>5, <1>6 DEF CharsFollow, ConsoleWorks, Shows
<1> QED
  BY <1>1, <1>7, <1>8, <1>9, <1>10 DEF ConsoleWorks, Console!KeyInOrder, Console!CharInOrder

\* A system call asks for no key.
LEMMA SyscallKeeps ==
    ASSUME Console!HtifAssumption, HtifTypes, ConsoleWorks, Console!syscall
    PROVE  HtifTypes' /\ ConsoleWorks' /\ Console!KeyInOrder /\ Console!CharInOrder
<1>1. /\ UNCHANGED <<s1, s2, s3, s7, s8, s9, s10, s6, s11, s12, s13>>
      /\ s5 = "idle" /\ s5' = "set" /\ s4' = Console!Command(0, 0, 2)
  BY DEF Console!syscall, Console!HostIdle
<1>2. s4' \in Messages /\ s4'.dev = 0 /\ s4'.cmd = 0 /\ s4' # Console!Empty
  BY <1>1, NotEmpty DEF Console!Command, Messages
<1>3. /\ Asks(s1)' = Asks(s1) /\ Sought' = Sought /\ Queued' = Queued /\ Buffed' = Buffed
      /\ Asks(s2)' = Asks(s2) /\ ~ Asking /\ ~ Asking' /\ Ahead' = Ahead
      /\ Unshown' = Unshown
  BY <1>1, <1>2 DEF Asks, Asking, Sought, Queued, Buffed, Ahead, Unshown, Shows
<1>4. HtifTypes' /\ RepliesFit'
  BY <1>1, <1>2 DEF HtifTypes, RepliesFit, ConsoleWorks
<1>5. OneRequest'
  BY <1>1, <1>3 DEF OneRequest, ConsoleWorks
<1>6. NextKey' /\ KeysFollow' /\ CharsFollow'
  BY <1>1, <1>2, <1>3 DEF NextKey, KeysFollow, CharsFollow, ConsoleWorks, Shows
<1> QED
  BY <1>1, <1>4, <1>5, <1>6 DEF ConsoleWorks, Console!KeyInOrder, Console!CharInOrder

\* The request is sent when the one before it was taken.
LEMMA SetKeeps ==
    ASSUME Console!HtifAssumption, HtifTypes, ConsoleWorks, Console!set_tohost
    PROVE  HtifTypes' /\ ConsoleWorks' /\ Console!KeyInOrder /\ Console!CharInOrder
<1>1. CASE s1 # Console!Empty
  BY <1>1, CheckKeeps DEF Console!set_tohost, Console!HostIdle
<1>2. CASE s1 = Console!Empty
  <2>1. /\ UNCHANGED <<s2, s3, s4, s7, s8, s9, s10, s6, s11, s12, s13>>
        /\ s5 = "set" /\ s1' = s4 /\ s5' = (IF s4.dev = 0 THEN "answer" ELSE "idle")
    BY <1>2 DEF Console!set_tohost, Console!HostIdle
  <2>2. s4 \in Messages /\ s4 # Console!Empty
    BY <2>1 DEF HtifTypes, RepliesFit, ConsoleWorks
  <2>3. /\ ~ Asks(s1) /\ ~ Shows(s1) /\ Asks(s1)' = Asking /\ ~ Asking'
        /\ Shows(s1)' = (s5 = "set" /\ Shows(s4)) /\ s5' # "set"
    BY <1>2, <2>1 DEF Asks, Asking, Shows
  <2>4. /\ Sought' = Sought /\ Queued' = Queued /\ Buffed' = Buffed
        /\ Asks(s2)' = Asks(s2) /\ Ahead' = Ahead
    BY <2>1 DEF Asks, Sought, Queued, Buffed, Ahead
  <2>5. PICK w \in Nat : w = Unshown /\ Unshown' = w
    BY <2>1, <2>3 DEF Unshown, Ones
  <2>6. HtifTypes' /\ RepliesFit'
    BY <2>1, <2>2 DEF HtifTypes, RepliesFit, ConsoleWorks
  <2>7. OneRequest'
    BY <2>1, <2>3, <2>4 DEF OneRequest, ConsoleWorks
  <2>8. NextKey' /\ KeysFollow'
    BY <2>1, <2>4 DEF NextKey, KeysFollow, ConsoleWorks
  <2>9. CharsFollow'
    <3>1. ASSUME Shows(s1)' PROVE s1'.data = Onward(s13, 1)
      <4>1. s5 = "set" /\ Shows(s4) /\ ~ Shows(s1)
        BY <2>3, <3>1
      <4>2. Ones(Shows(s1)) = 0 /\ Ones(s5 = "set" /\ Shows(s4)) = 1
        BY <4>1 DEF Ones
      <4>3. Unshown = 1
        BY <4>2 DEF Unshown
      <4>4. s4.data = s12 /\ s12 = Onward(s13, Unshown)
        BY <4>1 DEF CharsFollow, ConsoleWorks
      <4> QED
        BY <2>1, <4>3, <4>4
    <3> QED
      BY <2>1, <2>3, <2>5, <3>1 DEF CharsFollow, ConsoleWorks
  <2> QED
    BY <2>1, <2>6, <2>7, <2>8, <2>9 DEF ConsoleWorks, Console!KeyInOrder,
       Console!CharInOrder
<1> QED
  BY <1>1, <1>2

\* A system call ends with its own answer; a key that comes first goes to the buffer.
LEMMA AnswerKeeps ==
    ASSUME Console!HtifAssumption, HtifTypes, ConsoleWorks, Console!answer
    PROVE  HtifTypes' /\ ConsoleWorks' /\ Console!KeyInOrder /\ Console!CharInOrder
<1>1. CASE ~ Console!IsAnswer
  BY <1>1, CheckKeeps DEF Console!answer, Console!HostIdle
<1>2. CASE Console!IsAnswer
  <2>1. /\ UNCHANGED <<s1, s3, s4, s7, s8, s9, s10, s6, s11, s12, s13>>
        /\ s2' = Console!Empty /\ s5 = "answer" /\ s5' = "idle" /\ s2 # Console!Empty
    BY <1>2 DEF Console!answer, Console!HostIdle
  <2>2. s2.dev = 0
    BY <1>2, <2>1 DEF Console!IsAnswer, RepliesFit, ConsoleWorks
  <2>3. /\ Asks(s1)' = Asks(s1) /\ Sought' = Sought /\ Queued' = Queued /\ Buffed' = Buffed
        /\ ~ Asks(s2) /\ ~ Asks(s2)' /\ ~ Asking /\ ~ Asking'
    BY <2>1, <2>2 DEF Asks, Asking, Sought, Queued, Buffed
  <2>4. Ahead' = Ahead /\ Unshown' = Unshown
    BY <2>1, <2>3 DEF Ahead, Unshown, Ones, Shows
  <2>5. HtifTypes' /\ RepliesFit'
    BY <2>1 DEF HtifTypes, RepliesFit, ConsoleWorks
  <2>6. OneRequest'
    BY <2>1, <2>3 DEF OneRequest, ConsoleWorks
  <2>7. NextKey' /\ KeysFollow' /\ CharsFollow'
    BY <2>1, <2>3, <2>4 DEF NextKey, KeysFollow, CharsFollow, ConsoleWorks
  <2> QED
    BY <2>1, <2>5, <2>6, <2>7 DEF ConsoleWorks, Console!KeyInOrder, Console!CharInOrder
<1> QED
  BY <1>1, <1>2

\* The exit is written and nothing else is taken by the host.
LEMMA OffKeeps ==
    ASSUME Console!HtifAssumption, HtifTypes, s5 = "off", s1 = Console!Exit, Console!HtifNext
    PROVE  HtifTypes' /\ s5' = "off" /\ s1' = Console!Exit /\ Console!KeyInOrder /\ Console!CharInOrder
<1>1. /\ ~ Console!HostTakes /\ ~ Console!getchar /\ ~ Console!putchar
      /\ ~ Console!syscall /\ ~ Console!set_tohost /\ ~ Console!answer
  BY DEF Console!HostTakes, Console!getchar, Console!putchar, Console!syscall,
     Console!set_tohost, Console!answer
<1>2. CASE Console!HostReads
  <2>1. UNCHANGED <<s1, s2, s3, s4, s5, s10, s11, s12, s13>>
    BY <1>2 DEF Console!HostReads, Console!HostRest
  <2>2. s7' \in Seq(Chars) /\ Head(s7) \in Chars
    BY <1>2, Queues DEF Console!HostReads, HtifTypes
  <2>3. Console!Command(1, 0, Head(s7)) \in Messages
    BY <2>2 DEF Console!Command, Messages, Chars, Console!HtifAssumption
  <2>4. s9' \in Seq(Messages)
    BY <1>2, <2>3, Queues DEF Console!HostReads, HtifTypes
  <2>5. s8' \in Nat
    BY <1>2 DEF Console!HostReads, HtifTypes
  <2> QED
    BY <2>1, <2>2, <2>4, <2>5 DEF HtifTypes, Console!KeyInOrder, Console!CharInOrder
<1>3. CASE Console!HostGives
  <2>1. UNCHANGED <<s1, s3, s4, s5, s7, s8, s10, s11, s12, s13>>
    BY <1>3 DEF Console!HostGives, Console!HostRest
  <2>2. s9' \in Seq(Messages) /\ s2' \in Messages
    BY <1>3, Queues DEF Console!HostGives, HtifTypes
  <2> QED
    BY <2>1, <2>2 DEF HtifTypes, Console!KeyInOrder, Console!CharInOrder
<1>4. CASE Console!Type
  <2>1. UNCHANGED <<s1, s2, s3, s4, s5, s8, s9, s11, s12, s13>>
    BY <1>4 DEF Console!Type, Console!HostRest
  <2>2. s10' \in Chars
    BY <1>4, OnwardTwice, 1 \in Nat DEF Console!Type, HtifTypes
  <2>3. s7' \in Seq(Chars)
    BY <1>4, <2>2, Queues DEF Console!Type, HtifTypes
  <2> QED
    BY <2>1, <2>2, <2>3 DEF HtifTypes, Console!KeyInOrder, Console!CharInOrder
<1>5. CASE Console!poweroff
  BY <1>5 DEF Console!poweroff, Console!HostIdle, HtifTypes, Console!KeyInOrder,
     Console!CharInOrder
<1> QED
  BY <1>1, <1>2, <1>3, <1>4, <1>5 DEF Console!HtifNext

\* Every step of the console keeps the invariant and the order of keys and characters.
LEMMA HtifStep ==
    ASSUME Console!HtifAssumption, HtifInv, Console!HtifNext
    PROVE  HtifInv' /\ Console!KeyInOrder /\ Console!CharInOrder
<1>1. CASE s5 = "off"
  BY <1>1, OffKeeps DEF HtifInv
<1>2. CASE s5 # "off" /\ Console!poweroff
  <2>1. Console!Exit \in Messages
    BY DEF Console!Exit, Console!Command, Messages
  <2> QED
    BY <1>2, <2>1 DEF Console!poweroff, Console!HostIdle, HtifInv, HtifTypes,
       Console!KeyInOrder, Console!CharInOrder
<1>3. CASE s5 # "off" /\ ~ Console!poweroff
  <2>1. HtifTypes /\ ConsoleWorks
    BY <1>3 DEF HtifInv
  <2>2. s5' # "off"
    <3>1. CASE Console!HostTakes \/ Console!HostReads \/ Console!HostGives \/ Console!Type
      BY <1>3, <3>1 DEF Console!HostTakes, Console!HostReads, Console!HostGives,
         Console!Type, Console!HostRest
    <3>2. CASE Console!getchar \/ Console!putchar \/ Console!syscall
      BY <3>2 DEF Console!getchar, Console!putchar, Console!syscall
    <3>3. CASE Console!set_tohost \/ Console!answer
      BY <3>3 DEF Console!set_tohost, Console!answer
    <3> QED
      BY <1>3, <3>1, <3>2, <3>3 DEF Console!HtifNext
  <2>3. HtifTypes' /\ ConsoleWorks' /\ Console!KeyInOrder /\ Console!CharInOrder
    BY <1>3, <2>1, HostTakesKeeps, HostReadsKeeps, HostGivesKeeps, TypeKeeps,
       GetcharKeeps, PutcharKeeps,
       SyscallKeeps, SetKeeps, AnswerKeeps DEF Console!HtifNext
  <2> QED
    BY <2>2, <2>3 DEF HtifInv
<1> QED
  BY <1>1, <1>2, <1>3

----------------------------------------------------------------------------
(* The queue of keys                                                       *)

\* NativeIoe has key_queue in s1, key_f in s2, key_r in s3, key_queue_lock in s4, event
\* in s5, poll in s6, k in s7, pending in s8 and pressed in s9.

\* a - b and a + 1 modulo m, for numbers below m.
Minus(a, b, m) == IF b <= a THEN a - b ELSE a - b + m
Follow(a, m) == IF a + 1 = m THEN 0 ELSE a + 1

\* The last key of the ring that it counts or is about to count.
LastKey == IF s5 = "advance" THEN Minus(s9, 1, KEYS) ELSE s9

\* How far behind the place of the next key a place is; the key there is as old.
Behind(s) == Minus(s3, s, KEY_QUEUE_LEN)
Stored(s) == Behind(s) \in 1 .. Behind(s2) => s1[s] = Minus(LastKey, Behind(s) - 1, KEYS)

InputTypes ==
    /\ s1 \in [Sdl!Ring -> -1 .. KEYS - 1] /\ s2 \in Sdl!Ring /\ s3 \in Sdl!Ring
    /\ s9 \in 0 .. KEYS - 1

\* One of the two has the lock while it works on the ring.
OneWorks == /\ s5 \in {"store", "advance"} <=> s4 = "event"
            /\ s6 = "take" <=> s4 = "poll"

InputInv == /\ InputTypes /\ OneWorks
            /\ s5 = "advance" => s1[s3] = s9
            /\ \A s \in Sdl!Ring : Stored(s)

\* What the operators modulo m are.
LEMMA Modulo ==
    ASSUME NEW m \in Nat \ {0}, NEW a \in 0 .. m - 1, NEW b \in 0 .. m - 1
    PROVE  /\ (a - b) % m = Minus(a, b, m) /\ (a + 1) % m = Follow(a, m)
           /\ Minus(a, b, m) \in 0 .. m - 1 /\ Follow(a, m) \in 0 .. m - 1
<1>1. CASE b <= a
  <2>1. a - b \in 0 .. m - 1
    BY <1>1
  <2>2. (a - b) % m = a - b
    BY <2>1
  <2> QED
    BY <1>1, <2>1, <2>2 DEF Minus, Follow
<1>2. CASE ~ (b <= a)
  <2>1. a - b + m \in 0 .. m - 1
    BY <1>2
  <2>2. (a - b) % m = a - b + m
    BY <1>2, <2>1
  <2> QED
    BY <1>2, <2>1, <2>2 DEF Minus, Follow
<1> QED
  BY <1>1, <1>2

\* At the start the ring counts no key.
LEMMA InputStarts ==
    ASSUME Sdl!InputAssumption, Sdl!InputInit
    PROVE  InputInv
<1>1. PICK N \in Nat \ {0}, K \in Nat : N = KEY_QUEUE_LEN /\ K = KEYS /\ K > N
  BY DEF Sdl!InputAssumption
<1>2. InputTypes /\ OneWorks /\ s5 # "advance"
  BY <1>1 DEF Sdl!InputInit, InputTypes, OneWorks, Sdl!Ring, Sdl!NONE
<1>3. Behind(s2) = 0
  BY DEF Sdl!InputInit, Behind, Minus
<1> QED
  BY <1>2, <1>3 DEF InputInv, Stored

\* A step keeps the invariant, and a poll gives the oldest key.
LEMMA InputStep ==
    ASSUME Sdl!InputAssumption, InputInv, Sdl!InputNext
    PROVE  InputInv' /\ Sdl!OldestTaken
<1>1. PICK N \in Nat \ {0}, K \in Nat : N = KEY_QUEUE_LEN /\ K = KEYS /\ K > N
  BY DEF Sdl!InputAssumption
<1>2. /\ s1 \in [Sdl!Ring -> -1 .. K - 1] /\ s2 \in 0 .. N - 1 /\ s3 \in 0 .. N - 1
      /\ s9 \in 0 .. K - 1 /\ Sdl!Ring = 0 .. N - 1
  BY <1>1 DEF InputInv, InputTypes, Sdl!Ring
<1>3. CASE Sdl!key_event \/ Sdl!lock_queue \/ Sdl!raise \/ Sdl!interrupt \/ Sdl!lock_poll
  <2>1. UNCHANGED <<s1, s2, s3, s9>> /\ (s5 = "advance" <=> s5' = "advance")
    BY <1>3 DEF Sdl!key_event, Sdl!lock_queue, Sdl!raise, Sdl!interrupt, Sdl!lock_poll,
       Sdl!EventOnly, Sdl!PollOnly, OneWorks, InputInv
  <2>2. OneWorks'
    BY <1>3 DEF Sdl!key_event, Sdl!lock_queue, Sdl!raise, Sdl!interrupt, Sdl!lock_poll,
       Sdl!EventOnly, Sdl!PollOnly, OneWorks, InputInv
  <2>3. InputTypes'
    BY <2>1 DEF InputTypes, InputInv
  <2>4. LastKey' = LastKey /\ \A s : Behind(s)' = Behind(s)
    BY <2>1 DEF LastKey, Behind
  <2>5. \A s \in Sdl!Ring : Stored(s)'
    BY <2>1, <2>4 DEF InputInv, Stored
  <2>6. Sdl!OldestTaken
    BY <2>1 DEF Sdl!OldestTaken
  <2> QED
    BY <2>1, <2>2, <2>3, <2>5, <2>6 DEF InputInv
<1>4. CASE Sdl!store_key
  <2>1. /\ UNCHANGED <<s2, s3, s4, s6>> /\ s5 = "store" /\ s5' = "advance"
        /\ s9' = Follow(s9, K)
        /\ s1' = [s1 EXCEPT ![s3] = s9']
    BY <1>1, <1>2, <1>4, Modulo DEF Sdl!store_key, Sdl!EventOnly
  <2>2. s9' \in 0 .. K - 1 /\ Minus(s9', 1, K) = s9
    BY <1>1, <1>2, <2>1 DEF Follow, Minus
  <2>3. InputTypes' /\ OneWorks'
    BY <1>1, <1>2, <2>1, <2>2 DEF InputTypes, OneWorks, InputInv
  <2>4. LastKey' = LastKey
    BY <1>1, <2>1, <2>2 DEF LastKey
  <2>5. \A s \in Sdl!Ring : Behind(s)' = Behind(s)
    BY <2>1 DEF Behind
  <2>6. s1'[s3'] = s9'
    BY <1>2, <2>1
  <2>7. ASSUME NEW s \in Sdl!Ring PROVE Stored(s)'
    <3>1. CASE s = s3
      <4>1. Behind(s)' = 0
        BY <1>2, <2>1, <3>1 DEF Behind, Minus
      <4> QED
        BY <4>1 DEF Stored
    <3>2. CASE s # s3
      <4>1. s1'[s] = s1[s]
        BY <1>2, <2>1, <3>2
      <4>2. Behind(s2)' = Behind(s2) /\ Behind(s)' = Behind(s)
        BY <2>1 DEF Behind
      <4> QED
        BY <2>4, <4>1, <4>2 DEF Stored, InputInv
    <3> QED
      BY <3>1, <3>2
  <2>8. Sdl!OldestTaken
    BY <2>1 DEF Sdl!OldestTaken
  <2> QED
    BY <2>3, <2>6, <2>7, <2>8 DEF InputInv
<1>5. CASE Sdl!advance
  <2>1. /\ UNCHANGED <<s1, s2, s9, s6>> /\ s5 = "advance" /\ s5' = "raise"
        /\ s3' = Follow(s3, N) /\ s4' = "free" /\ s4 = "event"
    BY <1>1, <1>2, <1>5, Modulo DEF Sdl!advance, Sdl!EventOnly, OneWorks, InputInv
  <2>2. InputTypes' /\ OneWorks'
    BY <1>1, <1>2, <2>1 DEF InputTypes, OneWorks, InputInv, Follow
  <2>3. LastKey' = s9 /\ LastKey = Minus(s9, 1, K) /\ s1[s3] = s9
    BY <1>1, <2>1 DEF LastKey, InputInv
  <2>4. ASSUME NEW s \in Sdl!Ring, Behind(s)' \in 1 .. Behind(s2)'
        PROVE  s1'[s] = Minus(LastKey', Behind(s)' - 1, KEYS)
    <3>1. Behind(s)' = Minus(Follow(s3, N), s, N) /\ Behind(s) = Minus(s3, s, N)
      BY <1>1, <2>1 DEF Behind
    <3>2. Behind(s2)' = Minus(Follow(s3, N), s2, N) /\ Behind(s2) = Minus(s3, s2, N)
      BY <1>1, <2>1 DEF Behind
    <3>3. Behind(s2)' = Behind(s2) + 1
      BY <1>2, <2>4, <3>2 DEF Minus, Follow
    <3>4. CASE s = s3
      <4>1. Behind(s)' = 1
        BY <1>1, <1>2, <2>4, <3>1, <3>4 DEF Minus, Follow
      <4>2. Minus(s9, 0, K) = s9
        BY <1>2 DEF Minus
      <4> QED
        BY <1>1, <2>1, <2>3, <3>4, <4>1, <4>2
    <3>5. CASE s # s3
      <4>1. Behind(s) \in 1 .. N - 1 /\ Behind(s)' = Behind(s) + 1
        BY <1>1, <1>2, <2>4, <3>1, <3>5 DEF Minus, Follow
      <4>2. Behind(s) \in 1 .. Behind(s2)
        BY <2>4, <3>3, <4>1, <1>2, <3>2, SMTT(30) DEF Minus
      <4>3. s1[s] = Minus(Minus(s9, 1, K), Behind(s) - 1, K)
        BY <1>1, <2>3, <4>2 DEF Stored, InputInv
      <4>4. Minus(Minus(s9, 1, K), Behind(s) - 1, K) = Minus(s9, Behind(s), K)
        <5>1. PICK b \in 1 .. N - 1 : b = Behind(s)
          BY <4>1
        <5>2. ASSUME NEW p \in 0 .. K - 1
              PROVE  Minus(Minus(p, 1, K), b - 1, K) = Minus(p, b, K)
          <6>1. CASE p = 0
            BY <1>1, <6>1 DEF Minus
          <6>2. CASE p # 0
            BY <1>1, <6>2 DEF Minus
          <6> QED
            BY <6>1, <6>2
        <5> QED
          BY <1>2, <5>1, <5>2
      <4> QED
        BY <1>1, <2>1, <2>3, <4>1, <4>3, <4>4
    <3> QED
      BY <3>4, <3>5
  <2>5. Sdl!OldestTaken
    BY <2>1 DEF Sdl!OldestTaken
  <2> QED
    BY <2>1, <2>2, <2>4, <2>5 DEF InputInv, Stored
<1>6. CASE Sdl!take
  <2>1. /\ UNCHANGED <<s1, s3, s5, s9>> /\ s6 = "take" /\ s6' # "take"
        /\ s4 = "poll" /\ s4' = "free"
    BY <1>6 DEF Sdl!take, Sdl!PollOnly, OneWorks, InputInv
  <2>2. s5 \notin {"store", "advance"} /\ LastKey = s9 /\ LastKey' = s9
    BY <2>1 DEF LastKey, OneWorks, InputInv
  <2>3. s2' = s2 \/ (s2 # s3 /\ s2' = Follow(s2, N) /\ s7' = s1[s2])
    BY <1>1, <1>2, <1>6, Modulo DEF Sdl!take, Sdl!Empty, Sdl!Front
  <2>4. InputTypes' /\ OneWorks'
    BY <1>1, <1>2, <2>1, <2>2, <2>3 DEF InputTypes, OneWorks, InputInv, Follow
  <2>5. Behind(s2)' <= Behind(s2) /\ Behind(s2) \in 0 .. N - 1 /\ Behind(s2)' \in 0 .. N - 1
    <3>1. Behind(s2) = Minus(s3, s2, N) /\ Behind(s2)' = Minus(s3, s2', N)
      BY <1>1, <2>1 DEF Behind
    <3>2. CASE s2' = s2
      BY <1>2, <3>1, <3>2 DEF Minus
    <3>3. CASE s2 # s3 /\ s2' = Follow(s2, N)
      BY <1>2, <3>1, <3>3 DEF Minus, Follow
    <3> QED
      BY <2>3, <3>2, <3>3
  <2>6. ASSUME NEW s \in Sdl!Ring PROVE Stored(s)'
    <3>1. Behind(s)' = Behind(s) /\ Behind(s) \in 0 .. N - 1
      BY <1>1, <1>2, <2>1 DEF Behind, Minus
    <3> QED
      BY <2>1, <2>2, <2>5, <3>1 DEF Stored, InputInv
  <2>7. Sdl!OldestTaken
    <3> SUFFICES ASSUME s2' # s2 PROVE s7' = (s9 - Sdl!Waiting + 1) % KEYS
      BY DEF Sdl!OldestTaken
    <3>a. Behind(s2) = Minus(s3, s2, N) /\ Sdl!Waiting = Minus(s3, s2, N)
      BY <1>1, <1>2, Modulo DEF Sdl!Waiting, Behind
    <3>b. Minus(s3, s2, N) \in 1 .. N - 1
      BY <1>2, <2>3 DEF Minus
    <3>1. PICK w \in 1 .. N - 1 : w = Behind(s2) /\ w = Sdl!Waiting
      BY <3>a, <3>b
    <3>2. s1[s2] = Minus(s9, w - 1, K)
      <4>1. Stored(s2) /\ w \in 1 .. w
        BY <1>2 DEF InputInv
      <4> QED
        BY <1>1, <2>2, <3>1, <4>1 DEF Stored
    <3>3. w - 1 \in 0 .. K - 1 /\ s9 - w + 1 = s9 - (w - 1)
      BY <1>1, <1>2
    <3>4. (s9 - (w - 1)) % K = Minus(s9, w - 1, K)
      BY <1>1, <1>2, <3>3, Modulo
    <3> QED
      BY <1>1, <2>3, <3>1, <3>2, <3>3, <3>4
  <2> QED
    BY <2>2, <2>4, <2>6, <2>7, <2>1 DEF InputInv
<1> QED
  BY <1>3, <1>4, <1>5, <1>6 DEF Sdl!InputNext

----------------------------------------------------------------------------
(* The keyboard                                                            *)

\* X86Ioe has buffer in s1, down in s2, polling in s3 and held in s4.

\* The bytes of a key, and those that the controller may hold.
ByteOf(c) == {c, c + RELEASE}
Codes == Keys \cup {c + RELEASE : c \in Keys} \cup {PREFIX}

\* Nothing that the program has not read yet is of key c from place i on.
NoneFrom(c, i) == \A j \in i .. Len(s1) : s1[j] \notin ByteOf(c)

KbdTypes == /\ s1 \in Seq(Codes) /\ s2 \subseteq Keys
            /\ s4 \subseteq {keylut[c] : c \in Keys}

\* Of a key the last byte on its way tells whether it is held; of one that has
\* none on its way the program knows it.
LastTells(c) == \A i \in 1 .. Len(s1) :
                   s1[i] \in ByteOf(c) /\ NoneFrom(c, i + 1) => (s1[i] = c <=> c \in s2)
KeyKnown(c) == NoneFrom(c, 1) => (keylut[c] \in s4 <=> c \in s2)

KbdInv == KbdTypes /\ \A c \in Keys : LastTells(c) /\ KeyKnown(c)

\* The codes are numbers, and those of two keys and of the prefix differ.
LEMMA ManyCodes ==
    ASSUME Ioe!KbdAssumption
    PROVE  /\ RELEASE \in Nat \ {0} /\ PREFIX \in Nat /\ Keys \subseteq Nat
           /\ \A c \in Keys : /\ c < RELEASE /\ PREFIX \notin ByteOf(c) /\ c # c + RELEASE
                              /\ \A d \in Keys : c # d => ByteOf(c) \cap ByteOf(d) = {}
           /\ \A b \in Codes : \/ \E c \in Keys : b \in ByteOf(c)
                               \/ b = PREFIX
           /\ \A c \in Keys : ByteOf(c) \subseteq Codes
<1>1. PICK R \in Nat \ {0} : /\ R = RELEASE /\ Keys \subseteq 1 .. R - 1
                             /\ PREFIX \in R + 1 .. 2 * R - 1 /\ PREFIX - R \notin Keys
  BY DEF Ioe!KbdAssumption
<1>2. ASSUME NEW c \in Keys PROVE c < R /\ PREFIX \notin {c, c + R} /\ c # c + R
  BY <1>1
<1>3. ASSUME NEW c \in Keys, NEW d \in Keys, c # d PROVE {c, c + R} \cap {d, d + R} = {}
  BY <1>1
<1> QED
  BY <1>1, <1>2, <1>3 DEF ByteOf, Codes

\* The prefix is of no key.
LEMMA OfPrefix == Ioe!KbdAssumption => Ioe!keycode(PREFIX) = Ioe!AM_KEY_NONE
<1> SUFFICES ASSUME Ioe!KbdAssumption PROVE Ioe!keycode(PREFIX) = Ioe!AM_KEY_NONE
  OBVIOUS
<1>1. PICK R \in Nat \ {0} : R = RELEASE
  BY DEF Ioe!KbdAssumption
<1>2. PREFIX - R \in 0 .. R - 1 /\ (PREFIX - R) + R = PREFIX
  BY <1>1 DEF Ioe!KbdAssumption
<1>3. \A x \in 0 .. R - 1 : (x + R) % R = x
  BY <1>1
<1>4. PREFIX % R = PREFIX - R
  BY <1>2, <1>3
<1>5. keylut[PREFIX - R] = Ioe!AM_KEY_NONE
  BY <1>1 DEF Ioe!KbdAssumption
<1> QED
  BY <1>1, <1>4, <1>5 DEF Ioe!keycode

\* Which key a byte is of, and whether it is pressed.
LEMMA OfByte ==
    ASSUME Ioe!KbdAssumption, NEW c \in Keys
    PROVE  /\ Ioe!keycode(c) = keylut[c] /\ Ioe!keydown(c)
           /\ Ioe!keycode(c + RELEASE) = keylut[c] /\ ~ Ioe!keydown(c + RELEASE)
<1>1. PICK R \in Nat \ {0} : R = RELEASE
  BY DEF Ioe!KbdAssumption
<1>2. Keys \subseteq 1 .. R - 1 /\ PREFIX \in R + 1 .. 2 * R - 1
  BY <1>1 DEF Ioe!KbdAssumption
<1>3. c \in 1 .. R - 1 /\ c + R \in Nat
  BY <1>1, <1>2
<1>4. c % R = c /\ (c + R) % R = c
  <2>1. \A x \in 0 .. R - 1 : x % R = x /\ (x + R) % R = x
    BY <1>1
  <2>2. c \in 0 .. R - 1
    BY <1>3
  <2> QED
    BY <2>1, <2>2
<1>5. c < R /\ ~ (c + R < R)
  BY <1>3, <1>1
<1> QED
  BY <1>1, <1>4, <1>5 DEF Ioe!keycode, Ioe!keydown

\* At the start no key is held.
LEMMA KbdStarts ==
    ASSUME Ioe!KbdAssumption, Ioe!KbdInit
    PROVE  KbdInv
<1>1. s1 = << >> /\ Len(s1) = 0 /\ s1 \in Seq(Codes) /\ s2 = {} /\ s4 = {}
  BY DEF Ioe!KbdInit
<1> QED
  BY <1>1 DEF KbdInv, KbdTypes, LastTells, KeyKnown

\* What a key sends keeps the invariant.
LEMMA SentKeeps ==
    ASSUME Ioe!KbdAssumption, KbdInv, NEW d \in Keys, NEW code \in ByteOf(d),
           s1' = s1 \o Ioe!Sent(code, d), s2' \subseteq Keys, s4' = s4,
           code = d <=> d \in s2',
           \A c \in Keys \ {d} : c \in s2' <=> c \in s2
    PROVE  KbdInv'
<1>1. s1 \in Seq(Codes) /\ Ioe!Sent(code, d) \in Seq(Codes)
  <2>1. code \in Codes /\ PREFIX \in Codes
    BY ManyCodes DEF Codes
  <2> QED
    BY <2>1 DEF KbdInv, KbdTypes, Ioe!Sent
<1>2. PICK L \in Nat : L = Len(s1)
  BY <1>1, LenProperties
<1>3. PICK p \in Nat : p = Len(Ioe!Sent(code, d)) /\ p \in {1, 2}
  BY DEF Ioe!Sent
<1>4. /\ Ioe!Sent(code, d)[p] = code
      /\ \A j \in 1 .. p : j # p => Ioe!Sent(code, d)[j] = PREFIX
  BY <1>3 DEF Ioe!Sent
<1>5. /\ s1' \in Seq(Codes) /\ Len(s1') = L + p
      /\ \A j \in 1 .. L : s1'[j] = s1[j]
      /\ \A j \in 1 .. p : s1'[L + j] = Ioe!Sent(code, d)[j]
  BY <1>1, <1>2, <1>3
<1>6. s1'[L + p] = code
  BY <1>3, <1>4, <1>5
<1>7. ASSUME NEW c \in Keys \ {d}, NEW j \in L + 1 .. L + p
      PROVE  s1'[j] \notin ByteOf(c)
  <2>1. PICK m \in 1 .. p : j = L + m
    <3>1. j - L \in 1 .. p /\ j = L + (j - L)
      BY <1>2, <1>3
    <3> QED
      BY <3>1
  <2>2. s1'[j] \in {code, PREFIX}
    BY <1>4, <1>5, <2>1
  <2>3. PREFIX \notin ByteOf(c) /\ code \notin ByteOf(c)
    BY ManyCodes
  <2> QED
    BY <2>2, <2>3
<1>8. KbdTypes'
  BY <1>5 DEF KbdInv, KbdTypes
<1>9. ASSUME NEW c \in Keys PROVE LastTells(c)'
  <2>1. SUFFICES ASSUME NEW i \in 1 .. L + p, s1'[i] \in ByteOf(c), NoneFrom(c, i + 1)'
                 PROVE  s1'[i] = c <=> c \in s2'
    BY <1>5 DEF LastTells, ByteOf, NoneFrom
  <2>2. \A j \in i + 1 .. L + p : s1'[j] \notin ByteOf(c)
    BY <1>5, <2>1 DEF NoneFrom, ByteOf
  <2>3. CASE c = d
    <3>1. i = L + p
      <4>1. ~ (i < L + p)
        <5>1. ASSUME i < L + p PROVE FALSE
          <6>1. L + p \in i + 1 .. L + p
            BY <5>1, <1>2, <1>3
          <6> QED
            BY <6>1, <2>2, <1>6, <2>3
        <5> QED
          BY <5>1
      <4> QED
        BY <4>1, <1>2, <1>3
    <3> QED
      BY <3>1, <1>6, <2>3
  <2>4. CASE c # d
    <3>1. i \in 1 .. L
      BY <1>7, <2>1, <2>4, <1>2, <1>3
    <3>2. s1'[i] = s1[i]
      BY <3>1, <1>5
    <3>3. NoneFrom(c, i + 1)
      <4>1. \A j \in i + 1 .. L : s1[j] \notin ByteOf(c)
        <5>1. TAKE j \in i + 1 .. L
        <5>2. j \in 1 .. L /\ j \in i + 1 .. L + p
          BY <3>1, <1>2, <1>3
        <5> QED
          BY <5>2, <2>2, <1>5
      <4> QED
        BY <4>1, <1>2 DEF NoneFrom
    <3>4. s1[i] = c <=> c \in s2
      BY <3>1, <3>2, <3>3, <2>1, <1>2 DEF KbdInv, LastTells
    <3> QED
      BY <3>2, <3>4, <2>4
  <2> QED
    BY <2>3, <2>4
<1>10. ASSUME NEW c \in Keys PROVE KeyKnown(c)'
  <2>1. SUFFICES ASSUME NoneFrom(c, 1)' PROVE keylut[c] \in s4' <=> c \in s2'
    BY DEF KeyKnown
  <2>2. \A j \in 1 .. L + p : s1'[j] \notin ByteOf(c)
    BY <1>5, <2>1 DEF NoneFrom, ByteOf
  <2>3. c # d
    <3>1. L + p \in 1 .. L + p
      BY <1>2, <1>3
    <3> QED
      BY <3>1, <2>2, <1>6
  <2>4. NoneFrom(c, 1)
    <3>1. \A j \in 1 .. L : j \in 1 .. L + p
      BY <1>2, <1>3
    <3> QED
      BY <3>1, <2>2, <1>5, <1>2 DEF NoneFrom
  <2>5. keylut[c] \in s4 <=> c \in s2
    BY <2>4 DEF KbdInv, KeyKnown
  <2> QED
    BY <2>3, <2>5
<1> QED
  BY <1>8, <1>9, <1>10 DEF KbdInv

\* The program reads a byte.
LEMMA ByteKeeps ==
    ASSUME Ioe!KbdAssumption, KbdInv, Ioe!input_keybrd
    PROVE  KbdInv'
<1>1. CASE s1 = << >>
  <2>1. UNCHANGED <<s1, s2, s4>>
    BY <1>1 DEF Ioe!input_keybrd
  <2> QED
    BY <2>1 DEF KbdInv, KbdTypes, LastTells, KeyKnown, NoneFrom
<1>2. CASE s1 # << >>
  <2>1. /\ s1' = Tail(s1) /\ s2' = s2
        /\ s4' = IF Ioe!keycode(s1[1]) = Ioe!AM_KEY_NONE THEN s4
                   ELSE IF Ioe!keydown(s1[1]) THEN s4 \cup {Ioe!keycode(s1[1])}
                                              ELSE s4 \ {Ioe!keycode(s1[1])}
    BY <1>2 DEF Ioe!input_keybrd
  <2>2. s1 \in Seq(Codes) /\ s2 \subseteq Keys /\ s4 \subseteq {keylut[c] : c \in Keys}
    BY DEF KbdInv, KbdTypes
  <2>3. PICK L \in Nat \ {0} : L = Len(s1)
    BY <1>2, <2>2, LenProperties, EmptySeq
  <2>4. /\ s1' \in Seq(Codes) /\ Len(s1') = L - 1
        /\ \A j \in 1 .. L - 1 : s1'[j] = s1[j + 1]
    BY <1>2, <2>1, <2>2, <2>3
  <2>5. s1[1] \in Codes
    BY <2>2, <2>3, ElementOfSeq
  <2>6. ASSUME NEW c \in Keys, s1[1] \in ByteOf(c)
        PROVE  /\ Ioe!keycode(s1[1]) = keylut[c] /\ keylut[c] # Ioe!AM_KEY_NONE
               /\ Ioe!keydown(s1[1]) <=> s1[1] = c
    <3>1. keylut[c] # Ioe!AM_KEY_NONE
      BY DEF Ioe!KbdAssumption
    <3>2. c # c + RELEASE
      BY ManyCodes
    <3> QED
      BY <2>6, <3>1, <3>2, OfByte DEF ByteOf
  <2>7. ASSUME NEW c \in Keys, s1[1] \notin ByteOf(c)
        PROVE  keylut[c] \in s4' <=> keylut[c] \in s4
    <3>1. CASE s1[1] = PREFIX
      BY <2>1, <3>1, OfPrefix
    <3>2. CASE s1[1] # PREFIX
      <4>1. PICK d \in Keys : s1[1] \in ByteOf(d)
        BY <2>5, <3>2, ManyCodes
      <4>2. keylut[c] # keylut[d]
        BY <4>1, <2>7 DEF Ioe!KbdAssumption
      <4>3. Ioe!keycode(s1[1]) = keylut[d]
        BY <4>1, <2>6
      <4> QED
        BY <2>1, <4>2, <4>3
    <3> QED
      BY <3>1, <3>2
  <2>8. KbdTypes'
    <3>1. s4' \subseteq {keylut[c] : c \in Keys}
      <4>1. CASE s1[1] = PREFIX
        <5>1. s4' = s4
          BY <2>1, <4>1, OfPrefix
        <5> QED
          BY <5>1, <2>2
      <4>2. CASE s1[1] # PREFIX
        <5>1. PICK d \in Keys : s1[1] \in ByteOf(d)
          BY <2>5, <4>2, ManyCodes
        <5>2. Ioe!keycode(s1[1]) = keylut[d]
          BY <5>1, <2>6
        <5> QED
          BY <2>1, <2>2, <5>2
      <4> QED
        BY <4>1, <4>2
    <3> QED
      BY <2>1, <2>2, <2>4, <3>1 DEF KbdTypes
  <2>9. ASSUME NEW c \in Keys, NEW i \in 0 .. L - 1, NoneFrom(c, i + 1)'
        PROVE  NoneFrom(c, i + 2)
    <3>1. \A j \in i + 1 .. L - 1 : s1'[j] \notin ByteOf(c)
      BY <2>4, <2>9 DEF NoneFrom, ByteOf
    <3>2. ASSUME NEW j \in i + 2 .. L PROVE s1[j] \notin ByteOf(c)
      <4>1. j - 1 \in i + 1 .. L - 1 /\ j - 1 \in 1 .. L - 1 /\ (j - 1) + 1 = j
        BY <2>3
      <4> QED
        BY <3>1, <4>1, <2>4
    <3> QED
      BY <3>2, <2>3 DEF NoneFrom
  <2>10. ASSUME NEW c \in Keys PROVE LastTells(c)'
    <3>1. SUFFICES ASSUME NEW i \in 1 .. L - 1, s1'[i] \in ByteOf(c), NoneFrom(c, i + 1)'
                   PROVE  s1'[i] = c <=> c \in s2'
      BY <2>4 DEF LastTells, ByteOf, NoneFrom
    <3>2. NoneFrom(c, i + 2) /\ i + 1 \in 1 .. L /\ (i + 1) + 1 = i + 2
      BY <2>9, <3>1, <2>3
    <3>3. s1[i + 1] = s1'[i]
      BY <2>4
    <3>4. LastTells(c)
      BY DEF KbdInv
    <3>5. s1[i + 1] = c <=> c \in s2
      BY <3>1, <3>2, <3>3, <3>4, <2>3 DEF LastTells
    <3> QED
      BY <3>3, <3>5, <2>1
  <2>11. ASSUME NEW c \in Keys PROVE KeyKnown(c)'
    <3>1. SUFFICES ASSUME NoneFrom(c, 1)' PROVE keylut[c] \in s4' <=> c \in s2
      BY <2>1 DEF KeyKnown
    <3>2. NoneFrom(c, 2)
      <4>1. 0 \in 0 .. L - 1 /\ 0 + 1 = 1 /\ 0 + 2 = 2
        BY <2>3
      <4>2. NoneFrom(c, 0 + 1)'
        BY <3>1, <4>1
      <4> QED
        BY <2>9, <4>1, <4>2
    <3>3. CASE s1[1] \in ByteOf(c)
      <4>1. LastTells(c) /\ 1 \in 1 .. L /\ 1 + 1 = 2
        BY <2>3 DEF KbdInv
      <4>2. s1[1] = c <=> c \in s2
        BY <3>2, <3>3, <4>1, <2>3 DEF LastTells
      <4>3. keylut[c] \in s4' <=> s1[1] = c
        BY <2>1, <2>6, <3>3
      <4> QED
        BY <4>2, <4>3
    <3>4. CASE s1[1] \notin ByteOf(c)
      <4>1. NoneFrom(c, 1)
        <5>1. ASSUME NEW j \in 1 .. L PROVE s1[j] \notin ByteOf(c)
          <6>1. j = 1 \/ j \in 2 .. L
            BY <2>3
          <6> QED
            BY <6>1, <3>2, <3>4, <2>3 DEF NoneFrom
        <5> QED
          BY <5>1, <2>3 DEF NoneFrom
      <4>2. keylut[c] \in s4 <=> c \in s2
        BY <4>1 DEF KbdInv, KeyKnown
      <4> QED
        BY <4>2, <2>7, <3>4
    <3> QED
      BY <3>3, <3>4
  <2> QED
    BY <2>8, <2>10, <2>11 DEF KbdInv
<1> QED
  BY <1>1, <1>2

\* A step of the keyboard keeps the invariant.
LEMMA KbdStep ==
    ASSUME Ioe!KbdAssumption, KbdInv, Ioe!KbdNext
    PROVE  KbdInv'
<1>0. Keys \subseteq Nat /\ RELEASE \in Nat \ {0} /\ \A c \in Keys : c # c + RELEASE
  BY ManyCodes
<1>1. ASSUME NEW c \in Keys, Ioe!Press(c) PROVE KbdInv'
  <2>1. /\ s1' = s1 \o Ioe!Sent(c, c) /\ s2' = s2 \cup {c} /\ s4' = s4
        /\ c \in ByteOf(c) /\ s2 \subseteq Keys
    BY <1>1 DEF Ioe!Press, ByteOf, KbdInv, KbdTypes
  <2> QED
    BY <2>1, SentKeeps
<1>2. ASSUME NEW c \in Keys, Ioe!Release(c) PROVE KbdInv'
  <2>1. /\ s1' = s1 \o Ioe!Sent(c + RELEASE, c) /\ s2' = s2 \ {c} /\ s4' = s4
        /\ c + RELEASE \in ByteOf(c) /\ s2 \subseteq Keys
    BY <1>2 DEF Ioe!Release, ByteOf, KbdInv, KbdTypes
  <2>2. c + RELEASE # c
    BY <1>0
  <2> QED
    BY <2>1, <2>2, SentKeeps
<1>3. CASE Ioe!Again
  <2>1. UNCHANGED <<s1, s2, s4>>
    BY <1>3 DEF Ioe!Again
  <2> QED
    BY <2>1 DEF KbdInv, KbdTypes, LastTells, KeyKnown, NoneFrom
<1> QED
  BY <1>1, <1>2, <1>3, ByteKeeps DEF Ioe!KbdNext

\* When every byte has been read the program knows the keys.
LEMMA KbdKnows ==
    ASSUME Ioe!KbdAssumption, KbdInv
    PROVE  Ioe!HeldIsKnown
<1>1. SUFFICES ASSUME s1 = << >> PROVE s4 = {keylut[c] : c \in s2}
  BY DEF Ioe!HeldIsKnown
<1>2. Len(s1) = 0
  BY <1>1
<1>3. \A c \in Keys : keylut[c] \in s4 <=> c \in s2
  BY <1>2 DEF KbdInv, KeyKnown, NoneFrom
<1>4. s4 \subseteq {keylut[c] : c \in Keys} /\ s2 \subseteq Keys
  BY DEF KbdInv, KbdTypes
<1> QED
  BY <1>3, <1>4

----------------------------------------------------------------------------
(* The sound                                                               *)

\* NativeIoe has pipe in s1, count in s2, opened in s3, play in s4, written in s5, len in
\* s6, n in s7, old in s8, back in s9, nread in s10, rest in s11, stream in s12, heard in
\* s13 and raced in s14.

\* Bytes in the pipe that count does not know of yet, and bytes out of it that
\* it does not know of yet; bytes that have left the pipe.
Uncounted == IF s4 \in {"load", "add"} THEN s7 ELSE 0
TakenOut == IF s9 = "read" THEN s11 ELSE IF s9 \in {"load", "store"} THEN s10 ELSE 0
OutOfPipe == s5 - Len(s1)

\* What was read is in the stream.
HasRead == s9 \in {"load", "store"} \/ (s9 = "read" /\ s11 = s10)

AudioTypes ==
    /\ s1 \in Seq(Int) /\ s12 \in Seq(Int) /\ s13 \in Seq(Int) /\ Len(s12) = LEN
    /\ {s2, s5, s6, s7, s8, s11} \subseteq Nat /\ s10 \in 0 .. LEN

\* The sound goes through the pipe and the stream in order.
InPipe   == \A i \in 1 .. Len(s1) : s1[i] = OutOfPipe + i
InStream == HasRead => \A i \in 1 .. s10 : s12[i] = Len(s13) + i
IsHeard  == \A i \in 1 .. Len(s13) : s13[i] = i

\* The count, and what the two threads know of it.
Counted ==
    /\ s2 = Len(s1) - Uncounted + TakenOut /\ Len(s13) + TakenOut = OutOfPipe
    /\ s4 = "add" => s8 = s2
    /\ s9 = "clip" => s2 < LEN /\ s11 = 0
    /\ s9 = "read" => s11 \in {0, s10}
    /\ s9 \in {"read", "load", "store"} => s10 <= s2
    /\ s9 = "store" => s11 = s2

Phases ==
    /\ s4 = "ctrl" => /\ s9 = "idle" /\ ~ s3 /\ s2 = 0
    /\ s3 \in BOOLEAN /\ (~ s3 => s4 = "ctrl")
    /\ s4 \in {"wait", "done"} => s5 = SOUND
    /\ s4 = "done" => s2 = 0

AudioInv == ~ s14 => AudioTypes /\ InPipe /\ InStream /\ IsHeard /\ Counted /\ Phases

\* What is in front of a place of a sequence, and what is behind it.
LEMMA PartsOfSequence ==
    ASSUME NEW s \in Seq(Int), NEW r \in 0 .. Len(s)
    PROVE  /\ SubSeq(s, 1, r) \in Seq(Int) /\ Len(SubSeq(s, 1, r)) = r
           /\ \A i \in 1 .. r : SubSeq(s, 1, r)[i] = s[i]
           /\ SubSeq(s, r + 1, Len(s)) \in Seq(Int) /\ Len(SubSeq(s, r + 1, Len(s))) = Len(s) - r
           /\ \A i \in 1 .. Len(s) - r : SubSeq(s, r + 1, Len(s))[i] = s[i + r]
<1>1. PICK L \in Nat : L = Len(s)
  BY LenProperties
<1>2. r \in 0 .. L /\ \A i \in 1 .. L : s[i] \in Int
  BY <1>1, ElementOfSeq
<1>3. /\ SubSeq(s, 1, r) \in Seq(Int) /\ Len(SubSeq(s, 1, r)) = (IF 1 <= r THEN r - 1 + 1 ELSE 0)
      /\ \A i \in 1 .. r - 1 + 1 : SubSeq(s, 1, r)[i] = s[1 + i - 1]
  <2>1. 1 \in Int /\ r \in Int /\ \A i \in 1 .. r : s[i] \in Int
    BY <1>2
  <2> QED
    BY <2>1, SubSeqProperties
<1>4. /\ SubSeq(s, r + 1, L) \in Seq(Int)
      /\ Len(SubSeq(s, r + 1, L)) = (IF r + 1 <= L THEN L - (r + 1) + 1 ELSE 0)
      /\ \A i \in 1 .. L - (r + 1) + 1 : SubSeq(s, r + 1, L)[i] = s[(r + 1) + i - 1]
  <2>1. r + 1 \in Int /\ L \in Int /\ \A i \in r + 1 .. L : s[i] \in Int
    BY <1>2
  <2> QED
    BY <2>1, SubSeqProperties
<1>5. PICK a \in Seq(Int) : a = SubSeq(s, 1, r)
  BY <1>3
<1>6. PICK b \in Seq(Int) : b = SubSeq(s, r + 1, L)
  BY <1>4
<1>7. Len(a) = r /\ \A i \in 1 .. r : a[i] = s[i]
  <2>1. Len(a) = (IF 1 <= r THEN r - 1 + 1 ELSE 0) /\ \A i \in 1 .. r - 1 + 1 : a[i] = s[1 + i - 1]
    BY <1>3, <1>5, Zenon
  <2>2. r - 1 + 1 = r /\ \A i \in 1 .. r : 1 + i - 1 = i
    BY <1>2
  <2> QED
    BY <2>1, <2>2, <1>2
<1>8. Len(b) = L - r /\ \A i \in 1 .. L - r : b[i] = s[i + r]
  <2>1. /\ Len(b) = (IF r + 1 <= L THEN L - (r + 1) + 1 ELSE 0)
        /\ \A i \in 1 .. L - (r + 1) + 1 : b[i] = s[(r + 1) + i - 1]
    BY <1>4, <1>6, Zenon
  <2>2. L - (r + 1) + 1 = L - r /\ \A i \in 1 .. L - r : (r + 1) + i - 1 = i + r
    BY <1>2
  <2> QED
    BY <2>1, <2>2, <1>2
<1> QED
  BY <1>1, <1>5, <1>6, <1>7, <1>8, Zenon

\* At the start there is no sound.
LEMMA AudioStarts ==
    ASSUME Sdl!AudioAssumption, Sdl!AudioInit
    PROVE  AudioInv
<1>1. PICK L \in Nat \ {0} : L = LEN
  BY DEF Sdl!AudioAssumption
<1>2. s12 = [i \in 1 .. L |-> 0] /\ s12 \in Seq(Int) /\ Len(s12) = L
  BY <1>1 DEF Sdl!AudioInit, Sdl!NoSound
<1>3. /\ s1 = << >> /\ s13 = << >> /\ Len(s1) = 0 /\ Len(s13) = 0
      /\ s1 \in Seq(Int) /\ s13 \in Seq(Int)
  BY DEF Sdl!AudioInit
<1>4. AudioTypes
  BY <1>1, <1>2, <1>3 DEF Sdl!AudioInit, AudioTypes
<1>5. InPipe /\ InStream /\ IsHeard
  BY <1>3 DEF Sdl!AudioInit, InPipe, InStream, IsHeard, HasRead
<1>6. Counted
  <2>1. Uncounted = 0 /\ TakenOut = 0 /\ OutOfPipe = 0
    <3>1. Uncounted = 0 /\ TakenOut = 0
      BY DEF Sdl!AudioInit, Uncounted, TakenOut
    <3>2. Len(s1) = 0 /\ s5 = 0
      BY <1>3 DEF Sdl!AudioInit
    <3> QED
      BY <3>1, <3>2 DEF OutOfPipe
  <2> QED
    BY <2>1, <1>3 DEF Sdl!AudioInit, Counted
<1>7. Phases
  BY DEF Sdl!AudioInit, Phases
<1> QED
  BY <1>4, <1>5, <1>6, <1>7 DEF AudioInv

\* Steps that put nothing into the pipe and take nothing out.
LEMMA LooksKeep ==
    ASSUME Sdl!AudioAssumption, AudioInv, ~ s14,
           \/ Sdl!audio_ctrl \/ Sdl!audio_play \/ Sdl!load_count \/ Sdl!audio_status
           \/ Sdl!callback \/ Sdl!clip \/ Sdl!load_nread
    PROVE  AudioInv'
<1>1. PICK L \in Nat \ {0}, S \in Nat \ {0} : L = LEN /\ S = SOUND
  BY DEF Sdl!AudioAssumption
<1>2. AudioTypes /\ InPipe /\ InStream /\ IsHeard /\ Counted /\ Phases
  BY DEF AudioInv
<1>3. Pieces \subseteq Nat
  BY DEF Sdl!AudioAssumption
<1>4. /\ UNCHANGED <<s1, s5, s7, s13>> /\ Len(s1) \in Nat /\ Len(s13) \in Nat
  BY <1>2, LenProperties DEF AudioTypes, Sdl!audio_ctrl, Sdl!audio_play, Sdl!load_count,
     Sdl!audio_status, Sdl!callback, Sdl!clip, Sdl!load_nread, Sdl!callbackVars,
     Sdl!programVars
<1>5. CASE Sdl!audio_ctrl
  <2>1. AudioTypes'
    BY <1>2, <1>4, <1>5 DEF AudioTypes, Sdl!audio_ctrl, Sdl!callbackVars
  <2>2. Counted' /\ Phases'
    BY <1>2, <1>4, <1>5 DEF Counted, Phases, Sdl!audio_ctrl, Sdl!callbackVars, Uncounted,
       TakenOut, OutOfPipe
  <2>3. InPipe' /\ InStream' /\ IsHeard'
    BY <1>2, <1>4, <1>5 DEF InPipe, InStream, IsHeard, HasRead, Sdl!audio_ctrl,
       Sdl!callbackVars, OutOfPipe
  <2> QED
    BY <2>1, <2>2, <2>3 DEF AudioInv
<1>6. CASE Sdl!audio_play
  <2>1. AudioTypes'
    BY <1>2, <1>3, <1>4, <1>6 DEF AudioTypes, Sdl!audio_play, Sdl!callbackVars
  <2>2. Counted' /\ Phases'
    BY <1>2, <1>4, <1>6 DEF Counted, Phases, Sdl!audio_play, Sdl!callbackVars, Uncounted,
       TakenOut, OutOfPipe
  <2>3. InPipe' /\ InStream' /\ IsHeard'
    BY <1>2, <1>4, <1>6 DEF InPipe, InStream, IsHeard, HasRead, Sdl!audio_play,
       Sdl!callbackVars, OutOfPipe
  <2> QED
    BY <2>1, <2>2, <2>3 DEF AudioInv
<1>7. CASE Sdl!load_count
  <2>1. AudioTypes'
    BY <1>2, <1>4, <1>7 DEF AudioTypes, Sdl!load_count, Sdl!callbackVars
  <2>2. Counted' /\ Phases'
    BY <1>2, <1>4, <1>7 DEF Counted, Phases, Sdl!load_count, Sdl!callbackVars, Uncounted,
       TakenOut, OutOfPipe
  <2>3. InPipe' /\ InStream' /\ IsHeard'
    BY <1>2, <1>4, <1>7 DEF InPipe, InStream, IsHeard, HasRead, Sdl!load_count,
       Sdl!callbackVars, OutOfPipe
  <2> QED
    BY <2>1, <2>2, <2>3 DEF AudioInv
<1>8. CASE Sdl!audio_status
  <2>1. AudioTypes'
    BY <1>2, <1>4, <1>8 DEF AudioTypes, Sdl!audio_status, Sdl!callbackVars
  <2>2. s2 = 0
    BY <1>2, <1>8 DEF AudioTypes, Sdl!audio_status
  <2>3. Counted' /\ Phases'
    BY <1>2, <1>4, <1>8, <2>2 DEF Counted, Phases, Sdl!audio_status, Sdl!callbackVars,
       Uncounted, TakenOut, OutOfPipe
  <2>4. InPipe' /\ InStream' /\ IsHeard'
    BY <1>2, <1>4, <1>8 DEF InPipe, InStream, IsHeard, HasRead, Sdl!audio_status,
       Sdl!callbackVars, OutOfPipe
  <2> QED
    BY <2>1, <2>3, <2>4 DEF AudioInv
<1>9. CASE Sdl!callback
  <2>0. s12' = [i \in 1 .. L |-> 0] /\ s12' \in Seq(Int) /\ Len(s12') = L
    BY <1>1, <1>9 DEF Sdl!callback, Sdl!NoSound
  <2>1. AudioTypes'
    BY <1>1, <1>2, <1>4, <1>9, <2>0 DEF AudioTypes, Sdl!callback, Sdl!programVars
  <2>2. Counted' /\ Phases'
    BY <1>1, <1>2, <1>4, <1>9 DEF AudioTypes, Counted, Phases, Sdl!callback,
       Sdl!programVars, Uncounted, TakenOut, OutOfPipe, Sdl!Clips
  <2>3. InPipe' /\ InStream' /\ IsHeard'
    BY <1>1, <1>2, <1>4, <1>9 DEF InPipe, InStream, IsHeard, HasRead, Sdl!callback,
       Sdl!programVars, OutOfPipe
  <2> QED
    BY <2>1, <2>2, <2>3 DEF AudioInv
<1>10. CASE Sdl!clip
  <2>0. s2 \in Nat /\ s11 = 0 /\ s9 = "clip" /\ s9' = "read" /\ s10' = s2
    BY <1>2, <1>10 DEF AudioTypes, Counted, Sdl!clip
  <2>1. AudioTypes'
    BY <1>1, <1>2, <1>4, <1>10 DEF AudioTypes, Counted, Sdl!clip, Sdl!programVars
  <2>2. Counted' /\ Phases'
    BY <1>1, <1>2, <1>4, <1>10, <2>0 DEF Counted, Phases, Sdl!clip, Sdl!programVars,
       Uncounted, TakenOut, OutOfPipe
  <2>3. InPipe' /\ InStream' /\ IsHeard'
    BY <1>2, <1>4, <1>10, <2>0 DEF InPipe, InStream, IsHeard, HasRead, Sdl!clip,
       Sdl!programVars, OutOfPipe
  <2> QED
    BY <2>1, <2>2, <2>3 DEF AudioInv
<1>11. CASE Sdl!load_nread
  <2>1. AudioTypes'
    BY <1>2, <1>4, <1>11 DEF AudioTypes, Sdl!load_nread, Sdl!programVars
  <2>2. Counted' /\ Phases'
    BY <1>2, <1>4, <1>11 DEF Counted, Phases, Sdl!load_nread, Sdl!programVars, Uncounted,
       TakenOut, OutOfPipe
  <2>3. InPipe' /\ InStream' /\ IsHeard'
    BY <1>2, <1>4, <1>11 DEF InPipe, InStream, IsHeard, HasRead, Sdl!load_nread,
       Sdl!programVars, OutOfPipe
  <2> QED
    BY <2>1, <2>2, <2>3 DEF AudioInv
<1> QED
  BY <1>5, <1>6, <1>7, <1>8, <1>9, <1>10, <1>11

\* The program puts a piece into the pipe, if it fits.
LEMMA WriteKeeps ==
    ASSUME Sdl!AudioAssumption, AudioInv, ~ s14, Sdl!write
    PROVE  AudioInv'
<1>1. AudioTypes /\ InPipe /\ InStream /\ IsHeard /\ Counted /\ Phases
  BY DEF AudioInv
<1>2. PICK P \in Nat, H \in Nat : P = Len(s1) /\ H = Len(s13)
  BY <1>1, LenProperties DEF AudioTypes
<1>3. PICK m \in Nat : m = s7'
  BY <1>1 DEF Sdl!write, AudioTypes
<1>4. PICK w \in Nat : w = s5
  BY <1>1 DEF AudioTypes
<1>5. /\ Sdl!Bytes(w, w + m) \in Seq(Int) /\ Len(Sdl!Bytes(w, w + m)) = m
      /\ \A i \in 1 .. m : Sdl!Bytes(w, w + m)[i] = w + i
  <2>1. (w + m) - w = m
    OBVIOUS
  <2>2. Sdl!Bytes(w, w + m) = [i \in 1 .. m |-> w + i]
    BY <2>1 DEF Sdl!Bytes
  <2>3. /\ [i \in 1 .. m |-> w + i] \in Seq(Int) /\ Len([i \in 1 .. m |-> w + i]) = m
        /\ \A i \in 1 .. m : [i_1 \in 1 .. m |-> w + i_1][i] = w + i
    OBVIOUS
  <2> QED
    BY <2>2, <2>3
<1>61. PICK a \in Seq(Int) : a = Sdl!Bytes(w, w + m)
  BY <1>5
<1>62. Len(a) = m /\ \A i \in 1 .. m : a[i] = w + i
  BY <1>5, <1>61
<1>63. s1' = s1 \o a
  BY <1>3, <1>4, <1>61, Zenon DEF Sdl!write
<1>6. /\ s4 = "write" /\ s4' = "load" /\ s5' = w + m
      /\ UNCHANGED <<s2, s3, s6, s8, s9, s10, s11, s12, s13>>
  BY <1>3, <1>4, <1>61, Zenon DEF Sdl!write, Sdl!callbackVars
<1>7. /\ s1' \in Seq(Int) /\ Len(s1') = P + m
      /\ \A i \in 1 .. P : s1'[i] = s1[i]
      /\ \A i \in P + 1 .. P + m : s1'[i] = w + (i - P)
  <2>1. s1 \in Seq(Int)
    BY <1>1 DEF AudioTypes
  <2>3. s1' \in Seq(Int) /\ Len(s1') = P + m
    BY <2>1, <1>2, <1>62, <1>63, ConcatProperties
  <2>4. \A i \in 1 .. P : s1'[i] = s1[i]
    BY <2>1, <1>2, <1>62, <1>63
  <2>2. ASSUME NEW i \in P + 1 .. P + m PROVE s1'[i] = w + (i - P)
    <3>1. i - P \in 1 .. m
      BY <1>2
    <3>2. s1'[i] = a[i - P]
      BY <2>1, <1>2, <1>62, <1>63, <3>1
    <3> QED
      BY <3>1, <3>2, <1>62
  <2> QED
    BY <2>2, <2>3, <2>4
<1>8. AudioTypes'
  <2>1. s1' \in Seq(Int) /\ s12' \in Seq(Int) /\ s13' \in Seq(Int) /\ Len(s12') = LEN
    BY <1>1, <1>6, <1>7 DEF AudioTypes
  <2>2. {s2', s6', s8', s11'} \subseteq Nat /\ s10' \in 0 .. LEN
    BY <1>1, <1>6 DEF AudioTypes
  <2>3. s5' \in Nat
    BY <1>6
  <2>4. s7' \in Nat
    BY <1>3
  <2> QED
    BY <2>1, <2>2, <2>3, <2>4 DEF AudioTypes
<1>9. Counted' /\ Phases'
  <2>1. TakenOut' = TakenOut /\ Uncounted = 0 /\ TakenOut \in Nat
    BY <1>1, <1>6 DEF TakenOut, Uncounted, AudioTypes
  <2>2. Uncounted' = m
    BY <1>3, <1>6, Zenon DEF Uncounted
  <2>3. OutOfPipe = w - P
    BY <1>2, <1>4 DEF OutOfPipe
  <2>4. OutOfPipe' = w - P
    <3>1. OutOfPipe' = (w + m) - (P + m)
      BY <1>6, <1>7, Zenon DEF OutOfPipe
    <3> QED
      BY <3>1
  <2>5. s2 = P - 0 + TakenOut /\ s2 \in Nat /\ H + TakenOut = OutOfPipe
    BY <1>1, <1>2, <2>1 DEF Counted, AudioTypes
  <2>6. s2' = Len(s1') - Uncounted' + TakenOut'
    <3>1. s2' = P - 0 + TakenOut
      BY <1>6, <2>5, Zenon
    <3>2. P - 0 + TakenOut = (P + m) - m + TakenOut
      BY <2>1
    <3> QED
      BY <3>1, <3>2, <2>1, <2>2, <1>7, Zenon
  <2>7. Len(s13') + TakenOut' = OutOfPipe'
    BY <1>2, <1>6, <2>1, <2>3, <2>4, <2>5, Zenon
  <2>8. Counted'
    BY <1>1, <1>6, <2>6, <2>7 DEF Counted
  <2>9. Phases'
    BY <1>1, <1>6 DEF Phases
  <2> QED
    BY <2>8, <2>9
<1>10. InPipe'
  <2>1. OutOfPipe' = OutOfPipe /\ OutOfPipe = w - P
    BY <1>2, <1>4, <1>6, <1>7 DEF OutOfPipe
  <2>2. \A i \in 1 .. P : s1[i] = (w - P) + i
    BY <1>1, <1>2, <2>1 DEF InPipe
  <2>3. \A i \in 1 .. P + m : s1'[i] = (w - P) + i
    <3>1. TAKE i \in 1 .. P + m
    <3>2. CASE i \in 1 .. P
      BY <3>2, <2>2, <1>7
    <3>3. CASE i \in P + 1 .. P + m
      BY <3>3, <1>7, <1>4, <1>2
    <3> QED
      BY <3>2, <3>3, <1>2
  <2> QED
    BY <2>1, <2>3, <1>7 DEF InPipe
<1>11. InStream' /\ IsHeard'
  BY <1>1, <1>6 DEF InStream, IsHeard, HasRead
<1> QED
  BY <1>8, <1>9, <1>10, <1>11 DEF AudioInv

\* The program counts the piece.
LEMMA CountKeeps ==
    ASSUME Sdl!AudioAssumption, AudioInv, ~ s14, Sdl!add_count
    PROVE  AudioInv'
<1>1. AudioTypes /\ InPipe /\ InStream /\ IsHeard /\ Counted /\ Phases
  BY DEF AudioInv
<1>2. PICK P \in Nat, H \in Nat : P = Len(s1) /\ H = Len(s13)
  BY <1>1, LenProperties DEF AudioTypes
<1>3. /\ s4 = "add" /\ s4' \in {"write", "play"} /\ s2' = s8 + s7
      /\ UNCHANGED <<s1, s3, s5, s6, s7, s8, s9, s10, s11, s12, s13>>
  BY DEF Sdl!add_count, Sdl!callbackVars, Sdl!Sum
<1>4. s8 = s2
  BY <1>1, <1>3 DEF Counted
<1>5. CASE s9 \in {"clip", "store"} /\ s7 # 0
  <2>1. s2' # s2
    BY <1>1, <1>3, <1>4, <1>5 DEF AudioTypes
  <2> QED
    BY <2>1, <1>5 DEF Sdl!add_count, AudioInv
<1>6. CASE s9 \notin {"clip", "store"} \/ s7 = 0
  <2>1. AudioTypes'
    BY <1>1, <1>3 DEF AudioTypes
  <2>2. {s2, s7, s10} \subseteq Nat /\ s2' = s2 + s7
    BY <1>1, <1>3, <1>4 DEF AudioTypes
  <2>3. Counted' /\ Phases'
    BY <1>1, <1>2, <1>3, <1>6, <2>2 DEF Counted, Phases, Uncounted, TakenOut, OutOfPipe
  <2>4. InPipe' /\ InStream' /\ IsHeard'
    BY <1>1, <1>3 DEF InPipe, InStream, IsHeard, HasRead, OutOfPipe
  <2> QED
    BY <2>1, <2>3, <2>4 DEF AudioInv
<1> QED
  BY <1>5, <1>6

\* The thread of SDL takes bytes out of the pipe, all that it counted on.
LEMMA StreamKeeps ==
    ASSUME Sdl!AudioAssumption, AudioInv, ~ s14, Sdl!read
    PROVE  AudioInv'
<1>1. AudioTypes /\ InPipe /\ InStream /\ IsHeard /\ Counted /\ Phases
  BY DEF AudioInv
<1>2. PICK P \in Nat, H \in Nat, L \in Nat \ {0}, w \in Nat, r \in Nat :
         P = Len(s1) /\ H = Len(s13) /\ L = LEN /\ w = s5 /\ r = s10
  <2>1. s10 \in Nat /\ LEN \in Nat \ {0}
    BY <1>1 DEF AudioTypes, Sdl!AudioAssumption
  <2> QED
    BY <2>1, <1>1, LenProperties DEF AudioTypes
<1>3. UNCHANGED <<s2, s3, s4, s5, s6, s7, s8, s10, s13, s14>> /\ s9 = "read"
  BY DEF Sdl!read, Sdl!programVars
<1>4. /\ r \in 0 .. L /\ s11 \in {0, r} /\ r <= s2 /\ s2 = P - Uncounted + s11 /\ Uncounted \in Nat
      /\ H + s11 = w - P
  BY <1>1, <1>2, <1>3 DEF AudioTypes, Counted, Uncounted, TakenOut, OutOfPipe
<1>5. CASE s11 >= r
  <2>1. s11 = r /\ s9' = "load" /\ UNCHANGED <<s1, s11, s12>>
    BY <1>2, <1>4, <1>5 DEF Sdl!read
  <2>2. AudioTypes'
    BY <1>1, <1>3, <2>1 DEF AudioTypes
  <2>3. Counted' /\ Phases'
    BY <1>1, <1>2, <1>3, <2>1 DEF Counted, Phases, Uncounted, TakenOut, OutOfPipe
  <2>4. InPipe' /\ InStream' /\ IsHeard'
    BY <1>1, <1>2, <1>3, <2>1 DEF InPipe, InStream, IsHeard, HasRead, OutOfPipe
  <2> QED
    BY <2>2, <2>3, <2>4 DEF AudioInv
<1>6. CASE ~ (s11 >= r)
  <2>1. s11 = 0 /\ r \in 1 .. L /\ r <= P
    BY <1>4, <1>6
  <2>2. Sdl!Least(s10, Len(s1)) = r
    BY <1>2, <2>1 DEF Sdl!Least
  <2>31. /\ s9' = s9 /\ s11' = s11 + r
         /\ s12' = SubSeq(s1, 1, r) \o SubSeq(s12, r + 1, Len(s12))
         /\ s1' = SubSeq(s1, r + 1, Len(s1))
    BY <1>2, <1>6, <2>2, Zenon DEF Sdl!read
  <2>32. s9' = s9 /\ s11' = s11 + r
    BY <2>31, Zenon
  <2>3. s9' = "read" /\ s11' = 0 + r
    BY <2>32, <2>1, <1>3
  <2>4. /\ s1 \in Seq(Int) /\ s12 \in Seq(Int) /\ Len(s12) = L
        /\ r \in 0 .. Len(s1) /\ r \in 0 .. Len(s12)
    BY <1>1, <1>2, <2>1 DEF AudioTypes
  <2>5. /\ s1' \in Seq(Int) /\ Len(s1') = P - r
        /\ \A i \in 1 .. P - r : s1'[i] = s1[i + r]
    <3>1. /\ SubSeq(s1, r + 1, Len(s1)) \in Seq(Int)
          /\ Len(SubSeq(s1, r + 1, Len(s1))) = Len(s1) - r
          /\ \A i \in 1 .. Len(s1) - r : SubSeq(s1, r + 1, Len(s1))[i] = s1[i + r]
      BY <2>4, PartsOfSequence, Zenon
    <3>2. P = Len(s1)
      BY <1>2, Zenon
    <3>3. s1' = SubSeq(s1, r + 1, Len(s1))
      BY <2>31, Zenon
    <3> QED
      BY <3>1, <3>2, <3>3, Zenon
  <2>6. /\ s12' \in Seq(Int) /\ Len(s12') = L
        /\ \A i \in 1 .. r : s12'[i] = s1[i]
    <3>1. PICK a \in Seq(Int) : a = SubSeq(s1, 1, r)
      BY <2>4, PartsOfSequence, Zenon
    <3>2. Len(a) = r /\ \A i \in 1 .. r : a[i] = s1[i]
      BY <2>4, <3>1, PartsOfSequence, Zenon
    <3>3. PICK b \in Seq(Int) : b = SubSeq(s12, r + 1, Len(s12))
      BY <2>4, PartsOfSequence, Zenon
    <3>4. Len(b) = L - r
      BY <2>4, <3>3, PartsOfSequence, Zenon
    <3>5. s12' = a \o b
      BY <2>31, <3>1, <3>3, Zenon
    <3> QED
      BY <3>2, <3>4, <3>5, <2>1
  <2>7. AudioTypes'
    BY <1>1, <1>2, <1>3, <2>3, <2>5, <2>6 DEF AudioTypes
  <2>8. Counted' /\ Phases'
    <3>1. Uncounted' = Uncounted /\ TakenOut' = r
      BY <1>3, <2>1, <2>3 DEF Uncounted, TakenOut
    <3>2. OutOfPipe' = w - (P - r)
      BY <1>2, <1>3, <2>5, Zenon DEF OutOfPipe
    <3>3. s2' = Len(s1') - Uncounted' + TakenOut'
      <4>1. s2' = P - Uncounted + 0
        BY <1>3, <1>4, <2>1, Zenon
      <4>2. P - Uncounted + 0 = (P - r) - Uncounted + r
        BY <1>4, <2>1
      <4> QED
        BY <4>1, <4>2, <3>1, <2>5, Zenon
    <3>4. Len(s13') + TakenOut' = OutOfPipe'
      <4>1. Len(s13') + TakenOut' = H + r
        BY <1>2, <1>3, <3>1, Zenon
      <4>2. H + r = w - (P - r)
        BY <1>4, <2>1
      <4> QED
        BY <4>1, <4>2, <3>2, Zenon
    <3>5. s11' \in {0, s10'} /\ s10' <= s2'
      <4>1. s10' = r /\ s11' = r /\ s2' = s2
        BY <1>2, <1>3, <2>1, <2>3
      <4> QED
        BY <4>1, <1>4
    <3>6. Counted'
      BY <1>1, <1>3, <2>3, <3>3, <3>4, <3>5 DEF Counted
    <3>7. Phases'
      BY <1>1, <1>3 DEF Phases
    <3> QED
      BY <3>6, <3>7
  <2>9. \A i \in 1 .. P : s1[i] = H + i
    <3>1. OutOfPipe = H
      BY <1>2, <1>4, <2>1 DEF OutOfPipe
    <3> QED
      BY <3>1, <1>1, <1>2 DEF InPipe
  <2>10. InPipe'
    <3>1. OutOfPipe' = H + r
      <4>1. OutOfPipe' = w - (P - r)
        BY <1>2, <1>3, <2>5, Zenon DEF OutOfPipe
      <4>2. w - (P - r) = H + r
        BY <1>4, <2>1
      <4> QED
        BY <4>1, <4>2, Zenon
    <3>2. ASSUME NEW i \in 1 .. P - r PROVE s1'[i] = H + r + i
      <4>1. i + r \in 1 .. P /\ H + (i + r) = H + r + i
        BY <2>1, <1>2
      <4> QED
        BY <4>1, <2>5, <2>9
    <3> QED
      BY <3>1, <3>2, <2>5 DEF InPipe
  <2>11. InStream' /\ IsHeard'
    <3>1. ASSUME NEW i \in 1 .. r PROVE s12'[i] = H + i
      <4>1. i \in 1 .. P
        BY <2>1, <1>2
      <4> QED
        BY <4>1, <2>6, <2>9
    <3>2. IsHeard'
      BY <1>1, <1>3 DEF IsHeard
    <3> QED
      BY <3>1, <3>2, <1>2, <1>3 DEF InStream
  <2> QED
    BY <2>7, <2>8, <2>10, <2>11 DEF AudioInv
<1> QED
  BY <1>5, <1>6

\* SDL gets what was read, and it is no longer counted.
LEMMA SubtractKeeps ==
    ASSUME Sdl!AudioAssumption, AudioInv, ~ s14, Sdl!subtract
    PROVE  AudioInv'
<1>1. AudioTypes /\ InPipe /\ InStream /\ IsHeard /\ Counted /\ Phases
  BY DEF AudioInv
<1>2. PICK P \in Nat, H \in Nat, L \in Nat \ {0}, w \in Nat, r \in Nat :
         P = Len(s1) /\ H = Len(s13) /\ L = LEN /\ w = s5 /\ r = s10
  <2>1. s10 \in Nat /\ LEN \in Nat \ {0}
    BY <1>1 DEF AudioTypes, Sdl!AudioAssumption
  <2> QED
    BY <2>1, <1>1, LenProperties DEF AudioTypes
<1>3. /\ UNCHANGED <<s1, s3, s4, s5, s6, s7, s8, s10, s11, s12>>
      /\ s9 = "store" /\ s9' = "idle" /\ s2' = s11 - s10
  BY DEF Sdl!subtract, Sdl!programVars, Sdl!Difference
<1>31. s13' = s13 \o SubSeq(s12, 1, r)
  BY <1>2, Zenon DEF Sdl!subtract
<1>4. r \in 0 .. L /\ s11 = s2 /\ r <= s2 /\ s2 \in Nat /\ H + r = w - P
  BY <1>1, <1>2, <1>3 DEF AudioTypes, Counted, TakenOut, OutOfPipe
<1>5. CASE s4 = "add" /\ r # 0
  <2>1. s2' # s2
    BY <1>2, <1>3, <1>4, <1>5
  <2> QED
    BY <2>1, <1>5 DEF Sdl!subtract, AudioInv
<1>6. CASE s4 # "add" \/ r = 0
  <2>1. s13 \in Seq(Int) /\ s12 \in Seq(Int) /\ Len(s12) = L /\ r \in 0 .. Len(s12)
    BY <1>1, <1>2, <1>4 DEF AudioTypes
  <2>2. PICK a \in Seq(Int) : a = SubSeq(s12, 1, r)
    BY <2>1, PartsOfSequence, Zenon
  <2>3. Len(a) = r /\ \A i \in 1 .. r : a[i] = s12[i]
    BY <2>1, <2>2, PartsOfSequence, Zenon
  <2>31. s13' = s13 \o a
    BY <1>31, <2>2, Zenon
  <2>4. /\ s13' \in Seq(Int) /\ Len(s13') = H + r
        /\ \A i \in 1 .. H : s13'[i] = s13[i]
        /\ \A i \in 1 .. r : s13'[H + i] = a[i]
    <3>1. s13' \in Seq(Int) /\ Len(s13') = Len(s13) + Len(a)
      BY <2>1, <2>31, ConcatProperties
    <3>2. \A i \in 1 .. H : s13'[i] = s13[i]
      BY <2>1, <2>31, <1>2
    <3>3. \A i \in 1 .. r : s13'[H + i] = a[i]
      BY <2>1, <2>3, <2>31, <1>2
    <3> QED
      BY <3>1, <3>2, <3>3, <2>3, <1>2, Zenon
  <2>5. AudioTypes'
    BY <1>1, <1>2, <1>3, <1>4, <2>4 DEF AudioTypes
  <2>6. Counted' /\ Phases'
    <3>1. Uncounted' = Uncounted /\ TakenOut' = 0 /\ TakenOut = r /\ OutOfPipe' = OutOfPipe
      BY <1>2, <1>3 DEF Uncounted, TakenOut, OutOfPipe
    <3>2. s2 = P - Uncounted + r /\ OutOfPipe = w - P /\ Uncounted \in Nat
      BY <1>1, <1>2, <3>1 DEF Counted, OutOfPipe, Uncounted, AudioTypes
    <3>3. s2' = s2 - r
      BY <1>2, <1>3, <1>4, Zenon
    <3>4. s2' = Len(s1') - Uncounted' + TakenOut'
      <4>1. s2 - r = P - Uncounted + 0
        BY <3>2
      <4>2. Len(s1') = P
        BY <1>2, <1>3
      <4> QED
        BY <4>1, <4>2, <3>1, <3>3, Zenon
    <3>5. Len(s13') + TakenOut' = OutOfPipe'
      <4>1. H + r + 0 = w - P
        BY <1>4
      <4> QED
        BY <4>1, <2>4, <3>1, <3>2, Zenon
    <3>6. s4 = "add" => s2' = s2
      BY <1>4, <1>6, <3>3
    <3>7. Counted'
      BY <1>1, <1>3, <3>4, <3>5, <3>6 DEF Counted
    <3>8. s4 = "done" => s2' = 0
      <4>1. s4 = "done" => s2 = 0
        BY <1>1 DEF Phases
      <4>2. s2 = 0 => s2 - r = 0
        BY <1>4
      <4> QED
        BY <4>1, <4>2, <3>3
    <3>9. Phases'
      BY <1>1, <1>3, <3>8 DEF Phases
    <3> QED
      BY <3>7, <3>9
  <2>7. InPipe' /\ InStream'
    BY <1>1, <1>3 DEF InPipe, InStream, HasRead, OutOfPipe
  <2>8. IsHeard'
    <3>1. \A i \in 1 .. r : a[i] = H + i
      BY <1>1, <1>2, <1>3, <2>3 DEF InStream, HasRead
    <3>2. ASSUME NEW i \in 1 .. H + r PROVE s13'[i] = i
      <4>1. CASE i \in 1 .. H
        BY <4>1, <2>4, <1>1, <1>2 DEF IsHeard
      <4>2. CASE i \in H + 1 .. H + r
        <5>1. i - H \in 1 .. r /\ H + (i - H) = i
          BY <4>2, <1>2
        <5> QED
          BY <5>1, <3>1, <2>4
      <4> QED
        BY <4>1, <4>2, <1>2
    <3> QED
      BY <3>2, <2>4 DEF IsHeard
  <2> QED
    BY <2>5, <2>6, <2>7, <2>8 DEF AudioInv
<1> QED
  BY <1>5, <1>6

\* A step of the sound keeps the invariant.
LEMMA AudioStep ==
    ASSUME Sdl!AudioAssumption, AudioInv, Sdl!AudioNext
    PROVE  AudioInv'
BY LooksKeep, WriteKeeps, CountKeeps, StreamKeeps, SubtractKeeps DEF Sdl!AudioNext

\* The sound is heard in order.
LEMMA SoundInOrder ==
    ASSUME Sdl!AudioAssumption, AudioInv
    PROVE  Sdl!HeardInOrder
<1>1. SUFFICES ASSUME ~ s14
               PROVE  s10 <= LEN /\ s13 = Sdl!Bytes(0, Len(s13)) /\ (s4 = "done" => Len(s13) = SOUND)
  BY DEF Sdl!HeardInOrder
<1>2. AudioTypes /\ InPipe /\ InStream /\ IsHeard /\ Counted /\ Phases
  BY <1>1 DEF AudioInv
<1>3. PICK P \in Nat, H \in Nat, L \in Nat \ {0} : P = Len(s1) /\ H = Len(s13) /\ L = LEN
  BY <1>2, LenProperties DEF AudioTypes, Sdl!AudioAssumption
<1>4. s13 = Sdl!Bytes(0, H)
  <2>1. Sdl!Bytes(0, H) = [i \in 1 .. H |-> i]
    <3>1. H - 0 = H /\ \A i \in 1 .. H : 0 + i = i
      OBVIOUS
    <3> QED
      BY <3>1 DEF Sdl!Bytes
  <2>2. s13 = [i \in 1 .. H |-> s13[i]]
    BY <1>2, <1>3 DEF AudioTypes
  <2>3. \A i \in 1 .. H : s13[i] = i
    BY <1>2, <1>3 DEF IsHeard
  <2> QED
    BY <2>1, <2>2, <2>3
<1>5. ASSUME s4 = "done" PROVE Len(s13) = SOUND
  <2>1. s2 = 0 /\ Uncounted = 0 /\ s5 = SOUND /\ s5 \in Nat
    BY <1>2, <1>5 DEF Phases, Uncounted, AudioTypes
  <2>2. TakenOut = 0 /\ P = 0
    <3>1. TakenOut \in Nat
      BY <1>2, <1>3 DEF TakenOut, AudioTypes
    <3>2. 0 = P - 0 + TakenOut
      BY <1>2, <1>3, <2>1 DEF Counted
    <3> QED
      BY <3>1, <3>2
  <2>3. H + 0 = s5 - 0
    BY <1>2, <1>3, <2>2 DEF Counted, OutOfPipe
  <2> QED
    BY <2>1, <2>3, <1>3
<1> QED
  BY <1>2, <1>3, <1>4, <1>5 DEF AudioTypes

----------------------------------------------------------------------------
(* Keys, characters and sound                                              *)

\* The invariant of the device that the behaviour is about.
InOrder == /\ part = "htif" => HtifInv
           /\ part = "input" => InputInv
           /\ part = "kbd" => KbdInv
           /\ part = "audio" => AudioInv

\* A step is one of the device that the behaviour is about.
LEMMA TheirSteps ==
    ASSUME MCNext
    PROVE  /\ part' = part
           /\ part = "htif" => Console!HtifNext
           /\ part = "input" => Sdl!InputNext
           /\ part = "kbd" => Ioe!KbdNext
           /\ part = "audio" => Sdl!AudioNext
BY DEF MCNext, InVme, InRtc, InDisk, InConsole, InInput, InKbd, InSetup, InAudio

\* At the start the invariants hold.
LEMMA OrderStarts == MCInit => InOrder
<1> SUFFICES ASSUME MCInit PROVE InOrder
  OBVIOUS
<1>1. /\ part = "htif" => Console!HtifInit
      /\ part = "input" => Sdl!InputInit
      /\ part = "kbd" => Ioe!KbdInit
      /\ part = "audio" => Sdl!AudioInit
  BY DEF MCInit
<1>2. Console!HtifAssumption /\ Sdl!InputAssumption /\ Ioe!KbdAssumption /\ Sdl!AudioAssumption
  BY DevicesAssumption
<1> QED
  BY <1>1, <1>2, HtifStarts, InputStarts, KbdStarts, AudioStarts DEF InOrder

\* A step keeps the invariants.
LEMMA OrderKept ==
    ASSUME InOrder, [MCNext]_mcVars
    PROVE  InOrder'
<1>0. Console!HtifAssumption /\ Sdl!InputAssumption /\ Ioe!KbdAssumption /\ Sdl!AudioAssumption
  BY DevicesAssumption
<1>1. CASE MCNext
  <2>1. part = "htif" => HtifInv'
    BY <1>0, <1>1, TheirSteps, HtifStep DEF InOrder
  <2>2. part = "input" => InputInv'
    BY <1>0, <1>1, TheirSteps, InputStep DEF InOrder
  <2>3. part = "kbd" => KbdInv'
    BY <1>0, <1>1, TheirSteps, KbdStep DEF InOrder
  <2>4. part = "audio" => AudioInv'
    BY <1>0, <1>1, TheirSteps, AudioStep DEF InOrder
  <2> QED
    BY <1>1, <2>1, <2>2, <2>3, <2>4, TheirSteps DEF InOrder
<1>2. CASE UNCHANGED mcVars
  <2>0. /\ UNCHANGED <<part, s1, s2, s3, s4, s5, s6, s7>>
        /\ UNCHANGED <<s8, s9, s10, s11, s12, s13, s14>>
    BY <1>2 DEF mcVars, pool
  <2>1. HtifInv => HtifInv'
    BY <2>0 DEF HtifInv, HtifTypes, ConsoleWorks, RepliesFit, OneRequest, NextKey, KeysFollow,
       CharsFollow, Asking, Sought, Queued, Buffed, Ahead, Unshown, Ones, Asks, Shows
  <2>2. InputInv => InputInv'
    BY <2>0 DEF InputInv, InputTypes, OneWorks, Stored, Behind, LastKey
  <2>3. KbdInv => KbdInv'
    BY <2>0 DEF KbdInv, KbdTypes, LastTells, KeyKnown, NoneFrom
  <2>4. AudioInv => AudioInv'
    BY <2>0 DEF AudioInv, AudioTypes, InPipe, InStream, IsHeard, Counted, Phases, HasRead,
       Uncounted, TakenOut, OutOfPipe
  <2> QED
    BY <2>0, <2>1, <2>2, <2>3, <2>4 DEF InOrder
<1> QED
  BY <1>1, <1>2

\* Keys and characters arrive in order.
LEMMA OrderSeen ==
    ASSUME InOrder, MCNext
    PROVE  /\ part = "htif" => Console!KeyInOrder /\ Console!CharInOrder
           /\ part = "input" => Sdl!OldestTaken
<1>0. Console!HtifAssumption /\ Sdl!InputAssumption
  BY DevicesAssumption
<1> QED
  BY <1>0, TheirSteps, HtifStep, InputStep DEF InOrder

\* And what the keyboard and the sound are about is true.
LEMMA OrderKnown ==
    ASSUME InOrder
    PROVE  /\ part = "kbd" => Ioe!HeldIsKnown
           /\ part = "audio" => Sdl!HeardInOrder
<1>0. Ioe!KbdAssumption /\ Sdl!AudioAssumption
  BY DevicesAssumption
<1> QED
  BY <1>0, KbdKnows, SoundInOrder DEF InOrder

\* Keys, characters and sound arrive in order, none twice and none lost, for any length
\* of the queues and any order of the steps of the two sides (htif.c, native/ioe/input.c,
\* native/ioe/audio.c, x86/qemu/ioe.c).
THEOREM InOrderAlways == MCSpec => ConsoleInOrder
<1>1. MCInit => InOrder
  BY OrderStarts
<1>2. InOrder /\ [MCNext]_mcVars => InOrder'
  BY OrderKept
<1>3. InOrder /\ [MCNext]_mcVars =>
         [/\ part = "htif" => Console!KeyInOrder /\ Console!CharInOrder
          /\ part = "input" => Sdl!OldestTaken
          /\ part = "kbd" => (part = "kbd")'
          /\ part = "audio" => (part = "audio")']_mcVars
  BY OrderSeen, TheirSteps
<1>4. InOrder => /\ part = "kbd" => Ioe!HeldIsKnown
                 /\ part = "audio" => Sdl!HeardInOrder
  BY OrderKnown
<1> QED
  BY <1>1, <1>2, <1>3, <1>4, PTL DEF MCSpec, ConsoleInOrder

----------------------------------------------------------------------------
(* The clock                                                               *)

\* X86Ioe has now in s1, phase in s2, at in s3, rtc in s4, t0 in s5, t1 in s6 and begun
\* in s7.

\* The seconds of an hour, and where in its hour a time is.
HOUR == SECONDS * MINUTES
HourSecond(t) == Ioe!Minute(t) * SECONDS + Ioe!Second(t)

\* The next second of an hour, of a day.
AroundHour(x) == IF x < HOUR THEN x ELSE x - HOUR
NextSecond(t) == IF t + 1 = Ioe!DAY THEN 0 ELSE t + 1

FieldNames == {"second", "minute", "hour"}

\* The first registers read are those of the time it is.
Matches(k) == \A j \in 1 .. 3 : j < k => s4[Ioe!Fields[j]] = Ioe!Date(s1)[Ioe!Fields[j]]

RtcTypes == /\ s1 \in 0 .. Ioe!DAY - 1 /\ s2 \in 0 .. TickGap
            /\ s3 \in ({"t0", "t1", "rtc"} \X (1 .. 4)) \cup {<< "idle", 0 >>}
            /\ s4 \in [FieldNames -> Nat] /\ s5 \in Nat /\ s6 \in Nat
            /\ s7 \in -1 .. Ioe!DAY - 1

\* What was read is of the time it is, or a tick is not long ago.
DateTold == \A k \in 2 .. 4 : s3 = << "rtc", k >> =>
               Matches(k) \/ (s4["second"] # Ioe!Second(s1) /\ s2 <= k - 2)

\* The first second of wait_sec is the one it is, or a tick is not long ago.
FirstTold == /\ \A k \in 2 .. 4 : s3 = << "t0", k >> => s4["second"] = Ioe!Second(s1) \/ s2 <= k - 2
             /\ s3 = << "t1", 1 >> => s5 = Ioe!Second(s1) \/ s2 <= 3

\* When the second one differs from it, the date was read after the tick.
ChangeTold == \A k \in 2 .. 4 : s3 = << "t1", k >> =>
                 s4["second"] = s5 \/ (Matches(k) /\ s2 <= k + 2)

\* Where the clock was when the estimate began.
EstimateTold == s7 # -1 => /\ s6 < HOUR /\ Ioe!Elapsed(s7) <= MaxMissed
                           /\ HourSecond(s1) = AroundHour(s6 + Ioe!Elapsed(s7))

RtcInv == RtcTypes /\ DateTold /\ FirstTold /\ ChangeTold /\ EstimateTold

\* Quotient and remainder are the only ones that there are.
LEMMA Divides ==
    ASSUME NEW d \in Nat \ {0}, NEW q \in Int, NEW r \in 0 .. d - 1
    PROVE  (d * q + r) \div d = q /\ (d * q + r) % d = r
<1>1. PICK a \in Int : a = d * q + r
  OBVIOUS
<1>2. PICK x \in Int, y \in 0 .. d - 1 : x = a \div d /\ y = a % d
  OBVIOUS
<1>3. a = d * x + y
  BY <1>2
<1>4. x = q
  <2>1. CASE x > q
    <3>1. d * x >= d * (q + 1)
      BY <2>1
    <3>2. d * (q + 1) = d * q + d
      OBVIOUS
    <3> QED
      BY <1>1, <1>3, <3>1, <3>2
  <2>2. CASE x < q
    <3>1. d * q >= d * (x + 1)
      BY <2>2
    <3>2. d * (x + 1) = d * x + d
      OBVIOUS
    <3> QED
      BY <1>1, <1>3, <3>1, <3>2
  <2> QED
    BY <2>1, <2>2
<1>5. d * q \in Int
  OBVIOUS
<1>6. y = r
  BY <1>1, <1>3, <1>4, <1>5
<1> QED
  BY <1>1, <1>2, <1>4, <1>6

\* Quotient and remainder of the next number.
LEMMA DividesNext ==
    ASSUME NEW d \in Nat \ {0}, NEW a \in Nat
    PROVE  /\ (a + 1) % d = IF (a % d) + 1 = d THEN 0 ELSE (a % d) + 1
           /\ (a + 1) \div d = IF (a % d) + 1 = d THEN (a \div d) + 1 ELSE a \div d
           /\ a % d \in 0 .. d - 1 /\ a \div d \in Nat
<1>1. PICK x \in Nat, y \in 0 .. d - 1 : x = a \div d /\ y = a % d
  OBVIOUS
<1>2. a = d * x + y
  BY <1>1
<1>3. CASE y + 1 = d
  <2>1. a + 1 = d * (x + 1) + 0
    BY <1>2, <1>3
  <2>2. x + 1 \in Int /\ 0 \in 0 .. d - 1
    OBVIOUS
  <2>3. (d * (x + 1) + 0) \div d = x + 1 /\ (d * (x + 1) + 0) % d = 0
    BY <2>2, Divides, Zenon
  <2> QED
    BY <1>1, <1>3, <2>1, <2>3
<1>4. CASE y + 1 # d
  <2>1. a + 1 = d * x + (y + 1) /\ y + 1 \in 0 .. d - 1 /\ x \in Int
    BY <1>2, <1>4
  <2>2. (d * x + (y + 1)) \div d = x /\ (d * x + (y + 1)) % d = y + 1
    BY <2>1, Divides, Zenon
  <2> QED
    BY <1>1, <1>4, <2>1, <2>2
<1> QED
  BY <1>3, <1>4

\* The numbers of the clock.
LEMMA ClockNumbers ==
    ASSUME Ioe!RtcAssumption
    PROVE  /\ SECONDS \in Nat \ {0, 1} /\ MINUTES \in Nat \ {0, 1} /\ HOURS \in Nat \ {0, 1}
           /\ HOUR \in Nat /\ HOUR >= 4 /\ Ioe!DAY \in Nat /\ Ioe!DAY >= 2 * HOUR
           /\ MaxMissed \in Nat /\ MaxMissed < HOUR /\ TickGap \in Nat /\ TickGap >= 7
<1>1. PICK S \in Nat \ {0, 1}, M \in Nat \ {0, 1}, H \in Nat \ {0, 1} :
         S = SECONDS /\ M = MINUTES /\ H = HOURS
  BY DEF Ioe!RtcAssumption
<1>2. PICK P \in Nat : P = S * M
  BY <1>1
<1>3. P >= 4
  <2>1. S * M >= 2 * M
    BY <1>1
  <2> QED
    BY <1>1, <1>2, <2>1
<1>4. P * H \in Nat /\ P * H >= 2 * P
  BY <1>1, <1>2
<1> QED
  BY <1>1, <1>2, <1>3, <1>4 DEF Ioe!RtcAssumption, HOUR, Ioe!DAY

\* The time a second later, modulo a day.
LEMMA LaterModulo ==
    ASSUME Ioe!RtcAssumption, NEW t \in 0 .. Ioe!DAY - 1
    PROVE  (t + 1) % Ioe!DAY = NextSecond(t) /\ NextSecond(t) \in 0 .. Ioe!DAY - 1
<1>1. PICK N \in Nat \ {0} : N = Ioe!DAY
  BY ClockNumbers
<1>2. t \in 0 .. N - 1
  BY <1>1
<1>3. (t + 1) % N = IF t + 1 = N THEN 0 ELSE t + 1
  <2>1. t % N = t
    BY <1>2
  <2>2. t \in Nat
    BY <1>2
  <2>3. (t + 1) % N = IF (t % N) + 1 = N THEN 0 ELSE (t % N) + 1
    BY <2>2, DividesNext
  <2> QED
    BY <2>1, <2>3, Zenon
<1> QED
  BY <1>1, <1>2, <1>3 DEF NextSecond

\* A time's place in its hour.
LEMMA InHour ==
    ASSUME Ioe!RtcAssumption, NEW t \in 0 .. Ioe!DAY - 1
    PROVE  /\ Ioe!Second(t) \in 0 .. SECONDS - 1 /\ Ioe!Minute(t) \in 0 .. MINUTES - 1
           /\ Ioe!Hour(t) \in Nat
           /\ HourSecond(t) \in 0 .. HOUR - 1
<1>1. PICK S \in Nat \ {0, 1}, M \in Nat \ {0, 1} : S = SECONDS /\ M = MINUTES
  BY ClockNumbers
<1>2. t \in Nat /\ HOUR \in Nat \ {0}
  BY ClockNumbers
<1>3. t % S \in 0 .. S - 1 /\ t \div S \in Nat
  BY <1>1, <1>2
<1>4. (t \div S) % M \in 0 .. M - 1
  BY <1>1, <1>3
<1>5. t \div HOUR \in Nat
  BY <1>2
<1>6. PICK s \in 0 .. S - 1, m \in 0 .. M - 1 : s = Ioe!Second(t) /\ m = Ioe!Minute(t)
  BY <1>1, <1>3, <1>4 DEF Ioe!Second, Ioe!Minute
<1>7. m * S + s \in 0 .. S * M - 1
  <2>1. S * (m + 1) <= S * M
    BY <1>1, <1>6
  <2>2. S * (m + 1) = m * S + S /\ m * S \in Nat /\ S * M \in Nat
    BY <1>1, <1>6
  <2> QED
    BY <1>6, <2>1, <2>2
<1> QED
  BY <1>1, <1>5, <1>6, <1>7 DEF HourSecond, HOUR, Ioe!Hour

\* A tick changes the second, and goes on in the hour.
LEMMA TickOn ==
    ASSUME Ioe!RtcAssumption, NEW t \in 0 .. Ioe!DAY - 1
    PROVE  /\ Ioe!Second(NextSecond(t)) # Ioe!Second(t)
           /\ HourSecond(NextSecond(t)) = AroundHour(HourSecond(t) + 1)
<1>1. PICK S \in Nat \ {0, 1}, M \in Nat \ {0, 1}, H \in Nat \ {0, 1} :
         S = SECONDS /\ M = MINUTES /\ H = HOURS
  BY ClockNumbers
<1>2. t \in Nat /\ Ioe!DAY \in Nat
  BY ClockNumbers
<1>3. PICK s \in 0 .. S - 1, q \in Nat : s = t % S /\ q = t \div S
  BY <1>1, <1>2
<1>4. PICK m \in 0 .. M - 1 : m = q % M
  BY <1>1, <1>3
<1>5. Ioe!Second(t) = s /\ Ioe!Minute(t) = m /\ HourSecond(t) = m * S + s
  BY <1>1, <1>3, <1>4 DEF Ioe!Second, Ioe!Minute, HourSecond
<1>6. /\ Ioe!Second(t + 1) = (IF s + 1 = S THEN 0 ELSE s + 1)
      /\ Ioe!Minute(t + 1) = (IF s + 1 = S THEN IF m + 1 = M THEN 0 ELSE m + 1 ELSE m)
  <2>1. /\ (t + 1) % S = (IF s + 1 = S THEN 0 ELSE s + 1)
        /\ (t + 1) \div S = (IF s + 1 = S THEN q + 1 ELSE q)
    BY <1>1, <1>2, <1>3, DividesNext
  <2>2. (q + 1) % M = (IF m + 1 = M THEN 0 ELSE m + 1)
    BY <1>1, <1>3, <1>4, DividesNext
  <2> QED
    BY <1>1, <1>4, <2>1, <2>2 DEF Ioe!Second, Ioe!Minute
<1>7. Ioe!Second(t + 1) # s
  BY <1>1, <1>6
<1>8. HourSecond(t + 1) = AroundHour(m * S + s + 1)
  <2>0. S * M = HOUR /\ S * M \in Nat /\ m * S \in Nat /\ m * S = S * m
    BY <1>1 DEF HOUR
  <2>1. CASE s + 1 = S /\ m + 1 = M
    <3>1. m * S + s + 1 = S * M
      <4>1. S * (m + 1) = S * m + S
        OBVIOUS
      <4> QED
        BY <2>0, <2>1, <4>1
    <3>2. Ioe!Second(t + 1) = 0 /\ Ioe!Minute(t + 1) = 0
      BY <1>6, <2>1
    <3> QED
      BY <1>1, <2>0, <3>1, <3>2 DEF HourSecond, AroundHour
  <2>2. CASE s + 1 = S /\ m + 1 # M
    <3>1. (m + 1) * S + 0 = m * S + s + 1
      BY <1>1, <2>2
    <3>2. (m + 1) * S < S * M
      <4>1. S * (m + 2) <= S * M
        BY <1>1, <2>2
      <4>2. S * (m + 2) = (m + 1) * S + S
        OBVIOUS
      <4> QED
        BY <1>1, <4>1, <4>2
    <3>3. Ioe!Second(t + 1) = 0 /\ Ioe!Minute(t + 1) = m + 1
      BY <1>6, <2>2
    <3> QED
      BY <1>1, <2>0, <3>1, <3>2, <3>3 DEF HourSecond, AroundHour
  <2>3. CASE s + 1 # S
    <3>1. m * S + (s + 1) < S * M
      <4>1. S * (m + 1) <= S * M
        BY <1>1
      <4>2. S * (m + 1) = m * S + S
        OBVIOUS
      <4> QED
        BY <1>1, <2>0, <2>3, <4>1, <4>2
    <3>2. Ioe!Second(t + 1) = s + 1 /\ Ioe!Minute(t + 1) = m
      BY <1>6, <2>3
    <3> QED
      BY <1>1, <2>0, <3>1, <3>2 DEF HourSecond, AroundHour
  <2> QED
    BY <2>1, <2>2, <2>3
<1>9. t + 1 = Ioe!DAY => Ioe!Second(t + 1) = Ioe!Second(0) /\ Ioe!Minute(t + 1) = Ioe!Minute(0)
  <2>1. SUFFICES ASSUME t + 1 = Ioe!DAY
                 PROVE  /\ Ioe!Second(t + 1) = Ioe!Second(0)
                        /\ Ioe!Minute(t + 1) = Ioe!Minute(0)
    OBVIOUS
  <2>2. PICK w \in Nat : w = M * H
    BY <1>1
  <2>3. Ioe!DAY = S * w + 0
    <3>1. S * M * H = S * (M * H)
      BY <1>1
    <3> QED
      BY <1>1, <2>2, <3>1 DEF Ioe!DAY
  <2>4. (S * w + 0) \div S = w /\ (S * w + 0) % S = 0
    <3>1. S \in Nat \ {0} /\ w \in Int /\ 0 \in 0 .. S - 1
      OBVIOUS
    <3> QED
      BY <3>1, Divides, Zenon
  <2>5. (M * H + 0) % M = 0
    <3>1. M \in Nat \ {0} /\ H \in Int /\ 0 \in 0 .. M - 1
      OBVIOUS
    <3> QED
      BY <3>1, Divides, Zenon
  <2>6. w % M = 0
    BY <2>2, <2>5
  <2>7. 0 % S = 0 /\ 0 \div S = 0 /\ 0 % M = 0
    BY <1>1
  <2> QED
    BY <1>1, <2>1, <2>3, <2>4, <2>6, <2>7 DEF Ioe!Second, Ioe!Minute
<1>10. CASE t + 1 = Ioe!DAY
  BY <1>5, <1>7, <1>8, <1>9, <1>10 DEF NextSecond, HourSecond
<1>11. CASE t + 1 # Ioe!DAY
  BY <1>5, <1>7, <1>8, <1>11 DEF NextSecond, HourSecond
<1> QED
  BY <1>10, <1>11

\* What the registers show is the date, digit by digit.
LEMMA SeenIs ==
    ASSUME Ioe!RtcAssumption, NEW t \in 0 .. Ioe!DAY - 1, NEW f \in FieldNames
    PROVE  Ioe!Seen(t, f) = Ioe!Date(t)[f] /\ Ioe!Date(t)[f] \in Nat
<1>1. PICK v : v = Ioe!Date(t)[f]
  OBVIOUS
<1>2. v \in Nat
  <2>1. Ioe!Second(t) \in Nat /\ Ioe!Minute(t) \in Nat /\ Ioe!Hour(t) \in Nat
    BY InHour, ClockNumbers
  <2> QED
    BY <1>1, <2>1 DEF Ioe!Date, FieldNames
<1>3. Ioe!read_rtc(v) = v
  <2>1. PICK x \in 0 .. 9, y \in Nat : x = v % 10 /\ y = v \div 10
    BY <1>2
  <2>2. Ioe!Bcd(v) = x + 16 * y
    BY <2>1 DEF Ioe!Bcd
  <2>3. (16 * y + x) \div 16 = y /\ (16 * y + x) % 16 = x
    <3>1. x \in 0 .. 16 - 1 /\ y \in Int /\ 16 \in Nat \ {0}
      OBVIOUS
    <3> QED
      BY <3>1, Divides, Zenon
  <2>4. x + 16 * y = 16 * y + x /\ v = 10 * y + x
    BY <1>2, <2>1
  <2> QED
    BY <2>2, <2>3, <2>4 DEF Ioe!read_rtc
<1> QED
  BY <1>1, <1>2, <1>3 DEF Ioe!Seen
\* At the start nothing has been read.
LEMMA RtcStarts ==
    ASSUME Ioe!RtcAssumption, Ioe!RtcInit
    PROVE  RtcInv
<1>1. 0 \in 0 .. Ioe!DAY - 1
  BY ClockNumbers
<1>2. Ioe!Date(0) \in [FieldNames -> Nat]
  <2>1. Ioe!Second(0) \in Nat /\ Ioe!Minute(0) \in Nat /\ Ioe!Hour(0) \in Nat
    BY <1>1, InHour, ClockNumbers
  <2> QED
    BY <2>1 DEF Ioe!Date, FieldNames
<1>3. RtcTypes
  BY <1>2, ClockNumbers DEF Ioe!RtcInit, RtcTypes
<1> QED
  BY <1>3 DEF Ioe!RtcInit, RtcInv, DateTold, FirstTold, ChangeTold, EstimateTold

\* The second goes on.
LEMMA TickKeeps ==
    ASSUME Ioe!RtcAssumption, RtcInv, Ioe!Tick
    PROVE  RtcInv'
<1>1. /\ s2 = TickGap /\ s2' = 0 /\ s1' = NextSecond(s1) /\ s1' \in 0 .. Ioe!DAY - 1
      /\ UNCHANGED <<s3, s4, s5, s6, s7>> /\ TickGap \in Nat /\ TickGap >= 7
      /\ s1 \in 0 .. Ioe!DAY - 1
  BY ClockNumbers, LaterModulo DEF Ioe!Tick, RtcInv, RtcTypes
<1>2. Ioe!Second(s1') # Ioe!Second(s1) /\ HourSecond(s1') = AroundHour(HourSecond(s1) + 1)
  BY <1>1, TickOn
<1>3. RtcTypes'
  BY <1>1 DEF RtcInv, RtcTypes
<1>4. DateTold'
  <2>1. SUFFICES ASSUME NEW k \in 2 .. 4, s3 = << "rtc", k >>
                 PROVE  s4["second"] # Ioe!Second(s1')
    BY <1>1 DEF DateTold
  <2>2. Matches(k)
    BY <1>1, <2>1 DEF RtcInv, DateTold
  <2>3. s4["second"] = Ioe!Second(s1)
    BY <2>2 DEF Matches, Ioe!Fields, Ioe!Date
  <2> QED
    BY <1>2, <2>3
<1>5. FirstTold'
  BY <1>1 DEF FirstTold
<1>6. ChangeTold'
  <2>1. SUFFICES ASSUME NEW k \in 2 .. 4, s3 = << "t1", k >>
                 PROVE  s4["second"] = s5
    BY <1>1 DEF ChangeTold
  <2> QED
    BY <1>1, <2>1 DEF RtcInv, ChangeTold
<1>7. EstimateTold'
  <2>1. SUFFICES ASSUME s7 # -1
                 PROVE  /\ s6 < HOUR /\ Ioe!Elapsed(s7)' <= MaxMissed
                        /\ HourSecond(s1') = AroundHour(s6 + Ioe!Elapsed(s7)')
    BY <1>1 DEF EstimateTold, HourSecond, Ioe!Second, Ioe!Minute, AroundHour, HOUR
  <2>2. /\ s6 \in Nat /\ s6 < HOUR /\ Ioe!Elapsed(s7) < MaxMissed
        /\ HourSecond(s1) = AroundHour(s6 + Ioe!Elapsed(s7))
        /\ s7 \in 0 .. Ioe!DAY - 1
    BY <2>1 DEF RtcInv, RtcTypes, EstimateTold, Ioe!Tick
  <2>3. PICK e \in Nat, N \in Nat \ {0} : e = Ioe!Elapsed(s7) /\ N = Ioe!DAY
    BY <1>1, <2>2, ClockNumbers DEF Ioe!Elapsed
  <2>4. Ioe!Elapsed(s7)' = e + 1
    <3>1. PICK d \in Int : d = s1 - s7
      BY <1>1, <2>2
    <3>2. e = d % N /\ Ioe!Elapsed(s7)' = (s1' - s7) % N
      BY <1>1, <2>3, <3>1 DEF Ioe!Elapsed
    <3>3. s1 \in 0 .. N - 1 /\ s7 \in 0 .. N - 1 /\ s1' = (IF s1 + 1 = N THEN 0 ELSE s1 + 1)
      BY <1>1, <2>2, <2>3 DEF NextSecond
    <3>4. e + 1 < N
      BY <2>2, <2>3, ClockNumbers
    <3>5. \A x \in 0 .. N - 1 : x % N = x /\ (x - N) % N = x
      BY <2>3
    <3>6. CASE d \in 0 .. N - 1
      <4>1. e = d
        BY <3>2, <3>5, <3>6
      <4>2. s1 + 1 # N => (s1' - s7) = d + 1 /\ d + 1 \in 0 .. N - 1
        BY <3>1, <3>3, <3>4, <4>1
      <4>3. s1 + 1 = N => (s1' - s7) = (d + 1) - N /\ d + 1 \in 0 .. N - 1
        BY <3>1, <3>3, <3>4, <4>1
      <4> QED
        BY <3>2, <3>5, <4>1, <4>2, <4>3
    <3>7. CASE d + N \in 0 .. N - 1 /\ d < 0
      <4>1. e = d + N
        <5>1. (d + N) - N = d
          BY <3>1
        <5> QED
          BY <3>2, <3>5, <3>7, <5>1
      <4>2. s1 + 1 # N /\ (s1' - s7) = (e + 1) - N /\ e + 1 \in 0 .. N - 1
        BY <3>1, <3>3, <3>4, <3>7, <4>1
      <4> QED
        BY <3>2, <3>5, <4>2
    <3> QED
      BY <3>1, <3>3, <3>6, <3>7
  <2>5. e < HOUR /\ HOUR \in Nat /\ e < MaxMissed /\ MaxMissed \in Nat
    BY <2>2, <2>3, ClockNumbers
  <2>6. PICK P \in Nat : P = HOUR
    BY <2>5
  <2>7. AroundHour(AroundHour(s6 + e) + 1) = AroundHour(s6 + (e + 1))
    BY <2>2, <2>3, <2>5, <2>6 DEF AroundHour
  <2> QED
    BY <1>2, <2>2, <2>3, <2>4, <2>5, <2>7
<1> QED
  BY <1>3, <1>4, <1>5, <1>6, <1>7 DEF RtcInv

\* What a step that leaves the clock alone, or moves it on by an access, does not change.
LEMMA AccessKeeps ==
    ASSUME Ioe!RtcAssumption, RtcInv, Ioe!Access \/ UNCHANGED <<s1, s2>>, UNCHANGED <<s6, s7>>
    PROVE  s1' = s1 /\ s2' \in s2 .. s2 + 1 /\ s2' \in 0 .. TickGap /\ EstimateTold'
<1>1. s1' = s1 /\ s2' \in s2 .. s2 + 1 /\ s2' \in 0 .. TickGap
  BY ClockNumbers DEF Ioe!Access, RtcInv, RtcTypes
<1> QED
  BY <1>1 DEF RtcInv, EstimateTold, Ioe!Elapsed, HourSecond, Ioe!Second, Ioe!Minute,
     AroundHour, HOUR

\* A register is read.
LEMMA RegisterKeeps ==
    ASSUME Ioe!RtcAssumption, RtcInv, Ioe!read_register
    PROVE  RtcInv'
<1>1. PICK k \in 1 .. 3 : /\ s3[2] = k /\ s3[1] \in {"t0", "t1", "rtc"} /\ Ioe!Access
                          /\ s4' = [s4 EXCEPT ![Ioe!Fields[k]] = Ioe!Seen(s1, Ioe!Fields[k])]
                          /\ s3' = <<s3[1], k + 1>>
                          /\ UNCHANGED <<s5, s6, s7>>
  BY DEF Ioe!read_register
<1>2. s1' = s1 /\ s2' \in s2 .. s2 + 1 /\ s2' \in 0 .. TickGap /\ EstimateTold'
  BY <1>1, AccessKeeps
<1>3. s1 \in 0 .. Ioe!DAY - 1 /\ s2 \in Nat /\ s4 \in [FieldNames -> Nat]
  BY ClockNumbers DEF RtcInv, RtcTypes
<1>4. Ioe!Fields[k] \in FieldNames /\ \A i, j \in 1 .. 3 : i # j => Ioe!Fields[i] # Ioe!Fields[j]
  BY DEF Ioe!Fields, FieldNames
<1>5. /\ Ioe!Seen(s1, Ioe!Fields[k]) = Ioe!Date(s1)[Ioe!Fields[k]]
      /\ Ioe!Seen(s1, Ioe!Fields[k]) \in Nat
  BY <1>3, <1>4, SeenIs
<1>6. /\ s4' \in [FieldNames -> Nat] /\ s4'[Ioe!Fields[k]] = Ioe!Date(s1)[Ioe!Fields[k]]
      /\ \A f \in FieldNames \ {Ioe!Fields[k]} : s4'[f] = s4[f]
  BY <1>1, <1>3, <1>4, <1>5
<1>7. /\ Ioe!Fields[1] = "second" /\ Ioe!Date(s1)["second"] = Ioe!Second(s1)
      /\ \A j \in 1 .. 3 : Ioe!Fields[j] \in FieldNames
  BY DEF Ioe!Fields, Ioe!Date, FieldNames
<1>8. Matches(k) => Matches(k + 1)'
  <2>1. SUFFICES ASSUME Matches(k), NEW j \in 1 .. 3, j < k + 1
                 PROVE  s4'[Ioe!Fields[j]] = Ioe!Date(s1')[Ioe!Fields[j]]
    BY DEF Matches
  <2>2. CASE j = k
    BY <1>2, <1>6, <2>2
  <2>3. CASE j # k
    <3>1. j < k
      BY <2>1, <2>3
    <3>2. Ioe!Fields[j] \in FieldNames \ {Ioe!Fields[k]}
      BY <1>4, <1>7, <2>3
    <3> QED
      BY <1>2, <1>6, <2>1, <3>1, <3>2 DEF Matches
  <2> QED
    BY <2>2, <2>3
<1>9. Matches(1)
  BY DEF Matches
<1>10. k # 1 => s4'["second"] = s4["second"]
  BY <1>4, <1>6, <1>7
<1>11. k = 1 => s4'["second"] = Ioe!Second(s1)
  BY <1>6, <1>7
<1>12. s3 \in {"t0", "t1", "rtc"} \X (1 .. 4) /\ s3 = <<s3[1], k>>
  BY <1>1 DEF RtcInv, RtcTypes
<1>13. k = 1 \/ k \in 2 .. 4
  OBVIOUS
<1>14. RtcTypes'
  <2>1. s3' \in {"t0", "t1", "rtc"} \X (1 .. 4)
    BY <1>1
  <2> QED
    BY <1>1, <1>2, <1>3, <1>6, <2>1 DEF RtcTypes, RtcInv
<1>15. CASE s3[1] = "rtc"
  <2>1. s3' = << "rtc", k + 1 >> /\ s3 = << "rtc", k >>
    BY <1>1, <1>12, <1>15
  <2>2. Matches(k + 1)' \/ (s4'["second"] # Ioe!Second(s1') /\ s2' <= (k + 1) - 2)
    <3>1. CASE k = 1
      BY <1>8, <1>9, <3>1
    <3>2. CASE k # 1
      <4>1. Matches(k) \/ (s4["second"] # Ioe!Second(s1) /\ s2 <= k - 2)
        BY <1>13, <2>1, <3>2 DEF RtcInv, DateTold
      <4> QED
        BY <1>2, <1>3, <1>8, <1>10, <3>2, <4>1
    <3> QED
      BY <3>1, <3>2
  <2>3. DateTold'
    BY <2>1, <2>2 DEF DateTold
  <2>4. FirstTold' /\ ChangeTold'
    BY <2>1 DEF FirstTold, ChangeTold
  <2> QED
    BY <1>2, <1>14, <2>3, <2>4 DEF RtcInv
<1>16. CASE s3[1] = "t0"
  <2>1. s3' = << "t0", k + 1 >> /\ s3 = << "t0", k >>
    BY <1>1, <1>12, <1>16
  <2>2. s4'["second"] = Ioe!Second(s1') \/ s2' <= (k + 1) - 2
    <3>1. CASE k = 1
      BY <1>2, <1>11, <3>1
    <3>2. CASE k # 1
      <4>1. s4["second"] = Ioe!Second(s1) \/ s2 <= k - 2
        BY <1>13, <2>1, <3>2 DEF RtcInv, FirstTold
      <4> QED
        BY <1>2, <1>3, <1>10, <3>2, <4>1
    <3> QED
      BY <3>1, <3>2
  <2>3. FirstTold'
    BY <2>1, <2>2 DEF FirstTold
  <2>4. DateTold' /\ ChangeTold'
    BY <2>1 DEF DateTold, ChangeTold
  <2> QED
    BY <1>2, <1>14, <2>3, <2>4 DEF RtcInv
<1>17. CASE s3[1] = "t1"
  <2>1. s3' = << "t1", k + 1 >> /\ s3 = << "t1", k >>
    BY <1>1, <1>12, <1>17
  <2>2. s4'["second"] = s5' \/ (Matches(k + 1)' /\ s2' <= (k + 1) + 2)
    <3>1. CASE k = 1
      <4>1. s5 = Ioe!Second(s1) \/ s2 <= 3
        BY <2>1, <3>1 DEF RtcInv, FirstTold
      <4> QED
        BY <1>1, <1>2, <1>3, <1>8, <1>9, <1>11, <3>1, <4>1
    <3>2. CASE k # 1
      <4>1. s4["second"] = s5 \/ (Matches(k) /\ s2 <= k + 2)
        BY <1>13, <2>1, <3>2 DEF RtcInv, ChangeTold
      <4> QED
        BY <1>1, <1>2, <1>3, <1>8, <1>10, <3>2, <4>1
    <3> QED
      BY <3>1, <3>2
  <2>3. ChangeTold'
    BY <2>1, <2>2 DEF ChangeTold
  <2>4. DateTold' /\ FirstTold'
    BY <2>1 DEF DateTold, FirstTold
  <2> QED
    BY <1>2, <1>14, <2>3, <2>4 DEF RtcInv
<1> QED
  BY <1>1, <1>15, <1>16, <1>17

\* The delay of wait_sec.
LEMMA DelayKeeps ==
    ASSUME Ioe!RtcAssumption, RtcInv, Ioe!delay
    PROVE  RtcInv'
<1>1. s1' = s1 /\ s2' \in s2 .. s2 + 1 /\ s2' \in 0 .. TickGap /\ EstimateTold'
  BY AccessKeeps DEF Ioe!delay
<1>2. s3 = << "t0", 4 >> /\ s3' = << "t1", 1 >> /\ s5' = s4["second"] /\ UNCHANGED <<s4, s6, s7>>
  BY DEF Ioe!delay
<1>3. s2 \in Nat /\ s4 \in [FieldNames -> Nat] /\ s4["second"] \in Nat
  BY ClockNumbers DEF RtcInv, RtcTypes, FieldNames
<1>4. s4["second"] = Ioe!Second(s1) \/ s2 <= 2
  <2>1. s4["second"] = Ioe!Second(s1) \/ s2 <= 4 - 2
    BY <1>2 DEF RtcInv, FirstTold
  <2> QED
    BY <2>1
<1>5. RtcTypes'
  <2>1. s3' \in {"t0", "t1", "rtc"} \X (1 .. 4)
    BY <1>2
  <2> QED
    BY <1>1, <1>2, <1>3, <2>1 DEF RtcTypes, RtcInv
<1>6. DateTold' /\ ChangeTold'
  BY <1>2 DEF DateTold, ChangeTold
<1>7. FirstTold'
  BY <1>1, <1>2, <1>3, <1>4 DEF FirstTold
<1> QED
  BY <1>1, <1>5, <1>6, <1>7 DEF RtcInv

\* When the second changed the time it is was read.
LEMMA ChangeSeen ==
    ASSUME Ioe!RtcAssumption, RtcInv, s3 = << "t1", 4 >>, Ioe!Changed
    PROVE  Ioe!Clock = HourSecond(s1)
<1>1. s4["second"] # s5
  BY DEF Ioe!Changed
<1>2. Matches(4)
  BY <1>1 DEF RtcInv, ChangeTold
<1>3. /\ s4[Ioe!Fields[1]] = Ioe!Date(s1)[Ioe!Fields[1]]
      /\ s4[Ioe!Fields[2]] = Ioe!Date(s1)[Ioe!Fields[2]]
  BY <1>2 DEF Matches
<1>4. s4["second"] = Ioe!Second(s1) /\ s4["minute"] = Ioe!Minute(s1)
  BY <1>3 DEF Ioe!Fields, Ioe!Date
<1> QED
  BY <1>4 DEF Ioe!Clock, HourSecond

\* The program goes on without reading, from what it has read.
LEMMA ChangeKeeps ==
    ASSUME Ioe!RtcAssumption, RtcInv,
           Ioe!same_second \/ Ioe!first_change \/ Ioe!second_change \/ Ioe!timer_rtc
    PROVE  RtcInv'
<1>1. UNCHANGED <<s1, s2, s4, s5>>
  BY DEF Ioe!same_second, Ioe!first_change, Ioe!second_change, Ioe!timer_rtc
<1>2. s3' \in {<< "t0", 1 >>, << "rtc", 1 >>}
  BY DEF Ioe!same_second, Ioe!first_change, Ioe!second_change, Ioe!timer_rtc
<1>3. DateTold' /\ FirstTold' /\ ChangeTold'
  BY <1>2 DEF DateTold, FirstTold, ChangeTold
<1>4. s3' \in {"t0", "t1", "rtc"} \X (1 .. 4)
  BY <1>2
<1>5. CASE Ioe!same_second \/ Ioe!timer_rtc
  <2>1. UNCHANGED <<s6, s7>>
    BY <1>5 DEF Ioe!same_second, Ioe!timer_rtc
  <2>2. EstimateTold'
    BY <1>1, <2>1, AccessKeeps
  <2>3. RtcTypes'
    BY <1>1, <1>4, <2>1 DEF RtcTypes, RtcInv
  <2> QED
    BY <1>3, <2>2, <2>3 DEF RtcInv
<1>6. CASE Ioe!second_change
  <2>1. s6' = 0 /\ s7' = -1
    BY <1>6 DEF Ioe!second_change
  <2>2. RtcTypes'
    BY <1>1, <1>4, <2>1, ClockNumbers DEF RtcTypes, RtcInv
  <2> QED
    BY <1>3, <2>1, <2>2 DEF RtcInv, EstimateTold
<1>7. CASE Ioe!first_change
  <2>1. s6' = HourSecond(s1) /\ s7' = s1 /\ s1 \in 0 .. Ioe!DAY - 1
    BY <1>7, ChangeSeen DEF Ioe!first_change, RtcInv, RtcTypes
  <2>2. HourSecond(s1) \in 0 .. HOUR - 1 /\ HOUR \in Nat
    BY <2>1, InHour, ClockNumbers
  <2>3. RtcTypes'
    BY <1>1, <1>4, <2>1, <2>2 DEF RtcTypes, RtcInv
  <2>4. Ioe!Elapsed(s7)' = 0
    <3>1. s1' - s7' = 0 /\ Ioe!DAY \in Nat \ {0}
      BY <1>1, <2>1, ClockNumbers
    <3> QED
      BY <3>1 DEF Ioe!Elapsed
  <2>5. HourSecond(s1)' = HourSecond(s1)
    BY <1>1 DEF HourSecond, Ioe!Second, Ioe!Minute
  <2>6. AroundHour(s6' + 0) = HourSecond(s1)
    BY <2>1, <2>2 DEF AroundHour
  <2>7. EstimateTold'
    BY <2>1, <2>2, <2>4, <2>5, <2>6, ClockNumbers DEF EstimateTold
  <2> QED
    BY <1>3, <2>3, <2>7 DEF RtcInv
<1> QED
  BY <1>5, <1>6, <1>7

\* The second is read again, or the program does something else.
LEMMA CheckKeepsRtc ==
    ASSUME Ioe!RtcAssumption, RtcInv, Ioe!check_second \/ Ioe!Compute
    PROVE  RtcInv'
<1>1. s1' = s1 /\ s2' \in s2 .. s2 + 1 /\ s2' \in 0 .. TickGap /\ EstimateTold'
  BY AccessKeeps DEF Ioe!check_second, Ioe!Compute
<1>2. UNCHANGED <<s4, s5, s6, s7>> /\ s3' \in {<< "rtc", 1 >>, << "idle", 0 >>}
  BY DEF Ioe!check_second, Ioe!Compute
<1>3. DateTold' /\ FirstTold' /\ ChangeTold'
  BY <1>2 DEF DateTold, FirstTold, ChangeTold
<1>4. RtcTypes'
  <2>1. s3' \in ({"t0", "t1", "rtc"} \X (1 .. 4)) \cup {<< "idle", 0 >>}
    BY <1>2
  <2> QED
    BY <1>1, <1>2, <2>1 DEF RtcTypes, RtcInv
<1> QED
  BY <1>1, <1>3, <1>4 DEF RtcInv

\* A step of the clock keeps the invariant.
LEMMA RtcStep ==
    ASSUME Ioe!RtcAssumption, RtcInv, Ioe!RtcNext
    PROVE  RtcInv'
BY TickKeeps, RegisterKeeps, DelayKeeps, ChangeKeeps, CheckKeepsRtc DEF Ioe!RtcNext

\* A date that is returned is the time of the clock.
LEMMA DateGiven ==
    ASSUME Ioe!RtcAssumption, RtcInv, Ioe!RtcNext
    PROVE  Ioe!DateIsWhole
<1>1. SUFFICES ASSUME s3[1] = "rtc", s3'[1] = "idle" PROVE s4 = Ioe!Date(s1)
  BY DEF Ioe!DateIsWhole
<1>2. s3 = << "rtc", 4 >> /\ ~ Ioe!again(Ioe!Seen(s1, "second"))
  <2>1. /\ ~ Ioe!Tick /\ ~ Ioe!timer_rtc /\ ~ Ioe!Compute /\ ~ Ioe!delay
        /\ ~ Ioe!same_second /\ ~ Ioe!first_change /\ ~ Ioe!second_change
    BY <1>1 DEF Ioe!Tick, Ioe!timer_rtc, Ioe!Compute, Ioe!delay, Ioe!same_second,
       Ioe!first_change, Ioe!second_change
  <2>2. ~ Ioe!read_register
    BY <1>1 DEF Ioe!read_register
  <2>3. Ioe!check_second
    BY <2>1, <2>2 DEF Ioe!RtcNext
  <2> QED
    BY <1>1, <2>3 DEF Ioe!check_second
<1>3. s1 \in 0 .. Ioe!DAY - 1 /\ s4 \in [FieldNames -> Nat]
  BY DEF RtcInv, RtcTypes
<1>4. s4["second"] = Ioe!Second(s1)
  <2>1. Ioe!Seen(s1, "second") = Ioe!Second(s1)
    BY <1>3, SeenIs DEF Ioe!Date, FieldNames
  <2> QED
    BY <1>2, <2>1 DEF Ioe!again
<1>5. Matches(4)
  BY <1>2, <1>4 DEF RtcInv, DateTold
<1>6. \A f \in FieldNames : s4[f] = Ioe!Date(s1)[f]
  BY <1>5 DEF Matches, Ioe!Fields, FieldNames
<1>7. Ioe!Date(s1) = [f \in FieldNames |-> Ioe!Date(s1)[f]]
  BY DEF Ioe!Date, FieldNames
<1>8. s4 = [f \in FieldNames |-> s4[f]]
  BY <1>3
<1> QED
  BY <1>6, <1>7, <1>8

\* The divisor of the frequency is the time that passed.
LEMMA RateGiven ==
    ASSUME Ioe!RtcAssumption, RtcInv, Ioe!RtcNext
    PROVE  Ioe!RateRead
<1>1. SUFFICES ASSUME s3[1] = "t1", s3'[1] = "rtc" PROVE Ioe!Clock - s6 = Ioe!Elapsed(s7)
  BY DEF Ioe!RateRead
<1>2. Ioe!second_change
  <2>1. /\ ~ Ioe!Tick /\ ~ Ioe!timer_rtc /\ ~ Ioe!Compute /\ ~ Ioe!delay
        /\ ~ Ioe!same_second /\ ~ Ioe!first_change /\ ~ Ioe!check_second
    BY <1>1 DEF Ioe!Tick, Ioe!timer_rtc, Ioe!Compute, Ioe!delay, Ioe!same_second,
       Ioe!first_change, Ioe!check_second
  <2>2. ~ Ioe!read_register
    BY <1>1 DEF Ioe!read_register
  <2> QED
    BY <2>1, <2>2 DEF Ioe!RtcNext
<1>3. s3 = << "t1", 4 >> /\ Ioe!Changed /\ s7 # -1 /\ ~ Ioe!Useless(Ioe!Clock)
  BY <1>1, <1>2 DEF Ioe!second_change
<1>4. Ioe!Clock = HourSecond(s1)
  BY <1>3, ChangeSeen
<1>5. /\ s6 \in Nat /\ s6 < HOUR /\ Ioe!Elapsed(s7) <= MaxMissed
      /\ HourSecond(s1) = AroundHour(s6 + Ioe!Elapsed(s7))
      /\ s1 \in 0 .. Ioe!DAY - 1 /\ s7 \in 0 .. Ioe!DAY - 1
  BY <1>3 DEF RtcInv, RtcTypes, EstimateTold
<1>6. PICK e \in Nat, P \in Nat : e = Ioe!Elapsed(s7) /\ P = HOUR /\ e < P
  <2>1. Ioe!DAY \in Nat \ {0}
    BY ClockNumbers
  <2>2. Ioe!Elapsed(s7) \in Nat
    BY <1>5, <2>1 DEF Ioe!Elapsed
  <2> QED
    BY <1>5, <2>2, ClockNumbers
<1>7. Ioe!Clock = IF s6 + e < P THEN s6 + e ELSE s6 + e - P
  BY <1>4, <1>5, <1>6 DEF AroundHour
<1>8. ~ (s6 >= Ioe!Clock)
  BY <1>3 DEF Ioe!Useless
<1> QED
  BY <1>5, <1>6, <1>7, <1>8

----------------------------------------------------------------------------
(* The disk                                                                *)

\* X86Disk has disk in s1, status in s2, command in s3, mem in s4, image in s5, job in s6,
\* at in s7, seg in s8, request in s9 and before in s10.

\* A number among whole sectors is a word of one of them.
LEMMA InSectors ==
    ASSUME NEW d \in Nat \ {0}, NEW a \in Int
    PROVE  a \div d \in Int /\ a % d \in 0 .. d - 1 /\ a = d * (a \div d) + (a % d)
OBVIOUS

\* Sectors before that of a word are whole before it.
LEMMA SectorBefore ==
    ASSUME NEW d \in Nat \ {0}, NEW q \in Int, NEW p \in Int, NEW r \in 0 .. d - 1,
           d * q + r < d * p
    PROVE  q < p
<1> SUFFICES ASSUME p <= q PROVE FALSE
  OBVIOUS
<1>1. d * p <= d * q
  OBVIOUS
<1>2. PICK x \in Int, y \in Int : x = d * p /\ y = d * q
  OBVIOUS
<1> QED
  BY <1>1, <1>2

\* A number that is not negative is in a sector that is none.
LEMMA SectorAfter ==
    ASSUME NEW d \in Nat \ {0}, NEW q \in Int, NEW p \in Int, NEW r \in 0 .. d - 1,
           d * p <= d * q + r
    PROVE  p <= q
<1> SUFFICES ASSUME q < p PROVE FALSE
  OBVIOUS
<1>1. d * (q + 1) <= d * p
  OBVIOUS
<1>2. d * (q + 1) = d * q + d
  OBVIOUS
<1>3. PICK x \in Int, y \in Int : x = d * p /\ y = d * q
  OBVIOUS
<1> QED
  BY <1>1, <1>2, <1>3

\* The start of a sector, and how many sectors a copy has.
LEMMA WholeSectors ==
    ASSUME Disk!DiskAssumption, NEW buf \in Nat, NEW n \in Nat
    PROVE  /\ Disk!Whole(buf, n) \in Nat /\ Disk!Start(buf) = SECTSIZE * (buf \div SECTSIZE)
           /\ buf \div SECTSIZE \in Nat
           /\ buf = SECTSIZE * (buf \div SECTSIZE) + (buf % SECTSIZE)
           /\ buf + n <= Disk!Start(buf) + SECTSIZE * Disk!Whole(buf, n)
           /\ \A c \in Nat : n = SECTSIZE * c /\ buf % SECTSIZE = 0 => Disk!Whole(buf, n) = c
<1>1. PICK S \in Nat \ {0} : S = SECTSIZE
  BY DEF Disk!DiskAssumption
<1>2. PICK q \in Int, r \in 0 .. S - 1 : q = buf \div S /\ r = buf % S /\ buf = S * q + r
  BY <1>1, InSectors
<1>3. q \in Nat
  <2>1. S * 0 <= S * q + r
    BY <1>1, <1>2
  <2> QED
    BY <1>1, <1>2, <2>1, SectorAfter
<1>4. PICK s \in Nat : s = S * q /\ s = Disk!Start(buf) /\ buf = s + r
  <2>1. q * S \in Nat /\ q * S = S * q
    BY <1>1, <1>3
  <2> QED
    BY <1>1, <1>2, <2>1 DEF Disk!Start
<1>5. PICK x \in Nat : x = buf + n - s + S - 1 /\ x = n + r + S - 1
  BY <1>1, <1>2, <1>4
<1>6. PICK k \in Int, y \in 0 .. S - 1 : k = x \div S /\ y = x % S /\ x = S * k + y
  BY <1>1, InSectors
<1>7. k \in Nat
  <2>1. S * 0 <= S * k + y
    BY <1>1, <1>5, <1>6
  <2> QED
    BY <1>1, <1>6, <2>1, SectorAfter
<1>8. Disk!Whole(buf, n) = k
  BY <1>1, <1>4, <1>5, <1>6 DEF Disk!Whole
<1>9. buf + n <= s + S * k
  <2>1. PICK z \in Nat : z = S * k
    BY <1>1, <1>7
  <2> QED
    BY <1>1, <1>2, <1>4, <1>5, <1>6, <2>1
<1>10. ASSUME NEW c \in Nat, n = S * c, r = 0 PROVE k = c
  <2>1. x = S * c + (S - 1) /\ S - 1 \in 0 .. S - 1
    BY <1>1, <1>5, <1>10
  <2>2. (S * c + (S - 1)) \div S = c
    BY <2>1, Divides
  <2> QED
    BY <1>6, <2>1, <2>2
<1> QED
  BY <1>1, <1>2, <1>3, <1>4, <1>7, <1>8, <1>9, <1>10

----------------------------------------------------------------------------
\* The disk before any call, a move of a sector, and what memory and disk are.
Disk0 == [s \in 0 .. Sectors - 1 |-> [w \in Disk!Words |-> Disk!Word(s, w)]]
Moves == [addr : Int, sect : Nat, write : BOOLEAN]
IsMemory(f) == f = [m \in 0 .. MemSize - 1 |-> f[m]]
IsDisk(d) == d = [s \in 0 .. Sectors - 1 |-> [w \in Disk!Words |-> d[s][w]]]

\* A sector still to move covers a word; a word has a value when they have moved.
Covered(m, i) == Disk!InSector(m, s6[i].addr)
Will(m, v) == /\ \A i \in 1 .. Len(s6) : Covered(m, i) => s1[s6[i].sect][m - s6[i].addr] = v
              /\ s4[m] = v \/ \E i \in 1 .. Len(s6) : Covered(m, i)
Reads  == \A i \in 1 .. Len(s6) : ~s6[i].write
Writes == \A i \in 1 .. Len(s6) : s6[i].write

DiskTypes == /\ s6 \in Seq(Moves) /\ IsMemory(s4) /\ IsDisk(s1)
             /\ s5 \in Images /\ s8 \in -1 .. Len(s5)
             /\ s7 \in {"begin", "issue", "move", "run"}

\* What the controller is told is what the driver waits for.
Drives == IF s7 = "move"
            THEN /\ s6 # <<>> /\ s2 \in {"busy", "drq"}
                 /\ s3 = [write |-> s6[1].write, sect |-> s6[1].sect]
            ELSE s2 \in {"busy", "ready"} /\ s3 = Disk!Nothing

Stages == /\ s7 = "begin" => s8 = 0 /\ s6 = <<>>
          /\ s7 = "run" => s8 = -1 /\ s6 = <<>>

\* The loader: what is in memory, or comes there.
FileComes(ph) == \A b \in 0 .. ph.filesz - 1 : Will(ph.paddr + b, Disk!File(ph.offset + b))
BssComes(ph) == \A b \in ph.filesz .. ph.memsz - 1 : Will(ph.paddr + b, 0)
ArgumentsCome == \A a \in 0 .. ARGSECTS * SECTSIZE - 1 :
                    Will(MAINARG_ADDR + a, Disk!Word(1 + (a \div SECTSIZE), a % SECTSIZE))
Loads == s8 # -1 =>
         /\ s1 = Disk0 /\ Reads
         /\ s7 # "begin" => ArgumentsCome
         /\ \A k \in 1 .. s8 : FileComes(s5[k]) /\ (k < s8 => BssComes(s5[k]))

\* A call on the disk: what each sector and each word is to be.
InBlocks(r, s) == Disk!In(s, r.blkno, r.blkcnt)
SectorWill(r, s) == [w \in Disk!Words |-> IF InBlocks(r, s)
                                       THEN s10.mem[r.buf + (s - r.blkno) * SECTSIZE + w]
                                       ELSE s10.disk[s][w]]
WordWill(r, m) ==
    IF Disk!In(m, r.buf, r.blkcnt * SECTSIZE)
      THEN s10.disk[r.blkno + ((m - r.buf) \div SECTSIZE)][(m - r.buf) % SECTSIZE]
      ELSE s10.mem[m]

WritesBlocks(r) ==
    /\ Writes /\ s4 = s10.mem
    /\ \A i \in 1 .. Len(s6) : /\ InBlocks(r, s6[i].sect)
                               /\ s6[i].addr = r.buf + (s6[i].sect - r.blkno) * SECTSIZE
    /\ \A s \in 0 .. Sectors - 1 : \/ s1[s] = SectorWill(r, s)
                                   \/ \E i \in 1 .. Len(s6) : s6[i].sect = s
ReadsBlocks(r) == /\ Reads /\ s1 = s10.disk
                  /\ \A m \in 0 .. MemSize - 1 : Will(m, WordWill(r, m))
Serves == s8 = -1 /\ s7 # "run" =>
          /\ s9 \in Requests /\ IsDisk(s10.disk) /\ IsMemory(s10.mem)
          /\ IF s9.write THEN WritesBlocks(s9) ELSE ReadsBlocks(s9)

DiskInv == DiskTypes /\ Drives /\ Stages /\ Loads /\ Serves

\* Sums of sectors.
LEMMA Distribute ==
    ASSUME NEW d \in Int, NEW x \in Int, NEW y \in Int
    PROVE  d * (x + y) = d * x + d * y /\ d * x \in Int /\ x * d = d * x
OBVIOUS

\* The word of sector j after those of two numbers.
AlikeIn(d, buf, off, b, j) == /\ (off + b) \div d = (off \div d) + j
                              /\ (off + b) % d = (buf + b) - d * ((buf \div d) + j)

\* A word of the j-th sector after the one of buf is as far in the file.
LEMMA SameWord ==
    ASSUME NEW d \in Nat \ {0}, NEW buf \in Int, NEW off \in Int, off % d = buf % d,
           NEW b \in Int, NEW j \in Int, (buf + b) - d * ((buf \div d) + j) \in 0 .. d - 1
    PROVE  AlikeIn(d, buf, off, b, j)
<1>1. PICK q \in Int : q = buf \div d
  BY InSectors
<1>2. PICK p \in Int : p = off \div d
  BY InSectors
<1>3. PICK r \in 0 .. d - 1 : r = buf % d
  BY InSectors
<1>4. buf = d * q + r /\ off = d * p + r
  BY <1>1, <1>2, <1>3, InSectors
<1>5. PICK w \in 0 .. d - 1 : w = (buf + b) - d * (q + j)
  BY <1>1
<1>6. d * (q + j) = d * q + d * j /\ d * (p + j) = d * p + d * j
  BY Distribute
<1>7. PICK x \in Int : x = d * q
  OBVIOUS
<1>8. PICK y \in Int : y = d * p
  OBVIOUS
<1>9. PICK z \in Int : z = d * j
  OBVIOUS
<1>10. d * (p + j) = y + z /\ d * (q + j) = x + z
  BY <1>6, <1>7, <1>8, <1>9
<1>11. off + b = d * (p + j) + w
  <2>1. w = (buf + b) - (x + z) /\ buf = x + r /\ off = y + r
    BY <1>4, <1>5, <1>7, <1>8, <1>10
  <2>2. off + b = (y + z) + w
    BY <2>1
  <2> QED
    BY <2>2, <1>10
<1>12. p + j \in Int
  OBVIOUS
<1>13. (d * (p + j) + w) \div d = p + j /\ (d * (p + j) + w) % d = w
  BY <1>12, Divides, Zenon
<1> QED
  BY <1>1, <1>2, <1>5, <1>11, <1>13, Zenon DEF AlikeIn

\* N sectors that reach n words have each of them.
LEMMA Reached ==
    ASSUME NEW d \in Nat \ {0}, NEW q \in Int, NEW r \in 0 .. d - 1, NEW n \in Nat, NEW N \in Nat,
           NEW buf \in Int, buf = d * q + r, buf + n <= d * q + d * N, NEW b \in 0 .. n - 1
    PROVE  \E k \in 0 .. N - 1 : (buf + b) - d * (q + k) \in 0 .. d - 1
<1>1. PICK x \in Nat : x = r + b
  OBVIOUS
<1>2. PICK k \in Int : k = x \div d
  OBVIOUS
<1>3. PICK w \in 0 .. d - 1 : w = x % d
  OBVIOUS
<1>4. x = d * k + w
  BY <1>2, <1>3, InSectors
<1>5. PICK s \in Int : s = d * q
  OBVIOUS
<1>6. PICK z \in Int : z = d * N
  OBVIOUS
<1>7. PICK y \in Int : y = d * k
  OBVIOUS
<1>8. k < N
  <2>1. (s + r) + n <= s + z
    BY <1>5, <1>6
  <2>2. x < z
    BY <2>1, <1>1
  <2>3. d * k + w < d * N
    BY <2>2, <1>4, <1>6
  <2> QED
    BY <2>3, SectorBefore
<1>9. k >= 0
  <2>1. d * 0 <= d * k + w
    BY <1>1, <1>4
  <2>2. 0 <= k
    BY <2>1, SectorAfter
  <2> QED
    BY <2>2
<1>10. d * (q + k) = s + y
  BY <1>5, <1>7, Distribute
<1>11. (buf + b) - d * (q + k) = w
  <2>1. x = y + w
    BY <1>4, <1>7
  <2>2. (s + r) + b - (s + y) = w
    BY <2>1, <1>1
  <2> QED
    BY <2>2, <1>5, <1>10
<1>12. k \in 0 .. N - 1
  BY <1>8, <1>9
<1> QED
  BY <1>11, <1>12

\* No word of the first N sectors is outside of them.
LEMMA Within ==
    ASSUME NEW d \in Nat \ {0}, NEW q \in Int, NEW N \in Nat, NEW k \in 0 .. N - 1, NEW m \in Int,
           m - d * (q + k) \in 0 .. d - 1
    PROVE  m \in d * q .. d * q + N * d - 1
<1>1. d * (k + 1) <= d * N
  OBVIOUS
<1>2. d * (k + 1) = d * k + d /\ N * d = d * N /\ d * (q + k) = d * q + d * k
  <2>1. d * (k + 1) = d * k + d * 1 /\ d * 1 = d
    BY Distribute
  <2> QED
    BY <2>1, Distribute
<1>3. 0 <= d * k
  OBVIOUS
<1>4. PICK x \in Int : x = d * q
  OBVIOUS
<1>5. PICK y \in Int : y = d * k
  OBVIOUS
<1>6. PICK z \in Int : z = d * N
  OBVIOUS
<1>7. d * (q + k) = x + y /\ y + d <= z /\ 0 <= y
  BY <1>1, <1>2, <1>3, <1>4, <1>5, <1>6
<1>8. m - (x + y) \in 0 .. d - 1
  BY <1>7
<1>9. m \in x .. x + z - 1
  BY <1>7, <1>8
<1> QED
  BY <1>2, <1>4, <1>6, <1>9

----------------------------------------------------------------------------
\* A word of a sector is one place after its first.
LEMMA InSectorIs ==
    ASSUME Disk!DiskAssumption, NEW m \in Int, NEW a \in Int
    PROVE  Disk!InSector(m, a) <=> m - a \in 0 .. SECTSIZE - 1
<1>1. PICK S \in Nat \ {0} : S = SECTSIZE
  BY DEF Disk!DiskAssumption
<1> QED
  BY <1>1 DEF Disk!InSector, Disk!Words

\* A copy is a sequence of reads of consecutive sectors.
LEMMA CopyReads ==
    ASSUME Disk!DiskAssumption, NEW buf \in Nat, NEW n \in Nat, NEW off \in Int,
           Disk!FirstSector(off) \in Nat
    PROVE  /\ Disk!copy_from_disk(buf, n, off) \in Seq(Moves)
           /\ Len(Disk!copy_from_disk(buf, n, off)) = Disk!Whole(buf, n)
           /\ \A i \in 1 .. Disk!Whole(buf, n) :
                 /\ Disk!copy_from_disk(buf, n, off)[i].addr
                      = SECTSIZE * ((buf \div SECTSIZE) + (i - 1))
                 /\ Disk!copy_from_disk(buf, n, off)[i].sect = Disk!FirstSector(off) + i - 1
                 /\ Disk!copy_from_disk(buf, n, off)[i].write = FALSE
<1>1. SECTSIZE \in Int
  BY DEF Disk!DiskAssumption
<1>2. PICK q \in Nat : q = buf \div SECTSIZE
  BY WholeSectors
<1>3. Disk!Start(buf) = SECTSIZE * q
  BY <1>2, WholeSectors, Zenon
<1>4. PICK N \in Nat : N = Disk!Whole(buf, n)
  BY WholeSectors
<1>5. PICK f \in Nat : f = Disk!FirstSector(off)
  OBVIOUS
<1>6. ASSUME NEW i \in 1 .. N
      PROVE  Disk!Start(buf) + (i - 1) * SECTSIZE = SECTSIZE * (q + (i - 1))
             /\ SECTSIZE * (q + (i - 1)) \in Int /\ f + i - 1 \in Nat
  <2>1. q \in Int /\ i - 1 \in Int /\ q + (i - 1) \in Int /\ f + i - 1 \in Nat
    BY <1>6
  <2>2. SECTSIZE * (q + (i - 1)) = SECTSIZE * q + SECTSIZE * (i - 1)
    BY <1>1, <2>1, Distribute, Zenon
  <2>3. (i - 1) * SECTSIZE = SECTSIZE * (i - 1) /\ SECTSIZE * (q + (i - 1)) \in Int
    BY <1>1, <2>1, Distribute, Zenon
  <2> QED
    BY <1>3, <2>1, <2>2, <2>3, Zenon
<1> DEFINE M(i) == [addr |-> SECTSIZE * (q + (i - 1)), sect |-> f + i - 1, write |-> FALSE]
<1>7. \A i \in 1 .. N : M(i) \in Moves
  BY <1>6 DEF Moves
<1>8. Disk!copy_from_disk(buf, n, off) = [i \in 1 .. N |-> M(i)]
  BY <1>3, <1>4, <1>5, <1>6, Zenon DEF Disk!copy_from_disk, Disk!Sector
<1>9. \A i \in 1 .. N : /\ M(i).addr = SECTSIZE * (q + (i - 1)) /\ M(i).sect = f + i - 1
                        /\ M(i).write = FALSE
  OBVIOUS
<1> HIDE DEF M
<1>10. [i \in 1 .. N |-> M(i)] \in Seq(Moves) /\ Len([i \in 1 .. N |-> M(i)]) = N
  BY <1>7
<1> QED
  BY <1>2, <1>4, <1>5, <1>8, <1>9, <1>10

\* The word of a copy's sector, in terms of the first.
LEMMA CopyPlace ==
    ASSUME Disk!DiskAssumption, NEW buf \in Nat, NEW n \in Nat, NEW off \in Int,
           Disk!FirstSector(off) \in Nat, NEW i \in 1 .. Disk!Whole(buf, n), NEW m \in Int
    PROVE  Disk!InSector(m, Disk!copy_from_disk(buf, n, off)[i].addr)
             <=> m - SECTSIZE * ((buf \div SECTSIZE) + (i - 1)) \in 0 .. SECTSIZE - 1
<1>1. SECTSIZE \in Int
  BY DEF Disk!DiskAssumption
<1>2. Disk!copy_from_disk(buf, n, off)[i].addr = SECTSIZE * ((buf \div SECTSIZE) + (i - 1))
  BY CopyReads
<1>3. (buf \div SECTSIZE) + (i - 1) \in Int
  <2>1. buf \div SECTSIZE \in Nat /\ Disk!Whole(buf, n) \in Nat
    BY WholeSectors
  <2> QED
    BY <2>1
<1>4. SECTSIZE * ((buf \div SECTSIZE) + (i - 1)) \in Int
  BY <1>1, <1>3, Distribute
<1> QED
  BY <1>2, <1>4, InSectorIs, Zenon

\* A sector of a copy has a value for a word that is in it.
Brings(c, i, m, v) == Disk!InSector(m, c[i].addr) => Disk0[c[i].sect][m - c[i].addr] = v

\* What a copy writes: the words of its sectors, each its word of the file.
LEMMA CopyGives ==
    ASSUME Disk!DiskAssumption, NEW buf \in Nat, NEW n \in Nat, NEW off \in Int,
           Disk!FirstSector(off) \in Nat, Disk!FirstSector(off) + Disk!Whole(buf, n) <= Sectors,
           off % SECTSIZE = buf % SECTSIZE, NEW i \in 1 .. Disk!Whole(buf, n), NEW b \in Int
    PROVE  Brings(Disk!copy_from_disk(buf, n, off), i, buf + b, Disk!File(off + b))
<1> SUFFICES ASSUME Disk!InSector(buf + b, Disk!copy_from_disk(buf, n, off)[i].addr)
             PROVE  Disk0[Disk!copy_from_disk(buf, n, off)[i].sect]
                       [(buf + b) - Disk!copy_from_disk(buf, n, off)[i].addr] = Disk!File(off + b)
  BY Zenon DEF Brings
<1>0. Disk!copy_from_disk(buf, n, off)[i].sect = Disk!FirstSector(off) + i - 1
  <2>1. \A k \in 1 .. Disk!Whole(buf, n) :
           Disk!copy_from_disk(buf, n, off)[k].sect = Disk!FirstSector(off) + k - 1
    BY CopyReads, Zenon
  <2> QED
    BY <2>1, Zenon
<1>1. SECTSIZE \in Nat \ {0} /\ ARGSECTS \in Nat
  BY DEF Disk!DiskAssumption
<1> DEFINE q == buf \div SECTSIZE
          r == buf % SECTSIZE
<1>2. buf \in Int
  OBVIOUS
<1>3. q \in Int /\ r \in 0 .. SECTSIZE - 1
  BY <1>1, <1>2, InSectors, Zenon
<1>4. buf = SECTSIZE * q + r
  BY <1>1, <1>2, InSectors, Zenon
<1> DEFINE p == off \div SECTSIZE
<1>5. p \in Int
  BY <1>1, InSectors, Zenon
<1>6. off = SECTSIZE * p + r
  BY <1>1, InSectors, Zenon
<1>7. PICK N \in Nat : N = Disk!Whole(buf, n)
  BY WholeSectors
<1>8. PICK j \in Int : j = i - 1 /\ 0 <= j /\ j < N
  BY <1>7
<1>9. Disk!copy_from_disk(buf, n, off)[i].addr = SECTSIZE * (q + j)
  BY <1>8, CopyReads, Zenon
<1>10. PICK f \in Nat : f = Disk!FirstSector(off)
  OBVIOUS
<1>11. f = p + ARGSECTS + 1
  BY <1>10, Zenon DEF Disk!FirstSector
<1>12. PICK s \in Nat : s = f + j
  BY <1>8
<1>13. Disk!copy_from_disk(buf, n, off)[i].sect = s
  <2>1. Disk!copy_from_disk(buf, n, off)[i].sect = f + i - 1
    <3> HIDE DEF q, r, p
    <3>1. Disk!FirstSector(off) + i - 1 = f + i - 1
      BY <1>10, Zenon
    <3> QED
      BY <1>0, <3>1, Zenon
  <2> QED
    BY <2>1, <1>7, <1>8, <1>12
<1>14. buf + b \in Int
  OBVIOUS
<1>15. (buf + b) - SECTSIZE * (q + j) \in 0 .. SECTSIZE - 1
  BY <1>8, <1>14, CopyPlace, Zenon
<1>16. PICK w \in 0 .. SECTSIZE - 1 : w = (buf + b) - SECTSIZE * (q + j)
  BY <1>15
<1>17. (off + b) \div SECTSIZE = p + j /\ (off + b) % SECTSIZE = w
  <2>1. (buf + b) - SECTSIZE * ((buf \div SECTSIZE) + j) \in 0 .. SECTSIZE - 1
    BY <1>15, Zenon
  <2>2. AlikeIn(SECTSIZE, buf, off, b, j)
    BY <1>1, <1>2, <2>1, SameWord, Zenon
  <2> QED
    BY <1>16, <2>2, Zenon DEF AlikeIn
<1>18. Disk!File(off + b) = Disk!Word(ARGSECTS + 1 + (p + j), w)
  BY <1>17, Zenon DEF Disk!File
<1>19. ARGSECTS + 1 + (p + j) = s
  BY <1>1, <1>5, <1>8, <1>11, <1>12
<1>20. s \in 0 .. Sectors - 1
  <2>1. f + N <= Sectors /\ Sectors \in Nat
    BY <1>7, <1>10 DEF Disk!DiskAssumption
  <2> QED
    BY <2>1, <1>8, <1>12
<1>21. Disk0[s][w] = Disk!Word(s, w)
  BY <1>20 DEF Disk0, Disk!Words
<1>22. Disk0[s][w] = Disk!File(off + b)
  BY <1>18, <1>19, <1>21, Zenon
<1> QED
  <2> DEFINE a == Disk!copy_from_disk(buf, n, off)[i].addr
  <2>1. a = SECTSIZE * (q + j)
    BY <1>9
  <2> HIDE DEF a, q, r, p
  <2>2. (buf + b) - a = w
    BY <1>16, <2>1, Zenon
  <2>3. (buf + b) - Disk!copy_from_disk(buf, n, off)[i].addr = w
    BY <2>2 DEF a
  <2> QED
    BY <1>13, <1>22, <2>3, Zenon

\* A copy reaches every word it is asked for, and none outside its sectors.
LEMMA CopyCovers ==
    ASSUME Disk!DiskAssumption, NEW buf \in Nat, NEW n \in Nat, NEW off \in Int,
           Disk!FirstSector(off) \in Nat
    PROVE  /\ \A b \in 0 .. n - 1 : \E i \in 1 .. Disk!Whole(buf, n) :
                 Disk!InSector(buf + b, Disk!copy_from_disk(buf, n, off)[i].addr)
           /\ \A m \in Int : \A i \in 1 .. Disk!Whole(buf, n) :
                 Disk!InSector(m, Disk!copy_from_disk(buf, n, off)[i].addr)
                   => m \in Disk!Overwritten(buf, n)
<1>1. SECTSIZE \in Nat \ {0}
  BY DEF Disk!DiskAssumption
<1> DEFINE q == buf \div SECTSIZE
          r == buf % SECTSIZE
<1>2. buf \in Int
  OBVIOUS
<1>3. q \in Int /\ r \in 0 .. SECTSIZE - 1
  BY <1>1, <1>2, InSectors, Zenon
<1>4. buf = SECTSIZE * q + r
  BY <1>1, <1>2, InSectors, Zenon
<1>5. PICK N \in Nat : N = Disk!Whole(buf, n)
  BY WholeSectors
<1>6. Disk!Start(buf) = SECTSIZE * q /\ buf + n <= SECTSIZE * q + SECTSIZE * N
  BY <1>5, WholeSectors, Zenon
<1>7. ASSUME NEW b \in 0 .. n - 1
      PROVE  \E i \in 1 .. N : Disk!InSector(buf + b, Disk!copy_from_disk(buf, n, off)[i].addr)
  <2>1. PICK k \in 0 .. N - 1 : (buf + b) - SECTSIZE * (q + k) \in 0 .. SECTSIZE - 1
    <3> HIDE DEF q, r
    <3> QED
      BY <1>1, <1>2, <1>3, <1>4, <1>6, Reached, Zenon
  <2>2. PICK i \in 1 .. N : i - 1 = k
    BY <1>5
  <2>3. buf + b \in Int
    OBVIOUS
  <2>4. (buf + b) - SECTSIZE * ((buf \div SECTSIZE) + (i - 1)) \in 0 .. SECTSIZE - 1
    BY <2>1, <2>2, Zenon
  <2>5. i \in 1 .. Disk!Whole(buf, n)
    BY <1>5, Zenon
  <2>6. Disk!InSector(buf + b, Disk!copy_from_disk(buf, n, off)[i].addr)
    BY <2>3, <2>4, <2>5, CopyPlace, Zenon
  <2> QED
    BY <2>6
<1>8. ASSUME NEW m \in Int, NEW i \in 1 .. N,
             Disk!InSector(m, Disk!copy_from_disk(buf, n, off)[i].addr)
      PROVE  m \in Disk!Overwritten(buf, n)
  <2>1. PICK k \in 0 .. N - 1 : k = i - 1
    BY <1>5
  <2>2. m - SECTSIZE * (q + k) \in 0 .. SECTSIZE - 1
    BY <1>5, <1>8, <2>1, CopyPlace, Zenon
  <2>3. m \in SECTSIZE * q .. SECTSIZE * q + N * SECTSIZE - 1
    BY <1>1, <1>3, <2>2, Within, Zenon
  <2> QED
    BY <1>5, <1>6, <2>3, Zenon DEF Disk!Overwritten
<1> QED
  BY <1>5, <1>7, <1>8

----------------------------------------------------------------------------
\* What the assumption says of a kernel.
LEMMA KernelIs ==
    ASSUME Disk!DiskAssumption, DiskTypes
    PROVE  /\ s5 \in Seq(Disk!Headers) /\ Len(s5) \in Nat /\ Len(s5) >= 1
           /\ \A k \in 1 .. Len(s5) :
                 /\ s5[k] \in Disk!Headers
                 /\ s5[k].paddr % SECTSIZE = s5[k].offset % SECTSIZE
                 /\ s5[k].filesz <= s5[k].memsz
                 /\ Disk!FirstSector(s5[k].offset)
                      + Disk!Whole(s5[k].paddr, s5[k].filesz) <= Sectors
                 /\ Disk!Memory(s5[k]) \subseteq 0 .. MemSize - 1
                 /\ Disk!Touched(s5[k]) \cap Disk!Arguments = {}
                 /\ \A l \in 1 .. k - 1 : Disk!Touched(s5[k]) \cap Disk!Memory(s5[l]) = {}
<1>1. s5 \in Seq(Disk!Headers) /\ Disk!Linked(s5)
  BY DEF Disk!DiskAssumption, DiskTypes
<1>2. Len(s5) \in Nat /\ DOMAIN s5 = 1 .. Len(s5) /\ Len(s5) >= 1
  BY <1>1 DEF Disk!Linked
<1>3. \A k \in 1 .. Len(s5) : s5[k] \in Disk!Headers
  BY <1>1, <1>2
<1> QED
  BY <1>1, <1>2, <1>3, Zenon DEF Disk!Linked

\* When nothing is left to move, a word has the value it was to have.
LEMMA NothingLeft ==
    ASSUME NEW m, NEW v, s6 = <<>>, Will(m, v)
    PROVE  s4[m] = v
BY DEF Will

\* A word that no job covers has its value.
LEMMA NotCovered ==
    ASSUME NEW m, NEW v, s4'[m] = v, \A i \in 1 .. Len(s6') : ~Covered(m, i)'
    PROVE  Will(m, v)'
BY Zenon DEF Will, Covered

\* A step of the driver moves the first sector of its job, and the disk is ready
\* for just this.
LEMMA MovesFirst ==
    ASSUME Disk!DiskAssumption, DiskTypes, Drives, Disk!move
    PROVE  /\ s6' = Tail(s6) /\ Len(s6) \in Nat \ {0} /\ s6[1] \in Moves
           /\ s3' = Disk!Nothing /\ s2' = (IF s6[1].write THEN "busy" ELSE "ready")
           /\ IF s6[1].write
                THEN /\ s4' = s4
                     /\ s1' = [s1 EXCEPT ![s6[1].sect] = [w \in Disk!Words |-> s4[s6[1].addr + w]]]
                ELSE /\ s1' = s1
                     /\ s4' = [m \in 0 .. MemSize - 1 |->
                                  IF Covered(m, 1) THEN s1[s6[1].sect][m - s6[1].addr]
                                                   ELSE s4[m]]
<1>1. s7 = "move" /\ s2 = "drq"
  BY DEF Disk!move, Drives, Disk!wait_disk
<1>2. s3 = [write |-> s6[1].write, sect |-> s6[1].sect]
  BY <1>1 DEF Drives
<1>3. s6 # <<>> /\ s6 \in Seq(Moves)
  BY <1>1 DEF Drives, DiskTypes
<1>4. Len(s6) \in Nat \ {0} /\ s6[1] \in Moves
  BY <1>3
<1>5. s6' = Tail(s6)
  BY DEF Disk!move
<1>6. s3' = Disk!Nothing /\ s2' = (IF s6[1].write THEN "busy" ELSE "ready")
  BY <1>1 DEF Disk!move, Disk!Moved
<1>7. CASE s6[1].write
  <2>1. s3.sect = s6[1].sect
    BY <1>2
  <2>2. s1' = [s1 EXCEPT ![s3.sect] = [w \in Disk!Words |-> s4[s6[1].addr + w]]] /\ s4' = s4
    BY <1>1, <1>7, Zenon DEF Disk!move
  <2> QED
    BY <1>4, <1>5, <1>6, <1>7, <2>1, <2>2, Zenon
<1>8. CASE ~s6[1].write
  <2>1. s3.sect = s6[1].sect /\ DOMAIN s4 = 0 .. MemSize - 1
    BY <1>2 DEF DiskTypes, IsMemory
  <2>2. s1' = s1
    BY <1>8, Zenon DEF Disk!move
  <2>3. s4' = [m \in DOMAIN s4 |-> IF Disk!InSector(m, s6[1].addr)
                                     THEN Disk!DataPort[m - s6[1].addr]
                                     ELSE s4[m]]
    BY <1>8, Zenon DEF Disk!move
  <2>4. ASSUME NEW m \in 0 .. MemSize - 1, Disk!InSector(m, s6[1].addr)
        PROVE  Disk!DataPort[m - s6[1].addr] = s1[s6[1].sect][m - s6[1].addr]
    <3>1. s6[1].addr \in Int /\ m \in Int
      BY <1>4 DEF Moves, Disk!DiskAssumption
    <3>2. m - s6[1].addr \in Disk!Words
      BY <2>4, <3>1, InSectorIs DEF Disk!Words
    <3> QED
      BY <1>1, <2>1, <3>2 DEF Disk!DataPort
  <2>5. s4' = [m \in 0 .. MemSize - 1 |->
                   IF Covered(m, 1) THEN s1[s6[1].sect][m - s6[1].addr] ELSE s4[m]]
    BY <2>1, <2>3, <2>4, Zenon DEF Covered
  <2> QED
    BY <1>4, <1>5, <1>6, <1>8, <2>2, <2>5, Zenon
<1> QED
  BY <1>7, <1>8

\* What is left of a job.
LEMMA Rest ==
    ASSUME DiskTypes, Len(s6) \in Nat \ {0}, s6' = Tail(s6)
    PROVE  /\ s6' \in Seq(Moves) /\ Len(s6') \in Nat /\ Len(s6') = Len(s6) - 1
           /\ \A i \in 1 .. Len(s6') : i + 1 \in 1 .. Len(s6) /\ s6'[i] = s6[i + 1]
           /\ \A i \in 1 .. Len(s6) : i = 1 \/ (i - 1 \in 1 .. Len(s6') /\ s6'[i - 1] = s6[i])
<1>1. s6 \in Seq(Moves)
  BY DEF DiskTypes
<1>2. Len(Tail(s6)) = Len(s6) - 1 /\ Tail(s6) \in Seq(Moves)
  BY <1>1
<1>3. \A i \in 1 .. Len(s6) - 1 : Tail(s6)[i] = s6[i + 1]
  BY <1>1
<1>4. PICK n \in Nat \ {0} : n = Len(s6)
  OBVIOUS
<1>5. \A i \in 1 .. n - 1 : i + 1 \in 1 .. n /\ s6'[i] = s6[i + 1]
  BY <1>3, <1>4
<1>6. \A i \in 1 .. n : i = 1 \/ (i - 1 \in 1 .. n - 1 /\ s6'[i - 1] = s6[i])
  <2> SUFFICES ASSUME NEW i \in 1 .. n, i # 1
               PROVE  i - 1 \in 1 .. n - 1 /\ s6'[i - 1] = s6[i]
    OBVIOUS
  <2>1. i - 1 \in 1 .. n - 1 /\ (i - 1) + 1 = i
    BY <1>4
  <2> QED
    BY <1>5, <2>1
<1> QED
  BY <1>2, <1>4, <1>5, <1>6

\* A read brings a word nearer to what it is to be.
LEMMA WillKept ==
    ASSUME Disk!DiskAssumption, DiskTypes, Drives, Disk!move, ~s6[1].write,
           NEW m \in 0 .. MemSize - 1, NEW v, Will(m, v)
    PROVE  Will(m, v)'
<1>1. /\ s6' = Tail(s6) /\ Len(s6) \in Nat \ {0} /\ s1' = s1
      /\ s4' = [x \in 0 .. MemSize - 1 |->
                   IF Covered(x, 1) THEN s1[s6[1].sect][x - s6[1].addr] ELSE s4[x]]
  BY MovesFirst
<1>2. /\ Len(s6') \in Nat
      /\ \A i \in 1 .. Len(s6') : i + 1 \in 1 .. Len(s6) /\ s6'[i] = s6[i + 1]
      /\ \A i \in 1 .. Len(s6) : i = 1 \/ (i - 1 \in 1 .. Len(s6') /\ s6'[i - 1] = s6[i])
  BY <1>1, Rest
<1>3. s4'[m] = IF Covered(m, 1) THEN s1[s6[1].sect][m - s6[1].addr] ELSE s4[m]
  BY <1>1, Zenon
<1>4. ASSUME NEW i \in 1 .. Len(s6'), Disk!InSector(m, s6'[i].addr)
      PROVE  s1'[s6'[i].sect][m - s6'[i].addr] = v
  <2>1. i + 1 \in 1 .. Len(s6) /\ s6'[i] = s6[i + 1]
    BY <1>2
  <2>2. Covered(m, i + 1)
    BY <1>4, <2>1, Zenon DEF Covered
  <2>3. s1[s6[i + 1].sect][m - s6[i + 1].addr] = v
    BY <2>1, <2>2, Zenon DEF Will
  <2> QED
    BY <1>1, <2>1, <2>3, Zenon
<1>5. s4'[m] = v \/ \E i \in 1 .. Len(s6') : Disk!InSector(m, s6'[i].addr)
  <2>1. 1 \in 1 .. Len(s6)
    BY <1>1
  <2>2. CASE Covered(m, 1)
    <3>1. s1[s6[1].sect][m - s6[1].addr] = v
      BY <2>1, <2>2, Zenon DEF Will
    <3> QED
      BY <1>3, <2>2, <3>1, Zenon
  <2>3. CASE ~Covered(m, 1)
    <3>1. s4'[m] = s4[m]
      BY <1>3, <2>3, Zenon
    <3>2. CASE s4[m] = v
      BY <3>1, <3>2, Zenon
    <3>3. ASSUME NEW i \in 1 .. Len(s6), Covered(m, i)
          PROVE  \E k \in 1 .. Len(s6') : Disk!InSector(m, s6'[k].addr)
      <4>1. i # 1
        BY <2>3, <3>3, Zenon
      <4>2. i - 1 \in 1 .. Len(s6') /\ s6'[i - 1] = s6[i]
        BY <1>2, <4>1
      <4>3. Disk!InSector(m, s6'[i - 1].addr)
        BY <3>3, <4>2, Zenon DEF Covered
      <4> QED
        BY <4>2, <4>3, Zenon
    <3> QED
      BY <3>2, <3>3, Zenon DEF Will
  <2> QED
    BY <2>2, <2>3
<1> QED
  BY <1>4, <1>5, Zenon DEF Will, Covered

----------------------------------------------------------------------------
\* At the start nothing is on its way: before the loader, the memory holds no word yet.
LEMMA DiskStarts ==
    ASSUME Disk!DiskAssumption, Disk!DiskInit
    PROVE  DiskInv
<1>1. DiskTypes
  <2>1. /\ s6 = <<>> /\ s8 = 0 /\ s7 = "begin" /\ s5 \in Images /\ s1 = Disk0
        /\ s4 = [m \in 0 .. MemSize - 1 |-> -2]
    BY Zenon DEF Disk!DiskInit, Disk0
  <2>2. s6 \in Seq(Moves)
    BY <2>1
  <2>3. IsMemory(s4)
    BY <2>1 DEF IsMemory
  <2>4. IsDisk(s1)
    BY <2>1 DEF IsDisk, Disk0
  <2>5. s8 \in -1 .. Len(s5)
    <3>1. s5 \in Seq(Disk!Headers)
      BY <2>1 DEF Disk!DiskAssumption
    <3> QED
      BY <2>1, <3>1
  <2> QED
    BY <2>1, <2>2, <2>3, <2>4, <2>5, Zenon DEF DiskTypes
<1>2. Drives
  BY DEF Disk!DiskInit, Drives
<1>3. Stages
  BY DEF Disk!DiskInit, Stages
<1>4. Loads
  <2>1. s1 = Disk0 /\ Len(s6) = 0 /\ s7 = "begin" /\ s8 = 0
    BY DEF Disk!DiskInit, Disk0
  <2>2. Reads
    BY <2>1 DEF Reads
  <2>3. \A k \in 1 .. s8 : FileComes(s5[k]) /\ (k < s8 => BssComes(s5[k]))
    BY <2>1
  <2> QED
    BY <2>1, <2>2, <2>3, Zenon DEF Loads
<1>5. Serves
  BY DEF Disk!DiskInit, Serves
<1> QED
  BY <1>1, <1>2, <1>3, <1>4, <1>5 DEF DiskInv

\* What is to come stays to come as long as memory, disk and job are the same.
LEMMA WillSame ==
    ASSUME UNCHANGED <<s1, s4, s6>>, NEW m, NEW v, Will(m, v)
    PROVE  Will(m, v)'
BY Zenon DEF Will, Covered

\* What the loader has done, and will do, stays with memory, disk and job.
LEMMA LoadsSame ==
    ASSUME UNCHANGED <<s1, s4, s5, s6, s8>>, s7' # "begin" => s7 # "begin", Loads
    PROVE  Loads'
<1>1. UNCHANGED <<s1, s4, s6>> /\ s5' = s5 /\ s8' = s8
  OBVIOUS
<1>2. ASSUME ArgumentsCome PROVE ArgumentsCome'
  BY <1>1, <1>2, WillSame, Zenon DEF ArgumentsCome
<1>3. ASSUME NEW ph, FileComes(ph) PROVE FileComes(ph)'
  BY <1>1, <1>3, WillSame, Zenon DEF FileComes
<1>4. ASSUME NEW ph, BssComes(ph) PROVE BssComes(ph)'
  BY <1>1, <1>4, WillSame, Zenon DEF BssComes
<1>5. ASSUME Reads PROVE Reads'
  BY <1>1, <1>5, Zenon DEF Reads
<1>6. ASSUME NEW k \in 1 .. s8, s8 # -1
      PROVE  FileComes(s5[k])' /\ (k < s8 => BssComes(s5[k])')
  <2>1. PICK ph : ph = s5[k]
    OBVIOUS
  <2>2. FileComes(ph) /\ (k < s8 => BssComes(ph))
    BY <1>6, <2>1, Zenon DEF Loads
  <2>3. FileComes(ph)' /\ (k < s8 => BssComes(ph)')
    BY <2>2, <1>3, <1>4, Zenon
  <2>4. ph = s5[k]'
    BY <1>1, <2>1, Zenon
  <2> QED
    BY <2>3, <2>4, Zenon DEF FileComes, BssComes
<1> QED
  BY <1>1, <1>2, <1>5, <1>6, Zenon DEF Loads

\* And so does what a call will do.
LEMMA ServesSame ==
    ASSUME UNCHANGED <<s1, s4, s6, s8, s9, s10>>, s7' # "run" => s7 # "run", Serves
    PROVE  Serves'
<1>1. UNCHANGED <<s1, s4, s6>> /\ s8' = s8 /\ s9' = s9 /\ s10' = s10
  OBVIOUS
<1> SUFFICES ASSUME s8' = -1, s7' # "run"
             PROVE  /\ s9' \in Requests /\ IsDisk(s10.disk)' /\ IsMemory(s10.mem)'
                    /\ IF s9.write THEN WritesBlocks(s9)' ELSE ReadsBlocks(s9)'
  BY <1>1, Zenon DEF Serves
<1>2. /\ s9 \in Requests /\ IsDisk(s10.disk) /\ IsMemory(s10.mem)
      /\ IF s9.write THEN WritesBlocks(s9) ELSE ReadsBlocks(s9)
  BY <1>1, Zenon DEF Serves
<1>3. s9' \in Requests /\ IsDisk(s10.disk)' /\ IsMemory(s10.mem)'
  BY <1>1, <1>2, Zenon DEF IsDisk, IsMemory
<1>4. ASSUME WritesBlocks(s9) PROVE WritesBlocks(s9)'
  <2>1. Writes' /\ s4' = s10.mem'
    BY <1>1, <1>4, Zenon DEF WritesBlocks, Writes
  <2>2. ASSUME NEW i \in 1 .. Len(s6')
        PROVE  /\ InBlocks(s9, s6[i].sect)'
               /\ s6'[i].addr = s9'.buf + (s6'[i].sect - s9'.blkno) * SECTSIZE
    BY <1>1, <1>4, Zenon DEF WritesBlocks, InBlocks
  <2>3. ASSUME NEW s \in 0 .. Sectors - 1
        PROVE  s1'[s] = SectorWill(s9, s)' \/ \E i \in 1 .. Len(s6') : s6'[i].sect = s
    <3>1. s1[s] = SectorWill(s9, s) \/ \E i \in 1 .. Len(s6) : s6[i].sect = s
      BY <1>4, Zenon DEF WritesBlocks
    <3>2. SectorWill(s9, s)' = SectorWill(s9, s)
      BY <1>1, Zenon DEF SectorWill, InBlocks
    <3> QED
      BY <1>1, <3>1, <3>2, Zenon
  <2> QED
    BY <2>1, <2>2, <2>3, Zenon DEF WritesBlocks
<1>5. ASSUME ReadsBlocks(s9) PROVE ReadsBlocks(s9)'
  <2>1. Reads' /\ s1' = s10.disk'
    BY <1>1, <1>5, Zenon DEF ReadsBlocks, Reads
  <2>2. ASSUME NEW m \in 0 .. MemSize - 1 PROVE Will(m, WordWill(s9, m))'
    <3>1. PICK v : v = WordWill(s9, m)
      OBVIOUS
    <3>2. Will(m, v)
      BY <1>5, <3>1, Zenon DEF ReadsBlocks
    <3>3. Will(m, v)'
      BY <1>1, <3>2, WillSame, Zenon
    <3>4. v = WordWill(s9, m)'
      BY <1>1, <3>1, Zenon DEF WordWill
    <3> QED
      BY <3>3, <3>4, Zenon DEF Will
  <2> QED
    BY <2>1, <2>2, Zenon DEF ReadsBlocks
<1> QED
  BY <1>2, <1>3, <1>4, <1>5, Zenon

\* The disk is done with a command, or is given one.
LEMMA CommandKeeps ==
    ASSUME Disk!DiskAssumption, DiskInv, Disk!Complete \/ Disk!issue
    PROVE  DiskInv'
<1>1. UNCHANGED <<s1, s4, s5, s6, s8, s9, s10>>
  BY DEF Disk!Complete, Disk!issue
<1>2. /\ s7' # "begin" => s7 # "begin"
      /\ s7' # "run" => s7 # "run"
      /\ s7 \in {"begin", "issue", "move", "run"} => s7' \in {"begin", "issue", "move", "run"}
  BY DEF Disk!Complete, Disk!issue
<1>3. DiskTypes'
  BY <1>1, <1>2 DEF DiskInv, DiskTypes, IsMemory, IsDisk
<1>4. Stages'
  BY <1>1 DEF DiskInv, Stages, Disk!Complete, Disk!issue
<1>5. Loads' /\ Serves'
  BY <1>1, <1>2, LoadsSame, ServesSame DEF DiskInv
<1>6. Drives'
  <2>1. CASE Disk!Complete
    <3>1. s2 = "busy" /\ UNCHANGED <<s3, s6, s7>>
      BY <2>1 DEF Disk!Complete
    <3>2. s2' = IF s3 = Disk!Nothing THEN "ready" ELSE "drq"
      BY <2>1 DEF Disk!Complete
    <3>3. CASE s7 = "move"
      <4>1. s6[1].sect # -1
        <5>1. s6 # <<>> /\ s6 \in Seq(Moves)
          BY <3>3 DEF DiskInv, Drives, DiskTypes
        <5>2. s6[1] \in Moves
          BY <5>1
        <5>3. s6[1].sect \in Nat
          BY <5>2 DEF Moves
        <5> QED
          BY <5>3
      <4>2. s3 = [write |-> s6[1].write, sect |-> s6[1].sect] /\ s6 # <<>>
        BY <3>3 DEF DiskInv, Drives
      <4>3. s3 # Disk!Nothing
        BY <4>1, <4>2 DEF Disk!Nothing
      <4>4. s2' = "drq"
        BY <3>2, <4>3
      <4> QED
        BY <3>1, <3>3, <4>2, <4>4 DEF Drives
    <3>4. CASE s7 # "move"
      <4>1. s3 = Disk!Nothing
        BY <3>4 DEF DiskInv, Drives
      <4> QED
        BY <3>1, <3>2, <3>4, <4>1 DEF Drives
    <3> QED
      BY <3>3, <3>4
  <2>2. CASE Disk!issue
    <3>1. s7 = "issue" /\ s6 # <<>> /\ s2 # "busy" /\ s7' = "move" /\ s6' = s6
      BY <2>2 DEF Disk!issue, Disk!wait_disk
    <3>2. s2 = "ready"
      BY <3>1 DEF DiskInv, Drives
    <3>3. s2' = "busy" /\ s3' = [write |-> s6[1].write, sect |-> s6[1].sect]
      BY <2>2, <3>2 DEF Disk!issue, Disk!Told
    <3> QED
      BY <3>1, <3>3 DEF Drives
  <2> QED
    BY <2>1, <2>2
<1> QED
  BY <1>3, <1>4, <1>5, <1>6 DEF DiskInv

----------------------------------------------------------------------------
\* Negative offsets: the arguments are in the sectors before the file.
LEMMA ArgumentOffset ==
    ASSUME Disk!DiskAssumption
    PROVE  /\ -ARGSECTS * SECTSIZE \in Int
           /\ (-ARGSECTS * SECTSIZE) % SECTSIZE = MAINARG_ADDR % SECTSIZE
           /\ Disk!FirstSector(-ARGSECTS * SECTSIZE) = 1
           /\ Disk!Whole(MAINARG_ADDR, ARGSECTS * SECTSIZE) = ARGSECTS
           /\ ARGSECTS * SECTSIZE \in Nat
           /\ \A a \in 0 .. ARGSECTS * SECTSIZE - 1 :
                 Disk!File(-ARGSECTS * SECTSIZE + a)
                   = Disk!Word(1 + (a \div SECTSIZE), a % SECTSIZE)
<1>1. PICK S \in Nat \ {0} : S = SECTSIZE
  BY DEF Disk!DiskAssumption
<1>2. PICK A \in Nat : A = ARGSECTS
  BY DEF Disk!DiskAssumption
<1>3. PICK o \in Int : o = -ARGSECTS * SECTSIZE /\ o = S * (-A) + 0
  BY <1>1, <1>2
<1>4. o \div S = -A /\ o % S = 0
  <2>1. 0 \in 0 .. S - 1 /\ -A \in Int
    BY <1>1
  <2>2. (S * (-A) + 0) \div S = -A /\ (S * (-A) + 0) % S = 0
    BY <2>1, Divides
  <2> QED
    BY <1>3, <2>2
<1>5. Disk!FirstSector(o) = 1
  BY <1>1, <1>2, <1>4 DEF Disk!FirstSector
<1>6. MAINARG_ADDR \in Nat /\ MAINARG_ADDR % SECTSIZE = 0
  BY DEF Disk!DiskAssumption
<1>7. PICK n \in Nat : n = ARGSECTS * SECTSIZE /\ n = SECTSIZE * A
  BY <1>1, <1>2
<1>8. Disk!Whole(MAINARG_ADDR, n) = A
  BY <1>6, <1>7, WholeSectors, Zenon
<1>9. ASSUME NEW a \in 0 .. n - 1
      PROVE  Disk!File(o + a) = Disk!Word(1 + (a \div SECTSIZE), a % SECTSIZE)
  <2>1. a \in Int
    OBVIOUS
  <2>2. PICK k \in Int : k = a \div S
    BY <2>1
  <2>3. PICK w \in 0 .. S - 1 : w = a % S
    BY <1>1, <2>1
  <2>4. a = S * k + w
    BY <2>1, <2>2, <2>3, InSectors
  <2>5. o + a = S * (k - A) + w
    <3>1. PICK x \in Int : x = S * k
      OBVIOUS
    <3>2. PICK y \in Int : y = S * (-A)
      OBVIOUS
    <3>3. S * (k - A) = x + y
      BY <3>1, <3>2, Distribute
    <3> QED
      BY <1>3, <2>4, <3>1, <3>2, <3>3
  <2>6. k - A \in Int
    OBVIOUS
  <2>7. (S * (k - A) + w) \div S = k - A /\ (S * (k - A) + w) % S = w
    BY <2>6, Divides
  <2>8. (o + a) \div S = k - A /\ (o + a) % S = w
    BY <2>5, <2>7, Zenon
  <2>9. Disk!File(o + a) = Disk!Word(A + 1 + (k - A), w)
    BY <1>1, <1>2, <2>8, Zenon DEF Disk!File
  <2>10. A + 1 + (k - A) = 1 + k
    OBVIOUS
  <2> QED
    BY <1>1, <2>2, <2>3, <2>9, <2>10, Zenon
<1>10. o % SECTSIZE = MAINARG_ADDR % SECTSIZE
  BY <1>1, <1>4, <1>6, Zenon
<1> QED
  BY <1>2, <1>3, <1>5, <1>7, <1>8, <1>9, <1>10, Zenon

\* The words that a copy is asked for will be those of the file.
LEMMA CopyWill ==
    ASSUME Disk!DiskAssumption, NEW buf \in Nat, NEW n \in Nat, NEW off \in Int,
           Disk!FirstSector(off) \in Nat, Disk!FirstSector(off) + Disk!Whole(buf, n) <= Sectors,
           off % SECTSIZE = buf % SECTSIZE, NEW b \in 0 .. n - 1,
           s6' = Disk!copy_from_disk(buf, n, off), s1' = Disk0
    PROVE  Will(buf + b, Disk!File(off + b))'
<1>1. Len(s6') = Disk!Whole(buf, n)
  BY CopyReads
<1>2. b \in Int
  OBVIOUS
<1>3. ASSUME NEW i \in 1 .. Len(s6'), Covered(buf + b, i)'
      PROVE  s1'[s6'[i].sect][(buf + b) - s6'[i].addr] = Disk!File(off + b)
  <2>1. Brings(Disk!copy_from_disk(buf, n, off), i, buf + b, Disk!File(off + b))
    BY <1>1, <1>2, CopyGives, Zenon
  <2> QED
    BY <1>3, <2>1, Zenon DEF Brings, Covered
<1>4. \E i \in 1 .. Len(s6') : Covered(buf + b, i)'
  BY <1>1, CopyCovers, Zenon DEF Covered
<1> QED
  BY <1>3, <1>4, Zenon DEF Will

\* A word outside of a copy's sectors stays.
LEMMA CopyLeaves ==
    ASSUME Disk!DiskAssumption, NEW buf \in Nat, NEW n \in Nat, NEW off \in Int,
           Disk!FirstSector(off) \in Nat, s6' = Disk!copy_from_disk(buf, n, off),
           NEW m \in Int, m \notin Disk!Overwritten(buf, n), NEW v, s4'[m] = v
    PROVE  Will(m, v)'
<1>1. Len(s6') = Disk!Whole(buf, n)
  BY CopyReads
<1>2. \A i \in 1 .. Len(s6') : ~Covered(m, i)'
  BY <1>1, CopyCovers, Zenon DEF Covered
<1> QED
  BY <1>2, NotCovered, Zenon

\* Two jobs, one after the other.
Joined(e, c, d) ==
    /\ e \in Seq(Moves)
    /\ \A i \in 1 .. Len(c) : i \in 1 .. Len(e) /\ e[i] = c[i]
    /\ \A i \in 1 .. Len(e) : \/ i \in 1 .. Len(c) /\ e[i] = c[i]
                              \/ \E k \in 1 .. Len(d) : e[i] = d[k]

\* A job that is two jobs one after the other has the moves of either.
LEMMA JoinedJobs ==
    ASSUME NEW c \in Seq(Moves), NEW d \in Seq(Moves)
    PROVE  Joined(c \o d, c, d)
<1>1. PICK e : e = c \o d
  OBVIOUS
<1>2. e \in Seq(Moves) /\ Len(e) = Len(c) + Len(d)
  BY <1>1, ConcatProperties, Zenon
<1>3. \A i \in 1 .. Len(c) + Len(d) : e[i] = IF i <= Len(c) THEN c[i] ELSE d[i - Len(c)]
  BY <1>1, ConcatProperties, Zenon
<1>4. PICK p \in Nat : p = Len(c)
  OBVIOUS
<1>5. PICK q \in Nat : q = Len(d)
  OBVIOUS
<1>6. \A i \in 1 .. p : i \in 1 .. Len(e) /\ e[i] = c[i]
  BY <1>2, <1>3, <1>4, <1>5
<1>7. ASSUME NEW i \in 1 .. Len(e), i \notin 1 .. p
      PROVE  \E k \in 1 .. q : e[i] = d[k]
  <2>1. i - p \in 1 .. q /\ ~(i <= p) /\ i \in 1 .. p + q
    BY <1>2, <1>4, <1>5, <1>7
  <2> QED
    BY <1>3, <1>4, <1>5, <2>1, Zenon
<1> QED
  BY <1>1, <1>2, <1>4, <1>5, <1>6, <1>7, Zenon DEF Joined

\* The first job: the arguments, and the headers beside them.
LEMMA ArgumentsWill ==
    ASSUME Disk!DiskAssumption, s1' = Disk0, NEW a \in 0 .. ARGSECTS * SECTSIZE - 1,
           s6' = Disk!copy_from_disk(MAINARG_ADDR, ARGSECTS * SECTSIZE, -ARGSECTS * SECTSIZE)
                   \o Disk!copy_from_disk(HEADER_ADDR, HeaderSize, 0)
    PROVE  Will(MAINARG_ADDR + a, Disk!Word(1 + (a \div SECTSIZE), a % SECTSIZE))'
<1> DEFINE off == -ARGSECTS * SECTSIZE
           n == ARGSECTS * SECTSIZE
           c == Disk!copy_from_disk(MAINARG_ADDR, n, off)
           d == Disk!copy_from_disk(HEADER_ADDR, HeaderSize, 0)
           m == MAINARG_ADDR + a
           v == Disk!Word(1 + (a \div SECTSIZE), a % SECTSIZE)
<1>1. /\ MAINARG_ADDR \in Nat /\ HEADER_ADDR \in Nat /\ HeaderSize \in Nat
      /\ n \in Nat /\ off \in Int
      /\ Disk!FirstSector(off) \in Nat /\ off % SECTSIZE = MAINARG_ADDR % SECTSIZE
      /\ Disk!Whole(MAINARG_ADDR, n) = ARGSECTS /\ Disk!FirstSector(off) = 1
      /\ Disk!File(off + a) = v
  <2>1. MAINARG_ADDR \in Nat /\ HEADER_ADDR \in Nat /\ HeaderSize \in Nat
    BY DEF Disk!DiskAssumption
  <2>2. 1 \in Nat
    OBVIOUS
  <2>3. /\ n \in Nat /\ off \in Int /\ off % SECTSIZE = MAINARG_ADDR % SECTSIZE
        /\ Disk!Whole(MAINARG_ADDR, n) = ARGSECTS /\ Disk!FirstSector(off) = 1
        /\ Disk!File(off + a) = v
    BY ArgumentOffset, Zenon
  <2> QED
    BY <2>1, <2>2, <2>3, Zenon
<1>2. Disk!FirstSector(off) + Disk!Whole(MAINARG_ADDR, n) <= Sectors
  <2>1. ARGSECTS \in Nat /\ Sectors \in Nat /\ ARGSECTS < Sectors
    BY DEF Disk!DiskAssumption
  <2>2. 1 + ARGSECTS <= Sectors
    BY <2>1
  <2> HIDE DEF n, off
  <2> QED
    BY <1>1, <2>2, Zenon
<1>3. Disk!FirstSector(0) \in Nat /\ 0 \in Int
  BY DEF Disk!FirstSector, Disk!DiskAssumption
<1>4. c \in Seq(Moves) /\ Len(c) = Disk!Whole(MAINARG_ADDR, n)
  BY <1>1, CopyReads, Zenon
<1>5. d \in Seq(Moves) /\ Len(d) = Disk!Whole(HEADER_ADDR, HeaderSize)
  BY <1>1, <1>3, CopyReads, Zenon
<1>6. m \in Int /\ a \in Int /\ m \in Disk!Arguments
  <2>1. MAINARG_ADDR \in Nat /\ n \in Nat /\ a \in 0 .. n - 1
    BY <1>1
  <2> HIDE DEF n
  <2>2. m \in Int /\ a \in Int /\ m \in MAINARG_ADDR .. MAINARG_ADDR + n - 1
    BY <2>1
  <2> QED
    BY <2>2 DEF Disk!Arguments, n
<1>7. \A i \in 1 .. Len(c) : Disk!InSector(m, c[i].addr) => s1'[c[i].sect][m - c[i].addr] = v
  <2>1. \A i \in 1 .. Disk!Whole(MAINARG_ADDR, n) : Disk!InSector(m, c[i].addr) =>
           Disk0[c[i].sect][m - c[i].addr] = Disk!File(off + a)
    <3>1. \A i \in 1 .. Disk!Whole(MAINARG_ADDR, n) : Brings(c, i, m, Disk!File(off + a))
      BY <1>1, <1>2, <1>6, CopyGives, Zenon
    <3> QED
      BY <3>1, Zenon DEF Brings
  <2> QED
    BY <1>1, <1>4, <2>1, Zenon
<1>8. \E i \in 1 .. Len(c) : Disk!InSector(m, c[i].addr)
  BY <1>1, <1>4, CopyCovers, Zenon
<1>9. \A i \in 1 .. Len(d) : ~Disk!InSector(m, d[i].addr)
  <2>1. \A i \in 1 .. Len(d) :
           Disk!InSector(m, d[i].addr) => m \in Disk!Overwritten(HEADER_ADDR, HeaderSize)
    BY <1>1, <1>3, <1>5, <1>6, CopyCovers, Zenon
  <2>2. m \notin Disk!Overwritten(HEADER_ADDR, HeaderSize)
    BY <1>6 DEF Disk!DiskAssumption
  <2> QED
    BY <2>1, <2>2, Zenon
<1> HIDE DEF c, d, m, v
<1>10. s6' = c \o d
  BY DEF c, d
<1>11. /\ \A i \in 1 .. Len(c) : i \in 1 .. Len(s6') /\ s6'[i] = c[i]
       /\ \A i \in 1 .. Len(s6') : i \in 1 .. Len(c) \/ \E k \in 1 .. Len(d) : s6'[i] = d[k]
  <2>1. Joined(c \o d, c, d)
    BY <1>4, <1>5, JoinedJobs, Zenon
  <2> QED
    BY <1>10, <2>1, Zenon DEF Joined
<1>12. ASSUME NEW i \in 1 .. Len(s6'), Disk!InSector(m, s6'[i].addr)
       PROVE  s1'[s6'[i].sect][m - s6'[i].addr] = v
  <2>1. ASSUME NEW k \in 1 .. Len(d), s6'[i] = d[k] PROVE FALSE
    BY <1>9, <1>12, <2>1, Zenon
  <2>2. i \in 1 .. Len(c)
    BY <1>11, <2>1, Zenon
  <2>3. s6'[i] = c[i]
    BY <1>11, <2>2, Zenon
  <2> QED
    BY <1>7, <1>12, <2>2, <2>3, Zenon
<1>13. \E i \in 1 .. Len(s6') : Covered(m, i)'
  BY <1>8, <1>11, Zenon DEF Covered
<1>14. Will(m, v)'
  BY <1>12, <1>13, Zenon DEF Will, Covered
<1> QED
  BY <1>14, Zenon DEF m, v

----------------------------------------------------------------------------
\* A file's first sector is after the arguments.
LEMMA FirstIs ==
    ASSUME Disk!DiskAssumption, NEW off \in Nat
    PROVE  Disk!FirstSector(off) \in Nat
<1>1. off \div SECTSIZE \in Nat /\ ARGSECTS \in Nat
  BY WholeSectors DEF Disk!DiskAssumption
<1> QED
  BY <1>1 DEF Disk!FirstSector

\* The loader asks for the arguments, then for the headers.
LEMMA ArgumentsKeep ==
    ASSUME Disk!DiskAssumption, DiskInv, Disk!load_arguments
    PROVE  DiskInv'
<1> DEFINE c == Disk!copy_from_disk(MAINARG_ADDR, ARGSECTS * SECTSIZE, -ARGSECTS * SECTSIZE)
           d == Disk!copy_from_disk(HEADER_ADDR, HeaderSize, 0)
<1>1. /\ s7 = "begin" /\ s7' = "issue" /\ s6' = c \o d
      /\ UNCHANGED <<s1, s2, s3, s4, s5, s8, s9, s10>>
  BY DEF Disk!load_arguments
<1>2. s8 = 0 /\ s1 = Disk0 /\ s2 \in {"busy", "ready"} /\ s3 = Disk!Nothing
  BY <1>1 DEF DiskInv, Stages, Loads, Drives
<1>3. /\ MAINARG_ADDR \in Nat /\ HEADER_ADDR \in Nat /\ HeaderSize \in Nat /\ 0 \in Int
      /\ Disk!FirstSector(0) \in Nat /\ Disk!FirstSector(-ARGSECTS * SECTSIZE) \in Nat
      /\ ARGSECTS * SECTSIZE \in Nat /\ -ARGSECTS * SECTSIZE \in Int
  <2>1. MAINARG_ADDR \in Nat /\ HEADER_ADDR \in Nat /\ HeaderSize \in Nat
    BY DEF Disk!DiskAssumption
  <2>2. 0 \in Int /\ 0 \in Nat /\ 1 \in Nat
    OBVIOUS
  <2> QED
    BY <2>1, <2>2, FirstIs, ArgumentOffset, Zenon
<1>4. c \in Seq(Moves) /\ \A i \in 1 .. Len(c) : ~c[i].write
  BY <1>3, CopyReads, Zenon
<1>5. d \in Seq(Moves) /\ \A i \in 1 .. Len(d) : ~d[i].write
  BY <1>3, CopyReads, Zenon
<1>6. Joined(c \o d, c, d)
  <2> HIDE DEF c, d
  <2> QED
    BY <1>4, <1>5, JoinedJobs, Zenon
<1>7. DiskTypes'
  <2>1. s6' \in Seq(Moves)
    <3> HIDE DEF c, d
    <3> QED
      BY <1>1, <1>6, Zenon DEF Joined
  <2>2. s7' \in {"begin", "issue", "move", "run"}
    BY <1>1
  <2> QED
    BY <1>1, <2>1, <2>2, Zenon DEF DiskInv, DiskTypes, IsMemory, IsDisk
<1>8. Reads'
  <2> HIDE DEF c, d
  <2>1. \A i \in 1 .. Len(c \o d) : ~(c \o d)[i].write
    BY <1>4, <1>5, <1>6, Zenon DEF Joined
  <2> QED
    BY <1>1, <2>1, Zenon DEF Reads
<1>9. ArgumentsCome'
  BY <1>1, <1>2, ArgumentsWill, Zenon DEF ArgumentsCome
<1>10. Loads'
  <2>1. s8' = 0 /\ s1' = Disk0
    BY <1>1, <1>2
  <2>2. \A k \in 1 .. s8' : FALSE
    BY <2>1
  <2> QED
    BY <1>8, <1>9, <2>1, <2>2, Zenon DEF Loads
<1>11. Drives' /\ Stages' /\ Serves'
  <2>1. s8' = 0 /\ s7' = "issue" /\ s2' \in {"busy", "ready"} /\ s3' = Disk!Nothing
    BY <1>1, <1>2
  <2> QED
    BY <2>1 DEF Drives, Stages, Serves
<1> QED
  BY <1>7, <1>10, <1>11 DEF DiskInv

\* The words of a segment, of its file and of its bss.
LEMMA SegmentWords ==
    ASSUME Disk!DiskAssumption, DiskTypes, NEW k \in 1 .. Len(s5)
    PROVE  /\ \A b \in 0 .. s5[k].filesz - 1 :
                /\ s5[k].paddr + b \in Disk!Memory(s5[k])
                /\ s5[k].paddr + b \notin Disk!Bss(s5[k])
           /\ \A b \in s5[k].filesz .. s5[k].memsz - 1 :
                /\ s5[k].paddr + b \in Disk!Memory(s5[k])
                /\ s5[k].paddr + b \in Disk!Bss(s5[k])
           /\ Disk!Memory(s5[k]) \subseteq 0 .. MemSize - 1
<1>1. s5[k] \in Disk!Headers /\ s5[k].filesz <= s5[k].memsz
      /\ Disk!Memory(s5[k]) \subseteq 0 .. MemSize - 1
  BY KernelIs
<1>2. PICK p \in Nat : p = s5[k].paddr
  BY <1>1 DEF Disk!Headers
<1>3. PICK f \in Nat : f = s5[k].filesz
  BY <1>1 DEF Disk!Headers
<1>4. PICK s \in Nat : s = s5[k].memsz /\ f <= s
  BY <1>1, <1>3 DEF Disk!Headers
<1>5. Disk!Memory(s5[k]) = p .. p + s - 1 /\ Disk!Bss(s5[k]) = p + f .. p + s - 1
  BY <1>2, <1>3, <1>4, Zenon DEF Disk!Memory, Disk!Bss
<1>6. /\ \A b \in 0 .. f - 1 : p + b \in p .. p + s - 1 /\ p + b \notin p + f .. p + s - 1
      /\ \A b \in f .. s - 1 : p + b \in p .. p + s - 1 /\ p + b \in p + f .. p + s - 1
  BY <1>4
<1> QED
  BY <1>1, <1>2, <1>3, <1>4, <1>5, <1>6, Zenon

\* Segments after it leave a segment and the arguments alone.
LEMMA LaterApart ==
    ASSUME Disk!DiskAssumption, DiskTypes, NEW k \in 1 .. Len(s5)
    PROVE  /\ \A m \in Disk!Arguments : /\ m \in 0 .. MemSize - 1 /\ m \in Int
                                        /\ m \notin Disk!Overwritten(s5[k].paddr, s5[k].filesz)
                                        /\ m \notin Disk!Bss(s5[k])
           /\ \A l \in 1 .. k - 1 : \A m \in Disk!Memory(s5[l]) :
                /\ m \notin Disk!Overwritten(s5[k].paddr, s5[k].filesz)
                /\ m \notin Disk!Bss(s5[k])
<1>1. /\ Disk!Touched(s5[k]) \cap Disk!Arguments = {}
      /\ \A l \in 1 .. k - 1 : Disk!Touched(s5[k]) \cap Disk!Memory(s5[l]) = {}
  BY KernelIs
<1>2. Disk!Arguments \subseteq 0 .. MemSize - 1 /\ \A m \in 0 .. MemSize - 1 : m \in Int
  BY DEF Disk!DiskAssumption
<1> QED
  BY <1>1, <1>2, Zenon DEF Disk!Touched

----------------------------------------------------------------------------
\* What is in memory when a segment has been copied.
Held(k) == /\ \A b \in 0 .. s5[k].filesz - 1 :
                 s4[s5[k].paddr + b] = Disk!File(s5[k].offset + b)
           /\ k < s8 => \A b \in s5[k].filesz .. s5[k].memsz - 1 :
                            s4[s5[k].paddr + b] = 0

\* When the job of a segment is done, it and those before it are in memory.
LEMMA WhenCopied ==
    ASSUME DiskInv, Disk!Copied
    PROVE  /\ s7 = "issue" /\ s8 \in Nat /\ s8 <= Len(s5) /\ s1 = Disk0 /\ s6 = <<>>
           /\ s2 \in {"busy", "ready"} /\ s3 = Disk!Nothing /\ IsMemory(s4)
           /\ \A k \in 1 .. s8 : Held(k)
           /\ \A a \in 0 .. ARGSECTS * SECTSIZE - 1 :
                 s4[MAINARG_ADDR + a] = Disk!Word(1 + (a \div SECTSIZE), a % SECTSIZE)
<1>1. s7 = "issue" /\ s6 = <<>> /\ s8 \in Nat /\ s8 # -1 /\ s8 <= Len(s5)
  <2>1. PICK n : n = Len(s5)
    OBVIOUS
  <2>2. s7 = "issue" /\ s6 = <<>> /\ s8 >= 0 /\ s8 \in -1 .. n
    BY <2>1 DEF Disk!Copied, DiskInv, DiskTypes
  <2> QED
    BY <2>1, <2>2
<1>2. /\ s1 = Disk0 /\ ArgumentsCome
      /\ \A k \in 1 .. s8 : FileComes(s5[k]) /\ (k < s8 => BssComes(s5[k]))
  BY <1>1 DEF DiskInv, Loads
<1>3. \A k \in 1 .. s8 : Held(k)
  BY <1>1, <1>2, NothingLeft, Zenon DEF FileComes, BssComes, Held
<1>4. \A a \in 0 .. ARGSECTS * SECTSIZE - 1 :
         s4[MAINARG_ADDR + a] = Disk!Word(1 + (a \div SECTSIZE), a % SECTSIZE)
  BY <1>1, <1>2, NothingLeft, Zenon DEF ArgumentsCome
<1>5. s2 \in {"busy", "ready"} /\ s3 = Disk!Nothing /\ IsMemory(s4)
  BY <1>1 DEF DiskInv, Drives, DiskTypes
<1> QED
  BY <1>1, <1>2, <1>3, <1>4, <1>5

\* To clear the bss of the last segment copied leaves all else.
LEMMA Cleared ==
    ASSUME Disk!DiskAssumption, DiskInv, Disk!Copied, NEW Z, s4' = Disk!Zeroed(Z)
    PROVE  /\ IsMemory(s4')
           /\ \A m \in 0 .. MemSize - 1 : s4'[m] = IF m \in Z THEN 0 ELSE s4[m]
<1>1. DOMAIN s4 = 0 .. MemSize - 1
  BY WhenCopied DEF IsMemory
<1>2. s4' = [m \in 0 .. MemSize - 1 |-> IF m \in Z THEN 0 ELSE s4[m]]
  BY <1>1, Zenon DEF Disk!Zeroed
<1> QED
  BY <1>2 DEF IsMemory

\* The words of segments and arguments once that is done.
LEMMA ClearedHolds ==
    ASSUME Disk!DiskAssumption, DiskInv, Disk!Copied, s8 # 0, s4' = Disk!Zeroed(Disk!Bss(s5[s8]))
    PROVE  /\ \A k \in 1 .. s8 :
                /\ \A b \in 0 .. s5[k].filesz - 1 :
                      s4'[s5[k].paddr + b] = Disk!File(s5[k].offset + b)
                /\ \A b \in s5[k].filesz .. s5[k].memsz - 1 :
                      s4'[s5[k].paddr + b] = 0
           /\ \A a \in 0 .. ARGSECTS * SECTSIZE - 1 :
                 s4'[MAINARG_ADDR + a] = Disk!Word(1 + (a \div SECTSIZE), a % SECTSIZE)
<1>1. /\ s8 \in Nat /\ s8 <= Len(s5) /\ \A k \in 1 .. s8 : Held(k)
      /\ \A a \in 0 .. ARGSECTS * SECTSIZE - 1 :
            s4[MAINARG_ADDR + a] = Disk!Word(1 + (a \div SECTSIZE), a % SECTSIZE)
  BY WhenCopied
<1>2. DiskTypes
  BY DEF DiskInv
<1>3. \A m \in 0 .. MemSize - 1 : s4'[m] = IF m \in Disk!Bss(s5[s8]) THEN 0 ELSE s4[m]
  BY Cleared
<1>4. s8 \in 1 .. Len(s5) /\ Len(s5) \in Nat
  <2>1. PICK n \in Nat : n = Len(s5)
    BY <1>2, KernelIs
  <2> QED
    BY <1>1, <2>1
<1>5. ASSUME NEW k \in 1 .. s8
      PROVE  /\ \A b \in 0 .. s5[k].filesz - 1 :
                   s4'[s5[k].paddr + b] = Disk!File(s5[k].offset + b)
             /\ \A b \in s5[k].filesz .. s5[k].memsz - 1 : s4'[s5[k].paddr + b] = 0
  <2>1. k \in 1 .. Len(s5) /\ (k # s8 => k \in 1 .. s8 - 1 /\ k < s8)
    <3>1. PICK n \in Nat : n = Len(s5)
      BY <1>4
    <3> QED
      BY <1>1, <3>1
  <2>2. Held(k)
    BY <1>1, Zenon
  <2>3. \A b \in 0 .. s5[k].filesz - 1 :
           /\ s5[k].paddr + b \in 0 .. MemSize - 1
           /\ s5[k].paddr + b \notin Disk!Bss(s5[s8])
    BY <1>2, <1>4, <2>1, SegmentWords, LaterApart, Zenon
  <2>4. ASSUME NEW b \in s5[k].filesz .. s5[k].memsz - 1
        PROVE  s4'[s5[k].paddr + b] = 0
    <3>1. s5[k].paddr + b \in 0 .. MemSize - 1
      BY <1>2, <2>1, SegmentWords, Zenon
    <3>2. CASE k = s8
      <4>1. s5[k].paddr + b \in Disk!Bss(s5[k])
        BY <1>2, <2>1, SegmentWords, Zenon
      <4>2. s5[k].paddr + b \in Disk!Bss(s5[s8])
        BY <3>2, <4>1
      <4> QED
        BY <1>3, <3>1, <4>2, Zenon
    <3>3. CASE k # s8
      <4>1. s4[s5[k].paddr + b] = 0
        BY <2>1, <2>2, <3>3, Zenon DEF Held
      <4> QED
        BY <1>3, <3>1, <4>1, Zenon
    <3> QED
      BY <3>2, <3>3
  <2>5. \A b \in 0 .. s5[k].filesz - 1 :
           s4'[s5[k].paddr + b] = Disk!File(s5[k].offset + b)
    BY <1>3, <2>2, <2>3, Zenon DEF Held
  <2> QED
    BY <2>4, <2>5, Zenon
<1>6. ASSUME NEW a \in 0 .. ARGSECTS * SECTSIZE - 1
      PROVE  s4'[MAINARG_ADDR + a] = Disk!Word(1 + (a \div SECTSIZE), a % SECTSIZE)
  <2>1. MAINARG_ADDR + a \in Disk!Arguments
    <3>1. PICK n \in Nat : n = ARGSECTS * SECTSIZE
      BY ArgumentOffset
    <3>2. MAINARG_ADDR \in Nat
      BY DEF Disk!DiskAssumption
    <3> QED
      BY <3>1, <3>2 DEF Disk!Arguments
  <2>2. MAINARG_ADDR + a \in 0 .. MemSize - 1 /\ MAINARG_ADDR + a \notin Disk!Bss(s5[s8])
    BY <1>2, <1>4, <2>1, LaterApart, Zenon
  <2> QED
    BY <1>1, <1>3, <2>2, Zenon
<1> QED
  BY <1>5, <1>6, Zenon

\* The kernel is entered.
LEMMA JumpKeeps ==
    ASSUME Disk!DiskAssumption, DiskInv, Disk!jump
    PROVE  DiskInv'
<1>1. /\ Disk!Copied /\ s8 = Len(s5) /\ s4' = Disk!Zeroed(Disk!Bss(s5[s8]))
      /\ s7' = "run" /\ s8' = -1
      /\ UNCHANGED <<s1, s2, s3, s5, s6, s9, s10>>
  BY DEF Disk!jump
<1>2. IsMemory(s4') /\ s6 = <<>> /\ s2 \in {"busy", "ready"} /\ s3 = Disk!Nothing
  BY <1>1, Cleared, WhenCopied
<1>3. DiskTypes'
  <2>1. s8' \in -1 .. Len(s5')
    <3>1. PICK n \in Nat : n = Len(s5)
      BY KernelIs DEF DiskInv
    <3>2. -1 \in -1 .. n
      OBVIOUS
    <3> QED
      BY <1>1, <3>1, <3>2, Zenon
  <2>2. s7' \in {"begin", "issue", "move", "run"}
    BY <1>1
  <2> QED
    BY <1>1, <1>2, <2>1, <2>2, Zenon DEF DiskInv, DiskTypes, IsMemory, IsDisk
<1>4. Drives' /\ Stages' /\ Loads' /\ Serves'
  BY <1>1, <1>2 DEF Drives, Stages, Loads, Serves
<1> QED
  BY <1>3, <1>4 DEF DiskInv

\* When the kernel is entered, it is in memory as it was linked.
LEMMA LoadedGiven ==
    ASSUME Disk!DiskAssumption, DiskInv, Disk!DiskNext
    PROVE  Disk!Loaded
<1> SUFFICES ASSUME s7 # "run", s7' = "run", s8 # -1
             PROVE  /\ \A k \in DOMAIN s5 : \A ph \in {s5[k]} :
                          /\ \A b \in 0 .. ph.filesz - 1 :
                                s4'[ph.paddr + b] = Disk!File(ph.offset + b)
                          /\ \A b \in ph.filesz .. ph.memsz - 1 : s4'[ph.paddr + b] = 0
                    /\ \A a \in 0 .. ARGSECTS * SECTSIZE - 1 :
                          s4'[MAINARG_ADDR + a] = Disk!Word(1 + (a \div SECTSIZE), a % SECTSIZE)
  BY Zenon DEF Disk!Loaded
<1>1. Disk!jump
  BY DEF Disk!DiskNext, Disk!Complete, Disk!load_arguments, Disk!load_program,
     Disk!issue, Disk!move, Disk!disk_blkio, Disk!blkio_done
<1>2. Disk!Copied /\ s8 = Len(s5) /\ s4' = Disk!Zeroed(Disk!Bss(s5[s8]))
  BY <1>1 DEF Disk!jump
<1>3. DOMAIN s5 = 1 .. Len(s5) /\ s8 # 0
  <2>1. s5 \in Seq(Disk!Headers) /\ Len(s5) >= 1
    BY KernelIs DEF DiskInv
  <2> QED
    BY <1>2, <2>1
<1>4. \A k \in 1 .. s8 :
         /\ \A b \in 0 .. s5[k].filesz - 1 :
               s4'[s5[k].paddr + b] = Disk!File(s5[k].offset + b)
         /\ \A b \in s5[k].filesz .. s5[k].memsz - 1 : s4'[s5[k].paddr + b] = 0
  BY <1>2, <1>3, ClearedHolds, Zenon
<1>5. \A a \in 0 .. ARGSECTS * SECTSIZE - 1 :
         s4'[MAINARG_ADDR + a] = Disk!Word(1 + (a \div SECTSIZE), a % SECTSIZE)
  BY <1>2, <1>3, ClearedHolds, Zenon
<1>6. DOMAIN s5 = 1 .. s8
  BY <1>2, <1>3
<1>7. ASSUME NEW k \in DOMAIN s5, NEW ph \in {s5[k]}
      PROVE  /\ \A b \in 0 .. ph.filesz - 1 :
                                s4'[ph.paddr + b] = Disk!File(ph.offset + b)
             /\ \A b \in ph.filesz .. ph.memsz - 1 : s4'[ph.paddr + b] = 0
  <2>1. ph = s5[k] /\ k \in 1 .. s8
    BY <1>6
  <2> QED
    BY <1>4, <2>1, Zenon
<1> QED
  BY <1>5, <1>7, Zenon

\* The next segment is copied.
LEMMA LoadKeeps ==
    ASSUME Disk!DiskAssumption, DiskInv, Disk!load_program
    PROVE  DiskInv'
<1>1. /\ Disk!Copied /\ s8 < Len(s5) /\ s8' = s8 + 1
      /\ s6' = Disk!copy_from_disk(s5[s8 + 1].paddr, s5[s8 + 1].filesz, s5[s8 + 1].offset)
      /\ s4' = Disk!Zeroed(IF s8 = 0 THEN {} ELSE Disk!Bss(s5[s8]))
      /\ UNCHANGED <<s1, s2, s3, s5, s7, s9, s10>>
  BY DEF Disk!load_program
<1>2. /\ s7 = "issue" /\ s8 \in Nat /\ s1 = Disk0 /\ s6 = <<>>
      /\ s2 \in {"busy", "ready"} /\ s3 = Disk!Nothing
  BY <1>1, WhenCopied
<1>3. DiskTypes
  BY DEF DiskInv
<1>4. PICK n \in Nat : n = Len(s5)
  BY <1>3, KernelIs
<1>5. s8 + 1 \in 1 .. n /\ s8 + 1 \in Nat /\ s8 + 1 # -1
      /\ \A k \in 1 .. s8 : k \in 1 .. n /\ k \in 1 .. (s8 + 1) - 1
  BY <1>1, <1>2, <1>4
<1> DEFINE ph == s5[s8 + 1]
<1>6. /\ ph \in Disk!Headers /\ ph.paddr % SECTSIZE = ph.offset % SECTSIZE
      /\ Disk!FirstSector(ph.offset) + Disk!Whole(ph.paddr, ph.filesz) <= Sectors
  BY <1>3, <1>4, <1>5, KernelIs
<1>7. ph.paddr \in Nat /\ ph.filesz \in Nat /\ ph.offset \in Nat /\ ph.offset \in Int
  BY <1>6 DEF Disk!Headers
<1>8. Disk!FirstSector(ph.offset) \in Nat
  BY <1>7, FirstIs, Zenon
<1> HIDE DEF ph
<1>9. s6' = Disk!copy_from_disk(ph.paddr, ph.filesz, ph.offset)
  BY <1>1, Zenon DEF ph
<1>10. s6' \in Seq(Moves) /\ Reads'
  <2>1. Disk!copy_from_disk(ph.paddr, ph.filesz, ph.offset) \in Seq(Moves)
    BY <1>7, <1>8, CopyReads, Zenon
  <2>2. Len(s6') = Disk!Whole(ph.paddr, ph.filesz)
    BY <1>7, <1>8, <1>9, CopyReads, Zenon
  <2>3. \A i \in 1 .. Disk!Whole(ph.paddr, ph.filesz) : ~s6'[i].write
    BY <1>7, <1>8, <1>9, CopyReads, Zenon
  <2> QED
    BY <1>9, <2>1, <2>2, <2>3, Zenon DEF Reads
<1>11. IsMemory(s4')
  BY <1>1, Cleared, Zenon
<1>12. DiskTypes'
  <2>1. s8' \in -1 .. Len(s5')
    <3>1. s8 + 1 \in -1 .. n
      BY <1>5
    <3> QED
      BY <1>1, <1>4, <3>1, Zenon
  <2>2. s7' \in {"begin", "issue", "move", "run"}
    BY <1>1, <1>2
  <2> QED
    BY <1>1, <1>3, <1>10, <1>11, <2>1, <2>2, Zenon DEF DiskTypes, IsMemory, IsDisk
<1>13. Drives' /\ Stages' /\ Serves'
  <2>1. s8' # -1 /\ s7' = "issue" /\ s2' \in {"busy", "ready"} /\ s3' = Disk!Nothing
    BY <1>1, <1>2, <1>5
  <2> QED
    BY <2>1 DEF Drives, Stages, Serves
<1>14. ASSUME NEW m \in Int, m \notin Disk!Overwritten(ph.paddr, ph.filesz), NEW v, s4'[m] = v
       PROVE  Will(m, v)'
  BY <1>7, <1>8, <1>9, <1>14, CopyLeaves, Zenon
<1>15. \A m \in 0 .. MemSize - 1 : m \in Int
  BY DEF Disk!DiskAssumption
<1>16. ArgumentsCome'
  <2> SUFFICES ASSUME NEW a \in 0 .. ARGSECTS * SECTSIZE - 1
               PROVE  Will(MAINARG_ADDR + a, Disk!Word(1 + (a \div SECTSIZE), a % SECTSIZE))'
    BY Zenon DEF ArgumentsCome
  <2>1. MAINARG_ADDR + a \in Disk!Arguments
    <3>1. PICK x \in Nat : x = ARGSECTS * SECTSIZE
      BY ArgumentOffset
    <3>2. MAINARG_ADDR \in Nat
      BY DEF Disk!DiskAssumption
    <3> QED
      BY <3>1, <3>2 DEF Disk!Arguments
  <2>2. /\ MAINARG_ADDR + a \in Int /\ MAINARG_ADDR + a \in 0 .. MemSize - 1
        /\ MAINARG_ADDR + a \notin Disk!Overwritten(ph.paddr, ph.filesz)
    BY <1>3, <1>4, <1>5, <2>1, LaterApart, Zenon DEF ph
  <2>3. s4'[MAINARG_ADDR + a] = Disk!Word(1 + (a \div SECTSIZE), a % SECTSIZE)
    <3>1. CASE s8 = 0
      <4>1. s4'[MAINARG_ADDR + a] = s4[MAINARG_ADDR + a]
        <5>1. PICK Z : Z = {}
          OBVIOUS
        <5>2. s4' = Disk!Zeroed(Z)
          BY <1>1, <3>1, <5>1, Zenon
        <5>3. \A m \in 0 .. MemSize - 1 : s4'[m] = IF m \in Z THEN 0 ELSE s4[m]
          BY <1>1, <5>2, Cleared, Zenon
        <5>4. MAINARG_ADDR + a \notin Z
          BY <5>1
        <5> QED
          BY <2>2, <5>3, <5>4, Zenon
      <4> QED
        BY <1>1, <4>1, WhenCopied, Zenon
    <3>2. CASE s8 # 0
      BY <1>1, <3>2, ClearedHolds, Zenon
    <3> QED
      BY <3>1, <3>2
  <2> QED
    BY <1>14, <2>2, <2>3, Zenon
<1>17. ASSUME NEW k \in 1 .. s8
       PROVE  FileComes(s5[k])' /\ BssComes(s5[k])'
  <2>1. PICK h : h = s5[k]
    OBVIOUS
  <2>2. s8 # 0 /\ k \in 1 .. n /\ k \in 1 .. (s8 + 1) - 1
    BY <1>2, <1>5
  <2>3. s4' = Disk!Zeroed(Disk!Bss(s5[s8]))
    BY <1>1, <2>2, Zenon
  <2>4. /\ \A b \in 0 .. h.filesz - 1 : s4'[h.paddr + b] = Disk!File(h.offset + b)
        /\ \A b \in h.filesz .. h.memsz - 1 : s4'[h.paddr + b] = 0
    BY <1>1, <2>1, <2>2, <2>3, ClearedHolds, Zenon
  <2>5. /\ \A b \in 0 .. h.filesz - 1 : h.paddr + b \in Disk!Memory(s5[k])
        /\ \A b \in h.filesz .. h.memsz - 1 : h.paddr + b \in Disk!Memory(s5[k])
        /\ Disk!Memory(s5[k]) \subseteq 0 .. MemSize - 1
    BY <1>3, <1>4, <2>1, <2>2, SegmentWords, Zenon
  <2>6. \A m \in Disk!Memory(s5[k]) : m \in Int /\ m \notin Disk!Overwritten(ph.paddr, ph.filesz)
    BY <1>3, <1>4, <1>5, <1>15, <2>2, <2>5, LaterApart, Zenon DEF ph
  <2>7. FileComes(h)'
    BY <1>14, <2>4, <2>5, <2>6, Zenon DEF FileComes
  <2>8. BssComes(h)'
    BY <1>14, <2>4, <2>5, <2>6, Zenon DEF BssComes
  <2>9. h = s5[k]'
    BY <1>1, <2>1, Zenon
  <2> QED
    BY <2>7, <2>8, <2>9, Zenon DEF FileComes, BssComes
<1>18. ASSUME NEW k, k = s8 + 1
       PROVE  FileComes(s5[k])'
  <2>1. PICK h : h = ph
    OBVIOUS
  <2>2. h = s5[k]'
    <3>1. s5' = s5
      BY <1>1
    <3> QED
      BY <1>18, <2>1, <3>1, Zenon DEF ph
  <2>3. FileComes(h)'
    BY <1>1, <1>2, <1>6, <1>7, <1>8, <1>9, <2>1, CopyWill, Zenon DEF FileComes
  <2> QED
    BY <2>2, <2>3, Zenon DEF FileComes
<1>19. Loads'
  <2>1. s1' = Disk0
    BY <1>1, <1>2
  <2>2. ASSUME NEW k \in 1 .. s8'
        PROVE  FileComes(s5[k])' /\ (k < s8' => BssComes(s5[k])')
    <3>1. k \in 1 .. s8 + 1
      BY <1>1
    <3>2. CASE k \in 1 .. s8
      BY <1>17, <3>2, Zenon
    <3>3. CASE k = s8 + 1
      <4>1. ~(k < s8')
        BY <1>1, <1>2, <3>3
      <4>2. FileComes(s5[k])'
        BY <1>18, <3>3, Zenon
      <4> QED
        BY <4>1, <4>2, Zenon
    <3> QED
      BY <1>2, <3>1, <3>2, <3>3
  <2> QED
    BY <1>10, <1>16, <2>1, <2>2, Zenon DEF Loads
<1> QED
  BY <1>12, <1>13, <1>19 DEF DiskInv

----------------------------------------------------------------------------
\* A word of the j-th of N blocks from buf on.
BlockWord(d, buf, N, m, j) == /\ (m - buf) \div d = j /\ (m - buf) % d = m - (buf + j * d)
                              /\ m \in buf .. buf + N * d - 1

\* A word of the j-th block has that block as the quotient of its distance.
LEMMA WordOfBlock ==
    ASSUME NEW d \in Nat \ {0}, NEW buf \in Int, NEW N \in Nat, NEW m \in Int, NEW j \in 0 .. N - 1,
           m - (buf + j * d) \in 0 .. d - 1
    PROVE  BlockWord(d, buf, N, m, j)
<1>1. PICK x \in Int : x = d * j /\ x = j * d /\ 0 <= x
  OBVIOUS
<1>2. PICK z \in Int : z = d * N /\ z = N * d
  OBVIOUS
<1>3. x + d <= z
  <2>1. d * (j + 1) <= d * N /\ d * (j + 1) = d * j + d
    OBVIOUS
  <2> QED
    BY <2>1, <1>1, <1>2
<1>4. PICK w \in 0 .. d - 1 : w = m - (buf + x)
  BY <1>1
<1>5. m - buf = x + w /\ m \in buf .. buf + z - 1
  BY <1>1, <1>3, <1>4
<1>6. m - buf = d * j + w /\ j \in Int
  BY <1>1, <1>5
<1>7. (d * j + w) \div d = j /\ (d * j + w) % d = w
  BY <1>6, Divides, Zenon
<1>8. (m - buf) \div d = j /\ (m - buf) % d = w
  BY <1>6, <1>7, Zenon
<1> QED
  BY <1>1, <1>2, <1>4, <1>5, <1>8, Zenon DEF BlockWord

\* Each word of N blocks is a word of one of them.
LEMMA BlockOfWord ==
    ASSUME NEW d \in Nat \ {0}, NEW buf \in Int, NEW N \in Nat, NEW m \in Int,
           m \in buf .. buf + N * d - 1
    PROVE  \E j \in 0 .. N - 1 : m - (buf + j * d) \in 0 .. d - 1
<1>1. PICK z \in Int : z = d * N /\ z = N * d
  OBVIOUS
<1>2. PICK x \in Nat : x = m - buf /\ x < z
  BY <1>1
<1>3. PICK j \in Int : j = x \div d
  OBVIOUS
<1>4. PICK w \in 0 .. d - 1 : w = x % d
  OBVIOUS
<1>5. x = d * j + w
  BY <1>3, <1>4, InSectors
<1>6. j < N
  <2>1. d * j + w < d * N
    BY <1>1, <1>2, <1>5
  <2> QED
    BY <2>1, SectorBefore
<1>7. 0 <= j
  <2>1. d * 0 <= d * j + w
    BY <1>2, <1>5
  <2>2. 0 \in Int
    OBVIOUS
  <2> QED
    BY <2>1, <2>2, SectorAfter, Zenon
<1>8. PICK y \in Int : y = d * j /\ y = j * d
  OBVIOUS
<1>9. m - (buf + y) = w
  BY <1>2, <1>5, <1>8
<1>10. j \in 0 .. N - 1
  BY <1>6, <1>7
<1> QED
  BY <1>8, <1>9, <1>10

\* The sectors of a call, one after the other.
LEMMA BlocksAre ==
    ASSUME Disk!DiskAssumption, NEW r \in Requests
    PROVE  /\ r.write \in BOOLEAN /\ r.blkno \in Nat /\ r.blkcnt \in Nat /\ r.buf \in Nat
           /\ Disk!Blocks(r) \in Seq(Moves) /\ Len(Disk!Blocks(r)) = r.blkcnt
           /\ \A i \in 1 .. r.blkcnt : /\ Disk!Blocks(r)[i].addr = r.buf + (i - 1) * SECTSIZE
                                       /\ Disk!Blocks(r)[i].sect = r.blkno + (i - 1)
                                       /\ Disk!Blocks(r)[i].write = r.write
<1>1. r \in [write : BOOLEAN, blkno : Nat, blkcnt : Nat, buf : Nat]
  BY Zenon DEF Disk!DiskAssumption
<1>2. r.write \in BOOLEAN /\ r.blkno \in Nat /\ r.blkcnt \in Nat /\ r.buf \in Nat
  BY <1>1
<1>3. PICK N \in Nat : N = r.blkcnt
  BY <1>2
<1>4. PICK a \in Nat : a = r.buf
  BY <1>2
<1>5. PICK f \in Nat : f = r.blkno
  BY <1>2
<1>6. PICK z \in BOOLEAN : z = r.write
  BY <1>2
<1>7. \A i \in 1 .. N : a + (i - 1) * SECTSIZE \in Int /\ f + (i - 1) \in Nat
  <2>1. SECTSIZE \in Int
    BY DEF Disk!DiskAssumption
  <2> QED
    BY <2>1
<1> DEFINE M(i) == [addr |-> a + (i - 1) * SECTSIZE, sect |-> f + (i - 1), write |-> z]
<1>8. \A i \in 1 .. N : M(i) \in Moves
  BY <1>7 DEF Moves
<1>9. Disk!Blocks(r) = [i \in 1 .. N |-> M(i)]
  BY <1>3, <1>4, <1>5, <1>6, Zenon DEF Disk!Blocks, Disk!Sector
<1>10. \A i \in 1 .. N : /\ M(i).addr = a + (i - 1) * SECTSIZE /\ M(i).sect = f + (i - 1)
                         /\ M(i).write = z
  OBVIOUS
<1> HIDE DEF M
<1>11. [i \in 1 .. N |-> M(i)] \in Seq(Moves) /\ Len([i \in 1 .. N |-> M(i)]) = N
  BY <1>8
<1>12. \A i \in 1 .. N : [x \in 1 .. N |-> M(x)][i] = M(i)
  OBVIOUS
<1> QED
  BY <1>2, <1>3, <1>4, <1>5, <1>6, <1>9, <1>10, <1>11, <1>12, Zenon

\* The word that a sector of a call has for a place in memory.
LEMMA BlocksGive ==
    ASSUME Disk!DiskAssumption, NEW r \in Requests, NEW m \in Int
    PROVE  /\ \A i \in 1 .. r.blkcnt : Disk!InSector(m, Disk!Blocks(r)[i].addr) =>
                /\ Disk!In(m, r.buf, r.blkcnt * SECTSIZE)
                /\ Disk!Blocks(r)[i].sect = r.blkno + ((m - r.buf) \div SECTSIZE)
                /\ m - Disk!Blocks(r)[i].addr = (m - r.buf) % SECTSIZE
           /\ Disk!In(m, r.buf, r.blkcnt * SECTSIZE) =>
                 \E i \in 1 .. r.blkcnt : Disk!InSector(m, Disk!Blocks(r)[i].addr)
<1>1. SECTSIZE \in Nat \ {0}
  BY DEF Disk!DiskAssumption
<1>2. PICK N \in Nat : N = r.blkcnt
  BY BlocksAre
<1>3. PICK a \in Int : a = r.buf
  BY BlocksAre
<1>4. PICK f \in Nat : f = r.blkno
  BY BlocksAre
<1>5. \A i \in 1 .. N : /\ Disk!Blocks(r)[i].addr = a + (i - 1) * SECTSIZE
                        /\ Disk!Blocks(r)[i].sect = f + (i - 1)
  BY <1>2, <1>3, <1>4, BlocksAre, Zenon
<1>6. \A j \in Int : a + j * SECTSIZE \in Int
  BY <1>1
<1>7. ASSUME NEW i \in 1 .. N, Disk!InSector(m, Disk!Blocks(r)[i].addr)
      PROVE  /\ Disk!In(m, a, N * SECTSIZE) /\ Disk!Blocks(r)[i].sect = f + ((m - a) \div SECTSIZE)
             /\ m - Disk!Blocks(r)[i].addr = (m - a) % SECTSIZE
  <2>1. PICK j \in 0 .. N - 1 : j = i - 1 /\ j \in Int
    BY <1>2
  <2>2. Disk!Blocks(r)[i].addr = a + j * SECTSIZE /\ Disk!Blocks(r)[i].sect = f + j
    BY <1>5, <2>1, Zenon
  <2>3. m - (a + j * SECTSIZE) \in 0 .. SECTSIZE - 1
    BY <1>6, <1>7, <2>1, <2>2, InSectorIs, Zenon
  <2>4. BlockWord(SECTSIZE, a, N, m, j)
    BY <1>1, <2>3, WordOfBlock, Zenon
  <2> QED
    BY <2>2, <2>4, Zenon DEF BlockWord, Disk!In
<1>8. ASSUME Disk!In(m, a, N * SECTSIZE)
      PROVE  \E i \in 1 .. N : Disk!InSector(m, Disk!Blocks(r)[i].addr)
  <2>1. m \in a .. a + N * SECTSIZE - 1
    BY <1>8, Zenon DEF Disk!In
  <2>2. PICK j \in 0 .. N - 1 : m - (a + j * SECTSIZE) \in 0 .. SECTSIZE - 1
    BY <1>1, <2>1, BlockOfWord, Zenon
  <2>3. PICK i \in 1 .. N : i - 1 = j /\ j \in Int
    BY <1>2
  <2>4. Disk!Blocks(r)[i].addr = a + j * SECTSIZE
    BY <1>5, <2>3, Zenon
  <2>5. Disk!InSector(m, Disk!Blocks(r)[i].addr)
    BY <1>6, <2>2, <2>3, <2>4, InSectorIs, Zenon
  <2> QED
    BY <2>5
<1> QED
  BY <1>2, <1>3, <1>4, <1>7, <1>8, Zenon

\* A call begins.
LEMMA CallKeeps ==
    ASSUME Disk!DiskAssumption, DiskInv, NEW r \in Requests, Disk!disk_blkio(r)
    PROVE  DiskInv'
<1>1. /\ s7 = "run" /\ s7' = "issue" /\ s6' = Disk!Blocks(r) /\ s9' = r
      /\ s10' = [disk |-> s1, mem |-> s4]
      /\ UNCHANGED <<s1, s2, s3, s4, s5, s8>>
  BY DEF Disk!disk_blkio
<1>2. s8 = -1 /\ s2 \in {"busy", "ready"} /\ s3 = Disk!Nothing
  BY <1>1 DEF DiskInv, Stages, Drives
<1>3. s10'.disk = s1 /\ s10'.mem = s4
  BY <1>1
<1>4. /\ r.write \in BOOLEAN /\ r.blkno \in Nat /\ r.blkcnt \in Nat /\ r.buf \in Nat
      /\ s6' \in Seq(Moves) /\ Len(s6') = r.blkcnt
      /\ \A i \in 1 .. r.blkcnt : /\ s6'[i].addr = r.buf + (i - 1) * SECTSIZE
                                  /\ s6'[i].sect = r.blkno + (i - 1)
                                  /\ s6'[i].write = r.write
  BY <1>1, BlocksAre, Zenon
<1>5. IsDisk(s1) /\ IsMemory(s4)
  BY DEF DiskInv, DiskTypes
<1>6. DiskTypes'
  <2>1. s7' \in {"begin", "issue", "move", "run"}
    BY <1>1
  <2> QED
    BY <1>1, <1>4, <2>1, Zenon DEF DiskInv, DiskTypes, IsMemory, IsDisk
<1>7. Drives' /\ Stages' /\ Loads'
  <2>1. s8' = -1 /\ s7' = "issue" /\ s2' \in {"busy", "ready"} /\ s3' = Disk!Nothing
    BY <1>1, <1>2
  <2> QED
    BY <2>1 DEF Drives, Stages, Loads
<1>8. ASSUME r.write PROVE WritesBlocks(r)'
  <2>1. Writes'
    BY <1>4, <1>8, Zenon DEF Writes
  <2>2. s4' = s10'.mem
    BY <1>1, <1>3
  <2>3. PICK N \in Nat : N = r.blkcnt
    BY <1>4
  <2>4. PICK f \in Nat : f = r.blkno
    BY <1>4
  <2>5. ASSUME NEW i \in 1 .. Len(s6')
        PROVE  InBlocks(r, s6'[i].sect)
              /\ s6'[i].addr = r.buf + (s6'[i].sect - r.blkno) * SECTSIZE
    <3>1. i \in 1 .. N /\ s6'[i].sect = f + (i - 1) /\ s6'[i].addr = r.buf + (i - 1) * SECTSIZE
      BY <1>4, <2>3, <2>4, Zenon
    <3>2. f + (i - 1) \in f .. f + N - 1 /\ (f + (i - 1)) - f = i - 1
      BY <3>1
    <3> QED
      BY <2>3, <2>4, <3>1, <3>2, Zenon DEF InBlocks, Disk!In
  <2>6. ASSUME NEW s \in 0 .. Sectors - 1
        PROVE  s1'[s] = SectorWill(r, s)' \/ \E i \in 1 .. Len(s6') : s6'[i].sect = s
    <3>1. s \in Int
      BY DEF Disk!DiskAssumption
    <3>2. CASE InBlocks(r, s)
      <4>1. s \in f .. f + N - 1
        BY <2>3, <2>4, <3>2, Zenon DEF InBlocks, Disk!In
      <4>2. PICK i \in 1 .. N : f + (i - 1) = s
        <5>1. (s - f) + 1 \in 1 .. N /\ f + (((s - f) + 1) - 1) = s
          BY <3>1, <4>1
        <5> QED
          BY <5>1, Zenon
      <4>3. i \in 1 .. Len(s6') /\ s6'[i].sect = s
        BY <1>4, <2>3, <2>4, <4>2, Zenon
      <4> QED
        BY <4>3, Zenon
    <3>3. CASE ~InBlocks(r, s)
      <4>1. SectorWill(r, s)' = [w \in Disk!Words |-> s1[s][w]]
        BY <1>3, <3>3, Zenon DEF SectorWill, InBlocks
      <4>2. s1[s] = [w \in Disk!Words |-> s1[s][w]]
        <5>1. PICK d : d = [x \in 0 .. Sectors - 1 |-> [w \in Disk!Words |-> s1[x][w]]]
          OBVIOUS
        <5>2. d[s] = [w \in Disk!Words |-> s1[s][w]]
          BY <5>1, Zenon
        <5> QED
          BY <1>5, <5>1, <5>2, Zenon DEF IsDisk
      <4> QED
        BY <1>1, <4>1, <4>2, Zenon
    <3> QED
      BY <3>2, <3>3
  <2> QED
    BY <2>1, <2>2, <2>5, <2>6, Zenon DEF WritesBlocks, InBlocks
<1>9. ASSUME ~r.write PROVE ReadsBlocks(r)'
  <2>1. Reads'
    BY <1>4, <1>9, Zenon DEF Reads
  <2>2. s1' = s10'.disk
    BY <1>1, <1>3
  <2>3. ASSUME NEW m \in 0 .. MemSize - 1
        PROVE  Will(m, WordWill(r, m))'
    <3>1. m \in Int
      BY DEF Disk!DiskAssumption
    <3>2. PICK v : v = IF Disk!In(m, r.buf, r.blkcnt * SECTSIZE)
                         THEN s1[r.blkno + ((m - r.buf) \div SECTSIZE)][(m - r.buf) % SECTSIZE]
                         ELSE s4[m]
      OBVIOUS
    <3>3. v = WordWill(r, m)'
      BY <1>3, <3>2, Zenon DEF WordWill, Disk!In
    <3>4. \A i \in 1 .. Len(s6') : Disk!InSector(m, s6'[i].addr) =>
             /\ Disk!In(m, r.buf, r.blkcnt * SECTSIZE)
             /\ s6'[i].sect = r.blkno + ((m - r.buf) \div SECTSIZE)
             /\ m - s6'[i].addr = (m - r.buf) % SECTSIZE
      BY <1>1, <1>4, <3>1, BlocksGive, Zenon
    <3>5. \A i \in 1 .. Len(s6') : Disk!InSector(m, s6'[i].addr)
             => s1'[s6'[i].sect][m - s6'[i].addr] = v
      BY <1>1, <3>2, <3>4, Zenon
    <3>6. s4'[m] = v \/ \E i \in 1 .. Len(s6') : Disk!InSector(m, s6'[i].addr)
      <4>1. CASE Disk!In(m, r.buf, r.blkcnt * SECTSIZE)
        BY <1>1, <1>4, <3>1, <4>1, BlocksGive, Zenon
      <4>2. CASE ~Disk!In(m, r.buf, r.blkcnt * SECTSIZE)
        BY <1>1, <3>2, <4>2, Zenon
      <4> QED
        BY <4>1, <4>2
    <3>7. Will(m, v)'
      BY <3>5, <3>6, Zenon DEF Will, Covered
    <3> QED
      BY <3>3, <3>7, Zenon DEF Will
  <2> QED
    BY <2>1, <2>2, <2>3, Zenon DEF ReadsBlocks
<1>10. Serves'
  <2>1. s9' \in Requests /\ IsDisk(s10.disk)' /\ IsMemory(s10.mem)'
    BY <1>1, <1>3, <1>5, Zenon DEF IsDisk, IsMemory
  <2>2. IF s9'.write THEN WritesBlocks(s9)' ELSE ReadsBlocks(s9)'
    <3>1. WritesBlocks(r)' => WritesBlocks(s9)'
      <4>1. \A s \in 0 .. Sectors - 1 : SectorWill(r, s)' = SectorWill(s9, s)'
        BY <1>1 DEF SectorWill, InBlocks
      <4>2. s9' = r
        BY <1>1
      <4> QED
        BY <4>1, <4>2, Zenon DEF WritesBlocks, InBlocks
    <3>2. ReadsBlocks(r)' => ReadsBlocks(s9)'
      BY <1>1, Zenon DEF ReadsBlocks, WordWill, Will
    <3> QED
      BY <1>1, <1>8, <1>9, <3>1, <3>2, Zenon
  <2> QED
    BY <2>1, <2>2, Zenon DEF Serves
<1> QED
  BY <1>6, <1>7, <1>10 DEF DiskInv

\* It is over.
LEMMA DoneKeeps ==
    ASSUME Disk!DiskAssumption, DiskInv, Disk!blkio_done
    PROVE  DiskInv'
<1>1. /\ s7 = "issue" /\ s6 = <<>> /\ s8 = -1 /\ s7' = "run"
      /\ UNCHANGED <<s1, s2, s3, s4, s5, s8, s6>>
  BY DEF Disk!blkio_done
<1>2. DiskTypes'
  <2>1. s7' \in {"begin", "issue", "move", "run"}
    BY <1>1
  <2> QED
    BY <1>1, <2>1, Zenon DEF DiskInv, DiskTypes, IsMemory, IsDisk
<1>3. Drives' /\ Stages' /\ Loads' /\ Serves'
  BY <1>1 DEF DiskInv, Drives, Stages, Loads, Serves
<1> QED
  BY <1>2, <1>3 DEF DiskInv

\* A sector is moved: what is loaded.
LEMMA MoveLoads ==
    ASSUME Disk!DiskAssumption, DiskInv, Disk!move
    PROVE  Loads'
<1>1. /\ DiskTypes /\ Drives /\ s7 = "move" /\ s7' = "issue"
      /\ UNCHANGED <<s5, s8, s9, s10>>
  BY DEF DiskInv, Disk!move
<1>2. Len(s6) \in Nat \ {0} /\ s6' = Tail(s6)
  BY <1>1, MovesFirst, Zenon
<1>3. \A i \in 1 .. Len(s6') : i + 1 \in 1 .. Len(s6) /\ s6'[i] = s6[i + 1]
  BY <1>1, <1>2, Rest, Zenon
<1> SUFFICES ASSUME s8 # -1
             PROVE  /\ s1' = Disk0 /\ Reads' /\ ArgumentsCome'
                    /\ \A k \in 1 .. s8 : FileComes(s5[k])' /\ (k < s8 => BssComes(s5[k])')
  BY <1>1, Zenon DEF Loads
<1>4. /\ s1 = Disk0 /\ Reads /\ ArgumentsCome
      /\ \A k \in 1 .. s8 : FileComes(s5[k]) /\ (k < s8 => BssComes(s5[k]))
  BY <1>1 DEF DiskInv, Loads
<1>5. ~s6[1].write
  <2>1. 1 \in 1 .. Len(s6)
    BY <1>2
  <2> QED
    BY <1>4, <2>1, Zenon DEF Reads
<1>6. s1' = s1
  BY <1>1, <1>5, MovesFirst, Zenon
<1>7. Reads'
  BY <1>3, <1>4, Zenon DEF Reads
<1>8. ASSUME NEW m \in 0 .. MemSize - 1, NEW v, Will(m, v) PROVE Will(m, v)'
  BY <1>1, <1>5, <1>8, WillKept, Zenon
<1>9. ArgumentsCome'
  <2> SUFFICES ASSUME NEW a \in 0 .. ARGSECTS * SECTSIZE - 1
               PROVE  Will(MAINARG_ADDR + a, Disk!Word(1 + (a \div SECTSIZE), a % SECTSIZE))'
    BY Zenon DEF ArgumentsCome
  <2>1. MAINARG_ADDR + a \in 0 .. MemSize - 1
    <3>1. PICK x \in Nat : x = ARGSECTS * SECTSIZE
      BY ArgumentOffset
    <3>2. MAINARG_ADDR \in Nat /\ Disk!Arguments \subseteq 0 .. MemSize - 1
      BY DEF Disk!DiskAssumption
    <3>3. MAINARG_ADDR + a \in Disk!Arguments
      BY <3>1, <3>2 DEF Disk!Arguments
    <3> QED
      BY <3>2, <3>3
  <2> QED
    BY <1>4, <1>8, <2>1, Zenon DEF ArgumentsCome
<1>10. ASSUME NEW k \in 1 .. s8
       PROVE  FileComes(s5[k])' /\ (k < s8 => BssComes(s5[k])')
  <2>1. PICK h : h = s5[k]
    OBVIOUS
  <2>2. k \in 1 .. Len(s5)
    <3>1. PICK n \in Nat : n = Len(s5)
      BY <1>1, KernelIs
    <3>2. s8 \in -1 .. n
      BY <1>1, <3>1, Zenon DEF DiskTypes
    <3>3. k \in 1 .. n
      BY <3>2
    <3> QED
      BY <3>1, <3>3
  <2>3. /\ \A b \in 0 .. h.filesz - 1 : h.paddr + b \in 0 .. MemSize - 1
        /\ \A b \in h.filesz .. h.memsz - 1 : h.paddr + b \in 0 .. MemSize - 1
    BY <1>1, <2>1, <2>2, SegmentWords, Zenon
  <2>4. FileComes(h) /\ (k < s8 => BssComes(h))
    BY <1>4, <2>1, Zenon
  <2>5. FileComes(h)'
    BY <1>8, <2>3, <2>4, Zenon DEF FileComes
  <2>6. ASSUME k < s8 PROVE BssComes(h)'
    BY <1>8, <2>3, <2>4, <2>6, Zenon DEF BssComes
  <2>7. h = s5[k]'
    BY <1>1, <2>1, Zenon
  <2> QED
    BY <2>5, <2>6, <2>7, Zenon DEF FileComes, BssComes
<1> QED
  BY <1>4, <1>6, <1>7, <1>9, <1>10, Zenon

\* And what a call does.
LEMMA MoveServes ==
    ASSUME Disk!DiskAssumption, DiskInv, Disk!move
    PROVE  Serves'
<1>1. /\ DiskTypes /\ Drives /\ s7 = "move" /\ s7' = "issue"
      /\ s5' = s5 /\ s8' = s8 /\ s9' = s9 /\ s10' = s10
  BY DEF DiskInv, Disk!move
<1>2. Len(s6) \in Nat \ {0} /\ s6' = Tail(s6)
  BY <1>1, MovesFirst, Zenon
<1>3. /\ \A i \in 1 .. Len(s6') : i + 1 \in 1 .. Len(s6) /\ s6'[i] = s6[i + 1]
      /\ \A i \in 1 .. Len(s6) : i = 1 \/ (i - 1 \in 1 .. Len(s6') /\ s6'[i - 1] = s6[i])
  BY <1>1, <1>2, Rest, Zenon
<1>4. 1 \in 1 .. Len(s6)
  BY <1>2
<1> SUFFICES ASSUME s8 = -1
             PROVE  /\ s9' \in Requests /\ IsDisk(s10.disk)' /\ IsMemory(s10.mem)'
                    /\ IF s9.write THEN WritesBlocks(s9)' ELSE ReadsBlocks(s9)'
  BY <1>1, Zenon DEF Serves
<1>5. /\ s9 \in Requests /\ IsDisk(s10.disk) /\ IsMemory(s10.mem)
      /\ IF s9.write THEN WritesBlocks(s9) ELSE ReadsBlocks(s9)
  BY <1>1 DEF DiskInv, Serves
<1>6. s9' \in Requests /\ IsDisk(s10.disk)' /\ IsMemory(s10.mem)'
  BY <1>1, <1>5, Zenon DEF IsDisk, IsMemory
<1>7. ASSUME s9.write PROVE WritesBlocks(s9)'
  <2>1. WritesBlocks(s9)
    BY <1>5, <1>7, Zenon
  <2>2. s6[1].write /\ Writes'
    BY <1>3, <1>4, <2>1, Zenon DEF WritesBlocks, Writes
  <2>3. s4' = s4 /\ s1' = [s1 EXCEPT ![s6[1].sect] = [w \in Disk!Words |-> s4[s6[1].addr + w]]]
    BY <1>1, <2>2, MovesFirst, Zenon
  <2>4. s4' = s10'.mem
    BY <1>1, <2>1, <2>3, Zenon DEF WritesBlocks
  <2>5. ASSUME NEW i \in 1 .. Len(s6')
        PROVE  /\ InBlocks(s9', s6'[i].sect)
               /\ s6'[i].addr = s9'.buf + (s6'[i].sect - s9'.blkno) * SECTSIZE
    <3>1. i + 1 \in 1 .. Len(s6) /\ s6'[i] = s6[i + 1]
      BY <1>3
    <3>2. PICK j : j = s6[i + 1]
      OBVIOUS
    <3>3. InBlocks(s9, j.sect) /\ j.addr = s9.buf + (j.sect - s9.blkno) * SECTSIZE
      BY <2>1, <3>1, <3>2, Zenon DEF WritesBlocks
    <3>4. s6'[i] = j
      BY <3>1, <3>2
    <3> QED
      BY <1>1, <3>3, <3>4, Zenon
  <2>6. ASSUME NEW s \in 0 .. Sectors - 1
        PROVE  s1'[s] = SectorWill(s9, s)' \/ \E i \in 1 .. Len(s6') : s6'[i].sect = s
    <3>1. SectorWill(s9, s)' = SectorWill(s9, s)
      BY <1>1 DEF SectorWill, InBlocks
    <3>2. s \in DOMAIN s1
      BY <1>1 DEF DiskTypes, IsDisk
    <3>3. CASE s = s6[1].sect
      <4>1. s1'[s] = [w \in Disk!Words |-> s4[s6[1].addr + w]]
        BY <2>3, <3>2, <3>3
      <4>2. InBlocks(s9, s) /\ s4 = s10.mem
            /\ s6[1].addr = s9.buf + (s - s9.blkno) * SECTSIZE
        BY <1>4, <2>1, <3>3, Zenon DEF WritesBlocks
      <4>3. SectorWill(s9, s) = [w \in Disk!Words |-> s4[s6[1].addr + w]]
        BY <4>2, Zenon DEF SectorWill
      <4> QED
        BY <3>1, <4>1, <4>3, Zenon
    <3>4. CASE s # s6[1].sect
      <4>1. s1'[s] = s1[s]
        BY <2>3, <3>2, <3>4
      <4>2. CASE s1[s] = SectorWill(s9, s)
        BY <3>1, <4>1, <4>2, Zenon
      <4>3. ASSUME NEW i \in 1 .. Len(s6), s6[i].sect = s
            PROVE  \E k \in 1 .. Len(s6') : s6'[k].sect = s
        <5>1. i # 1
          BY <3>4, <4>3, Zenon
        <5>2. i - 1 \in 1 .. Len(s6') /\ s6'[i - 1] = s6[i]
          BY <1>3, <5>1, Zenon
        <5> QED
          BY <4>3, <5>2, Zenon
      <4> QED
        BY <2>1, <4>2, <4>3, Zenon DEF WritesBlocks
    <3> QED
      BY <3>3, <3>4
  <2> QED
    BY <2>2, <2>4, <2>5, <2>6, Zenon DEF WritesBlocks, InBlocks
<1>8. ASSUME ~s9.write PROVE ReadsBlocks(s9)'
  <2>1. ReadsBlocks(s9)
    BY <1>5, <1>8, Zenon
  <2>2. ~s6[1].write /\ Reads'
    BY <1>3, <1>4, <2>1, Zenon DEF ReadsBlocks, Reads
  <2>3. s1' = s10'.disk
    <3>1. s1' = s1
      BY <1>1, <2>2, MovesFirst, Zenon
    <3> QED
      BY <1>1, <2>1, <3>1, Zenon DEF ReadsBlocks
  <2>4. ASSUME NEW m \in 0 .. MemSize - 1 PROVE Will(m, WordWill(s9, m))'
    <3>1. PICK v : v = WordWill(s9, m)
      OBVIOUS
    <3>2. Will(m, v)
      BY <2>1, <3>1, Zenon DEF ReadsBlocks
    <3>3. Will(m, v)'
      BY <1>1, <2>2, <3>2, WillKept, Zenon
    <3>4. v = WordWill(s9, m)'
      BY <1>1, <3>1, Zenon DEF WordWill
    <3> QED
      BY <3>3, <3>4, Zenon DEF Will
  <2> QED
    BY <2>2, <2>3, <2>4, Zenon DEF ReadsBlocks
<1> QED
  BY <1>5, <1>6, <1>7, <1>8, Zenon

\* A step of the disk keeps the invariant.
LEMMA MoveKeeps ==
    ASSUME Disk!DiskAssumption, DiskInv, Disk!move
    PROVE  DiskInv'
<1>1. /\ DiskTypes /\ Drives /\ s7 = "move" /\ s7' = "issue"
      /\ s5' = s5 /\ s8' = s8
  BY DEF DiskInv, Disk!move
<1>2. /\ Len(s6) \in Nat \ {0} /\ s6' = Tail(s6) /\ s3' = Disk!Nothing
      /\ s2' = (IF s6[1].write THEN "busy" ELSE "ready")
  BY <1>1, MovesFirst, Zenon
<1>3. s6' \in Seq(Moves)
  BY <1>1, <1>2, Rest, Zenon
<1>4. IsMemory(s4') /\ IsDisk(s1')
  <2>1. IsMemory(s4) /\ IsDisk(s1)
    BY <1>1 DEF DiskTypes
  <2>2. CASE s6[1].write
    <3>1. s4' = s4 /\ s1' = [s1 EXCEPT ![s6[1].sect] = [w \in Disk!Words |-> s4[s6[1].addr + w]]]
      BY <1>1, <2>2, MovesFirst, Zenon
    <3>2. IsDisk(s1')
      <4>1. PICK f : f = [w \in Disk!Words |-> s4[s6[1].addr + w]]
        OBVIOUS
      <4>2. f = [w \in Disk!Words |-> f[w]]
        BY <4>1, Zenon
      <4>3. PICK x : x = s6[1].sect
        OBVIOUS
      <4>4. s1' = [s1 EXCEPT ![x] = f]
        BY <3>1, <4>1, <4>3, Zenon
      <4>5. s1 = [s \in 0 .. Sectors - 1 |-> [w \in Disk!Words |-> s1[s][w]]]
        BY <2>1, Zenon DEF IsDisk
      <4>6. DOMAIN s1 = 0 .. Sectors - 1
        BY <4>5, Zenon
      <4>7. DOMAIN s1' = 0 .. Sectors - 1
        BY <4>4, <4>6, Zenon
      <4>8. ASSUME NEW s \in 0 .. Sectors - 1
            PROVE  s1'[s] = [w \in Disk!Words |-> s1'[s][w]]
        <5>1. CASE s = x
          <6>1. s1'[s] = f
            BY <4>4, <4>6, <5>1, Zenon
          <6> QED
            BY <4>2, <6>1, Zenon
        <5>2. CASE s # x
          <6>1. s1'[s] = s1[s]
            BY <4>4, <4>6, <5>2, Zenon
          <6>2. s1[s] = [w \in Disk!Words |-> s1[s][w]]
            <7>1. PICK d : d = [y \in 0 .. Sectors - 1 |-> [w \in Disk!Words |-> s1[y][w]]]
              OBVIOUS
            <7>2. d[s] = [w \in Disk!Words |-> s1[s][w]]
              BY <7>1, Zenon
            <7> QED
              BY <4>5, <7>1, <7>2, Zenon
          <6> QED
            BY <6>1, <6>2, Zenon
        <5> QED
          BY <5>1, <5>2
      <4>9. s1' = [s \in 0 .. Sectors - 1 |-> s1'[s]]
        <5>1. s1' = [s \in DOMAIN s1 |-> IF s = x THEN f ELSE s1[s]]
          BY <4>4, Zenon
        <5> QED
          BY <4>6, <5>1, Zenon
      <4> QED
        BY <4>8, <4>9, Zenon DEF IsDisk
    <3> QED
      BY <2>1, <3>1, <3>2, Zenon
  <2>3. CASE ~s6[1].write
    <3>1. s1' = s1
      BY <1>1, <2>3, MovesFirst, Zenon
    <3>2. s4' = [m \in 0 .. MemSize - 1 |->
                    IF Covered(m, 1) THEN s1[s6[1].sect][m - s6[1].addr] ELSE s4[m]]
      BY <1>1, <2>3, MovesFirst, Zenon
    <3>3. IsMemory(s4')
      BY <3>2, Zenon DEF IsMemory
    <3> QED
      BY <2>1, <3>1, <3>3, Zenon
  <2> QED
    BY <2>2, <2>3
<1>5. DiskTypes'
  <2>1. s7' \in {"begin", "issue", "move", "run"}
    BY <1>1
  <2> QED
    BY <1>1, <1>3, <1>4, <2>1, Zenon DEF DiskTypes, IsMemory, IsDisk
<1>6. Drives' /\ Stages'
  BY <1>1, <1>2 DEF Drives, Stages
<1> QED
  BY <1>5, <1>6, MoveLoads, MoveServes DEF DiskInv

\* A step of the loader, of a call or of the disk keeps the invariant.
LEMMA DiskStep ==
    ASSUME Disk!DiskAssumption, DiskInv, Disk!DiskNext
    PROVE  DiskInv'
BY CommandKeeps, ArgumentsKeep, LoadKeeps, JumpKeeps, MoveKeeps, CallKeeps, DoneKeeps, Zenon
   DEF Disk!DiskNext

\* When a call returns, each block and each word is what it was to be.
LEMMA BlocksGiven ==
    ASSUME Disk!DiskAssumption, DiskInv, Disk!DiskNext
    PROVE  Disk!BlocksArrived
<1> DEFINE r == s9
           Whats == [s \in DOMAIN s1 |-> [w \in Disk!Words |->
                   IF r.write /\ Disk!In(s, r.blkno, r.blkcnt)
                     THEN s10.mem[r.buf + (s - r.blkno) * SECTSIZE + w]
                     ELSE s10.disk[s][w]]]
           M == [m \in DOMAIN s4 |->
                   IF ~r.write /\ Disk!In(m, r.buf, r.blkcnt * SECTSIZE)
                     THEN s10.disk[r.blkno + ((m - r.buf) \div SECTSIZE)][(m - r.buf) % SECTSIZE]
                     ELSE s10.mem[m]]
<1> SUFFICES ASSUME s7 = "issue", s7' = "run", s8 = -1
             PROVE  s1 = Whats /\ s4 = M
  BY Zenon DEF Disk!BlocksArrived
<1>1. Disk!blkio_done
  BY DEF Disk!DiskNext, Disk!Complete, Disk!load_arguments, Disk!load_program, Disk!jump,
     Disk!issue, Disk!move, Disk!disk_blkio, Disk!blkio_done
<1>2. s6 = <<>> /\ IsMemory(s4) /\ IsDisk(s1)
  BY <1>1 DEF Disk!blkio_done, DiskInv, DiskTypes
<1>3. /\ s9 \in Requests /\ IsDisk(s10.disk) /\ IsMemory(s10.mem)
      /\ IF s9.write THEN WritesBlocks(s9) ELSE ReadsBlocks(s9)
  BY DEF DiskInv, Serves
<1>4. DOMAIN s1 = 0 .. Sectors - 1 /\ DOMAIN s4 = 0 .. MemSize - 1
  BY <1>2, Zenon DEF IsDisk, IsMemory
<1>5. CASE s9.write
  <2>1. WritesBlocks(s9)
    BY <1>3, <1>5, Zenon
  <2>2. ASSUME NEW s \in 0 .. Sectors - 1 PROVE s1[s] = Whats[s]
    <3>1. s1[s] = SectorWill(s9, s)
      <4>1. Len(s6) = 0
        BY <1>2
      <4>2. \A i \in 1 .. Len(s6) : FALSE
        BY <4>1
      <4> QED
        BY <2>1, <4>2, Zenon DEF WritesBlocks
    <3>2. SectorWill(s9, s) = [w \in Disk!Words |->
             IF r.write /\ Disk!In(s, r.blkno, r.blkcnt)
               THEN s10.mem[r.buf + (s - r.blkno) * SECTSIZE + w]
               ELSE s10.disk[s][w]]
      BY <1>5 DEF SectorWill, InBlocks
    <3> QED
      BY <1>4, <3>1, <3>2, Zenon
  <2>3. s1 = [s \in 0 .. Sectors - 1 |-> s1[s]]
    <3>1. PICK E : E = [s \in 0 .. Sectors - 1 |-> [w \in Disk!Words |-> s1[s][w]]]
      OBVIOUS
    <3>2. E = [s \in 0 .. Sectors - 1 |-> E[s]]
      BY <3>1, Zenon
    <3> QED
      BY <1>2, <3>1, <3>2, Zenon DEF IsDisk
  <2>4. Whats = [s \in 0 .. Sectors - 1 |-> Whats[s]]
    BY <1>4, Zenon
  <2>5. s1 = Whats
    <3> HIDE DEF Whats
    <3> QED
      BY <2>2, <2>3, <2>4
  <2>6. s4 = M
    <3>1. s4 = [m \in 0 .. MemSize - 1 |-> s10.mem[m]]
      BY <1>3, <2>1, Zenon DEF WritesBlocks, IsMemory
    <3> QED
      BY <1>4, <1>5, <3>1, Zenon
  <2> QED
    BY <2>5, <2>6
<1>6. CASE ~s9.write
  <2>1. ReadsBlocks(s9)
    BY <1>3, <1>6, Zenon
  <2>2. ASSUME NEW m \in 0 .. MemSize - 1 PROVE s4[m] = M[m]
    <3>1. s4[m] = WordWill(s9, m)
      BY <1>2, <2>1, NothingLeft, Zenon DEF ReadsBlocks
    <3>2. M[m] = WordWill(s9, m)
      BY <1>4, <1>6, Zenon DEF WordWill
    <3> QED
      BY <3>1, <3>2
  <2>3. s4 = [m \in 0 .. MemSize - 1 |-> s4[m]]
    BY <1>2, Zenon DEF IsMemory
  <2>4. M = [m \in 0 .. MemSize - 1 |-> M[m]]
    BY <1>4, Zenon
  <2>5. s4 = M
    <3> HIDE DEF M
    <3> QED
      BY <2>2, <2>3, <2>4
  <2>6. s1 = Whats
    <3>1. s1 = [s \in 0 .. Sectors - 1 |-> [w \in Disk!Words |-> s10.disk[s][w]]]
      BY <1>3, <2>1, Zenon DEF ReadsBlocks, IsDisk
    <3> QED
      BY <1>4, <1>6, <3>1
  <2> QED
    BY <2>5, <2>6
<1> QED
  BY <1>5, <1>6

----------------------------------------------------------------------------
(* Slow devices answer right                                               *)

\* The invariant of the device that the behaviour is about.
Answering == /\ part = "rtc" => RtcInv
             /\ part = "disk" => DiskInv

\* A step is one of the device that the behaviour is about.
LEMMA SlowSteps ==
    ASSUME MCNext
    PROVE  /\ part' = part
           /\ part = "rtc" => Ioe!RtcNext
           /\ part = "disk" => Disk!DiskNext
BY DEF MCNext, InVme, InRtc, InDisk, InConsole, InInput, InKbd, InSetup, InAudio

\* At the start the invariants hold.
LEMMA AnswersStart == MCInit => Answering
<1> SUFFICES ASSUME MCInit PROVE Answering
  OBVIOUS
<1>1. /\ part = "rtc" => Ioe!RtcInit
      /\ part = "disk" => Disk!DiskInit
  BY DEF MCInit
<1>2. Ioe!RtcAssumption /\ Disk!DiskAssumption
  BY DevicesAssumption
<1> QED
  BY <1>1, <1>2, RtcStarts, DiskStarts, Zenon DEF Answering

\* A step keeps the invariants.
LEMMA AnswersKept ==
    ASSUME Answering, [MCNext]_mcVars
    PROVE  Answering'
<1>0. Ioe!RtcAssumption /\ Disk!DiskAssumption
  BY DevicesAssumption
<1>1. CASE MCNext
  <2>1. part = "rtc" => RtcInv'
    BY <1>0, <1>1, SlowSteps, RtcStep, Zenon DEF Answering
  <2>2. part = "disk" => DiskInv'
    BY <1>0, <1>1, SlowSteps, DiskStep, Zenon DEF Answering
  <2> QED
    BY <1>1, <2>1, <2>2, SlowSteps, Zenon DEF Answering
<1>2. CASE UNCHANGED mcVars
  <2>0. UNCHANGED <<part, s1, s2, s3, s4, s5, s6, s7, s8, s9, s10>>
    BY <1>2 DEF mcVars, pool
  <2>1. RtcInv => RtcInv'
    BY <2>0 DEF RtcInv, RtcTypes, DateTold, FirstTold, ChangeTold, EstimateTold, Matches,
       Ioe!Elapsed
  <2>2. ASSUME DiskInv PROVE DiskInv'
    <3>1. DiskTypes' /\ Drives' /\ Stages'
      BY <2>0, <2>2, Zenon DEF DiskInv, DiskTypes, Drives, Stages, IsMemory, IsDisk
    <3>2. Loads'
      BY <2>0, <2>2, LoadsSame, Zenon DEF DiskInv
    <3>3. Serves'
      BY <2>0, <2>2, ServesSame, Zenon DEF DiskInv
    <3> QED
      BY <3>1, <3>2, <3>3, Zenon DEF DiskInv
  <2> QED
    BY <2>0, <2>1, <2>2 DEF Answering
<1> QED
  BY <1>1, <1>2

\* What the devices have answered is right.
LEMMA AnswersSeen ==
    ASSUME Answering, MCNext
    PROVE  /\ part = "rtc" => Ioe!DateIsWhole /\ Ioe!RateRead
           /\ part = "disk" => Disk!Loaded /\ Disk!BlocksArrived
<1>1. Ioe!RtcAssumption /\ Disk!DiskAssumption
  BY DevicesAssumption
<1>2. part = "rtc" => Ioe!DateIsWhole /\ Ioe!RateRead
  BY <1>1, SlowSteps, DateGiven, RateGiven, Zenon DEF Answering
<1>3. part = "disk" => Disk!Loaded /\ Disk!BlocksArrived
  BY <1>1, SlowSteps, LoadedGiven, BlocksGiven, Zenon DEF Answering
<1> QED
  BY <1>2, <1>3

\* No date that a program is given is torn by a tick, and the frequency is a count over
\* the seconds that passed; a kernel is entered as it was linked, and a call on the disk
\* did what it was asked and nothing else; for any clock and any number of sectors, for
\* every kernel that is linked beside itself and its arguments, and for every request
\* (ioe.c, boot/main.c of x86/qemu).
THEOREM AnswersRight == MCSpec => DevicesAnswer
<1>1. Answering /\ [MCNext]_mcVars
        => [/\ part = "rtc" => Ioe!DateIsWhole /\ Ioe!RateRead
            /\ part = "disk" => Disk!Loaded /\ Disk!BlocksArrived]_mcVars
  BY AnswersSeen
<1> QED
  BY <1>1, AnswersStart, AnswersKept, PTL DEF MCSpec, DevicesAnswer
=============================================================================
