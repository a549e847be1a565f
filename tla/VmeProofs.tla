------------------------------ MODULE VmeProofs ------------------------------
(***************************************************************************)
(* Proofs about the address spaces of the x86 runtime, for page tables of  *)
(* any number of levels and entries, any finite memory and any number of   *)
(* spaces: what the processor sees of a space changes with the calls as    *)
(* AddressSpaces promises, the kernel is in every space, and no table is   *)
(* shared or lost.                                                         *)
(*                                                                         *)
(* The invariant VmeInv says that the pages in use are a forest: to each   *)
(* of them belong the first table it is under, its level and the entry     *)
(* that leads to it (Info), every entry that is not empty leads to the     *)
(* page that belongs to it and every table but a first one is led to       *)
(* (Down, Up); a space has the kernel's entries in its first table         *)
(* (Copies), and the kernel's last tables map each address to itself       *)
(* (Identity).  A walk is then a path of the forest, two walks that are at *)
(* one table came there by the same entries, and a write at the end of a   *)
(* walk changes what is seen at its own address only.                      *)
(***************************************************************************)
EXTENDS X86Vme, FiniteSetTheorems, WellFoundedInduction, TLAPS

Digits == 0 .. Fan - 1

----------------------------------------------------------------------------
(* Numbers                                                                 *)

\* Induction over the naturals, on a set.
LEMMA Induction ==
    ASSUME NEW S \in SUBSET Nat, 0 \in S, \A n \in Nat : n \in S => n + 1 \in S
    PROVE  S = Nat
<1> SUFFICES ASSUME Nat \ S # {} PROVE FALSE
  OBVIOUS
<1>1. PICK x \in Nat \ S : \A y \in Nat \ S : <<y, x>> \notin OpToRel(<, Nat)
  BY WFMin, NatLessThanWellFounded
<1>2. \A y \in Nat \ S : ~ (y < x)
  BY <1>1 DEF OpToRel
<1>3. x - 1 \in Nat /\ x - 1 \in S /\ (x - 1) + 1 = x
  BY <1>2
<1>4. (x - 1) + 1 \in S
  BY <1>3
<1> QED
  BY <1>3, <1>4

\* A set of numbers that is not empty has a least element.
LEMMA LeastNumber ==
    ASSUME NEW S \in SUBSET Nat, S # {}
    PROVE  \E x \in S : \A y \in S : x <= y
<1>1. PICK x \in S : \A y \in S : <<y, x>> \notin OpToRel(<, Nat)
  BY WFMin, NatLessThanWellFounded
<1>2. \A y \in S : ~ (y < x)
  BY <1>1 DEF OpToRel
<1> QED
  BY <1>2

Rank(S, p) == Cardinality({q \in S : q < p})

\* A finite set of numbers has an element of each rank.
LEMMA RankedElement ==
    ASSUME NEW S \in SUBSET Nat, IsFiniteSet(S)
    PROVE  \A n \in Nat : n < Cardinality(S) => \E p \in S : Rank(S, p) = n
<1> DEFINE G == {n \in Nat : n < Cardinality(S) => \E p \in S : Rank(S, p) = n}
<1>0. Cardinality(S) \in Nat
  BY FS_CardinalityType
<1>1. 0 \in G
  <2> SUFFICES ASSUME 0 < Cardinality(S) PROVE \E p \in S : Rank(S, p) = 0
    OBVIOUS
  <2>1. S # {}
    BY FS_EmptySet
  <2>2. PICK p \in S : \A y \in S : p <= y
    BY <2>1, LeastNumber
  <2>3. ASSUME NEW q \in S, q < p PROVE FALSE
    <3>1. p \in Nat /\ q \in Nat /\ p <= q
      BY <2>2
    <3> QED
      BY <2>3, <3>1
  <2>4. {q \in S : q < p} = {}
    BY <2>3
  <2> QED
    BY <2>4, FS_EmptySet DEF Rank
<1>2. ASSUME NEW n \in Nat, n \in G PROVE n + 1 \in G
  <2> SUFFICES ASSUME n + 1 < Cardinality(S) PROVE \E p \in S : Rank(S, p) = n + 1
    OBVIOUS
  <2>1. PICK p \in S : Rank(S, p) = n
    BY <1>0, <1>2
  <2> DEFINE B == {q \in S : q < p}
             U == {q \in S : p < q}
  <2>2. IsFiniteSet(B) /\ Cardinality(B) = n /\ p \notin B
    <3>1. p \in Nat
      OBVIOUS
    <3> QED
      BY <2>1, <3>1, FS_Subset DEF Rank
  <2>3. IsFiniteSet(B \cup {p}) /\ Cardinality(B \cup {p}) = n + 1
    BY <2>2, FS_AddElement
  <2>a. \A y \in S : y \in Nat /\ p \in Nat /\ (y < p \/ y = p \/ p < y)
    <3> TAKE y \in S
    <3>1. y \in Nat /\ p \in Nat
      OBVIOUS
    <3> QED
      BY <3>1
  <2>4. U # {}
    <3>1. U = {} => S = B \cup {p}
      BY <2>a
    <3> QED
      BY <1>0, <2>3, <3>1
  <2>5. PICK q \in U : \A y \in U : q <= y
    BY <2>4, LeastNumber
  <2>b. ASSUME NEW y \in S PROVE y < q <=> y \in B \cup {p}
    <3>1. y \in Nat /\ p \in Nat /\ q \in Nat /\ p < q
      OBVIOUS
    <3>2. p < y => q <= y
      BY <2>5
    <3> QED
      BY <3>1, <3>2
  <2>6. {y \in S : y < q} = B \cup {p}
    BY <2>b
  <2> QED
    BY <2>3, <2>6 DEF Rank
<1> HIDE DEF G
<1>3. G = Nat
  BY <1>1, <1>2, Induction DEF G
<1> QED
  BY <1>3 DEF G

\* pgalloc has a free page for each number of them, another for another.
LEMMA Allocates ==
    ASSUME VmeAssumption, free \subseteq Pages
    PROVE  /\ IsFiniteSet(free) /\ Cardinality(free) \in Nat
           /\ \A n \in 1 .. Cardinality(free) : pgalloc(n) \in free
           /\ \A m, n \in 1 .. Cardinality(free) : pgalloc(m) = pgalloc(n) => m = n
<1>1. IsFiniteSet(free) /\ free \subseteq Nat /\ Cardinality(free) \in Nat
  BY FS_Subset, FS_CardinalityType DEF VmeAssumption
<1>2. ASSUME NEW n \in 1 .. Cardinality(free)
      PROVE  pgalloc(n) \in free /\ Rank(free, pgalloc(n)) = n - 1
  <2>1. n - 1 \in Nat /\ n - 1 < Cardinality(free)
    BY <1>1
  <2>2. \E p \in free : Rank(free, p) = n - 1
    BY <1>1, <2>1, RankedElement
  <2> QED
    BY <2>2 DEF pgalloc, Rank
<1> QED
  BY <1>1, <1>2

----------------------------------------------------------------------------
(* Digits                                                                  *)

\* A quotient is the one that leaves a remainder less than the divisor.
LEMMA Quotient ==
    ASSUME NEW a \in Nat, NEW d \in Nat \ {0}, NEW q \in Nat, NEW r \in Nat,
           r < d, a = d * q + r
    PROVE  a \div d = q
OBVIOUS

\* The digits above a digit.
LEMMA HigherDigits ==
    ASSUME NEW a \in Nat, NEW d \in Nat \ {0}, NEW f \in Nat \ {0}
    PROVE  /\ (a \div d) = f * (a \div (f * d)) + ((a \div d) % f)
           /\ a \div d \in Nat /\ (a \div d) % f \in 0 .. f - 1
<1>1. PICK q \in Nat, r \in Nat : q = a \div d /\ r = a % d
  OBVIOUS
<1>2. a = d * q + r /\ r < d
  BY <1>1
<1>3. PICK t \in Nat, s \in Nat : t = q \div f /\ s = q % f
  OBVIOUS
<1>4. q = f * t + s /\ s < f
  BY <1>3
<1>5. f * d \in Nat \ {0} /\ d * s + r \in Nat
  OBVIOUS
<1>6. a = (f * d) * t + (d * s + r)
  BY <1>2, <1>4
<1>7. d * s + r < f * d
  <2>1. d * (s + 1) <= d * f
    BY <1>4
  <2> QED
    BY <1>2, <2>1
<1>8. a \div (f * d) = t
  BY <1>5, <1>6, <1>7, Quotient
<1>9. q = f * (a \div (f * d)) + (q % f)
  BY <1>3, <1>4, <1>8
<1> QED
  BY <1>1, <1>3, <1>9

\* The spans of the tables.
LEMMA SpanSteps ==
    ASSUME VmeAssumption
    PROVE  /\ Span[0] = 1
           /\ \A n \in 0 .. Levels - 1 : Span[n + 1] = Fan * Span[n]
<1> DEFINE Next(a, i) == IF i = 0 THEN 1 ELSE Fan * a[i - 1]
           G == {n \in Nat : \E a : a = [i \in 0 .. n |-> Next(a, i)]}
<1>0. Levels \in Nat \ {0}
  BY DEF VmeAssumption
<1>1. 0 \in G
  <2>1. PICK a : a = [i \in 0 .. 0 |-> 1]
    OBVIOUS
  <2>2. \A i \in 0 .. 0 : i = 0
    OBVIOUS
  <2>3. a = [i \in 0 .. 0 |-> Next(a, i)]
    BY <2>1, <2>2
  <2> QED
    BY <2>3
<1>2. ASSUME NEW n \in Nat, n \in G PROVE n + 1 \in G
  <2>1. PICK a : a = [i \in 0 .. n |-> Next(a, i)]
    BY <1>2
  <2>2. PICK b : b = [i \in 0 .. n + 1 |-> IF i \in 0 .. n THEN a[i] ELSE Next(a, i)]
    OBVIOUS
  <2>3. ASSUME NEW i \in 0 .. n + 1 PROVE b[i] = Next(b, i)
    <3>1. i = 0 \/ i - 1 \in 0 .. n
      OBVIOUS
    <3>2. i # 0 => b[i - 1] = a[i - 1]
      BY <2>2, <3>1
    <3>3. Next(b, i) = Next(a, i)
      BY <3>2
    <3>4. i \in 0 .. n => a[i] = Next(a, i)
      BY <2>1
    <3> HIDE DEF Next
    <3> QED
      BY <2>2, <3>3, <3>4
  <2> HIDE DEF Next
  <2>4. b = [i \in 0 .. n + 1 |-> Next(b, i)]
    BY <2>2, <2>3
  <2> QED
    BY <2>4
<1> HIDE DEF G
<1>3. G = Nat
  BY <1>1, <1>2, Induction DEF G
<1>4. \E a : a = [i \in 0 .. Levels |-> Next(a, i)]
  BY <1>0, <1>3 DEF G
<1>5. Span = [i \in 0 .. Levels |-> Next(Span, i)]
  BY <1>4 DEF Span
<1>6. Span[0] = 1
  BY <1>0, <1>5
<1>7. ASSUME NEW i \in 0 .. Levels - 1 PROVE Span[i + 1] = Fan * Span[i]
  <2>1. i + 1 \in 0 .. Levels /\ i + 1 # 0 /\ (i + 1) - 1 = i
    BY <1>0
  <2>2. Span[i + 1] = Next(Span, i + 1)
    BY <1>5, <2>1
  <2> QED
    BY <2>1, <2>2
<1> QED
  BY <1>6, <1>7

\* They are numbers.
LEMMA SpansAre ==
    ASSUME VmeAssumption
    PROVE  \A n \in 0 .. Levels : Span[n] \in Nat \ {0}
<1> DEFINE G == {n \in Nat : n <= Levels => Span[n] \in Nat \ {0}}
<1>0. Fan \in Nat \ {0} /\ Levels \in Nat
  BY DEF VmeAssumption
<1>1. 0 \in G
  BY SpanSteps
<1>2. ASSUME NEW n \in Nat, n \in G PROVE n + 1 \in G
  <2> SUFFICES ASSUME n + 1 <= Levels PROVE Span[n + 1] \in Nat \ {0}
    OBVIOUS
  <2>1. Span[n] \in Nat \ {0} /\ n \in 0 .. Levels - 1
    BY <1>0, <1>2
  <2>2. Span[n + 1] = Fan * Span[n]
    BY <2>1, SpanSteps
  <2>3. PICK x \in Nat \ {0} : x = Span[n]
    BY <2>1
  <2>4. Fan * x \in Nat \ {0}
    BY <1>0
  <2> QED
    BY <2>2, <2>3, <2>4
<1> HIDE DEF G
<1>3. G = Nat
  BY <1>1, <1>2, Induction DEF G
<1> QED
  BY <1>0, <1>3 DEF G

\* A digit of a virtual page is an index of a table.
LEMMA DigitsAre ==
    ASSUME VmeAssumption, NEW va \in VirtualPages, NEW i \in 1 .. Levels
    PROVE  indexof(va, i) \in Digits
<1>0. va \in Nat /\ Fan \in Nat \ {0} /\ Levels - i \in 0 .. Levels
  BY SpansAre DEF VmeAssumption, VirtualPages
<1>1. PICK d \in Nat \ {0} : d = Span[Levels - i]
  BY <1>0, SpansAre
<1> QED
  BY <1>0, <1>1, HigherDigits DEF indexof, Digits

\* Virtual pages with the same digits are the same.
LEMMA DigitsTell ==
    ASSUME VmeAssumption, NEW va \in VirtualPages, NEW vb \in VirtualPages,
           \A i \in 1 .. Levels : indexof(va, i) = indexof(vb, i)
    PROVE  va = vb
<1> DEFINE G == {n \in Nat : n <= Levels => va \div Span[Levels - n] = vb \div Span[Levels - n]}
<1>0. va \in Nat /\ vb \in Nat /\ Fan \in Nat \ {0} /\ Levels \in Nat
  BY SpansAre DEF VmeAssumption, VirtualPages
<1>1. 0 \in G
  <2>1. PICK d \in Nat \ {0} : d = Span[Levels]
    BY <1>0, SpansAre
  <2>2. va < d /\ vb < d
    BY <2>1 DEF VirtualPages
  <2>3. va \div d = 0 /\ vb \div d = 0
    BY <1>0, <2>2, Quotient
  <2>4. Levels - 0 = Levels
    BY <1>0
  <2> QED
    BY <2>1, <2>3, <2>4
<1>2. ASSUME NEW n \in Nat, n \in G PROVE n + 1 \in G
  <2> SUFFICES ASSUME n + 1 <= Levels
               PROVE  va \div Span[Levels - (n + 1)] = vb \div Span[Levels - (n + 1)]
    OBVIOUS
  <2> DEFINE l == Levels - (n + 1)
  <2>1. l \in 0 .. Levels - 1 /\ l + 1 = Levels - n /\ n + 1 \in 1 .. Levels /\ l \in 0 .. Levels
    BY <1>0
  <2>2. PICK d \in Nat \ {0} : d = Span[l]
    BY <2>1, SpansAre
  <2>3. Span[Levels - n] = Fan * d
    BY <2>1, <2>2, SpanSteps
  <2>4. va \div (Fan * d) = vb \div (Fan * d)
    BY <1>0, <1>2, <2>3
  <2>5. (va \div d) % Fan = (vb \div d) % Fan
    BY <2>1, <2>2 DEF indexof
  <2>6. (va \div d) = Fan * (va \div (Fan * d)) + ((va \div d) % Fan)
    BY <1>0, HigherDigits
  <2>7. (vb \div d) = Fan * (vb \div (Fan * d)) + ((vb \div d) % Fan)
    BY <1>0, HigherDigits
  <2>8. va \div d = vb \div d
    BY <2>4, <2>5, <2>6, <2>7, Zenon
  <2> QED
    BY <2>2, <2>8
<1> HIDE DEF G
<1>3. G = Nat
  BY <1>1, <1>2, Induction DEF G
<1>4. va \div Span[Levels - Levels] = vb \div Span[Levels - Levels]
  <2>1. Levels \in G /\ Levels <= Levels
    BY <1>0, <1>3
  <2> QED
    BY <2>1 DEF G
<1>5. Span[Levels - Levels] = 1
  <2>1. Levels - Levels = 0
    BY <1>0
  <2> QED
    BY <2>1, SpanSteps
<1>6. va \div 1 = va /\ vb \div 1 = vb
  BY <1>0
<1> QED
  BY <1>4, <1>5, <1>6

----------------------------------------------------------------------------
(* The forest of tables                                                    *)

\* What is known of a page: the first table it is under, 0 when it is free, its level,
\* and the table and the entry that lead to it.
Info == [own : Nat, lev : 1 .. Levels, up : Pages, ix : Digits]
Word == [to : Nat, w : BOOLEAN, u : BOOLEAN]

\* An entry of a table above the last level, that is no copy of the kernel's entry.
Copied(g, K, p, k) == p # K /\ g[p].lev = 1 /\ k \in Kernel
Inside(g, K, p, k) == g[p].own # 0 /\ g[p].lev < Levels /\ ~Copied(g, K, p, k)

Leads(m, g, K, p, k, q) ==
    /\ q \in Pages /\ m[p][k] = Entry(q, TRUE, g[p].own # K)
    /\ g[q].own = g[p].own /\ g[q].lev = g[p].lev + 1 /\ g[q].up = p /\ g[q].ix = k

Down(m, g, K) == \A p \in Pages, k \in Digits :
                    Inside(g, K, p, k) /\ m[p][k] # Empty => Leads(m, g, K, p, k, m[p][k].to)
Up(m, g, K) == \A q \in Pages :
                  g[q].own # 0 /\ g[q].lev > 1 =>
                     Inside(g, K, g[q].up, g[q].ix) /\ Leads(m, g, K, g[q].up, g[q].ix, q)

\* R are the first tables of the spaces, K that of the kernel.
Owners(g, K, R, fr) ==
    /\ K \in Pages /\ R \subseteq Pages /\ K \notin R
    /\ \A p \in Pages : /\ g[p].own \in {0, K} \cup R /\ (g[p].own = 0 <=> p \in fr)
                        /\ g[p].own # 0 /\ g[p].lev = 1 => g[p].own = p
    /\ \A r \in {K} \cup R : g[r].own = r /\ g[r].lev = 1

Forest(m, g, K, R, fr) ==
    /\ m \in [Pages -> [Digits -> Word]] /\ g \in [Pages -> Info]
    /\ Owners(g, K, R, fr) /\ Down(m, g, K) /\ Up(m, g, K)

\* The entries of a space's last tables.
UserEntries == {Empty} \cup [to : Frames, w : BOOLEAN, u : {TRUE}]
Leaves(m, g, K) ==
    \A p \in Pages, k \in Digits :
        g[p].own \notin {0, K} /\ g[p].lev = Levels /\ ~Copied(g, K, p, k)
           => m[p][k] \in UserEntries

Copies(m, K, R) == \A r \in R, k \in Kernel : m[r][k] = m[K][k]

\* The tables of the walk to va, and the entry it ends at.
WalkIn(m, root, va) ==
  LET at[i \in 1 .. Levels] ==
        IF i = 1 THEN root
        ELSE IF at[i - 1] = 0 THEN 0 ELSE m[at[i - 1]][indexof(va, i - 1)].to
  IN at
LastTable(m, root, va) == WalkIn(m, root, va)[Levels]
Target(m, root, va) == IF LastTable(m, root, va) = 0 THEN Empty
                       ELSE m[LastTable(m, root, va)][indexof(va, Levels)]

Identity(m, K, n) == \A va \in KernelPages : va < n => Target(m, K, va) = Entry(Self(va), TRUE, FALSE)

Whole(m, g, K, R, fr, n) == /\ Forest(m, g, K, R, fr) /\ Leaves(m, g, K)
                            /\ Copies(m, K, R) /\ Identity(m, K, n)

VmeTypes == /\ mem \in [Pages -> [Digits -> Word]] /\ free \subseteq Pages
            /\ kpt \in Pages \cup {0} /\ cur \in Nat
            /\ ptr \in [Spaces -> Pages \cup {0}] /\ panic \in BOOLEAN
            /\ \A s, t \in Spaces : ptr[s] = ptr[t] /\ ptr[s] # 0 => s = t
            /\ \A s \in Spaces : ptr[s] # 0 => cur \notin VirtualPages /\ kpt # 0
            /\ kpt = 0 => free = Pages

----------------------------------------------------------------------------
(* Walks                                                                   *)

\* A walk starts at its root and follows the entries of its digits.
LEMMA WalkSteps ==
    ASSUME VmeAssumption, NEW m, NEW root, NEW va
    PROVE  /\ DOMAIN WalkIn(m, root, va) = 1 .. Levels
           /\ WalkIn(m, root, va)[1] = root
           /\ \A i \in 1 .. Levels - 1 :
                WalkIn(m, root, va)[i + 1] =
                   IF WalkIn(m, root, va)[i] = 0 THEN 0
                   ELSE m[WalkIn(m, root, va)[i]][indexof(va, i)].to
<1> DEFINE Next(a, i) == IF i = 1 THEN root
                         ELSE IF a[i - 1] = 0 THEN 0 ELSE m[a[i - 1]][indexof(va, i - 1)].to
           G == {n \in Nat : \E a : a = [i \in 1 .. n |-> Next(a, i)]}
<1>0. Levels \in Nat \ {0}
  BY DEF VmeAssumption
<1>1. 0 \in G
  <2>1. PICK a : a = [i \in 1 .. 0 |-> root]
    OBVIOUS
  <2>2. a = [i \in 1 .. 0 |-> Next(a, i)]
    BY <2>1
  <2> QED
    BY <2>2
<1>2. ASSUME NEW n \in Nat, n \in G PROVE n + 1 \in G
  <2>1. PICK a : a = [i \in 1 .. n |-> Next(a, i)]
    BY <1>2
  <2>2. PICK b : b = [i \in 1 .. n + 1 |-> IF i \in 1 .. n THEN a[i] ELSE Next(a, i)]
    OBVIOUS
  <2>3. ASSUME NEW i \in 1 .. n + 1 PROVE b[i] = Next(b, i)
    <3>1. i = 1 \/ i - 1 \in 1 .. n
      OBVIOUS
    <3>2. i # 1 => b[i - 1] = a[i - 1]
      BY <2>2, <3>1
    <3>3. Next(b, i) = Next(a, i)
      BY <3>2
    <3>4. i \in 1 .. n => a[i] = Next(a, i)
      BY <2>1
    <3> HIDE DEF Next
    <3> QED
      BY <2>2, <3>3, <3>4
  <2> HIDE DEF Next
  <2>4. b = [i \in 1 .. n + 1 |-> Next(b, i)]
    BY <2>2, <2>3
  <2> QED
    BY <2>4
<1> HIDE DEF G
<1>3. G = Nat
  BY <1>1, <1>2, Induction DEF G
<1>4. \E a : a = [i \in 1 .. Levels |-> Next(a, i)]
  BY <1>0, <1>3 DEF G
<1>5. WalkIn(m, root, va) = [i \in 1 .. Levels |-> Next(WalkIn(m, root, va), i)]
  BY <1>4 DEF WalkIn
<1> DEFINE w == WalkIn(m, root, va)
<1> HIDE DEF w
<1>6. w = [i \in 1 .. Levels |-> Next(w, i)]
  BY <1>5 DEF w
<1>7. DOMAIN w = 1 .. Levels /\ w[1] = root
  <2>1. DOMAIN w = 1 .. Levels
    BY <1>6
  <2>2. w[1] = root
    BY <1>0, <1>6
  <2> QED
    BY <2>1, <2>2
<1>8. ASSUME NEW i \in 1 .. Levels - 1
      PROVE  w[i + 1] = IF w[i] = 0 THEN 0 ELSE m[w[i]][indexof(va, i)].to
  <2>1. i + 1 \in 1 .. Levels /\ i + 1 # 1 /\ (i + 1) - 1 = i
    BY <1>0
  <2>2. w[i + 1] = Next(w, i + 1)
    BY <1>6, <2>1
  <2> QED
    BY <2>1, <2>2
<1> QED
  BY <1>7, <1>8 DEF w

\* The walks of the kernel to all pages, those of a space to its own.
Walks(K, R, root, va) == va \in VirtualPages /\ (root = K \/ (root \in R /\ va \in UserPages))

\* Where a walk is, it is at a table of its space and of that level, that the table
\* before it leads to.
At(g, K, root, va, i, t) ==
    /\ t \in Pages /\ t # 0 /\ g[t].own = root /\ g[t].lev = i
    /\ ~Copied(g, K, t, indexof(va, i))
Before(g, va, i, s, t) == g[t].up = s /\ g[t].ix = indexof(va, i)
Link(m, K, root, va, i, s, t) ==
    m[s][indexof(va, i)] = IF t = 0 THEN Empty ELSE Entry(t, TRUE, root # K)

\* The root of a walk.
LEMMA WalkBegins ==
    ASSUME VmeAssumption, NEW m, NEW g, NEW K, NEW R, NEW fr, Forest(m, g, K, R, fr),
           NEW root, NEW va, Walks(K, R, root, va)
    PROVE  At(g, K, root, va, 1, root)
<1>a. root \in {K} \cup R
  BY DEF Walks
<1>b. root \in Pages /\ g[root].own = root /\ g[root].lev = 1
  BY <1>a DEF Forest, Owners
<1>1. root \in Pages /\ root # 0 /\ g[root].own = root /\ g[root].lev = 1
  BY <1>b DEF VmeAssumption
<1>2. root = K \/ indexof(va, 1) \notin Kernel
  BY DEF Walks, UserPages, KernelPages
<1> QED
  BY <1>1, <1>2 DEF At, Copied

\* One step of a walk.
LEMMA WalkGoes ==
    ASSUME VmeAssumption, NEW m, NEW g, NEW K, NEW R, NEW fr, Forest(m, g, K, R, fr),
           NEW root, NEW va \in VirtualPages, NEW i \in 1 .. Levels - 1,
           NEW s, NEW t, At(g, K, root, va, i, s), t = m[s][indexof(va, i)].to, root # 0
    PROVE  /\ t # 0 => At(g, K, root, va, i + 1, t) /\ Before(g, va, i, s, t)
           /\ Link(m, K, root, va, i, s, t)
<1>0. Levels \in Nat \ {0} /\ i \in Nat /\ i < Levels /\ i \in 1 .. Levels
  BY DEF VmeAssumption
<1> DEFINE k == indexof(va, i)
<1>1. k \in Digits
  BY <1>0, DigitsAre
<1>2. s \in Pages /\ s # 0 /\ g[s].own = root /\ g[s].lev = i /\ ~Copied(g, K, s, k)
  BY DEF At
<1>3. Inside(g, K, s, k)
  BY <1>0, <1>2 DEF Inside
<1> HIDE DEF k
<1>4. m[s][k] # Empty => Leads(m, g, K, s, k, t)
  BY <1>1, <1>2, <1>3 DEF Forest, Down, k
<1>5. CASE m[s][k] = Empty
  <2>1. t = 0
    BY <1>5 DEF Empty, Entry, k
  <2> QED
    BY <1>5, <2>1 DEF Link, k
<1>6. CASE m[s][k] # Empty
  <2>1. t \in Pages /\ t # 0
    BY <1>4, <1>6 DEF Leads, VmeAssumption
  <2>2. m[s][k] = Entry(t, TRUE, root # K)
    BY <1>2, <1>4, <1>6 DEF Leads
  <2>3. g[t].own = root /\ g[t].lev = i + 1 /\ g[t].up = s /\ g[t].ix = k
    BY <1>2, <1>4, <1>6 DEF Leads
  <2>4. ~Copied(g, K, t, indexof(va, i + 1))
    BY <1>0, <2>3 DEF Copied
  <2> QED
    BY <2>1, <2>2, <2>3, <2>4 DEF At, Before, Link, k
<1> QED
  BY <1>5, <1>6

\* All of a walk.
LEMMA WalkStays ==
    ASSUME VmeAssumption, NEW m, NEW g, NEW K, NEW R, NEW fr, Forest(m, g, K, R, fr),
           NEW root, NEW va, Walks(K, R, root, va),
           NEW w, w = WalkIn(m, root, va)
    PROVE  /\ w[1] = root /\ root # 0
           /\ \A i \in 1 .. Levels : w[i] # 0 => At(g, K, root, va, i, w[i])
           /\ \A i \in 1 .. Levels - 1 :
                /\ w[i] = 0 => w[i + 1] = 0
                /\ w[i + 1] # 0 => Before(g, va, i, w[i], w[i + 1])
                /\ w[i] # 0 => Link(m, K, root, va, i, w[i], w[i + 1])
<1>0. Levels \in Nat \ {0} /\ va \in VirtualPages /\ root # 0
  BY WalkBegins DEF VmeAssumption, Walks, At
<1>1. At(g, K, root, va, 1, root)
  BY WalkBegins
<1>2. w[1] = root
  BY WalkSteps
<1>3. \A i \in 1 .. Levels - 1 :
         w[i + 1] = IF w[i] = 0 THEN 0 ELSE m[w[i]][indexof(va, i)].to
  BY WalkSteps
<1> DEFINE G == {n \in Nat : n \in 1 .. Levels /\ w[n] # 0 => At(g, K, root, va, n, w[n])}
<1>4. 0 \in G
  OBVIOUS
<1>5. ASSUME NEW n \in Nat, n \in G PROVE n + 1 \in G
  <2> SUFFICES ASSUME n + 1 \in 1 .. Levels, w[n + 1] # 0
               PROVE  At(g, K, root, va, n + 1, w[n + 1])
    OBVIOUS
  <2>1. CASE n = 0
    <3>1. n + 1 = 1
      BY <2>1
    <3> QED
      BY <1>1, <1>2, <3>1
  <2>2. CASE n # 0
    <3>1. n \in 1 .. Levels - 1 /\ n \in 1 .. Levels
      BY <1>0, <2>2
    <3>2. w[n] # 0 /\ w[n + 1] = m[w[n]][indexof(va, n)].to
      BY <1>3, <3>1
    <3>3. At(g, K, root, va, n, w[n])
      BY <1>5, <3>1, <3>2
    <3> QED
      BY <1>0, <3>1, <3>2, <3>3, WalkGoes
  <2> QED
    BY <2>1, <2>2
<1> HIDE DEF G
<1>6. G = Nat
  BY <1>4, <1>5, Induction DEF G
<1>7. \A i \in 1 .. Levels : w[i] # 0 => At(g, K, root, va, i, w[i])
  BY <1>6 DEF G
<1>8. ASSUME NEW i \in 1 .. Levels - 1
      PROVE  /\ w[i] = 0 => w[i + 1] = 0
             /\ w[i + 1] # 0 => Before(g, va, i, w[i], w[i + 1])
             /\ w[i] # 0 => Link(m, K, root, va, i, w[i], w[i + 1])
  <2>1. i \in 1 .. Levels
    BY <1>0
  <2>2. w[i] = 0 => w[i + 1] = 0
    BY <1>3
  <2>3. CASE w[i] # 0
    <3>1. w[i + 1] = m[w[i]][indexof(va, i)].to
      BY <1>3, <2>3
    <3>2. At(g, K, root, va, i, w[i])
      BY <1>7, <2>1, <2>3
    <3> QED
      BY <1>0, <2>3, <3>1, <3>2, WalkGoes
  <2> QED
    BY <2>2, <2>3
<1> QED
  BY <1>0, <1>2, <1>7, <1>8

\* Two walks that meet came the same way.
LEMMA WalksApart ==
    ASSUME VmeAssumption, NEW m, NEW g, NEW K, NEW R, NEW fr, Forest(m, g, K, R, fr),
           NEW r, NEW va, Walks(K, R, r, va), NEW v, v = WalkIn(m, r, va),
           NEW q, NEW vb, Walks(K, R, q, vb), NEW w, w = WalkIn(m, q, vb),
           NEW i \in 1 .. Levels, NEW j \in 1 .. Levels, v[i] = w[j], v[i] # 0
    PROVE  r = q /\ i = j /\ \A h \in 1 .. i - 1 : indexof(va, h) = indexof(vb, h)
<1>0. Levels \in Nat \ {0}
  BY DEF VmeAssumption
<1>1. /\ \A n \in 1 .. Levels : v[n] # 0 => At(g, K, r, va, n, v[n])
      /\ \A n \in 1 .. Levels - 1 : /\ v[n] = 0 => v[n + 1] = 0
                                    /\ v[n + 1] # 0 => Before(g, va, n, v[n], v[n + 1])
  BY WalkStays
<1>2. /\ \A n \in 1 .. Levels : w[n] # 0 => At(g, K, q, vb, n, w[n])
      /\ \A n \in 1 .. Levels - 1 : /\ w[n] = 0 => w[n + 1] = 0
                                    /\ w[n + 1] # 0 => Before(g, vb, n, w[n], w[n + 1])
  BY WalkStays
<1>3. r = q /\ i = j
  BY <1>1, <1>2 DEF At
<1> DEFINE G == {n \in Nat : n \in 1 .. Levels /\ v[n] = w[n] /\ v[n] # 0
                                => \A h \in 1 .. n - 1 : indexof(va, h) = indexof(vb, h)}
<1>4. 0 \in G
  OBVIOUS
<1>5. ASSUME NEW n \in Nat, n \in G PROVE n + 1 \in G
  <2> SUFFICES ASSUME n + 1 \in 1 .. Levels, v[n + 1] = w[n + 1], v[n + 1] # 0,
                      NEW h \in 1 .. (n + 1) - 1
               PROVE  indexof(va, h) = indexof(vb, h)
    OBVIOUS
  <2>1. n \in 1 .. Levels - 1 /\ n \in 1 .. Levels
    BY <1>0
  <2>2. v[n] # 0 /\ v[n] = w[n] /\ indexof(va, n) = indexof(vb, n)
    BY <1>1, <1>2, <2>1 DEF Before
  <2>3. \A l \in 1 .. n - 1 : indexof(va, l) = indexof(vb, l)
    BY <1>5, <2>1, <2>2
  <2>4. h = n \/ h \in 1 .. n - 1
    OBVIOUS
  <2> QED
    BY <2>2, <2>3, <2>4
<1> HIDE DEF G
<1>6. G = Nat
  BY <1>4, <1>5, Induction DEF G
<1>7. i \in G /\ v[i] = w[i]
  BY <1>3, <1>6
<1> QED
  BY <1>3, <1>7 DEF G

\* Two walks that end at the same entry go to the same page.
LEMMA EntriesApart ==
    ASSUME VmeAssumption, NEW m, NEW g, NEW K, NEW R, NEW fr, Forest(m, g, K, R, fr),
           NEW r, NEW va, Walks(K, R, r, va), NEW q, NEW vb, Walks(K, R, q, vb),
           LastTable(m, r, va) = LastTable(m, q, vb), LastTable(m, r, va) # 0,
           indexof(va, Levels) = indexof(vb, Levels)
    PROVE  r = q /\ va = vb
<1>0. Levels \in Nat \ {0} /\ Levels \in 1 .. Levels
  BY DEF VmeAssumption
<1>1. r = q /\ \A h \in 1 .. Levels - 1 : indexof(va, h) = indexof(vb, h)
  BY <1>0, WalksApart DEF LastTable
<1>2. \A h \in 1 .. Levels : indexof(va, h) = indexof(vb, h)
  <2> TAKE h \in 1 .. Levels
  <2>1. h = Levels \/ h \in 1 .. Levels - 1
    BY <1>0
  <2> QED
    BY <1>1, <2>1
<1>3. va \in VirtualPages /\ vb \in VirtualPages
  BY DEF Walks
<1> QED
  BY <1>1, <1>2, <1>3, DigitsTell

----------------------------------------------------------------------------
(* Writing an entry                                                        *)

\* The tables of a walk, those to make taken from the free pages.
Allocated(w, t, fr) ==
    /\ t \in [1 .. Levels -> Pages]
    /\ \A i \in 1 .. Levels : /\ w[i] # 0 => t[i] = w[i]
                              /\ w[i] = 0 => t[i] \in fr
    /\ \A i, j \in 1 .. Levels : t[i] = t[j] => i = j

\* What the i-th table holds at k once the entry e of va is written.
After(m, w, t, va, root, K, e, i, k) ==
    IF k = indexof(va, i)
    THEN IF i = Levels THEN e ELSE IF w[i + 1] = 0 THEN Entry(t[i + 1], TRUE, root # K) ELSE m[t[i]][k]
    ELSE IF w[i] = 0 THEN Empty ELSE m[t[i]][k]
Written(m, w, t, va, root, K, e, m2) ==
    /\ m2 \in [Pages -> [Digits -> Word]]
    /\ \A p \in Pages : (\A i \in 1 .. Levels : t[i] # p) => m2[p] = m[p]
    /\ \A i \in 1 .. Levels, k \in Digits : m2[t[i]][k] = After(m, w, t, va, root, K, e, i, k)

\* What is known of the pages then.
Grown(g, w, t, root, va, g2) ==
    /\ g2 \in [Pages -> Info]
    /\ \A p \in Pages : (\A i \in 1 .. Levels : t[i] = p => w[i] # 0) => g2[p] = g[p]
    /\ \A i \in 1 .. Levels :
          w[i] = 0 => /\ g2[t[i]].own = root /\ g2[t[i]].lev = i
                      /\ g2[t[i]].up = t[i - 1] /\ g2[t[i]].ix = indexof(va, i - 1)

Growth(m, g, K, R, fr, root, va, w, t, e, m2, g2) ==
    /\ Forest(m, g, K, R, fr) /\ Walks(K, R, root, va) /\ w = WalkIn(m, root, va)
    /\ Allocated(w, t, fr) /\ Written(m, w, t, va, root, K, e, m2)
    /\ Grown(g, w, t, root, va, g2)

\* Something to know of the pages can be found.
LEMMA Grows ==
    ASSUME VmeAssumption, NEW m, NEW g, NEW K, NEW R, NEW fr, Forest(m, g, K, R, fr),
           NEW root, NEW va, Walks(K, R, root, va), NEW w, w = WalkIn(m, root, va),
           NEW t, Allocated(w, t, fr)
    PROVE  \E g2 : Grown(g, w, t, root, va, g2)
<1>0. Levels \in Nat \ {0} /\ va \in VirtualPages
  BY DEF VmeAssumption, Walks
<1>1. w[1] = root /\ root # 0 /\ root \in Nat
  <2>1. w[1] = root /\ root # 0
    BY WalkStays
  <2>2. At(g, K, root, va, 1, root)
    BY WalkBegins
  <2> QED
    BY <2>1, <2>2 DEF At, VmeAssumption
<1>2. PICK g2 : g2 = [p \in Pages |->
         IF \A i \in 1 .. Levels : t[i] = p => w[i] # 0 THEN g[p]
         ELSE LET i == CHOOSE i \in 1 .. Levels : t[i] = p
              IN [own |-> root, lev |-> i, up |-> t[i - 1], ix |-> indexof(va, i - 1)]]
  OBVIOUS
<1>3. \A p \in Pages : (\A i \in 1 .. Levels : t[i] = p => w[i] # 0) => g2[p] = g[p]
  BY <1>2
<1>4. ASSUME NEW i \in 1 .. Levels, w[i] = 0
      PROVE  g2[t[i]] = [own |-> root, lev |-> i, up |-> t[i - 1], ix |-> indexof(va, i - 1)]
  <2>1. t[i] \in Pages /\ \A j \in 1 .. Levels : t[j] = t[i] => j = i
    BY DEF Allocated
  <2>2. (CHOOSE j \in 1 .. Levels : t[j] = t[i]) = i
    BY <2>1
  <2> QED
    BY <1>2, <1>4, <2>1, <2>2
<1>5. ASSUME NEW i \in 1 .. Levels, w[i] = 0
      PROVE  t[i - 1] \in Pages /\ indexof(va, i - 1) \in Digits
  <2>1. i - 1 \in 1 .. Levels
    BY <1>0, <1>1, <1>5
  <2> QED
    BY <1>0, <2>1, DigitsAre DEF Allocated
<1>6. ASSUME NEW p \in Pages PROVE g2[p] \in Info
  <2>1. CASE \A i \in 1 .. Levels : t[i] = p => w[i] # 0
    BY <1>3, <2>1 DEF Forest
  <2>2. CASE ~ \A i \in 1 .. Levels : t[i] = p => w[i] # 0
    <3>1. PICK i \in 1 .. Levels : t[i] = p /\ w[i] = 0
      BY <2>2
    <3>2. [own |-> root, lev |-> i, up |-> t[i - 1], ix |-> indexof(va, i - 1)] \in Info
      BY <1>1, <1>5, <3>1 DEF Info
    <3> QED
      BY <1>4, <3>1, <3>2
  <2> QED
    BY <2>1, <2>2
<1>7. g2 \in [Pages -> Info]
  BY <1>2, <1>6
<1>8. ASSUME NEW i \in 1 .. Levels, w[i] = 0
      PROVE  /\ g2[t[i]].own = root /\ g2[t[i]].lev = i
             /\ g2[t[i]].up = t[i - 1] /\ g2[t[i]].ix = indexof(va, i - 1)
  <2>1. PICK x : x = g2[t[i]]
    OBVIOUS
  <2>2. PICK a, b : a = t[i - 1] /\ b = indexof(va, i - 1)
    OBVIOUS
  <2>3. x = [own |-> root, lev |-> i, up |-> a, ix |-> b]
    BY <1>4, <1>8, <2>1, <2>2
  <2>4. x.own = root /\ x.lev = i /\ x.up = a /\ x.ix = b
    BY <2>3
  <2> QED
    BY <2>1, <2>2, <2>4
<1>9. Grown(g, w, t, root, va, g2)
  BY <1>3, <1>7, <1>8 DEF Grown
<1> QED
  BY <1>9

\* The tables of the walk, as they are known after the write.
LEMMA GrownTables ==
    ASSUME VmeAssumption,
           NEW m, NEW g, NEW K, NEW R, NEW fr, NEW root, NEW va, NEW w, NEW t, NEW e,
           NEW m2, NEW g2, Growth(m, g, K, R, fr, root, va, w, t, e, m2, g2),
           NEW i \in 1 .. Levels
    PROVE  /\ At(g2, K, root, va, i, t[i])
           /\ w[i] # 0 => g2[t[i]] = g[t[i]] /\ g[t[i]].own = root /\ t[i] \notin fr
           /\ i > 1 => Before(g2, va, i - 1, t[i - 1], t[i])
<1>0. Levels \in Nat \ {0} /\ va \in VirtualPages
  BY DEF VmeAssumption, Growth, Walks
<1>1. /\ w[1] = root /\ root # 0
      /\ \A n \in 1 .. Levels : w[n] # 0 => At(g, K, root, va, n, w[n])
      /\ \A n \in 1 .. Levels - 1 : /\ w[n] = 0 => w[n + 1] = 0
                                    /\ w[n + 1] # 0 => Before(g, va, n, w[n], w[n + 1])
  BY WalkStays DEF Growth
<1>2. t[i] \in Pages /\ t[i] # 0 /\ \A j \in 1 .. Levels : t[j] = t[i] => j = i
  BY DEF Growth, Allocated, VmeAssumption
<1>3. CASE w[i] # 0
  <2>1. t[i] = w[i] /\ At(g, K, root, va, i, t[i])
    BY <1>1, <1>3 DEF Growth, Allocated
  <2>2. g2[t[i]] = g[t[i]]
    BY <1>2, <1>3 DEF Growth, Grown
  <2>3. g[t[i]].own = root /\ t[i] \notin fr
    BY <1>1, <1>2, <2>1 DEF At, Growth, Forest, Owners
  <2>4. At(g2, K, root, va, i, t[i])
    BY <2>1, <2>2 DEF At, Copied
  <2>5. ASSUME i > 1 PROVE Before(g2, va, i - 1, t[i - 1], t[i])
    <3>1. i - 1 \in 1 .. Levels - 1 /\ i - 1 \in 1 .. Levels /\ (i - 1) + 1 = i
      BY <1>0, <2>5
    <3>2. w[i - 1] # 0 /\ Before(g, va, i - 1, w[i - 1], w[i])
      BY <1>1, <1>3, <3>1
    <3>3. t[i - 1] = w[i - 1]
      BY <3>1, <3>2 DEF Growth, Allocated
    <3> QED
      BY <2>1, <2>2, <3>2, <3>3 DEF Before
  <2> QED
    BY <2>2, <2>3, <2>4, <2>5
<1>4. CASE w[i] = 0
  <2>1. /\ g2[t[i]].own = root /\ g2[t[i]].lev = i
        /\ g2[t[i]].up = t[i - 1] /\ g2[t[i]].ix = indexof(va, i - 1)
    BY <1>4 DEF Growth, Grown
  <2>2. i # 1
    BY <1>1, <1>4
  <2> QED
    BY <1>2, <1>4, <2>1, <2>2 DEF At, Before, Copied
<1> QED
  BY <1>3, <1>4

\* What is known of the other pages stays, and the entries that lead to a table.
LEMMA GrowthKeeps ==
    ASSUME VmeAssumption,
           NEW m, NEW g, NEW K, NEW R, NEW fr, NEW root, NEW va, NEW w, NEW t, NEW e,
           NEW m2, NEW g2, Growth(m, g, K, R, fr, root, va, w, t, e, m2, g2),
           NEW p \in Pages, g[p].own # 0
    PROVE  /\ g2[p] = g[p]
           /\ \A k \in Digits : g[p].lev < Levels /\ m[p][k] # Empty => m2[p][k] = m[p][k]
<1>0. Levels \in Nat \ {0}
  BY DEF VmeAssumption
<1>1. p \notin fr
  BY DEF Growth, Forest, Owners
<1>2. \A i \in 1 .. Levels : t[i] = p => w[i] # 0
  BY <1>1 DEF Growth, Allocated
<1>3. g2[p] = g[p]
  BY <1>2 DEF Growth, Grown
<1>4. ASSUME NEW k \in Digits, g[p].lev < Levels, m[p][k] # Empty PROVE m2[p][k] = m[p][k]
  <2>1. CASE \A i \in 1 .. Levels : t[i] # p
    BY <2>1 DEF Growth, Written
  <2>2. CASE ~ \A i \in 1 .. Levels : t[i] # p
    <3>1. PICK i \in 1 .. Levels : t[i] = p
      BY <2>2
    <3>2. w[i] # 0 /\ t[i] = w[i]
      BY <1>2, <3>1 DEF Growth, Allocated
    <3>3. m2[p][k] = After(m, w, t, va, root, K, e, i, k)
      BY <3>1 DEF Growth, Written
    <3>4. CASE k # indexof(va, i)
      BY <3>1, <3>2, <3>3, <3>4 DEF After
    <3>5. CASE k = indexof(va, i)
      <4>1. At(g, K, root, va, i, w[i])
        BY <3>2, WalkStays DEF Growth
      <4>2. i \in 1 .. Levels - 1
        BY <1>0, <1>4, <3>1, <3>2, <4>1 DEF At
      <4>3. Link(m, K, root, va, i, w[i], w[i + 1])
        BY <3>2, <4>2, WalkStays DEF Growth
      <4>4. w[i + 1] # 0
        BY <1>4, <3>1, <3>2, <3>5, <4>3 DEF Link
      <4>5. i # Levels
        BY <1>0, <4>2
      <4> QED
        BY <3>1, <3>3, <3>5, <4>4, <4>5 DEF After
    <3> QED
      BY <3>4, <3>5
  <2> QED
    BY <2>1, <2>2
<1> QED
  BY <1>3, <1>4

\* The entries below the tables of the walk lead to the next of them.
LEMMA GrownLinks ==
    ASSUME VmeAssumption,
           NEW m, NEW g, NEW K, NEW R, NEW fr, NEW root, NEW va, NEW w, NEW t, NEW e,
           NEW m2, NEW g2, Growth(m, g, K, R, fr, root, va, w, t, e, m2, g2),
           NEW i \in 1 .. Levels - 1
    PROVE  /\ m2[t[i]][indexof(va, i)] = Entry(t[i + 1], TRUE, root # K)
           /\ Leads(m2, g2, K, t[i], indexof(va, i), t[i + 1])
<1>0. Levels \in Nat \ {0} /\ va \in VirtualPages
  BY DEF VmeAssumption, Growth, Walks
<1>1. i \in 1 .. Levels /\ i + 1 \in 1 .. Levels /\ i # Levels /\ (i + 1) - 1 = i /\ i + 1 > 1
  BY <1>0
<1>2. indexof(va, i) \in Digits
  BY <1>0, <1>1, DigitsAre
<1>3. m2[t[i]][indexof(va, i)] = After(m, w, t, va, root, K, e, i, indexof(va, i))
  BY <1>1, <1>2 DEF Growth, Written
<1>4. m2[t[i]][indexof(va, i)] = Entry(t[i + 1], TRUE, root # K)
  <2>1. CASE w[i + 1] = 0
    BY <1>1, <1>3, <2>1 DEF After
  <2>2. CASE w[i + 1] # 0
    <3>1. w[i] # 0 /\ Link(m, K, root, va, i, w[i], w[i + 1])
      BY <2>2, WalkStays DEF Growth
    <3>2. t[i] = w[i] /\ t[i + 1] = w[i + 1]
      BY <1>1, <2>2, <3>1 DEF Growth, Allocated
    <3>3. m2[t[i]][indexof(va, i)] = m[t[i]][indexof(va, i)]
      BY <1>1, <1>3, <2>2 DEF After
    <3> QED
      BY <2>2, <3>1, <3>2, <3>3 DEF Link
  <2> QED
    BY <2>1, <2>2
<1>5. At(g2, K, root, va, i, t[i])
  BY <1>1, GrownTables
<1>6. At(g2, K, root, va, i + 1, t[i + 1])
  BY <1>1, GrownTables
<1>7. Before(g2, va, i, t[i], t[i + 1])
  <2>1. Before(g2, va, (i + 1) - 1, t[(i + 1) - 1], t[i + 1])
    BY <1>1, GrownTables
  <2> QED
    BY <1>1, <2>1
<1>8. Leads(m2, g2, K, t[i], indexof(va, i), t[i + 1])
  BY <1>4, <1>5, <1>6, <1>7 DEF At, Before, Leads
<1> QED
  BY <1>4, <1>8

\* What a table leads to in the old forest, it leads to in the new one.
LEMMA LeadsOn ==
    ASSUME VmeAssumption,
           NEW m, NEW g, NEW K, NEW R, NEW fr, NEW root, NEW va, NEW w, NEW t, NEW e,
           NEW m2, NEW g2, Growth(m, g, K, R, fr, root, va, w, t, e, m2, g2),
           NEW p \in Pages, NEW k \in Digits, NEW q, Inside(g, K, p, k), Leads(m, g, K, p, k, q)
    PROVE  Inside(g2, K, p, k) /\ Leads(m2, g2, K, p, k, q)
<1>1. g[p].own # 0 /\ g[p].lev < Levels /\ q \in Pages /\ q # 0 /\ g[q].own # 0
  BY DEF Inside, Leads, VmeAssumption
<1>2. m[p][k] # Empty
  BY <1>1 DEF Leads, Entry, Empty
<1>3. g2[p] = g[p] /\ g2[q] = g[q] /\ m2[p][k] = m[p][k]
  BY <1>1, <1>2, GrowthKeeps
<1>4. Inside(g2, K, p, k)
  BY <1>3 DEF Inside, Copied
<1>5. Leads(m2, g2, K, p, k, q)
  BY <1>3 DEF Leads
<1> QED
  BY <1>4, <1>5

\* A page known in the new forest was in the old one or is of the walk.
LEMMA OldOrMade ==
    ASSUME VmeAssumption,
           NEW m, NEW g, NEW K, NEW R, NEW fr, NEW root, NEW va, NEW w, NEW t, NEW e,
           NEW m2, NEW g2, Growth(m, g, K, R, fr, root, va, w, t, e, m2, g2),
           NEW p \in Pages, g2[p].own # 0
    PROVE  \/ g[p].own # 0 /\ g2[p] = g[p]
           \/ \E i \in 1 .. Levels : t[i] = p /\ w[i] = 0
<1>1. CASE \A i \in 1 .. Levels : t[i] = p => w[i] # 0
  BY <1>1 DEF Growth, Grown
<1>2. CASE ~ \A i \in 1 .. Levels : t[i] = p => w[i] # 0
  BY <1>2
<1> QED
  BY <1>1, <1>2

\* After a write the tables are a forest again.
LEMMA GrowsForest ==
    ASSUME VmeAssumption,
           NEW m, NEW g, NEW K, NEW R, NEW fr, NEW root, NEW va, NEW w, NEW t, NEW e,
           NEW m2, NEW g2, Growth(m, g, K, R, fr, root, va, w, t, e, m2, g2)
    PROVE  Forest(m2, g2, K, R, {p \in fr : \A i \in 1 .. Levels : t[i] # p})
<1> DEFINE fr2 == {p \in fr : \A i \in 1 .. Levels : t[i] # p}
<1>0. Levels \in Nat \ {0} /\ va \in VirtualPages /\ root \in {K} \cup R
  BY DEF VmeAssumption, Growth, Walks
<1>1. m2 \in [Pages -> [Digits -> Word]] /\ g2 \in [Pages -> Info]
  BY DEF Growth, Written, Grown
<1>2. w[1] = root /\ root # 0
  BY WalkStays DEF Growth
<1>3. Owners(g, K, R, fr)
  BY DEF Growth, Forest
<1>4. Owners(g2, K, R, fr2)
  <2>1. K \in Pages /\ R \subseteq Pages /\ K \notin R
    BY <1>3 DEF Owners
  <2>2. ASSUME NEW p \in Pages
        PROVE  /\ g2[p].own \in {0, K} \cup R /\ (g2[p].own = 0 <=> p \in fr2)
               /\ g2[p].own # 0 /\ g2[p].lev = 1 => g2[p].own = p
    <3>1. CASE \E i \in 1 .. Levels : t[i] = p /\ w[i] = 0
      <4>1. PICK i \in 1 .. Levels : t[i] = p /\ w[i] = 0
        BY <3>1
      <4>2. At(g2, K, root, va, i, p)
        BY <4>1, GrownTables
      <4>3. i # 1
        BY <1>2, <4>1
      <4> QED
        BY <1>0, <1>2, <4>1, <4>2, <4>3 DEF At
    <3>2. CASE ~ \E i \in 1 .. Levels : t[i] = p /\ w[i] = 0
      <4>1. g2[p] = g[p]
        BY <3>2 DEF Growth, Grown
      <4>2. p \in fr2 <=> p \in fr
        <5>1. ASSUME p \in fr, NEW i \in 1 .. Levels, t[i] = p PROVE FALSE
          BY <3>2, <5>1, GrownTables
        <5> QED
          BY <5>1
      <4> QED
        BY <1>3, <4>1, <4>2 DEF Owners
    <3> QED
      BY <3>1, <3>2
  <2>3. ASSUME NEW r \in {K} \cup R PROVE g2[r].own = r /\ g2[r].lev = 1
    <3>1. r \in Pages /\ g[r].own = r /\ g[r].lev = 1 /\ r # 0
      BY <1>3 DEF Owners, VmeAssumption
    <3>2. g2[r] = g[r]
      BY <3>1, GrowthKeeps
    <3> QED
      BY <3>1, <3>2
  <2> HIDE DEF fr2
  <2> QED
    BY <2>1, <2>2, <2>3 DEF Owners
<1>5. Down(m2, g2, K)
  <2> SUFFICES ASSUME NEW p \in Pages, NEW k \in Digits, Inside(g2, K, p, k), m2[p][k] # Empty
               PROVE  Leads(m2, g2, K, p, k, m2[p][k].to)
    BY DEF Down
  <2>1. g2[p].own # 0 /\ g2[p].lev < Levels
    BY DEF Inside
  <2>2. CASE \E i \in 1 .. Levels : t[i] = p /\ k = indexof(va, i)
    <3>1. PICK i \in 1 .. Levels : t[i] = p /\ k = indexof(va, i)
      BY <2>2
    <3>2. At(g2, K, root, va, i, p)
      BY <3>1, GrownTables
    <3>3. i \in 1 .. Levels - 1
      BY <1>0, <2>1, <3>2 DEF At
    <3>4. m2[p][k] = Entry(t[i + 1], TRUE, root # K) /\ Leads(m2, g2, K, p, k, t[i + 1])
      <4>1. /\ m2[t[i]][indexof(va, i)] = Entry(t[i + 1], TRUE, root # K)
            /\ Leads(m2, g2, K, t[i], indexof(va, i), t[i + 1])
        BY <3>3, GrownLinks
      <4> QED
        BY <3>1, <4>1
    <3> QED
      BY <3>4 DEF Entry
  <2>3. CASE ~ \E i \in 1 .. Levels : t[i] = p /\ k = indexof(va, i)
    <3>1. g[p].own # 0 /\ g2[p] = g[p] /\ m2[p][k] = m[p][k]
      <4>1. CASE \A i \in 1 .. Levels : t[i] # p
        <5>1. g[p].own # 0 /\ g2[p] = g[p]
          BY <2>1, <4>1, OldOrMade
        <5>2. m2[p] = m[p]
          BY <4>1 DEF Growth, Written
        <5> QED
          BY <5>1, <5>2
      <4>2. CASE ~ \A i \in 1 .. Levels : t[i] # p
        <5>1. PICK i \in 1 .. Levels : t[i] = p /\ k # indexof(va, i)
          BY <2>3, <4>2
        <5>2. m2[p][k] = IF w[i] = 0 THEN Empty ELSE m[p][k]
          BY <5>1 DEF Growth, Written, After
        <5>3. w[i] # 0
          BY <5>2
        <5> QED
          BY <1>2, <5>1, <5>2, <5>3, GrownTables
      <4> QED
        BY <4>1, <4>2
    <3>2. Inside(g, K, p, k) /\ m[p][k] # Empty
      BY <3>1 DEF Inside, Copied
    <3>3. Leads(m, g, K, p, k, m[p][k].to)
      BY <3>2 DEF Growth, Forest, Down
    <3> QED
      BY <3>1, <3>2, <3>3, LeadsOn
  <2> QED
    BY <2>2, <2>3
<1>6. Up(m2, g2, K)
  <2> SUFFICES ASSUME NEW q \in Pages, g2[q].own # 0, g2[q].lev > 1
               PROVE  /\ Inside(g2, K, g2[q].up, g2[q].ix)
                      /\ Leads(m2, g2, K, g2[q].up, g2[q].ix, q)
    BY DEF Up
  <2>1. CASE \E i \in 1 .. Levels : t[i] = q /\ w[i] = 0
    <3>1. PICK i \in 1 .. Levels : t[i] = q /\ w[i] = 0
      BY <2>1
    <3>2. i # 1
      BY <1>2, <3>1
    <3>3. i - 1 \in 1 .. Levels - 1 /\ i - 1 \in 1 .. Levels /\ i > 1 /\ (i - 1) + 1 = i
      BY <1>0, <3>2
    <3>4. g2[q].up = t[i - 1] /\ g2[q].ix = indexof(va, i - 1)
      BY <3>1, <3>3, GrownTables DEF Before
    <3>5. Leads(m2, g2, K, t[i - 1], indexof(va, i - 1), t[(i - 1) + 1])
      BY <3>3, GrownLinks
    <3>6. At(g2, K, root, va, i - 1, t[i - 1])
      BY <3>3, GrownTables
    <3>7. Inside(g2, K, t[i - 1], indexof(va, i - 1))
      BY <1>0, <1>2, <3>3, <3>6 DEF At, Inside
    <3> QED
      BY <3>1, <3>3, <3>4, <3>5, <3>7
  <2>2. CASE ~ \E i \in 1 .. Levels : t[i] = q /\ w[i] = 0
    <3>1. g[q].own # 0 /\ g2[q] = g[q]
      BY <2>2, OldOrMade
    <3>2. Inside(g, K, g[q].up, g[q].ix) /\ Leads(m, g, K, g[q].up, g[q].ix, q)
      BY <3>1 DEF Growth, Forest, Up
    <3>3. g[q].up \in Pages /\ g[q].ix \in Digits
      BY DEF Growth, Forest, Info
    <3> QED
      BY <3>1, <3>2, <3>3, LeadsOn
  <2> QED
    BY <2>1, <2>2
<1> HIDE DEF fr2
<1>7. Forest(m2, g2, K, R, fr2)
  BY <1>1, <1>4, <1>5, <1>6 DEF Forest
<1> QED
  BY <1>7 DEF fr2

\* After a write the walk goes through its tables and ends at the entry written.
LEMMA GrownWalk ==
    ASSUME VmeAssumption,
           NEW m, NEW g, NEW K, NEW R, NEW fr, NEW root, NEW va, NEW w, NEW t, NEW e,
           NEW m2, NEW g2, Growth(m, g, K, R, fr, root, va, w, t, e, m2, g2)
    PROVE  LastTable(m2, root, va) = t[Levels] /\ Target(m2, root, va) = e
<1> DEFINE v == WalkIn(m2, root, va)
<1>0. Levels \in Nat \ {0} /\ Levels \in 1 .. Levels /\ va \in VirtualPages
  BY DEF VmeAssumption, Growth, Walks
<1>1. /\ v[1] = root
      /\ \A i \in 1 .. Levels - 1 :
            v[i + 1] = IF v[i] = 0 THEN 0 ELSE m2[v[i]][indexof(va, i)].to
  BY WalkSteps
<1>2. w[1] = root /\ root # 0
  BY WalkStays DEF Growth
<1>3. t[1] = root
  <2>1. 1 \in 1 .. Levels
    BY <1>0
  <2> QED
    BY <1>2, <2>1 DEF Growth, Allocated
<1>4. \A i \in 1 .. Levels : t[i] # 0
  BY GrownTables DEF At
<1> DEFINE G == {n \in Nat : n \in 1 .. Levels => v[n] = t[n]}
<1> HIDE DEF v
<1>5. 0 \in G
  OBVIOUS
<1>6. ASSUME NEW n \in Nat, n \in G PROVE n + 1 \in G
  <2> SUFFICES ASSUME n + 1 \in 1 .. Levels PROVE v[n + 1] = t[n + 1]
    OBVIOUS
  <2>1. CASE n = 0
    <3>1. n + 1 = 1
      BY <2>1
    <3> QED
      BY <1>1, <1>3, <3>1
  <2>2. CASE n # 0
    <3>1. n \in 1 .. Levels - 1 /\ n \in 1 .. Levels
      BY <1>0, <2>2
    <3>2. v[n] = t[n] /\ v[n] # 0
      BY <1>4, <1>6, <3>1
    <3>3. v[n + 1] = m2[t[n]][indexof(va, n)].to
      BY <1>1, <3>1, <3>2
    <3>4. m2[t[n]][indexof(va, n)] = Entry(t[n + 1], TRUE, root # K)
      <4>1. PICK i \in 1 .. Levels - 1 : i = n
        BY <3>1
      <4>2. m2[t[i]][indexof(va, i)] = Entry(t[i + 1], TRUE, root # K)
        <5>1. /\ m2[t[i]][indexof(va, i)] = Entry(t[i + 1], TRUE, root # K)
              /\ Leads(m2, g2, K, t[i], indexof(va, i), t[i + 1])
          BY GrownLinks
        <5> QED
          BY <5>1
      <4> QED
        BY <4>1, <4>2
    <3> QED
      BY <3>3, <3>4 DEF Entry
  <2> QED
    BY <2>1, <2>2
<1> HIDE DEF G
<1>7. G = Nat
  BY <1>5, <1>6, Induction DEF G
<1>8. v[Levels] = t[Levels]
  BY <1>0, <1>7 DEF G
<1>9. LastTable(m2, root, va) = t[Levels]
  BY <1>8 DEF LastTable, v
<1>10. indexof(va, Levels) \in Digits
  BY <1>0, DigitsAre
<1>11. m2[t[Levels]][indexof(va, Levels)] = e
  BY <1>0, <1>10 DEF Growth, Written, After
<1> QED
  BY <1>0, <1>4, <1>9, <1>11 DEF Target

\* Another walk stays at its tables; one that ended may go on to tables just made.
LEMMA OtherWalks ==
    ASSUME VmeAssumption,
           NEW m, NEW g, NEW K, NEW R, NEW fr, NEW root, NEW va, NEW w, NEW t, NEW e,
           NEW m2, NEW g2, Growth(m, g, K, R, fr, root, va, w, t, e, m2, g2),
           NEW q, NEW vb, Walks(K, R, q, vb),
           NEW v, v = WalkIn(m, q, vb), NEW x, x = WalkIn(m2, q, vb)
    PROVE  \A i \in 1 .. Levels : /\ v[i] # 0 => x[i] = v[i]
                                  /\ v[i] = 0 /\ x[i] # 0 => x[i] \in fr
<1> DEFINE fr2 == {p \in fr : \A i \in 1 .. Levels : t[i] # p}
<1>0. Levels \in Nat \ {0} /\ vb \in VirtualPages
  BY DEF VmeAssumption, Walks
<1>1. Forest(m2, g2, K, R, fr2)
  BY GrowsForest
<1> HIDE DEF fr2
<1>2. Forest(m, g, K, R, fr)
  BY DEF Growth
<1>3. /\ v[1] = q
      /\ \A i \in 1 .. Levels : v[i] # 0 => At(g, K, q, vb, i, v[i])
      /\ \A i \in 1 .. Levels - 1 :
            /\ v[i] = 0 => v[i + 1] = 0
            /\ v[i] # 0 => Link(m, K, q, vb, i, v[i], v[i + 1])
  BY <1>2, WalkStays
<1>4. /\ x[1] = q /\ q # 0
      /\ \A i \in 1 .. Levels : x[i] # 0 => At(g2, K, q, vb, i, x[i])
      /\ \A i \in 1 .. Levels - 1 : /\ x[i] = 0 => x[i + 1] = 0
                                    /\ x[i + 1] # 0 => Before(g2, vb, i, x[i], x[i + 1])
  BY <1>1, WalkStays
<1>5. \A i \in 1 .. Levels - 1 :
         x[i + 1] = IF x[i] = 0 THEN 0 ELSE m2[x[i]][indexof(vb, i)].to
  BY WalkSteps
<1> DEFINE Same(i) == /\ v[i] # 0 => x[i] = v[i]
                      /\ v[i] = 0 /\ x[i] # 0 => x[i] \in fr
           G == {n \in Nat : n \in 1 .. Levels => Same(n)}
<1>6. 0 \in G
  OBVIOUS
<1>7. ASSUME NEW n \in Nat, n \in G PROVE n + 1 \in G
  <2> SUFFICES ASSUME n + 1 \in 1 .. Levels PROVE Same(n + 1)
    OBVIOUS
  <2>1. CASE n = 0
    <3>1. n + 1 = 1
      BY <2>1
    <3> QED
      BY <1>3, <1>4, <3>1
  <2>2. CASE n # 0
    <3>1. n \in 1 .. Levels - 1 /\ n \in 1 .. Levels
      BY <1>0, <2>2
    <3>2. Same(n)
      BY <1>7, <3>1
    <3> DEFINE k == indexof(vb, n)
    <3>3. k \in Digits
      BY <1>0, <3>1, DigitsAre
    <3>4. ASSUME v[n + 1] # 0 PROVE x[n + 1] = v[n + 1]
      <4>1. v[n] # 0 /\ x[n] = v[n]
        BY <1>3, <3>1, <3>2, <3>4
      <4>2. At(g, K, q, vb, n, v[n]) /\ Link(m, K, q, vb, n, v[n], v[n + 1])
        BY <1>3, <3>1, <4>1
      <4>3. v[n] \in Pages /\ g[v[n]].own # 0 /\ g[v[n]].lev < Levels
        BY <1>0, <1>4, <3>1, <4>2 DEF At
      <4>4. m[v[n]][k] = Entry(v[n + 1], TRUE, q # K) /\ m[v[n]][k] # Empty
        BY <3>4, <4>2 DEF Link, Entry, Empty
      <4>5. m2[v[n]][k] = m[v[n]][k]
        <5>1. PICK s : s = v[n]
          OBVIOUS
        <5>2. s \in Pages /\ g[s].own # 0 /\ g[s].lev < Levels /\ m[s][k] # Empty
          BY <4>3, <4>4, <5>1
        <5> HIDE DEF k
        <5>3. m2[s][k] = m[s][k]
          BY <3>3, <5>2, GrowthKeeps
        <5> QED
          BY <5>1, <5>3
      <4>6. x[n + 1] = m2[x[n]][k].to
        BY <1>5, <3>1, <4>1
      <4> QED
        BY <4>1, <4>4, <4>5, <4>6 DEF Entry
    <3>5. ASSUME v[n + 1] = 0, x[n + 1] # 0 PROVE x[n + 1] \in fr
      <4>1. x[n] # 0 /\ Before(g2, vb, n, x[n], x[n + 1]) /\ At(g2, K, q, vb, n + 1, x[n + 1])
        BY <1>4, <3>1, <3>5
      <4>2. x[n + 1] \in Pages /\ g2[x[n + 1]].own # 0
        BY <1>4, <4>1 DEF At
      <4>3. CASE \E i \in 1 .. Levels : t[i] = x[n + 1] /\ w[i] = 0
        BY <4>3 DEF Growth, Allocated
      <4>4. CASE g[x[n + 1]].own # 0 /\ g2[x[n + 1]] = g[x[n + 1]]
        <5>1. g[x[n + 1]].up = x[n] /\ g[x[n + 1]].ix = k /\ g[x[n + 1]].lev = n + 1
          BY <4>1, <4>4 DEF Before, At
        <5>2. Inside(g, K, x[n], k) /\ Leads(m, g, K, x[n], k, x[n + 1])
          BY <1>2, <3>1, <4>2, <4>4, <5>1 DEF Forest, Up
        <5>3. x[n] \in Pages /\ x[n] \notin fr
          <6>1. x[n] \in Pages
            BY <1>4, <3>1, <4>1 DEF At
          <6> QED
            BY <1>2, <5>2, <6>1 DEF Inside, Forest, Owners
        <5>4. v[n] # 0 /\ v[n] = x[n]
          BY <3>2, <4>1, <5>3
        <5>5. m[x[n]][k] = Empty
          BY <1>3, <3>1, <3>5, <5>4 DEF Link
        <5> QED
          BY <3>5, <5>2, <5>5 DEF Leads, Entry, Empty
      <4> QED
        BY <4>2, <4>3, <4>4, OldOrMade
    <3> QED
      BY <3>4, <3>5
  <2> QED
    BY <2>1, <2>2
<1> HIDE DEF G
<1>8. G = Nat
  BY <1>6, <1>7, Induction DEF G
<1> QED
  BY <1>8 DEF G

\* A write changes the entry of its page, and that of no other page of any space.
LEMMA OthersKept ==
    ASSUME VmeAssumption,
           NEW m, NEW g, NEW K, NEW R, NEW fr, NEW root, NEW va, NEW w, NEW t, NEW e,
           NEW m2, NEW g2, Growth(m, g, K, R, fr, root, va, w, t, e, m2, g2),
           NEW q, NEW vb, Walks(K, R, q, vb), q # root \/ vb # va
    PROVE  Target(m2, q, vb) = Target(m, q, vb)
<1> DEFINE fr2 == {p \in fr : \A i \in 1 .. Levels : t[i] # p}
           s == LastTable(m, q, vb)
           x == LastTable(m2, q, vb)
           k == indexof(vb, Levels)
<1>0. Levels \in Nat \ {0} /\ Levels \in 1 .. Levels /\ vb \in VirtualPages
  BY DEF VmeAssumption, Walks
<1>1. Forest(m2, g2, K, R, fr2)
  BY GrowsForest
<1> HIDE DEF fr2
<1>2. Forest(m, g, K, R, fr) /\ Walks(K, R, root, va)
  BY DEF Growth
<1>3. k \in Digits
  BY <1>0, DigitsAre
<1>4. q # 0 /\ (x # 0 => At(g2, K, q, vb, Levels, x))
  BY <1>0, <1>1, WalkStays DEF LastTable
<1>5. s # 0 => At(g, K, q, vb, Levels, s)
  BY <1>0, <1>2, WalkStays DEF LastTable
<1>6. (s # 0 => x = s) /\ (s = 0 /\ x # 0 => x \in fr)
  BY <1>0, OtherWalks DEF LastTable
<1>7. LastTable(m2, root, va) = t[Levels]
  BY GrownWalk
<1>8. x # 0 /\ x = t[Levels] => k # indexof(va, Levels)
  BY <1>1, <1>2, <1>7, EntriesApart
<1>9. Target(m2, q, vb) = IF x = 0 THEN Empty ELSE m2[x][k]
  BY DEF Target
<1>10. Target(m, q, vb) = IF s = 0 THEN Empty ELSE m[s][k]
  BY DEF Target
<1> HIDE DEF s, x, k
<1>11. ASSUME x # 0, NEW i \in 1 .. Levels, x = t[i] PROVE x = t[Levels]
  <2>1. At(g2, K, root, va, i, x)
    BY <1>11, GrownTables
  <2> QED
    BY <1>4, <1>11, <2>1 DEF At
<1>12. CASE s # 0
  <2>1. x = s /\ s \in Pages /\ g[s].own # 0 /\ s \notin fr
    BY <1>2, <1>4, <1>5, <1>6, <1>12 DEF At, Forest, Owners
  <2>2. CASE \A i \in 1 .. Levels : t[i] # s
    <3>1. m2[s] = m[s]
      BY <2>1, <2>2 DEF Growth, Written
    <3> QED
      BY <1>9, <1>10, <1>12, <2>1, <3>1
  <2>3. CASE ~ \A i \in 1 .. Levels : t[i] # s
    <3>1. s = t[Levels]
      BY <1>11, <1>12, <2>1, <2>3
    <3>2. k # indexof(va, Levels) /\ w[Levels] # 0
      BY <1>0, <1>8, <1>12, <2>1, <3>1 DEF Growth, Allocated
    <3>3. m2[s][k] = m[s][k]
      BY <1>0, <1>3, <3>1, <3>2 DEF Growth, Written, After
    <3> QED
      BY <1>9, <1>10, <1>12, <2>1, <3>3
  <2> QED
    BY <2>2, <2>3
<1>13. CASE s = 0 /\ x # 0
  <2>1. x \in Pages /\ g2[x].own # 0 /\ x \in fr
    BY <1>4, <1>6, <1>13 DEF At
  <2>2. g[x].own = 0
    BY <1>2, <2>1 DEF Forest, Owners
  <2>3. PICK i \in 1 .. Levels : t[i] = x /\ w[i] = 0
    BY <2>1, <2>2, OldOrMade
  <2>4. x = t[Levels] /\ w[Levels] = 0
    <3>1. x = t[Levels]
      BY <1>11, <1>13, <2>3
    <3>2. i = Levels
      BY <1>0, <2>3, <3>1 DEF Growth, Allocated
    <3> QED
      BY <2>3, <3>1, <3>2
  <2>5. m2[x][k] = Empty
    BY <1>0, <1>3, <1>8, <1>13, <2>4 DEF Growth, Written, After
  <2> QED
    BY <1>9, <1>10, <1>13, <2>5
<1>14. CASE s = 0 /\ x = 0
  BY <1>9, <1>10, <1>14
<1> QED
  BY <1>12, <1>13, <1>14

\* After a write for a space the entries are right as before.
LEMMA GrowsLeaves ==
    ASSUME VmeAssumption,
           NEW m, NEW g, NEW K, NEW R, NEW fr, NEW root, NEW va, NEW w, NEW t, NEW e,
           NEW m2, NEW g2, Growth(m, g, K, R, fr, root, va, w, t, e, m2, g2),
           Leaves(m, g, K), root # K => e \in UserEntries
    PROVE  Leaves(m2, g2, K)
<1>0. Levels \in Nat \ {0} /\ Levels \in 1 .. Levels /\ root # 0
  BY WalkStays DEF VmeAssumption, Growth
<1> SUFFICES ASSUME NEW p \in Pages, NEW k \in Digits,
                    g2[p].own \notin {0, K}, g2[p].lev = Levels, ~Copied(g2, K, p, k)
             PROVE  m2[p][k] \in UserEntries
  BY DEF Leaves
<1>1. ASSUME g[p].own # 0, g2[p] = g[p] PROVE m[p][k] \in UserEntries
  BY <1>1 DEF Leaves, Copied
<1>2. CASE \A i \in 1 .. Levels : t[i] # p
  <2>1. g[p].own # 0 /\ g2[p] = g[p]
    BY <1>2, OldOrMade
  <2>2. m2[p] = m[p]
    BY <1>2 DEF Growth, Written
  <2> QED
    BY <1>1, <2>1, <2>2
<1>3. CASE ~ \A i \in 1 .. Levels : t[i] # p
  <2>1. PICK i \in 1 .. Levels : t[i] = p
    BY <1>3
  <2>2. At(g2, K, root, va, i, p)
    BY <2>1, GrownTables
  <2>3. i = Levels /\ root # K
    BY <2>2 DEF At
  <2>4. m2[p][k] = IF k = indexof(va, Levels) THEN e ELSE IF w[Levels] = 0 THEN Empty ELSE m[p][k]
    <3>1. m2[t[Levels]][k] = After(m, w, t, va, root, K, e, Levels, k)
      BY <1>0 DEF Growth, Written
    <3> QED
      BY <2>1, <2>3, <3>1 DEF After
  <2>5. CASE w[Levels] # 0
    <3>1. g[p].own # 0 /\ g2[p] = g[p]
      BY <1>0, <2>1, <2>3, <2>5, GrownTables
    <3> QED
      BY <1>1, <2>3, <2>4, <2>5, <3>1
  <2>6. CASE w[Levels] = 0
    <3>1. Empty \in UserEntries
      BY DEF UserEntries
    <3> QED
      BY <2>3, <2>4, <2>6, <3>1
  <2> QED
    BY <2>5, <2>6
<1> QED
  BY <1>2, <1>3

\* A write for a space leaves its copies of the kernel's entries.
LEMMA GrowsCopies ==
    ASSUME VmeAssumption,
           NEW m, NEW g, NEW K, NEW R, NEW fr, NEW root, NEW va, NEW w, NEW t, NEW e,
           NEW m2, NEW g2, Growth(m, g, K, R, fr, root, va, w, t, e, m2, g2),
           Copies(m, K, R), root = K => R = {}
    PROVE  Copies(m2, K, R)
<1>0. Levels \in Nat \ {0} /\ 1 \in 1 .. Levels /\ w[1] = root /\ root # 0
  BY WalkStays DEF VmeAssumption, Growth
<1> SUFFICES ASSUME NEW r \in R, NEW k \in Kernel PROVE m2[r][k] = m2[K][k]
  BY DEF Copies
<1>1. Owners(g, K, R, fr) /\ root # K /\ k \in Digits
  BY DEF Growth, Forest, VmeAssumption, Digits
<1>2. r \in Pages /\ K \in Pages /\ g[r].own = r /\ g[K].own = K /\ g[r].lev = 1 /\ r # 0 /\ K # 0
  BY <1>1 DEF Owners, VmeAssumption
<1>3. m2[K] = m[K]
  <2>1. ASSUME NEW i \in 1 .. Levels, t[i] = K PROVE FALSE
    <3>1. At(g2, K, root, va, i, K)
      BY <2>1, GrownTables
    <3>2. g2[K] = g[K]
      BY <1>2, GrowthKeeps
    <3> QED
      BY <1>1, <1>2, <3>1, <3>2 DEF At
  <2> QED
    BY <1>2, <2>1 DEF Growth, Written
<1>4. m2[r][k] = m[r][k]
  <2>1. CASE \A i \in 1 .. Levels : t[i] # r
    BY <1>2, <2>1 DEF Growth, Written
  <2>2. CASE ~ \A i \in 1 .. Levels : t[i] # r
    <3>1. PICK i \in 1 .. Levels : t[i] = r
      BY <2>2
    <3>2. At(g2, K, root, va, i, r)
      BY <3>1, GrownTables
    <3>3. g2[r] = g[r]
      BY <1>2, GrowthKeeps
    <3>4. i = 1
      BY <1>2, <3>2, <3>3 DEF At
    <3>5. k # indexof(va, 1)
      BY <1>1 DEF Growth, Walks, UserPages, KernelPages
    <3> QED
      BY <1>0, <1>1, <3>1, <3>4, <3>5 DEF Growth, Written, After
  <2> QED
    BY <2>1, <2>2
<1> QED
  BY <1>3, <1>4 DEF Copies

\* A write leaves what the kernel sees of the pages before n, when it is none of them.
LEMMA GrowsIdentity ==
    ASSUME VmeAssumption,
           NEW m, NEW g, NEW K, NEW R, NEW fr, NEW root, NEW va, NEW w, NEW t, NEW e,
           NEW m2, NEW g2, Growth(m, g, K, R, fr, root, va, w, t, e, m2, g2),
           NEW n, Identity(m, K, n), root # K \/ ~(va < n)
    PROVE  Identity(m2, K, n)
<1> SUFFICES ASSUME NEW vb \in KernelPages, vb < n
             PROVE  Target(m2, K, vb) = Entry(Self(vb), TRUE, FALSE)
  BY DEF Identity
<1>1. Walks(K, R, K, vb)
  BY DEF Walks, KernelPages
<1>2. K # root \/ vb # va
  OBVIOUS
<1>3. Target(m2, K, vb) = Target(m, K, vb)
  BY <1>1, <1>2, OthersKept
<1> QED
  BY <1>3 DEF Identity

----------------------------------------------------------------------------
(* Tables that are new, freed, or not touched                              *)

\* A walk goes on as it did when nothing changes in the tables of the forest.
LEMMA WalkUntouched ==
    ASSUME VmeAssumption, NEW m, NEW g, NEW K, NEW R, NEW fr, Forest(m, g, K, R, fr),
           NEW m2, \A p \in Pages : g[p].own # 0 => m2[p] = m[p],
           NEW root, NEW va, Walks(K, R, root, va)
    PROVE  Target(m2, root, va) = Target(m, root, va)
<1> DEFINE w == WalkIn(m, root, va)
           v == WalkIn(m2, root, va)
           G == {n \in Nat : n \in 1 .. Levels => v[n] = w[n]}
<1>0. Levels \in Nat \ {0}
  BY DEF VmeAssumption
<1>1. /\ w[1] = root
      /\ \A i \in 1 .. Levels - 1 :
            w[i + 1] = IF w[i] = 0 THEN 0 ELSE m[w[i]][indexof(va, i)].to
  BY WalkSteps
<1>2. /\ v[1] = root
      /\ \A i \in 1 .. Levels - 1 :
            v[i + 1] = IF v[i] = 0 THEN 0 ELSE m2[v[i]][indexof(va, i)].to
  BY WalkSteps
<1>3. root # 0 /\ \A i \in 1 .. Levels : w[i] # 0 => At(g, K, root, va, i, w[i])
  BY WalkStays
<1> HIDE DEF v, w
<1>4. \A i \in 1 .. Levels : w[i] # 0 => m2[w[i]] = m[w[i]]
  BY <1>3 DEF At
<1>5. 0 \in G
  OBVIOUS
<1>6. ASSUME NEW n \in Nat, n \in G PROVE n + 1 \in G
  <2> SUFFICES ASSUME n + 1 \in 1 .. Levels PROVE v[n + 1] = w[n + 1]
    OBVIOUS
  <2>1. CASE n = 0
    <3>1. n + 1 = 1
      BY <2>1
    <3> QED
      BY <1>1, <1>2, <3>1
  <2>2. CASE n # 0
    <3>1. n \in 1 .. Levels - 1 /\ n \in 1 .. Levels
      BY <1>0, <2>2
    <3>2. v[n] = w[n]
      BY <1>6, <3>1
    <3> QED
      BY <1>1, <1>2, <1>4, <3>1, <3>2
  <2> QED
    BY <2>1, <2>2
<1> HIDE DEF G
<1>7. G = Nat
  BY <1>5, <1>6, Induction DEF G
<1>8. v[Levels] = w[Levels] /\ Levels \in 1 .. Levels
  BY <1>0, <1>7 DEF G
<1> QED
  BY <1>4, <1>8 DEF Target, LastTable, v, w

\* A first table with the kernel's entries in it, in a page that was free.
Rooted(m, g, K, q, m2, g2) ==
    /\ m2 \in [Pages -> [Digits -> Word]] /\ g2 \in [Pages -> Info]
    /\ \A p \in Pages : p # q => m2[p] = m[p] /\ g2[p] = g[p]
    /\ \A k \in Digits : m2[q][k] = IF k \in Kernel THEN m[K][k] ELSE Empty
    /\ g2[q].own = q /\ g2[q].lev = 1

\* A space that is protected has a forest of its own, in which nothing is mapped; it
\* changes no other.
LEMMA RootsForest ==
    ASSUME VmeAssumption,
           NEW m, NEW g, NEW K, NEW R, NEW fr, NEW n, Whole(m, g, K, R, fr, n),
           NEW q \in Pages, q \in fr, NEW m2, NEW g2, Rooted(m, g, K, q, m2, g2)
    PROVE  Whole(m2, g2, K, R \cup {q}, fr \ {q}, n)
<1>0. q # 0 /\ g[q].own = 0
  BY DEF VmeAssumption, Whole, Forest, Owners
<1>1. Forest(m, g, K, R, fr) /\ Owners(g, K, R, fr) /\ q # K /\ q \notin R
  BY <1>0 DEF Whole, Forest, Owners, VmeAssumption
<1>2. \A p \in Pages : g[p].own # 0 => m2[p] = m[p] /\ g2[p] = g[p]
  BY <1>0 DEF Rooted
<1>3. Owners(g2, K, R \cup {q}, fr \ {q})
  <2>1. ASSUME NEW p \in Pages
        PROVE  /\ g2[p].own \in {0, K} \cup (R \cup {q})
               /\ (g2[p].own = 0 <=> p \in fr \ {q})
               /\ g2[p].own # 0 /\ g2[p].lev = 1 => g2[p].own = p
    BY <1>0, <1>1 DEF Owners, Rooted
  <2>2. ASSUME NEW r \in {K} \cup (R \cup {q}) PROVE g2[r].own = r /\ g2[r].lev = 1
    BY <1>1 DEF Owners, Rooted
  <2> QED
    BY <1>1, <2>1, <2>2 DEF Owners
<1>4. Down(m2, g2, K)
  <2> SUFFICES ASSUME NEW p \in Pages, NEW k \in Digits, Inside(g2, K, p, k), m2[p][k] # Empty
               PROVE  Leads(m2, g2, K, p, k, m2[p][k].to)
    BY DEF Down
  <2>1. p # q
    <3>1. p = q => k \notin Kernel
      BY <1>1 DEF Inside, Copied, Rooted
    <3> QED
      BY <3>1 DEF Rooted
  <2>2. m2[p] = m[p] /\ g2[p] = g[p]
    BY <2>1 DEF Rooted
  <2>3. Inside(g, K, p, k) /\ g[p].own # 0
    BY <2>2 DEF Inside, Copied
  <2>4. Leads(m, g, K, p, k, m[p][k].to)
    BY <1>1, <2>2, <2>3 DEF Forest, Down
  <2>5. g2[m[p][k].to] = g[m[p][k].to]
    BY <1>2, <2>3, <2>4 DEF Leads
  <2> QED
    BY <2>2, <2>4, <2>5 DEF Leads
<1>5. Up(m2, g2, K)
  <2> SUFFICES ASSUME NEW x \in Pages, g2[x].own # 0, g2[x].lev > 1
               PROVE  /\ Inside(g2, K, g2[x].up, g2[x].ix)
                      /\ Leads(m2, g2, K, g2[x].up, g2[x].ix, x)
    BY DEF Up
  <2>1. x # q /\ g2[x] = g[x]
    BY DEF Rooted
  <2>2. Inside(g, K, g[x].up, g[x].ix) /\ Leads(m, g, K, g[x].up, g[x].ix, x)
    BY <1>1, <2>1 DEF Forest, Up
  <2>3. g[x].up \in Pages /\ g[g[x].up].own # 0
    BY <1>1, <2>2 DEF Forest, Info, Inside
  <2>4. m2[g[x].up] = m[g[x].up] /\ g2[g[x].up] = g[g[x].up]
    BY <1>2, <2>3
  <2> QED
    BY <2>1, <2>2, <2>4 DEF Leads, Inside, Copied
<1>6. Forest(m2, g2, K, R \cup {q}, fr \ {q})
  BY <1>3, <1>4, <1>5 DEF Forest, Rooted
<1>7. Leaves(m2, g2, K)
  <2> SUFFICES ASSUME NEW p \in Pages, NEW k \in Digits,
                      g2[p].own \notin {0, K}, g2[p].lev = Levels, ~Copied(g2, K, p, k)
               PROVE  m2[p][k] \in UserEntries
    BY DEF Leaves
  <2>1. CASE p = q
    <3>1. m2[p][k] = Empty
      BY <1>1, <2>1 DEF Rooted, Copied
    <3> QED
      BY <3>1 DEF UserEntries
  <2>2. CASE p # q
    <3>1. m2[p] = m[p] /\ g2[p] = g[p]
      BY <2>2 DEF Rooted
    <3> QED
      BY <3>1 DEF Whole, Leaves, Copied
  <2> QED
    BY <2>1, <2>2
<1>8. Copies(m2, K, R \cup {q})
  <2> SUFFICES ASSUME NEW r \in R \cup {q}, NEW k \in Kernel PROVE m2[r][k] = m2[K][k]
    BY DEF Copies
  <2>1. m2[K] = m[K] /\ k \in Digits
    BY <1>1 DEF Rooted, Owners, VmeAssumption, Digits
  <2>2. CASE r = q
    BY <2>1, <2>2 DEF Rooted
  <2>3. CASE r # q
    <3>1. m2[r] = m[r]
      BY <1>1, <2>3 DEF Rooted, Owners
    <3> QED
      BY <2>1, <2>3, <3>1 DEF Whole, Copies
  <2> QED
    BY <2>2, <2>3
<1>9. Identity(m2, K, n)
  <2> SUFFICES ASSUME NEW vb \in KernelPages, vb < n
               PROVE  Target(m2, K, vb) = Entry(Self(vb), TRUE, FALSE)
    BY DEF Identity
  <2>1. Walks(K, R, K, vb)
    BY DEF Walks, KernelPages
  <2>2. \A p \in Pages : g[p].own # 0 => m2[p] = m[p]
    BY <1>2
  <2>3. Target(m2, K, vb) = Target(m, K, vb)
    BY <1>1, <2>1, <2>2, WalkUntouched
  <2> QED
    BY <2>3 DEF Whole, Identity
<1> QED
  BY <1>6, <1>7, <1>8, <1>9 DEF Whole

\* Nothing is mapped under a table without the user's entries.
LEMMA NothingMapped ==
    ASSUME VmeAssumption, NEW m, NEW root, root # 0, NEW va \in UserPages,
           \A k \in Digits : k \notin Kernel => m[root][k] = Empty
    PROVE  Target(m, root, va) = Empty
<1> DEFINE w == WalkIn(m, root, va)
           G == {n \in Nat : n + 2 \in 1 .. Levels => w[n + 2] = 0}
<1>0. Levels \in Nat \ {0} /\ va \in VirtualPages
  BY DEF VmeAssumption, UserPages
<1>1. /\ w[1] = root
      /\ \A i \in 1 .. Levels - 1 :
            w[i + 1] = IF w[i] = 0 THEN 0 ELSE m[w[i]][indexof(va, i)].to
  BY WalkSteps
<1>2. indexof(va, 1) \in Digits /\ indexof(va, 1) \notin Kernel
  BY <1>0, DigitsAre DEF UserPages, KernelPages
<1>3. m[root][indexof(va, 1)] = Empty
  BY <1>2
<1> HIDE DEF w
<1>4. 0 \in G
  <2> SUFFICES ASSUME 2 \in 1 .. Levels PROVE w[2] = 0
    OBVIOUS
  <2>1. 1 \in 1 .. Levels - 1 /\ 1 + 1 = 2
    BY <1>0
  <2> QED
    BY <1>1, <1>3, <2>1 DEF Empty, Entry
<1>5. ASSUME NEW n \in Nat, n \in G PROVE n + 1 \in G
  <2> SUFFICES ASSUME (n + 1) + 2 \in 1 .. Levels PROVE w[(n + 1) + 2] = 0
    OBVIOUS
  <2>1. n + 2 \in 1 .. Levels /\ n + 2 \in 1 .. Levels - 1 /\ (n + 2) + 1 = (n + 1) + 2
    BY <1>0
  <2> QED
    BY <1>1, <1>5, <2>1
<1> HIDE DEF G
<1>6. G = Nat
  BY <1>4, <1>5, Induction DEF G
<1>7. CASE Levels = 1
  BY <1>1, <1>3, <1>7 DEF Target, LastTable, w
<1>8. CASE Levels # 1
  <2>1. Levels - 2 \in Nat /\ (Levels - 2) + 2 = Levels /\ Levels \in 1 .. Levels
    BY <1>0, <1>8
  <2>2. w[Levels] = 0
    BY <1>6, <2>1 DEF G
  <2> QED
    BY <2>2 DEF Target, LastTable, w
<1> QED
  BY <1>7, <1>8

\* The tables of a space that is torn down.
Freed(g, r, g2) ==
    /\ g2 \in [Pages -> Info]
    /\ \A p \in Pages : IF g[p].own = r THEN g2[p].own = 0 ELSE g2[p] = g[p]

\* Tearing down a space leaves the forest of the others.
LEMMA TornDown ==
    ASSUME VmeAssumption,
           NEW m, NEW g, NEW K, NEW R, NEW fr, NEW n, Whole(m, g, K, R, fr, n),
           NEW r \in R, NEW g2, Freed(g, r, g2)
    PROVE  Whole(m, g2, K, R \ {r}, fr \cup {p \in Pages : g[p].own = r}, n)
<1> DEFINE fr2 == fr \cup {p \in Pages : g[p].own = r}
<1>1. Forest(m, g, K, R, fr) /\ Owners(g, K, R, fr) /\ r # K /\ r # 0
  BY DEF Whole, Forest, Owners, VmeAssumption
<1>2. \A p \in Pages : g2[p].own # 0 => g2[p] = g[p] /\ g[p].own # r
  BY DEF Freed
<1>3. \A p \in Pages : g[p].own # r => g2[p] = g[p]
  BY DEF Freed
<1>4. Owners(g2, K, R \ {r}, fr2)
  <2>1. ASSUME NEW p \in Pages
        PROVE  /\ g2[p].own \in {0, K} \cup (R \ {r})
               /\ (g2[p].own = 0 <=> p \in fr2)
               /\ g2[p].own # 0 /\ g2[p].lev = 1 => g2[p].own = p
    BY <1>1 DEF Owners, Freed
  <2>2. ASSUME NEW q \in {K} \cup (R \ {r}) PROVE g2[q].own = q /\ g2[q].lev = 1
    <3>1. q \in Pages /\ g[q].own = q /\ g[q].lev = 1 /\ q # r
      BY <1>1 DEF Owners
    <3> QED
      BY <1>3, <3>1
  <2> HIDE DEF fr2
  <2> QED
    BY <1>1, <2>1, <2>2 DEF Owners
<1>5. Down(m, g2, K)
  <2> SUFFICES ASSUME NEW p \in Pages, NEW k \in Digits, Inside(g2, K, p, k), m[p][k] # Empty
               PROVE  Leads(m, g2, K, p, k, m[p][k].to)
    BY DEF Down
  <2>1. g2[p] = g[p] /\ g[p].own # r
    BY <1>2 DEF Inside
  <2>2. Inside(g, K, p, k)
    BY <2>1 DEF Inside, Copied
  <2>3. Leads(m, g, K, p, k, m[p][k].to)
    BY <1>1, <2>2 DEF Forest, Down
  <2>4. g2[m[p][k].to] = g[m[p][k].to]
    BY <1>3, <2>1, <2>3 DEF Leads
  <2> QED
    BY <2>1, <2>3, <2>4 DEF Leads
<1>6. Up(m, g2, K)
  <2> SUFFICES ASSUME NEW x \in Pages, g2[x].own # 0, g2[x].lev > 1
               PROVE  /\ Inside(g2, K, g2[x].up, g2[x].ix)
                      /\ Leads(m, g2, K, g2[x].up, g2[x].ix, x)
    BY DEF Up
  <2>1. g2[x] = g[x] /\ g[x].own # r
    BY <1>2
  <2>2. Inside(g, K, g[x].up, g[x].ix) /\ Leads(m, g, K, g[x].up, g[x].ix, x)
    BY <1>1, <2>1 DEF Forest, Up
  <2>3. g[x].up \in Pages /\ g[g[x].up].own # r
    BY <1>1, <2>1, <2>2 DEF Forest, Info, Leads
  <2>4. g2[g[x].up] = g[g[x].up]
    BY <1>3, <2>3
  <2> QED
    BY <2>1, <2>2, <2>4 DEF Leads, Inside, Copied
<1>7. Leaves(m, g2, K)
  <2> SUFFICES ASSUME NEW p \in Pages, NEW k \in Digits,
                      g2[p].own \notin {0, K}, g2[p].lev = Levels, ~Copied(g2, K, p, k)
               PROVE  m[p][k] \in UserEntries
    BY DEF Leaves
  <2>1. g2[p] = g[p]
    BY <1>2
  <2> QED
    BY <2>1 DEF Whole, Leaves, Copied
<1>8. Copies(m, K, R \ {r}) /\ Identity(m, K, n)
  BY DEF Whole, Copies
<1> HIDE DEF fr2
<1>9. Forest(m, g2, K, R \ {r}, fr2)
  BY <1>1, <1>4, <1>5, <1>6 DEF Forest, Freed
<1>10. Whole(m, g2, K, R \ {r}, fr2, n)
  BY <1>7, <1>8, <1>9 DEF Whole
<1> QED
  BY <1>10 DEF fr2

----------------------------------------------------------------------------
(* The tables of a space                                                   *)

\* Two sequences that go on in the same way are the same.
LEMMA SameSteps ==
    ASSUME VmeAssumption, NEW a, NEW b, a[1] = b[1],
           \A i \in 1 .. Levels - 1 : a[i] = b[i] => a[i + 1] = b[i + 1]
    PROVE  \A i \in 1 .. Levels : a[i] = b[i]
<1> DEFINE G == {n \in Nat : n \in 1 .. Levels => a[n] = b[n]}
<1>0. Levels \in Nat \ {0}
  BY DEF VmeAssumption
<1>1. 0 \in G
  OBVIOUS
<1>2. ASSUME NEW n \in Nat, n \in G PROVE n + 1 \in G
  <2> SUFFICES ASSUME n + 1 \in 1 .. Levels PROVE a[n + 1] = b[n + 1]
    OBVIOUS
  <2>1. CASE n = 0
    <3>1. n + 1 = 1
      BY <2>1
    <3> QED
      BY <3>1
  <2>2. CASE n # 0
    <3>1. n \in 1 .. Levels - 1 /\ n \in 1 .. Levels
      BY <1>0, <2>2
    <3> QED
      BY <1>2, <3>1
  <2> QED
    BY <2>1, <2>2
<1> HIDE DEF G
<1>3. G = Nat
  BY <1>1, <1>2, Induction DEF G
<1> QED
  BY <1>3 DEF G

\* What an entry says.
LEMMA EntryUser ==
    ASSUME NEW x, NEW r, NEW K, NEW e, e = Entry(x, TRUE, r # K)
    PROVE  e.to = x /\ (e.u <=> r # K)
<1>1. e.to = x
  BY DEF Entry
<1>2. CASE r = K
  <2>1. e = Entry(x, TRUE, FALSE)
    BY <1>2
  <2>2. e.u = FALSE
    BY ONLY <2>1 DEF Entry
  <2> QED
    BY ONLY <1>1, <1>2, <2>2
<1>3. CASE r # K
  <2>1. e = Entry(x, TRUE, TRUE)
    BY <1>3
  <2>2. e.u = TRUE
    BY ONLY <2>1 DEF Entry
  <2> QED
    BY ONLY <1>1, <1>3, <2>2
<1> QED
  BY <1>2, <1>3

Layer(g, r, i) == {p \in Pages : g[p].own = r /\ g[p].lev = i}

\* An entry that leads from a table of a space to another, and what it leads to.
LEMMA LayerGoes ==
    ASSUME VmeAssumption, NEW m, NEW g, NEW K, NEW R, NEW fr, Forest(m, g, K, R, fr),
           NEW r \in {K} \cup R, NEW i \in 1 .. Levels - 1,
           NEW p \in Pages, g[p].own = r, g[p].lev = i, NEW k \in Digits,
           ~Copied(g, K, p, k), m[p][k].to # 0
    PROVE  m[p][k].to \in Layer(g, r, i + 1) /\ (m[p][k].u <=> r # K)
<1>0. Levels \in Nat \ {0} /\ r # 0
  BY DEF VmeAssumption, Forest, Owners
<1>1. m[p][k] # Empty
  BY DEF Empty, Entry
<1>2. Inside(g, K, p, k)
  BY <1>0 DEF Inside
<1>3. Leads(m, g, K, p, k, m[p][k].to)
  BY <1>1, <1>2 DEF Forest, Down
<1>4. PICK x : x = m[p][k].to
  OBVIOUS
<1>5. Leads(m, g, K, p, k, x)
  BY <1>3, <1>4
<1>6. m[p][k].u <=> r # K
  <2>1. PICK e : e = m[p][k]
    OBVIOUS
  <2>2. e = Entry(x, TRUE, r # K)
    BY <1>5, <2>1 DEF Leads
  <2>3. e.u <=> r # K
    BY <2>2, EntryUser
  <2> QED
    BY <2>1, <2>3
<1>7. x \in Layer(g, r, i + 1)
  BY <1>5 DEF Leads, Layer
<1> QED
  BY <1>4, <1>6, <1>7

\* Each table below the first of a space has an entry that leads to it.
LEMMA LayerFrom ==
    ASSUME VmeAssumption, NEW m, NEW g, NEW K, NEW R, NEW fr, Forest(m, g, K, R, fr),
           NEW r \in {K} \cup R, NEW i \in 1 .. Levels - 1, NEW x \in Layer(g, r, i + 1)
    PROVE  \E p \in Layer(g, r, i), k \in Digits :
              m[p][k].to = x /\ x # 0 /\ (m[p][k].u <=> r # K)
<1>0. Levels \in Nat \ {0} /\ r # 0 /\ i \in Nat
  BY DEF VmeAssumption, Forest, Owners
<1>1. x \in Pages /\ x # 0 /\ g[x].own = r /\ g[x].lev = i + 1 /\ g[x].lev > 1
  BY <1>0 DEF Layer, VmeAssumption
<1>2. Leads(m, g, K, g[x].up, g[x].ix, x)
  BY <1>0, <1>1 DEF Forest, Up
<1>3. PICK p \in Pages, k \in Digits : p = g[x].up /\ k = g[x].ix
  BY <1>1 DEF Forest, Info
<1>4. Leads(m, g, K, p, k, x)
  BY <1>2, <1>3
<1>5. g[p].own = r /\ g[p].lev + 1 = i + 1
  BY <1>1, <1>4 DEF Leads
<1>6. g[p].lev = i
  <2>1. g[p].lev \in 1 .. Levels
    BY DEF Forest, Info
  <2> QED
    BY <1>0, <1>5, <2>1
<1>7. m[p][k].to = x /\ (m[p][k].u <=> r # K)
  <2>1. m[p][k] = Entry(x, TRUE, r # K)
    BY <1>4, <1>5 DEF Leads
  <2>2. m[p][k].to = x
    BY <2>1 DEF Entry
  <2>3. PICK e : e = m[p][k]
    OBVIOUS
  <2>4. e.u <=> r # K
    BY <2>1, <2>3, EntryUser, Zenon
  <2> QED
    BY <2>2, <2>3, <2>4
<1>8. p \in Layer(g, r, i)
  BY <1>5, <1>6 DEF Layer
<1> QED
  BY <1>1, <1>7, <1>8

\* The kernel's entries in a space's first table are not the user's.
LEMMA CopiesAreNot ==
    ASSUME VmeAssumption, NEW m, NEW g, NEW K, NEW R, NEW fr, Forest(m, g, K, R, fr),
           Copies(m, K, R), NEW r \in R, 1 < Levels,
           NEW p \in Pages, g[p].own = r, NEW k \in Digits, Copied(g, K, p, k)
    PROVE  ~(m[p][k].to # 0 /\ m[p][k].u)
<1>0. Levels \in Nat \ {0} /\ r # 0 /\ 1 \in 1 .. Levels - 1
  BY DEF VmeAssumption, Forest, Owners
<1>1. p = r
  BY <1>0 DEF Copied, Forest, Owners
<1>2. m[p][k] = m[K][k]
  BY <1>1 DEF Copied, Copies
<1>3. K \in Pages /\ g[K].own = K /\ g[K].lev = 1 /\ ~Copied(g, K, K, k) /\ K \in {K} \cup R
  BY DEF Forest, Owners, Copied
<1>4. m[K][k].to # 0 => (m[K][k].u <=> K # K)
  BY <1>0, <1>3, LayerGoes
<1> QED
  BY <1>2, <1>4

\* The layers of a space are all of its tables.
LEMMA Layers ==
    ASSUME VmeAssumption, NEW g \in [Pages -> Info], NEW r, NEW l, DOMAIN l = 1 .. Levels,
           l[1] = Layer(g, r, 1),
           \A i \in 1 .. Levels - 1 : l[i] = Layer(g, r, i) => l[i + 1] = Layer(g, r, i + 1)
    PROVE  UNION Range(l) = {p \in Pages : g[p].own = r}
<1>0. Levels \in Nat \ {0} /\ 1 \in 1 .. Levels
  BY DEF VmeAssumption
<1>1. PICK f : f = [i \in 1 .. Levels |-> Layer(g, r, i)]
  OBVIOUS
<1>2. \A i \in 1 .. Levels : f[i] = Layer(g, r, i)
  BY <1>1
<1>3. ASSUME NEW i \in 1 .. Levels - 1, l[i] = f[i] PROVE l[i + 1] = f[i + 1]
  <2>1. i \in 1 .. Levels /\ i + 1 \in 1 .. Levels
    BY <1>0
  <2> QED
    BY <1>2, <1>3, <2>1
<1>4. l[1] = f[1]
  BY <1>0, <1>2
<1>5. \A i \in 1 .. Levels : l[i] = f[i]
  BY <1>3, <1>4, SameSteps
<1>6. Range(l) = {Layer(g, r, i) : i \in 1 .. Levels}
  BY <1>2, <1>5 DEF Range
<1>7. \A p \in Pages : g[p].lev \in 1 .. Levels
  BY DEF Info
<1> QED
  BY <1>6, <1>7 DEF Layer

\* teardown frees the tables of the space, all of them and nothing else.
LEMMA TeardownIs ==
    ASSUME VmeAssumption, NEW g, NEW K, NEW R, NEW fr, Forest(mem, g, K, R, fr),
           Copies(mem, K, R), NEW r \in R
    PROVE  teardown(r) = {p \in Pages : g[p].own = r}
<1>0. Levels \in Nat \ {0} /\ r # 0 /\ r # K /\ r \in {K} \cup R
  BY DEF VmeAssumption, Forest, Owners
<1>1. Layer(g, r, 1) = {r}
  BY <1>0 DEF Layer, Forest, Owners
<1>2. ASSUME NEW i \in 1 .. Levels - 1 PROVE Below(Layer(g, r, i)) = Layer(g, r, i + 1)
  <2>1. ASSUME NEW x \in Below(Layer(g, r, i)) PROVE x \in Layer(g, r, i + 1)
    <3>1. PICK p \in Layer(g, r, i), k \in Digits : /\ x = mem[p][k].to
                                                   /\ mem[p][k].to # 0 /\ mem[p][k].u
      BY <2>1 DEF Below, Digits
    <3>2. p \in Pages /\ g[p].own = r /\ g[p].lev = i
      BY <3>1 DEF Layer
    <3>3. 1 < Levels
      BY <1>0
    <3>4. ~Copied(g, K, p, k)
      BY <3>1, <3>2, <3>3, CopiesAreNot
    <3> QED
      BY <1>0, <3>1, <3>2, <3>4, LayerGoes
  <2>2. ASSUME NEW x \in Layer(g, r, i + 1) PROVE x \in Below(Layer(g, r, i))
    <3>1. PICK p \in Layer(g, r, i), k \in Digits :
             mem[p][k].to = x /\ x # 0 /\ (mem[p][k].u <=> r # K)
      BY <1>0, LayerFrom
    <3> QED
      BY <1>0, <3>1 DEF Below, Digits
  <2> QED
    BY <2>1, <2>2
<1> DEFINE Next(a, i) == IF i = 1 THEN {r} ELSE Below(a[i - 1])
<1>3. PICK f : f = [i \in 1 .. Levels |-> Layer(g, r, i)]
  OBVIOUS
<1>4. f = [i \in 1 .. Levels |-> Next(f, i)]
  <2>1. ASSUME NEW i \in 1 .. Levels PROVE f[i] = Next(f, i)
    <3>1. CASE i = 1
      BY <1>1, <1>3, <3>1
    <3>2. CASE i # 1
      <4>1. i - 1 \in 1 .. Levels - 1 /\ i - 1 \in 1 .. Levels /\ (i - 1) + 1 = i
        BY <1>0, <3>2
      <4>2. Below(Layer(g, r, i - 1)) = Layer(g, r, (i - 1) + 1)
        BY <1>2, <4>1
      <4>3. f[i - 1] = Layer(g, r, i - 1) /\ f[i] = Layer(g, r, i)
        BY <1>3, <4>1
      <4> QED
        BY <3>2, <4>1, <4>2, <4>3
    <3> QED
      BY <3>1, <3>2
  <2> HIDE DEF Next
  <2> QED
    BY <1>3, <2>1
<1> DEFINE l == CHOOSE l : l = [i \in 1 .. Levels |-> Next(l, i)]
<1>5. teardown(r) = UNION Range(l)
  BY DEF teardown
<1>6. l = [i \in 1 .. Levels |-> Next(l, i)]
  BY <1>4
<1> HIDE DEF l
<1>7. DOMAIN l = 1 .. Levels /\ l[1] = Layer(g, r, 1)
  BY <1>0, <1>1, <1>6
<1>8. ASSUME NEW i \in 1 .. Levels - 1, l[i] = Layer(g, r, i)
      PROVE  l[i + 1] = Layer(g, r, i + 1)
  <2>1. i + 1 \in 1 .. Levels /\ i + 1 # 1 /\ (i + 1) - 1 = i
    BY <1>0
  <2>2. l[i + 1] = Below(l[i])
    BY <1>6, <2>1
  <2> QED
    BY <1>2, <1>8, <2>2
<1>9. g \in [Pages -> Info]
  BY DEF Forest
<1>10. UNION Range(l) = {p \in Pages : g[p].own = r}
  BY <1>7, <1>8, <1>9, Layers
<1> QED
  BY <1>5, <1>10

\* The tables of the kernel are found in the same way.
LEMMA KernelTablesAre ==
    ASSUME VmeAssumption, NEW g, NEW R, NEW fr, Forest(mem, g, kpt, R, fr)
    PROVE  KernelTables = {p \in Pages : g[p].own = kpt}
<1>0. Levels \in Nat \ {0} /\ kpt # 0 /\ kpt \in {kpt} \cup R
  BY DEF VmeAssumption, Forest, Owners
<1>1. Layer(g, kpt, 1) = {kpt}
  BY <1>0 DEF Layer, Forest, Owners
<1>2. ASSUME NEW i \in 1 .. Levels - 1 PROVE BelowAll(Layer(g, kpt, i)) = Layer(g, kpt, i + 1)
  <2>1. ASSUME NEW x \in BelowAll(Layer(g, kpt, i)) PROVE x \in Layer(g, kpt, i + 1)
    <3>1. PICK p \in Layer(g, kpt, i), k \in Digits : x = mem[p][k].to /\ mem[p][k].to # 0
      BY <2>1 DEF BelowAll, Digits
    <3>2. p \in Pages /\ g[p].own = kpt /\ g[p].lev = i
      BY <3>1 DEF Layer
    <3>3. ~Copied(g, kpt, p, k)
      BY <1>0, <3>2 DEF Copied, Forest, Owners
    <3> QED
      BY <1>0, <3>1, <3>2, <3>3, LayerGoes
  <2>2. ASSUME NEW x \in Layer(g, kpt, i + 1) PROVE x \in BelowAll(Layer(g, kpt, i))
    <3>1. PICK p \in Layer(g, kpt, i), k \in Digits :
             mem[p][k].to = x /\ x # 0 /\ (mem[p][k].u <=> kpt # kpt)
      BY <1>0, LayerFrom
    <3> QED
      BY <3>1 DEF BelowAll, Digits
  <2> QED
    BY <2>1, <2>2
<1> DEFINE Next(a, i) == IF i = 1 THEN {kpt} ELSE BelowAll(a[i - 1])
<1>3. PICK f : f = [i \in 1 .. Levels |-> Layer(g, kpt, i)]
  OBVIOUS
<1>4. f = [i \in 1 .. Levels |-> Next(f, i)]
  <2>1. ASSUME NEW i \in 1 .. Levels PROVE f[i] = Next(f, i)
    <3>1. CASE i = 1
      BY <1>1, <1>3, <3>1
    <3>2. CASE i # 1
      <4>1. i - 1 \in 1 .. Levels - 1 /\ i - 1 \in 1 .. Levels /\ (i - 1) + 1 = i
        BY <1>0, <3>2
      <4>2. BelowAll(Layer(g, kpt, i - 1)) = Layer(g, kpt, (i - 1) + 1)
        BY <1>2, <4>1
      <4>3. f[i - 1] = Layer(g, kpt, i - 1) /\ f[i] = Layer(g, kpt, i)
        BY <1>3, <4>1
      <4> QED
        BY <3>2, <4>1, <4>2, <4>3
    <3> QED
      BY <3>1, <3>2
  <2> HIDE DEF Next
  <2> QED
    BY <1>3, <2>1
<1> DEFINE l == CHOOSE l : l = [i \in 1 .. Levels |-> Next(l, i)]
<1>5. KernelTables = UNION Range(l)
  BY DEF KernelTables
<1>6. l = [i \in 1 .. Levels |-> Next(l, i)]
  BY <1>4
<1> HIDE DEF l
<1>7. DOMAIN l = 1 .. Levels /\ l[1] = Layer(g, kpt, 1)
  BY <1>0, <1>1, <1>6
<1>8. ASSUME NEW i \in 1 .. Levels - 1, l[i] = Layer(g, kpt, i)
      PROVE  l[i + 1] = Layer(g, kpt, i + 1)
  <2>1. i + 1 \in 1 .. Levels /\ i + 1 # 1 /\ (i + 1) - 1 = i
    BY <1>0
  <2>2. l[i + 1] = BelowAll(l[i])
    BY <1>6, <2>1
  <2> QED
    BY <1>2, <1>8, <2>2
<1>9. g \in [Pages -> Info]
  BY DEF Forest
<1>10. UNION Range(l) = {p \in Pages : g[p].own = kpt}
  BY <1>7, <1>8, <1>9, Layers
<1> QED
  BY <1>5, <1>10

----------------------------------------------------------------------------
(* The walk of the processor                                               *)

ThroughIn(m, e, k) ==
  IF e.to = 0 THEN Empty
  ELSE Entry(m[e.to][k].to, e.w /\ m[e.to][k].w, e.u /\ m[e.to][k].u)
TranslateIn(m, root, va) ==
  LET e[i \in 0 .. Levels] == IF i = 0 THEN Entry(root, TRUE, TRUE)
                              ELSE ThroughIn(m, e[i - 1], indexof(va, i))
  IN e[Levels]

Goes(m, root, va, f) ==
    /\ f[0] = Entry(root, TRUE, TRUE)
    /\ \A i \in 0 .. Levels - 1 : f[i + 1] = ThroughIn(m, f[i], indexof(va, i + 1))

\* What goes as the processor goes ends where it ends.
LEMMA Translates ==
    ASSUME VmeAssumption, NEW m, NEW root, NEW va, NEW f, Goes(m, root, va, f)
    PROVE  TranslateIn(m, root, va) = f[Levels]
<1> DEFINE Next(a, i) == IF i = 0 THEN Entry(root, TRUE, TRUE)
                         ELSE ThroughIn(m, a[i - 1], indexof(va, i))
<1>0. Levels \in Nat \ {0}
  BY DEF VmeAssumption
<1>a. /\ f[0] = Entry(root, TRUE, TRUE)
      /\ \A i \in 0 .. Levels - 1 : f[i + 1] = ThroughIn(m, f[i], indexof(va, i + 1))
  BY DEF Goes
<1>1. PICK h : h = [i \in 0 .. Levels |-> f[i]]
  OBVIOUS
<1>2. h = [i \in 0 .. Levels |-> Next(h, i)]
  <2>1. ASSUME NEW i \in 0 .. Levels PROVE h[i] = Next(h, i)
    <3>1. CASE i = 0
      BY <1>0, <1>1, <1>a, <3>1
    <3>2. CASE i # 0
      <4>1. i - 1 \in 0 .. Levels - 1 /\ i - 1 \in 0 .. Levels /\ (i - 1) + 1 = i
        BY <1>0, <3>2
      <4>2. f[(i - 1) + 1] = ThroughIn(m, f[i - 1], indexof(va, (i - 1) + 1))
        BY <1>a, <4>1
      <4> QED
        BY <1>1, <3>2, <4>1, <4>2
    <3> QED
      BY <3>1, <3>2
  <2> HIDE DEF Next
  <2> QED
    BY <1>1, <2>1
<1> DEFINE e == CHOOSE e : e = [i \in 0 .. Levels |-> Next(e, i)]
<1>3. TranslateIn(m, root, va) = e[Levels]
  BY DEF TranslateIn
<1>4. e = [i \in 0 .. Levels |-> Next(e, i)]
  BY <1>2
<1> HIDE DEF e
<1> DEFINE G == {n \in Nat : n <= Levels => e[n] = f[n]}
<1>5. 0 \in G
  <2>1. e[0] = Next(e, 0)
    BY <1>0, <1>4
  <2> QED
    BY <1>a, <2>1
<1>6. ASSUME NEW n \in Nat, n \in G PROVE n + 1 \in G
  <2> SUFFICES ASSUME n + 1 <= Levels PROVE e[n + 1] = f[n + 1]
    OBVIOUS
  <2>1. n \in 0 .. Levels - 1 /\ n + 1 \in 0 .. Levels /\ n + 1 # 0 /\ (n + 1) - 1 = n /\ n <= Levels
    BY <1>0
  <2>2. e[n + 1] = ThroughIn(m, e[n], indexof(va, n + 1))
    BY <1>4, <2>1
  <2>3. f[n + 1] = ThroughIn(m, f[n], indexof(va, n + 1))
    BY <1>a, <2>1
  <2> QED
    BY <1>6, <2>1, <2>2, <2>3
<1> HIDE DEF G
<1>7. G = Nat
  BY <1>5, <1>6, Induction DEF G
<1>8. e[Levels] = f[Levels]
  BY <1>0, <1>7 DEF G
<1> QED
  BY <1>3, <1>8

\* The processor goes so.
LEMMA TranslateSteps ==
    ASSUME VmeAssumption, NEW m, NEW root, NEW va
    PROVE  \E f : Goes(m, root, va, f)
<1> DEFINE Next(a, i) == IF i = 0 THEN Entry(root, TRUE, TRUE)
                         ELSE ThroughIn(m, a[i - 1], indexof(va, i))
           G == {n \in Nat : \E a : a = [i \in 0 .. n |-> Next(a, i)]}
<1>0. Levels \in Nat \ {0}
  BY DEF VmeAssumption
<1>1. 0 \in G
  <2>1. PICK a : a = [i \in 0 .. 0 |-> Entry(root, TRUE, TRUE)]
    OBVIOUS
  <2>2. ASSUME NEW i \in 0 .. 0 PROVE a[i] = Next(a, i)
    BY <2>1
  <2> HIDE DEF Next
  <2>3. a = [i \in 0 .. 0 |-> Next(a, i)]
    BY <2>1, <2>2
  <2> QED
    BY <2>3
<1>2. ASSUME NEW n \in Nat, n \in G PROVE n + 1 \in G
  <2>1. PICK a : a = [i \in 0 .. n |-> Next(a, i)]
    BY <1>2
  <2>2. PICK b : b = [i \in 0 .. n + 1 |-> IF i \in 0 .. n THEN a[i] ELSE Next(a, i)]
    OBVIOUS
  <2>3. ASSUME NEW i \in 0 .. n + 1 PROVE b[i] = Next(b, i)
    <3>1. i # 0 => i - 1 \in 0 .. n /\ i - 1 \in 0 .. n + 1
      OBVIOUS
    <3>2. i # 0 => b[i - 1] = a[i - 1]
      BY <2>2, <3>1
    <3>3. Next(b, i) = Next(a, i)
      BY <3>2
    <3>4. i \in 0 .. n => a[i] = Next(a, i)
      BY <2>1
    <3> HIDE DEF Next
    <3> QED
      BY <2>2, <3>3, <3>4
  <2> HIDE DEF Next
  <2>4. b = [i \in 0 .. n + 1 |-> Next(b, i)]
    BY <2>2, <2>3
  <2> QED
    BY <2>4
<1> HIDE DEF G
<1>3. G = Nat
  BY <1>1, <1>2, Induction DEF G
<1>4. PICK f : f = [i \in 0 .. Levels |-> Next(f, i)]
  BY <1>0, <1>3 DEF G
<1>5. f[0] = Entry(root, TRUE, TRUE)
  BY <1>0, <1>4
<1>6. ASSUME NEW i \in 0 .. Levels - 1
      PROVE  f[i + 1] = ThroughIn(m, f[i], indexof(va, i + 1))
  <2>1. i + 1 \in 0 .. Levels /\ i + 1 # 0 /\ (i + 1) - 1 = i
    BY <1>0
  <2>2. f[i + 1] = Next(f, i + 1)
    BY <1>4, <2>1
  <2> QED
    BY <2>1, <2>2
<1>7. Goes(m, root, va, f)
  BY <1>5, <1>6 DEF Goes
<1> QED
  BY <1>7

\* An entry with the rights of the tables on the way.
Rights(e, u) == Entry(e.to, e.w, e.u /\ u)

\* In a forest the processor comes to the entry of the page, with these rights.
LEMMA TranslateIs ==
    ASSUME VmeAssumption, NEW m, NEW g, NEW K, NEW R, NEW fr, Forest(m, g, K, R, fr),
           NEW root, NEW va, Walks(K, R, root, va)
    PROVE  TranslateIn(m, root, va) = Rights(Target(m, root, va), root # K \/ Levels = 1)
<1> DEFINE w == WalkIn(m, root, va)
           Found(i) == IF w[i] = 0 THEN Empty ELSE m[w[i]][indexof(va, i)]
<1>0. Levels \in Nat \ {0} /\ va \in VirtualPages
  BY DEF VmeAssumption, Walks
<1>1. /\ w[1] = root /\ root # 0
      /\ \A i \in 1 .. Levels : w[i] # 0 => At(g, K, root, va, i, w[i])
      /\ \A i \in 1 .. Levels - 1 :
            /\ w[i] = 0 => w[i + 1] = 0
            /\ w[i] # 0 => Link(m, K, root, va, i, w[i], w[i + 1])
  BY WalkStays
<1> HIDE DEF w
<1>2. ASSUME NEW i \in 1 .. Levels PROVE Found(i) \in Word
  <2>1. w[i] # 0 => w[i] \in Pages
    BY <1>1 DEF At
  <2>2. indexof(va, i) \in Digits
    BY <1>0, DigitsAre
  <2> QED
    BY <2>1, <2>2 DEF Forest, Word, Empty, Entry
<1>3. PICK f : f = [i \in 0 .. Levels |-> IF i = 0 THEN Entry(root, TRUE, TRUE)
                                         ELSE Rights(Found(i), root # K \/ i = 1)]
  OBVIOUS
<1>4. f[0] = Entry(root, TRUE, TRUE)
  BY <1>0, <1>3
<1>5. ASSUME NEW i \in 0 .. Levels - 1
      PROVE  f[i + 1] = ThroughIn(m, f[i], indexof(va, i + 1))
  <2>1. i + 1 \in 1 .. Levels /\ i + 1 \in 0 .. Levels /\ i + 1 # 0 /\ i \in 0 .. Levels
    BY <1>0
  <2>2. f[i + 1] = Rights(Found(i + 1), root # K \/ i + 1 = 1)
    BY <1>3, <2>1
  <2>3. PICK y \in Word : y = Found(i + 1)
    BY <1>2, <2>1
  <2>4. CASE i = 0
    <3>1. f[i] = Entry(root, TRUE, TRUE) /\ i + 1 = 1 /\ y = m[root][indexof(va, i + 1)]
      <4>1. w[i + 1] = root /\ root # 0 /\ i + 1 = 1
        BY <1>1, <2>4
      <4>2. y = m[root][indexof(va, i + 1)]
        BY <2>3, <4>1
      <4> QED
        BY <1>4, <2>4, <4>1, <4>2
    <3>2. ThroughIn(m, f[i], indexof(va, i + 1)) = Entry(y.to, TRUE /\ y.w, TRUE /\ y.u)
      BY <1>1, <3>1 DEF ThroughIn, Entry
    <3>3. f[i + 1] = Entry(y.to, y.w, y.u /\ TRUE)
      BY <2>2, <2>3, <3>1 DEF Rights
    <3> QED
      BY <2>3, <3>2, <3>3 DEF Word
  <2>5. CASE i # 0
    <3>1. i \in 1 .. Levels - 1 /\ i \in 1 .. Levels /\ i + 1 # 1
      BY <1>0, <2>5
    <3>2. f[i] = Rights(Found(i), root # K \/ i = 1)
      BY <1>3, <2>1, <2>5
    <3>3. CASE w[i + 1] = 0
      <4>1. Found(i) = Empty
        BY <1>1, <3>1, <3>3 DEF Link
      <4>2. f[i].to = 0
        BY <3>2, <4>1 DEF Rights, Empty, Entry
      <4>3. ThroughIn(m, f[i], indexof(va, i + 1)) = Empty
        BY <4>2 DEF ThroughIn
      <4>4. f[i + 1] = Empty
        BY <2>2, <3>3 DEF Rights, Empty, Entry
      <4> QED
        BY <4>3, <4>4
    <3>4. CASE w[i + 1] # 0
      <4>1. w[i] # 0 /\ Found(i) = Entry(w[i + 1], TRUE, root # K)
        BY <1>1, <3>1, <3>4 DEF Link
      <4>2. PICK u \in BOOLEAN : u <=> root # K
        OBVIOUS
      <4>3. f[i].to = w[i + 1] /\ f[i].w = TRUE /\ (f[i].u <=> u)
        BY <3>2, <4>1, <4>2 DEF Rights, Entry
      <4>4. y = m[w[i + 1]][indexof(va, i + 1)]
        BY <2>3, <3>4
      <4>5. ThroughIn(m, f[i], indexof(va, i + 1)) = Entry(y.to, y.w, u /\ y.u)
        BY <2>3, <3>4, <4>3, <4>4 DEF ThroughIn, Word
      <4>6. f[i + 1] = Entry(y.to, y.w, y.u /\ u)
        BY <2>2, <2>3, <3>1, <4>2 DEF Rights
      <4> QED
        BY <2>3, <4>5, <4>6 DEF Word
    <3> QED
      BY <3>3, <3>4
  <2> QED
    BY <2>4, <2>5
<1>6. TranslateIn(m, root, va) = f[Levels]
  <2>1. Goes(m, root, va, f)
    BY <1>4, <1>5 DEF Goes
  <2> QED
    BY <2>1, Translates
<1>7. f[Levels] = Rights(Found(Levels), root # K \/ Levels = 1)
  BY <1>0, <1>3
<1> QED
  BY <1>6, <1>7 DEF Target, LastTable, w

\* A space sees the pages of the kernel as the kernel does.
LEMMA KernelSeen ==
    ASSUME VmeAssumption, NEW m, NEW K, NEW R, Copies(m, K, R), 0 \notin R, K # 0,
           NEW r \in R, NEW va \in KernelPages
    PROVE  TranslateIn(m, r, va) = TranslateIn(m, K, va)
<1>0. Levels \in Nat \ {0}
  BY DEF VmeAssumption
<1>a. PICK h : Goes(m, K, va, h)
  BY TranslateSteps
<1>1. /\ h[0] = Entry(K, TRUE, TRUE)
      /\ \A i \in 0 .. Levels - 1 : h[i + 1] = ThroughIn(m, h[i], indexof(va, i + 1))
  BY <1>a DEF Goes
<1>2. PICK f : f = [i \in 0 .. Levels |-> IF i = 0 THEN Entry(r, TRUE, TRUE) ELSE h[i]]
  OBVIOUS
<1>3. f[0] = Entry(r, TRUE, TRUE)
  BY <1>0, <1>2
<1>4. ASSUME NEW i \in 0 .. Levels - 1
      PROVE  f[i + 1] = ThroughIn(m, f[i], indexof(va, i + 1))
  <2>1. i + 1 \in 0 .. Levels /\ i + 1 # 0 /\ i \in 0 .. Levels
    BY <1>0
  <2>2. f[i + 1] = h[i + 1] /\ h[i + 1] = ThroughIn(m, h[i], indexof(va, i + 1))
    BY <1>1, <1>2, <2>1
  <2>3. CASE i = 0
    <3>1. indexof(va, i + 1) \in Kernel
      BY <2>3 DEF KernelPages
    <3>2. m[r][indexof(va, i + 1)] = m[K][indexof(va, i + 1)]
      BY <3>1 DEF Copies
    <3>3. f[i] = Entry(r, TRUE, TRUE) /\ h[i] = Entry(K, TRUE, TRUE) /\ r # 0
      BY <1>1, <1>3, <2>3
    <3>4. ThroughIn(m, f[i], indexof(va, i + 1)) = ThroughIn(m, h[i], indexof(va, i + 1))
      BY <3>2, <3>3 DEF ThroughIn, Entry
    <3> QED
      BY <2>2, <3>4
  <2>4. CASE i # 0
    <3>1. f[i] = h[i]
      BY <1>2, <2>1, <2>4
    <3> QED
      BY <2>2, <3>1
  <2> QED
    BY <2>3, <2>4
<1>5. TranslateIn(m, r, va) = f[Levels]
  <2>1. Goes(m, r, va, f)
    BY <1>3, <1>4 DEF Goes
  <2> QED
    BY <2>1, Translates
<1>6. TranslateIn(m, K, va) = h[Levels]
  BY <1>a, Translates
<1>7. f[Levels] = h[Levels]
  BY <1>0, <1>2
<1> QED
  BY <1>5, <1>6, <1>7

----------------------------------------------------------------------------
(* ptwalk                                                                  *)

\* The walk of the code is the walk in the memory.
LEMMA ExistingIs ==
    ASSUME NEW root, NEW va
    PROVE  /\ Existing(root, va) = WalkIn(mem, root, va)
           /\ Translate(root, va) = TranslateIn(mem, root, va)
<1>1. Existing(root, va) = WalkIn(mem, root, va)
  BY DEF Existing, WalkIn, Follow
<1>2. Translate(root, va) = TranslateIn(mem, root, va)
  BY DEF Translate, TranslateIn, Through, ThroughIn
<1> QED
  BY <1>1, <1>2

\* The tables of a walk that exist come first.
LEMMA OldFirst ==
    ASSUME VmeAssumption, NEW w, w[1] # 0,
           \A i \in 1 .. Levels - 1 : w[i] = 0 => w[i + 1] = 0
    PROVE  \E n \in 1 .. Levels : \A i \in 1 .. Levels : w[i] # 0 <=> i <= n
<1>0. Levels \in Nat \ {0}
  BY DEF VmeAssumption
<1>1. CASE \A i \in 1 .. Levels : w[i] # 0
  <2>1. Levels \in 1 .. Levels /\ \A i \in 1 .. Levels : i <= Levels
    BY <1>0
  <2> QED
    BY <1>1, <2>1
<1>2. CASE ~ \A i \in 1 .. Levels : w[i] # 0
  <2> DEFINE Z == {i \in 1 .. Levels : w[i] = 0}
  <2>1. Z \in SUBSET Nat /\ Z # {}
    BY <1>0, <1>2
  <2>2. PICK z \in Z : \A y \in Z : z <= y
    BY <2>1, LeastNumber
  <2>3. z \in 1 .. Levels /\ w[z] = 0 /\ z # 1
    OBVIOUS
  <2> DEFINE G == {n \in Nat : z + n <= Levels => w[z + n] = 0}
  <2>4. 0 \in G
    BY <2>3
  <2>5. ASSUME NEW n \in Nat, n \in G PROVE n + 1 \in G
    <3> SUFFICES ASSUME z + (n + 1) <= Levels PROVE w[z + (n + 1)] = 0
      OBVIOUS
    <3>1. z + n \in 1 .. Levels - 1 /\ z + n <= Levels /\ (z + n) + 1 = z + (n + 1)
      BY <1>0, <2>3
    <3> QED
      BY <2>5, <3>1
  <2> HIDE DEF G
  <2>6. G = Nat
    BY <2>4, <2>5, Induction DEF G
  <2>7. ASSUME NEW i \in 1 .. Levels PROVE w[i] # 0 <=> i <= z - 1
    <3>1. CASE i < z
      <4>1. i \notin Z
        BY <1>0, <2>2, <2>3, <3>1
      <4> QED
        BY <1>0, <2>3, <3>1, <4>1
    <3>2. CASE ~(i < z)
      <4>1. i - z \in Nat /\ z + (i - z) = i /\ z + (i - z) <= Levels /\ ~(i <= z - 1)
        BY <1>0, <2>3, <3>2
      <4>2. w[z + (i - z)] = 0
        BY <2>6, <4>1 DEF G
      <4> QED
        BY <4>1, <4>2
    <3> QED
      BY <3>1, <3>2
  <2>8. z - 1 \in 1 .. Levels
    BY <1>0, <2>3
  <2> QED
    BY <2>7, <2>8
<1> QED
  BY <1>1, <1>2

\* When there is room, ptwalk has a table for each level, the new ones free and apart.
LEMMA WalkAllocates ==
    ASSUME VmeAssumption, NEW g, NEW K, NEW R, Forest(mem, g, K, R, free), free \subseteq Pages,
           NEW root, NEW va, Walks(K, R, root, va), NEW w, w = WalkIn(mem, root, va), HasRoom(w)
    PROVE  Allocated(w, Walk(w), free)
<1> DEFINE t == Walk(w)
           old == Cardinality({i \in DOMAIN w : w[i] # 0})
<1>0. Levels \in Nat \ {0} /\ DOMAIN w = 1 .. Levels
  BY WalkSteps DEF VmeAssumption
<1>1. /\ w[1] = root /\ root # 0
      /\ \A i \in 1 .. Levels : w[i] # 0 => At(g, K, root, va, i, w[i])
      /\ \A i \in 1 .. Levels - 1 : w[i] = 0 => w[i + 1] = 0
  BY WalkStays
<1>2. PICK n \in 1 .. Levels : \A i \in 1 .. Levels : w[i] # 0 <=> i <= n
  BY <1>1, OldFirst
<1>3. old = n
  <2>1. {i \in DOMAIN w : w[i] # 0} = 1 .. n
    BY <1>0, <1>2
  <2>2. Cardinality(1 .. n) = IF 1 > n THEN 0 ELSE n - 1 + 1
    BY FS_Interval
  <2>3. n \in Nat /\ n >= 1
    BY <1>0
  <2>4. Cardinality(1 .. n) = n
    BY <2>2, <2>3
  <2> QED
    BY <2>1, <2>4
<1>4. Cardinality({i \in DOMAIN w : w[i] = 0}) = Levels - n
  <2>1. {i \in DOMAIN w : w[i] = 0} = n + 1 .. Levels
    BY <1>0, <1>2
  <2>2. n + 1 \in Int /\ Levels \in Int /\ n <= Levels
    BY <1>0
  <2>3. Cardinality(n + 1 .. Levels) = IF n + 1 > Levels THEN 0 ELSE Levels - (n + 1) + 1
    BY <2>2, FS_Interval
  <2>4. Cardinality(n + 1 .. Levels) = Levels - n
    BY <1>0, <2>2, <2>3
  <2> QED
    BY <2>1, <2>4
<1>5. Cardinality(free) \in Nat /\ Levels - n <= Cardinality(free)
  BY <1>4, Allocates DEF HasRoom
<1>6. t = [i \in 1 .. Levels |-> IF w[i] # 0 THEN w[i] ELSE pgalloc(i - old)]
  BY <1>0 DEF Walk
<1> HIDE DEF t, old
<1>7. ASSUME NEW i \in 1 .. Levels, w[i] = 0 PROVE i - n \in 1 .. Cardinality(free)
  BY <1>0, <1>2, <1>5, <1>7
<1>8. \A i \in 1 .. Levels : /\ w[i] # 0 => t[i] = w[i]
                             /\ w[i] = 0 => t[i] = pgalloc(i - n)
  BY <1>3, <1>6
<1>9. \A i \in 1 .. Levels : w[i] = 0 => t[i] \in free
  BY <1>7, <1>8, Allocates
<1>10. \A i \in 1 .. Levels : w[i] # 0 => t[i] \in Pages /\ t[i] \notin free /\ g[t[i]].lev = i
  BY <1>1, <1>8 DEF At, Forest, Owners
<1>11. t \in [1 .. Levels -> Pages]
  BY <1>6, <1>9, <1>10
<1>12. ASSUME NEW i \in 1 .. Levels, NEW j \in 1 .. Levels, t[i] = t[j] PROVE i = j
  <2>1. CASE w[i] # 0
    BY <1>9, <1>10, <1>12, <2>1
  <2>2. CASE w[i] = 0
    <3>1. w[j] = 0
      BY <1>9, <1>10, <1>12, <2>2
    <3>2. pgalloc(i - n) = pgalloc(j - n)
      BY <1>8, <1>12, <2>2, <3>1
    <3>3. i - n \in 1 .. Cardinality(free) /\ j - n \in 1 .. Cardinality(free)
      BY <1>7, <2>2, <3>1
    <3>4. i - n = j - n
      BY <3>2, <3>3, Allocates
    <3> QED
      BY <3>4
  <2> QED
    BY <2>1, <2>2
<1>13. Allocated(w, t, free)
  BY <1>8, <1>9, <1>11, <1>12 DEF Allocated
<1> QED
  BY <1>13 DEF t

\* What is in the memory when the entry is written.
TableFlags(flags, root, K) == flags = Entry(0, TRUE, root # K)
Stored(w, t, va, flags, e) ==
    [p \in Pages |-> IF p \in Range(t)
                     THEN TableAfter(w, t, CHOOSE i \in DOMAIN t : t[i] = p, va, flags, e)
                     ELSE mem[p]]

\* It is what the walk asks for.
LEMMA StoredIs ==
    ASSUME VmeAssumption, NEW g, NEW K, NEW R, Forest(mem, g, K, R, free),
           NEW root, NEW va, Walks(K, R, root, va), NEW w, w = WalkIn(mem, root, va),
           NEW t, Allocated(w, t, free), NEW flags, TableFlags(flags, root, K),
           NEW e \in Word, NEW m2, m2 = Stored(w, t, va, flags, e)
    PROVE  Written(mem, w, t, va, root, K, e, m2)
<1>0. Levels \in Nat \ {0} /\ va \in VirtualPages
  BY DEF VmeAssumption, Walks
<1>1. \A i \in 1 .. Levels - 1 : w[i] = 0 => w[i + 1] = 0
  BY WalkStays
<1>2. /\ t \in [1 .. Levels -> Pages] /\ DOMAIN t = 1 .. Levels
      /\ \A i, j \in 1 .. Levels : t[i] = t[j] => i = j
  BY DEF Allocated
<1>3. PICK u \in BOOLEAN : u <=> root # K
  OBVIOUS
<1>4. flags.w = TRUE /\ (flags.u <=> u)
  BY <1>3 DEF TableFlags, Entry
<1>5. ASSUME NEW i \in 1 .. Levels
      PROVE  m2[t[i]] = TableAfter(w, t, i, va, flags, e)
  <2>1. t[i] \in Pages /\ t[i] \in Range(t)
    BY <1>2 DEF Range
  <2>2. (CHOOSE j \in DOMAIN t : t[j] = t[i]) = i
    BY <1>2
  <2> QED
    BY <2>1, <2>2 DEF Stored
<1>6. ASSUME NEW p \in Pages, \A i \in 1 .. Levels : t[i] # p PROVE m2[p] = mem[p]
  <2>1. p \notin Range(t)
    BY <1>2, <1>6 DEF Range
  <2> QED
    BY <2>1 DEF Stored
<1>7. ASSUME NEW i \in 1 .. Levels
      PROVE  /\ m2[t[i]] \in [Digits -> Word]
             /\ \A k \in Digits : m2[t[i]][k] = After(mem, w, t, va, root, K, e, i, k)
  <2>1. indexof(va, i) \in Digits
    BY <1>0, DigitsAre
  <2>2. PICK x : x = IF w[i] = 0 THEN Zeroed ELSE mem[t[i]]
    OBVIOUS
  <2>3. x \in [Digits -> Word]
    BY <1>2, <2>2 DEF Zeroed, Digits, Word, Empty, Entry, Forest
  <2>4. PICK y : y = IF i = Levels THEN e
                     ELSE IF w[i + 1] = 0 THEN Entry(t[i + 1], TRUE, root # K)
                     ELSE x[indexof(va, i)]
    OBVIOUS
  <2>5. y \in Word
    <3>1. CASE i = Levels
      BY <2>4, <3>1
    <3>2. CASE i # Levels
      <4>1. i + 1 \in 1 .. Levels
        BY <1>0, <3>2
      <4>2. t[i + 1] \in Nat
        BY <1>2, <4>1 DEF VmeAssumption
      <4>3. Entry(t[i + 1], TRUE, root # K) \in Word
        BY <4>2 DEF Entry, Word
      <4> QED
        BY <2>1, <2>3, <2>4, <3>2, <4>3
    <3> QED
      BY <3>1, <3>2
  <2>6. Entry(t[i + 1], flags.w, flags.u) = Entry(t[i + 1], TRUE, root # K)
    BY DEF Entry, TableFlags
  <2>7. m2[t[i]] = [x EXCEPT ![indexof(va, i)] = y]
    BY <1>5, <2>1, <2>2, <2>3, <2>4, <2>6 DEF TableAfter, pgallocz
  <2>8. m2[t[i]] \in [Digits -> Word]
    BY <2>3, <2>5, <2>7
  <2>9. ASSUME NEW k \in Digits
        PROVE  m2[t[i]][k] = After(mem, w, t, va, root, K, e, i, k)
    <3>1. CASE k = indexof(va, i)
      <4>1. m2[t[i]][k] = y
        BY <2>3, <2>7, <3>1
      <4>2. i # Levels /\ w[i + 1] # 0 => w[i] # 0
        <5>1. i # Levels => i \in 1 .. Levels - 1
          BY <1>0
        <5> QED
          BY <1>1, <5>1
      <4> QED
        BY <2>2, <2>4, <3>1, <4>1, <4>2 DEF After
    <3>2. CASE k # indexof(va, i)
      <4>1. m2[t[i]][k] = x[k]
        BY <2>3, <2>7, <3>2
      <4>2. Zeroed[k] = Empty
        BY DEF Zeroed, Digits
      <4> QED
        BY <2>2, <3>2, <4>1, <4>2 DEF After
    <3> QED
      BY <3>1, <3>2
  <2> QED
    BY <2>8, <2>9
<1>8. m2 \in [Pages -> [Digits -> Word]]
  <2>1. ASSUME NEW p \in Pages PROVE m2[p] \in [Digits -> Word]
    BY <1>6, <1>7 DEF Forest
  <2>2. m2 = [p \in Pages |-> m2[p]]
    BY DEF Stored
  <2> QED
    BY <2>1, <2>2
<1> QED
  BY <1>6, <1>7, <1>8 DEF Written

Made(m, g, K, R, fr, root, va, w, t, e, m2, g2, fr2) ==
    /\ Growth(m, g, K, R, fr, root, va, w, t, e, m2, g2)
    /\ fr2 = {p \in fr : \A i \in 1 .. Levels : t[i] # p}

\* A write for a page panics, or makes the tables of its walk.
LEMMA WriteGrows ==
    ASSUME VmeAssumption, NEW g, NEW K, NEW R, Forest(mem, g, K, R, free), free \subseteq Pages,
           NEW root, NEW va, Walks(K, R, root, va), NEW flags, TableFlags(flags, root, K),
           NEW e \in Word, ~panic, Write(root, va, flags, e)
    PROVE  \/ panic' = TRUE /\ mem' = mem /\ free' = free
           \/ panic' = panic /\ \E w, t, g2 : Made(mem, g, K, R, free, root, va, w, t, e,
                                                   mem', g2, free')
<1>1. PICK w : w = Existing(root, va) /\ w = WalkIn(mem, root, va)
  BY ExistingIs
<1>2. CASE ~HasRoom(w)
  BY <1>1, <1>2 DEF Write
<1>3. CASE HasRoom(w)
  <2>1. PICK t : t = Walk(w)
    OBVIOUS
  <2>2. /\ mem' = Stored(w, t, va, flags, e)
        /\ free' = free \ Range(t)
        /\ panic' = panic
    <3>1. PICK at \in {Existing(root, va)} :
             /\ HasRoom(at)
             /\ \E tables \in {Walk(at)} :
                  mem' = Stored(at, tables, va, flags, e) /\ free' = free \ Range(tables)
             /\ UNCHANGED panic
      BY <1>1, <1>3, Zenon DEF Write, Stored
    <3>2. at = w
      BY <1>1
    <3> QED
      BY <2>1, <3>1, <3>2
  <2>3. Allocated(w, t, free)
    BY <1>1, <1>3, <2>1, WalkAllocates
  <2>4. PICK g2 : Grown(g, w, t, root, va, g2)
    BY <1>1, <2>3, Grows
  <2>5. Written(mem, w, t, va, root, K, e, mem')
    <3>1. PICK m2 : m2 = mem'
      OBVIOUS
    <3>2. m2 = Stored(w, t, va, flags, e)
      BY <2>2, <3>1
    <3>3. Written(mem, w, t, va, root, K, e, m2)
      BY <1>1, <2>3, <3>2, StoredIs
    <3> QED
      BY <3>1, <3>3
  <2>6. Growth(mem, g, K, R, free, root, va, w, t, e, mem', g2)
    BY <1>1, <2>3, <2>4, <2>5 DEF Growth
  <2>7. free' = {p \in free : \A i \in 1 .. Levels : t[i] # p}
    <3>1. DOMAIN t = 1 .. Levels
      BY <2>3 DEF Allocated
    <3> QED
      BY <2>2, <3>1 DEF Range
  <2>8. Made(mem, g, K, R, free, root, va, w, t, e, mem', g2, free')
    BY <2>6, <2>7 DEF Made
  <2> QED
    BY <2>2, <2>8
<1> QED
  BY <1>2, <1>3

----------------------------------------------------------------------------
(* What the spaces see                                                     *)

SeenIn(m, r, va) == ForUser(TranslateIn(m, r, va))
AllSeen(m, f) == [s \in Spaces |-> IF f[s] = 0 THEN Unset ELSE [va \in UserPages |-> SeenIn(m, f[s], va)]]

\* What the spaces see, of the memory and the first tables before and after a step.
LEMMA SpacesAre ==
    /\ SpacesSeen = AllSeen(mem, ptr) /\ SpacesSeen' = AllSeen(mem', ptr')
    /\ \A s, va : Seen(s, va) = SeenIn(mem, ptr[s], va) /\ Seen(s, va)' = SeenIn(mem', ptr'[s], va)
<1>1. \A r, va : Translate(r, va) = TranslateIn(mem, r, va)
  BY ExistingIs
<1>2. \A s, va : Seen(s, va) = SeenIn(mem, ptr[s], va)
  BY <1>1 DEF Seen, SeenIn
<1>3. \A s, va : Seen(s, va)' = SeenIn(mem', ptr'[s], va)
  BY DEF Seen, SeenIn, Translate, TranslateIn, Through, ThroughIn
<1>4. SpacesSeen = AllSeen(mem, ptr)
  BY <1>2 DEF SpacesSeen, AllSeen
<1>5. SpacesSeen' = AllSeen(mem', ptr')
  BY <1>3 DEF SpacesSeen, AllSeen
<1> QED
  BY <1>2, <1>3, <1>4, <1>5

\* A step is as promised when what the spaces see after it follows from before.
LEMMA Promised ==
    ASSUME NEW a, a = SpacesSeen, NEW b, b = SpacesSeen', Promise!Call(a, b) \/ a = b
    PROVE  PromisedStep
<1>1. CASE Promise!Call(a, b)
  BY <1>1 DEF PromisedStep, Promise!Next
<1>2. CASE a = b
  BY <1>2 DEF PromisedStep
<1> QED
  BY <1>1, <1>2

\* What a user sees of a page is its entry.
LEMMA SeenIs ==
    ASSUME VmeAssumption, NEW m, NEW g, NEW K, NEW R, NEW fr, Forest(m, g, K, R, fr),
           Leaves(m, g, K), NEW r \in R, NEW va \in UserPages
    PROVE  SeenIn(m, r, va) = ForUser(Target(m, r, va))
<1>0. Levels \in Nat \ {0} /\ Levels \in 1 .. Levels /\ va \in VirtualPages /\ r # K /\ r # 0
  BY DEF VmeAssumption, UserPages, Forest, Owners
<1>1. Walks(K, R, r, va)
  BY <1>0 DEF Walks
<1>2. PICK e : e = Target(m, r, va)
  OBVIOUS
<1>3. e \in UserEntries
  <2>1. CASE LastTable(m, r, va) = 0
    BY <1>2, <2>1 DEF Target, UserEntries
  <2>2. CASE LastTable(m, r, va) # 0
    <3>1. At(g, K, r, va, Levels, LastTable(m, r, va))
      BY <1>0, <1>1, <2>2, WalkStays DEF LastTable
    <3>2. indexof(va, Levels) \in Digits
      BY <1>0, DigitsAre
    <3> QED
      BY <1>0, <1>2, <2>2, <3>1, <3>2 DEF At, Leaves, Target
  <2> QED
    BY <2>1, <2>2
<1>4. TranslateIn(m, r, va) = Rights(e, TRUE)
  <2>1. TranslateIn(m, r, va) = Rights(e, r # K \/ Levels = 1)
    BY <1>1, <1>2, TranslateIs
  <2>2. Rights(e, r # K \/ Levels = 1) = Rights(e, TRUE)
    BY <1>0 DEF Rights
  <2> QED
    BY <2>1, <2>2
<1>5. Rights(e, TRUE) = e
  <2>1. CASE e = Empty
    BY <2>1 DEF Rights, Empty, Entry
  <2>2. CASE e # Empty
    <3>1. e \in [to : Frames, w : BOOLEAN, u : {TRUE}]
      BY <1>3, <2>2 DEF UserEntries
    <3>2. e = Entry(e.to, e.w, e.u) /\ e.u = TRUE
      BY <3>1 DEF Entry
    <3> QED
      BY <3>2 DEF Rights, Entry
  <2> QED
    BY <2>1, <2>2
<1> QED
  BY <1>2, <1>4, <1>5 DEF SeenIn

\* The entry a space has for a page of the user's.
LEMMA UserTarget ==
    ASSUME VmeAssumption, NEW m, NEW g, NEW K, NEW R, NEW fr, Forest(m, g, K, R, fr),
           Leaves(m, g, K), NEW r \in R, NEW va \in UserPages
    PROVE  Target(m, r, va) \in UserEntries
<1>0. Levels \in Nat \ {0} /\ Levels \in 1 .. Levels /\ va \in VirtualPages /\ r # K /\ r # 0
  BY DEF VmeAssumption, UserPages, Forest, Owners
<1>1. Walks(K, R, r, va)
  BY <1>0 DEF Walks
<1>2. CASE LastTable(m, r, va) = 0
  BY <1>2 DEF Target, UserEntries
<1>3. CASE LastTable(m, r, va) # 0
  <2>1. At(g, K, r, va, Levels, LastTable(m, r, va))
    BY <1>0, <1>1, <1>3, WalkStays DEF LastTable
  <2>2. indexof(va, Levels) \in Digits
    BY <1>0, DigitsAre
  <2> QED
    BY <1>0, <1>3, <2>1, <2>2 DEF At, Leaves, Target
<1> QED
  BY <1>2, <1>3

\* What a space sees of all its pages.
View(m, r) == [va \in UserPages |-> SeenIn(m, r, va)]

\* A space whose entries stay sees what it saw.
LEMMA ViewKept ==
    ASSUME VmeAssumption, NEW m, NEW g, NEW K, NEW R, NEW fr, Forest(m, g, K, R, fr),
           Leaves(m, g, K), NEW m2, NEW g2, NEW R2, NEW fr2, Forest(m2, g2, K, R2, fr2),
           Leaves(m2, g2, K), NEW r \in R, r \in R2,
           \A va \in UserPages : Target(m2, r, va) = Target(m, r, va)
    PROVE  View(m2, r) = View(m, r)
<1>1. ASSUME NEW va \in UserPages PROVE SeenIn(m2, r, va) = SeenIn(m, r, va)
  <2>1. SeenIn(m, r, va) = ForUser(Target(m, r, va))
    BY SeenIs
  <2>2. SeenIn(m2, r, va) = ForUser(Target(m2, r, va))
    BY SeenIs
  <2> QED
    BY <2>1, <2>2
<1> QED
  BY <1>1 DEF View

----------------------------------------------------------------------------
(* The invariant, and that each call keeps it and its promise              *)

VmeInv == VmeTypes /\ (kpt # 0 /\ ~panic => \E g : Whole(mem, g, kpt, Roots, free, cur))

\* A machine on which vme_init has not run.
LEMMA VmeStarts ==
    ASSUME VmeAssumption, VmeInit
    PROVE  VmeInv /\ Promise!Init
<1>1. Zeroed \in [Digits -> Word]
  BY DEF Zeroed, Digits, Word, Empty, Entry
<1>2. VmeTypes
  BY <1>1 DEF VmeInit, VmeTypes
<1>3. VmeInv
  BY <1>2 DEF VmeInv, VmeInit
<1>4. Unset = Promise!Gone
  BY DEF Unset, Promise!Gone
<1>5. SpacesSeen = [s \in Spaces |-> Promise!Gone]
  BY <1>4 DEF SpacesSeen, VmeInit
<1> QED
  BY <1>3, <1>5 DEF Promise!Init

\* Without spaces nothing is seen.
LEMMA NoSpaces ==
    ASSUME \A s \in Spaces : ptr[s] = 0, ptr' = ptr
    PROVE  PromisedStep
<1>1. SpacesSeen' = SpacesSeen
  BY DEF SpacesSeen
<1> QED
  BY <1>1 DEF PromisedStep

\* The forest of one page.
First(q) == [p \in Pages |-> [own |-> IF p = q THEN q ELSE 0, lev |-> 1, up |-> q, ix |-> 0]]

\* The first table of the kernel, in a page of its own, is such a forest.
LEMMA FirstTable ==
    ASSUME VmeAssumption, NEW q \in Pages, NEW m, m \in [Pages -> [Digits -> Word]],
           m[q] = Zeroed
    PROVE  Whole(m, First(q), q, {}, Pages \ {q}, 0)
<1> DEFINE g == First(q)
<1>0. Levels \in Nat \ {0} /\ 0 \in Digits /\ 1 \in 1 .. Levels /\ q \in Nat \ {0} /\ Pages \subseteq Nat
  BY DEF VmeAssumption, Digits
<1>1. \A p \in Pages : /\ g[p].own = (IF p = q THEN q ELSE 0) /\ g[p].lev = 1
                        /\ g[p].up = q /\ g[p].ix = 0
  BY DEF First
<1>2. g \in [Pages -> Info]
  BY <1>0 DEF First, Info
<1> HIDE DEF g
<1>3. Owners(g, q, {}, Pages \ {q})
  BY <1>0, <1>1 DEF Owners
<1>4. \A k \in Digits : m[q][k] = Empty
  BY DEF Zeroed, Digits
<1>5. Down(m, g, q)
  BY <1>1, <1>4 DEF Down, Inside
<1>6. Up(m, g, q)
  BY <1>1 DEF Up
<1>7. Leaves(m, g, q) /\ Copies(m, q, {}) /\ Identity(m, q, 0)
  <2>1. Identity(m, q, 0)
    <3>1. \A va \in KernelPages : va \in Nat
      BY SpansAre DEF KernelPages, VirtualPages, VmeAssumption
    <3>2. \A va \in KernelPages : ~(va < 0)
      BY <3>1
    <3> QED
      BY <3>2 DEF Identity
  <2> QED
    BY <1>1, <2>1 DEF Leaves, Copies
<1>8. Forest(m, g, q, {}, Pages \ {q})
  BY <1>2, <1>3, <1>5, <1>6 DEF Forest
<1>9. Whole(m, g, q, {}, Pages \ {q}, 0)
  BY <1>7, <1>8 DEF Whole
<1> QED
  BY <1>9 DEF g

\* vme_init, its first table.
LEMMA VmeInitKeeps ==
    ASSUME VmeAssumption, VmeInv, vme_init
    PROVE  VmeInv' /\ PromisedStep
<1>1. /\ VmeTypes /\ ~panic /\ kpt = 0 /\ free = Pages /\ free \subseteq Pages
      /\ \A s \in Spaces : ptr[s] = 0
  BY DEF VmeInv, VmeTypes, vme_init
<1>2. PICK q : q = pgalloc(1)
  OBVIOUS
<1>3. q \in Pages
  <2>1. Cardinality(free) # 0
    BY <1>1, FS_EmptySet, Allocates DEF VmeAssumption
  <2>2. 1 \in 1 .. Cardinality(free)
    BY <1>1, <2>1, Allocates
  <2> QED
    BY <1>1, <1>2, <2>2, Allocates
<1>4. /\ kpt' = q /\ cur' = 0 /\ mem' = [mem EXCEPT ![q] = Zeroed] /\ free' = Pages \ {q}
      /\ ptr' = ptr /\ panic' = panic
  BY <1>1, <1>2 DEF vme_init, pgallocz
<1>5. mem' \in [Pages -> [Digits -> Word]] /\ mem'[q] = Zeroed
  <2>1. Zeroed \in [Digits -> Word]
    BY DEF Zeroed, Digits, Word, Empty, Entry
  <2> QED
    BY <1>1, <1>3, <1>4, <2>1 DEF VmeTypes
<1>6. VmeTypes'
  <2>1. q # 0
    BY <1>3 DEF VmeAssumption
  <2> QED
    BY <1>1, <1>3, <1>4, <1>5, <2>1 DEF VmeTypes
<1>7. Roots' = {}
  BY <1>1, <1>4 DEF Roots
<1>8. Whole(mem', First(q), kpt', Roots', free', cur')
  <2>1. PICK m : m = mem'
    OBVIOUS
  <2>2. Whole(m, First(q), q, {}, Pages \ {q}, 0)
    BY <1>3, <1>5, <2>1, FirstTable
  <2> QED
    BY <1>4, <1>7, <2>1, <2>2
<1>9. PromisedStep
  BY <1>1, <1>4, NoSpaces
<1> QED
  BY <1>6, <1>8, <1>9 DEF VmeInv

\* vme_init, a page of the kernel's.
LEMMA MapKernelKeeps ==
    ASSUME VmeAssumption, VmeInv, map_kernel
    PROVE  VmeInv' /\ PromisedStep
<1>1. /\ VmeTypes /\ ~panic /\ kpt # 0 /\ free \subseteq Pages /\ cur \in VirtualPages
      /\ \A s \in Spaces : ptr[s] = 0
      /\ cur' = cur + 1 /\ kpt' = kpt /\ ptr' = ptr /\ cur \in Nat /\ cur' \in Nat
  BY DEF VmeInv, VmeTypes, map_kernel
<1>2. PICK g : Whole(mem, g, kpt, Roots, free, cur)
  BY <1>1 DEF VmeInv
<1>3. Roots = {} /\ Roots' = {}
  BY <1>1 DEF Roots
<1>4. Forest(mem, g, kpt, {}, free) /\ Leaves(mem, g, kpt) /\ Copies(mem, kpt, {}) /\ Identity(mem, kpt, cur)
  BY <1>2, <1>3 DEF Whole
<1>5. PromisedStep
  BY <1>1, NoSpaces
<1>6. \A va \in KernelPages : va \in Nat
  BY SpansAre DEF KernelPages, VirtualPages, VmeAssumption
<1>7. \A va \in KernelPages : va < cur + 1 => va < cur \/ va = cur
  BY <1>1, <1>6
<1>8. CASE cur \notin KernelPages
  <2>1. mem' = mem /\ free' = free /\ panic' = panic
    BY <1>8 DEF map_kernel
  <2>2. Identity(mem, kpt, cur + 1)
    BY <1>4, <1>7, <1>8 DEF Identity
  <2>3. Whole(mem, g, kpt, {}, free, cur + 1)
    BY <1>4, <2>2 DEF Whole
  <2>4. Whole(mem', g, kpt', Roots', free', cur')
    BY <1>1, <1>3, <2>1, <2>3
  <2>5. VmeTypes'
    BY <1>1, <2>1 DEF VmeTypes
  <2> QED
    BY <1>5, <2>4, <2>5 DEF VmeInv
<1>9. CASE cur \in KernelPages
  <2>1. PICK e : e = Entry(Self(cur), TRUE, FALSE)
    OBVIOUS
  <2>2. PICK flags : flags = Entry(0, TRUE, FALSE)
    OBVIOUS
  <2>3. TableFlags(flags, kpt, kpt)
    BY <2>2 DEF TableFlags
  <2>4. e \in Word
    BY <1>1, <2>1 DEF Entry, Self, Word
  <2>5. Write(kpt, cur, flags, e)
    BY <1>9, <2>1, <2>2 DEF map_kernel
  <2>6. Walks(kpt, {}, kpt, cur)
    BY <1>1 DEF Walks
  <2>7. \/ panic' = TRUE /\ mem' = mem /\ free' = free
        \/ panic' = panic /\ \E w, t, g2 : Made(mem, g, kpt, {}, free, kpt, cur, w, t, e,
                                                mem', g2, free')
    BY <1>1, <1>4, <2>3, <2>4, <2>5, <2>6, WriteGrows
  <2>8. CASE panic' = TRUE /\ mem' = mem /\ free' = free
    <3>1. VmeTypes'
      BY <1>1, <2>8 DEF VmeTypes
    <3> QED
      BY <1>5, <2>8, <3>1 DEF VmeInv
  <2>9. CASE panic' = panic /\ \E w, t, g2 : Made(mem, g, kpt, {}, free, kpt, cur, w, t, e,
                                                mem', g2, free')
    <3>1. PICK w, t, g2 : Made(mem, g, kpt, {}, free, kpt, cur, w, t, e, mem', g2, free')
      BY <2>9
    <3>2. PICK m2, f2 : m2 = mem' /\ f2 = free'
      OBVIOUS
    <3>3. /\ Growth(mem, g, kpt, {}, free, kpt, cur, w, t, e, m2, g2)
          /\ f2 = {p \in free : \A i \in 1 .. Levels : t[i] # p}
      BY <3>1, <3>2 DEF Made
    <3>4. Forest(m2, g2, kpt, {}, f2)
      BY <3>3, GrowsForest
    <3>5. Leaves(m2, g2, kpt)
      BY <1>4, <3>3, GrowsLeaves
    <3>6. Copies(m2, kpt, {})
      BY DEF Copies
    <3>7. Identity(m2, kpt, cur)
      <4>1. ~(cur < cur)
        BY <1>1
      <4> QED
        BY <1>4, <3>3, <4>1, GrowsIdentity
    <3>8. Target(m2, kpt, cur) = e
      BY <3>3, GrownWalk
    <3>9. Identity(m2, kpt, cur + 1)
      BY <1>7, <2>1, <3>7, <3>8 DEF Identity
    <3>10. Whole(m2, g2, kpt, {}, f2, cur + 1)
      BY <3>4, <3>5, <3>6, <3>9 DEF Whole
    <3>11. Whole(mem', g2, kpt', Roots', free', cur')
      BY <1>1, <1>3, <3>2, <3>10
    <3>12. VmeTypes'
      <4>1. m2 \in [Pages -> [Digits -> Word]] /\ f2 \subseteq Pages
        BY <1>1, <3>3, <3>4 DEF Forest
      <4> QED
        BY <1>1, <2>9, <3>2, <4>1 DEF VmeTypes
    <3> QED
      BY <1>5, <3>11, <3>12 DEF VmeInv
  <2> QED
    BY <2>7, <2>8, <2>9
<1> QED
  BY <1>8, <1>9

\* A page nobody maps is one that is not mapped for the user.
LEMMA Nothing ==
    /\ ForUser(Empty) = Promise!Unmapped
    /\ \A e : e.to = 0 => ForUser(e) = Promise!Unmapped
BY DEF ForUser, Empty, Entry, Promise!Unmapped

\* A step that lets the entries of a space's first table, and what is below it, alone.
LEMMA Seeing ==
    \A m, f : AllSeen(m, f) = [s \in Spaces |-> IF f[s] = 0 THEN Unset ELSE View(m, f[s])]
BY DEF AllSeen, View

\* What is known of the spaces of a machine that is ready.
LEMMA ReadyIs ==
    ASSUME VmeAssumption, VmeInv, ~panic, kpt # 0
    PROVE  /\ VmeTypes /\ free \subseteq Pages /\ cur \in Nat
           /\ Roots \subseteq Pages /\ 0 \notin Roots
           /\ \A s \in Spaces : ptr[s] # 0 <=> ptr[s] \in Roots
           /\ \A s, t \in Spaces : ptr[s] = ptr[t] /\ ptr[s] # 0 => s = t
           /\ ptr \in [Spaces -> Pages \cup {0}]
           /\ \E g : Whole(mem, g, kpt, Roots, free, cur)
BY DEF VmeInv, VmeTypes, Roots

\* protect, when a page is left for the table.
LEMMA ProtectMakes ==
    ASSUME VmeAssumption, VmeInv, NEW s \in Spaces, protect(s), free # {}
    PROVE  VmeInv' /\ PromisedStep
<1>1. /\ Ready /\ ~panic /\ kpt # 0 /\ cur \notin VirtualPages /\ ptr[s] = 0
      /\ kpt' = kpt /\ cur' = cur
  BY DEF protect, Ready
<1>2. /\ VmeTypes /\ free \subseteq Pages /\ cur \in Nat
      /\ Roots \subseteq Pages /\ 0 \notin Roots
      /\ \A t \in Spaces : ptr[t] # 0 <=> ptr[t] \in Roots
      /\ \A t, u \in Spaces : ptr[t] = ptr[u] /\ ptr[t] # 0 => t = u
      /\ ptr \in [Spaces -> Pages \cup {0}]
  BY <1>1, ReadyIs
<1>3. PICK g : Whole(mem, g, kpt, Roots, free, cur)
  BY <1>1, ReadyIs
<1>4. Forest(mem, g, kpt, Roots, free) /\ Leaves(mem, g, kpt)
  BY <1>3 DEF Whole
<1>5. PICK q : q = pgalloc(1)
  OBVIOUS
<1>6. q \in free /\ q \in Pages /\ q # 0
  <2>1. Cardinality(free) # 0
    BY <1>2, FS_EmptySet, Allocates
  <2>2. 1 \in 1 .. Cardinality(free)
    BY <1>2, <2>1, Allocates
  <2> QED
    BY <1>2, <1>5, <2>2, Allocates DEF VmeAssumption
<1>7. PICK new : new = [i \in Digits |-> IF i \in Kernel THEN mem[kpt][i] ELSE Empty]
  OBVIOUS
<1>8. /\ ptr' = [ptr EXCEPT ![s] = q] /\ mem' = [mem EXCEPT ![q] = new]
      /\ free' = free \ {q} /\ panic' = panic
  <2>1. /\ ptr' = [ptr EXCEPT ![s] = pgalloc(1)]
        /\ mem' = [mem EXCEPT ![pgalloc(1)] = [i \in 0 .. Fan - 1 |->
                      IF i \in KernelShare THEN mem[kpt][i] ELSE pgallocz(pgalloc(1))[i]]]
        /\ free' = free \ {pgalloc(1)}
        /\ panic' = panic
    BY DEF protect
  <2>2. new = [i \in 0 .. Fan - 1 |->
                 IF i \in KernelShare THEN mem[kpt][i] ELSE pgallocz(pgalloc(1))[i]]
    BY <1>7 DEF Digits, KernelShare, pgallocz, Zeroed
  <2> QED
    BY <1>5, <2>1, <2>2
<1>9. new \in [Digits -> Word] /\ kpt \in Pages
  <2>1. kpt \in Pages
    BY <1>4 DEF Forest, Owners
  <2>2. Empty \in Word
    BY DEF Empty, Entry, Word
  <2> QED
    BY <1>2, <1>7, <2>1, <2>2 DEF VmeTypes
<1>10. PICK m2 : m2 = mem'
  OBVIOUS
<1>11. /\ m2 \in [Pages -> [Digits -> Word]] /\ m2[q] = new
       /\ \A p \in Pages : p # q => m2[p] = mem[p]
  BY <1>2, <1>6, <1>8, <1>9, <1>10 DEF VmeTypes
<1>12. PICK g2 : g2 = [p \in Pages |-> IF p = q THEN [own |-> q, lev |-> 1, up |-> q, ix |-> 0]
                                        ELSE g[p]]
  OBVIOUS
<1>13. Rooted(mem, g, kpt, q, m2, g2)
  <2>1. q \in Nat /\ 1 \in 1 .. Levels /\ 0 \in Digits
    BY <1>6 DEF VmeAssumption, Digits
  <2>2. [own |-> q, lev |-> 1, up |-> q, ix |-> 0] \in Info
    BY <1>6, <2>1 DEF Info
  <2>3. g2 \in [Pages -> Info]
    BY <1>4, <1>12, <2>2 DEF Forest
  <2>4. \A p \in Pages : p # q => g2[p] = g[p]
    BY <1>12
  <2>5. g2[q].own = q /\ g2[q].lev = 1
    BY <1>6, <1>12
  <2>6. \A k \in Digits : m2[q][k] = IF k \in Kernel THEN mem[kpt][k] ELSE Empty
    BY <1>7, <1>11
  <2> QED
    BY <1>11, <2>3, <2>4, <2>5, <2>6 DEF Rooted
<1>14. Whole(m2, g2, kpt, Roots \cup {q}, free \ {q}, cur)
  BY <1>3, <1>6, <1>13, RootsForest
<1>15. Forest(m2, g2, kpt, Roots \cup {q}, free \ {q}) /\ Leaves(m2, g2, kpt)
  BY <1>14 DEF Whole
<1>16. \A t \in Spaces : ptr'[t] = IF t = s THEN q ELSE ptr[t]
  BY <1>2, <1>8
<1>17. Roots' = Roots \cup {q}
  BY <1>1, <1>6, <1>16 DEF Roots
<1>18. \A p \in free : p \notin Roots
  BY <1>4, <1>2 DEF Forest, Owners
<1>19. VmeTypes'
  <2>1. \A t, u \in Spaces : ptr'[t] = ptr'[u] /\ ptr'[t] # 0 => t = u
    BY <1>2, <1>6, <1>16, <1>18
  <2>2. ptr' \in [Spaces -> Pages \cup {0}]
    BY <1>2, <1>6, <1>8
  <2> QED
    BY <1>1, <1>2, <1>8, <1>10, <1>11, <2>1, <2>2 DEF VmeTypes
<1>20. VmeInv'
  <2>1. Whole(mem', g2, kpt', Roots', free', cur')
    BY <1>1, <1>8, <1>10, <1>14, <1>17
  <2> QED
    BY <1>19, <2>1 DEF VmeInv
<1>21. \A t \in Spaces : ptr[t] # 0 => View(m2, ptr[t]) = View(mem, ptr[t])
  <2> SUFFICES ASSUME NEW t \in Spaces, ptr[t] # 0
               PROVE  View(m2, ptr[t]) = View(mem, ptr[t])
    OBVIOUS
  <2>1. ptr[t] \in Roots
    BY <1>2
  <2>2. ASSUME NEW va \in UserPages PROVE Target(m2, ptr[t], va) = Target(mem, ptr[t], va)
    <3>1. \A p \in Pages : g[p].own # 0 => m2[p] = mem[p]
      BY <1>4, <1>6, <1>11 DEF Forest, Owners
    <3>2. Walks(kpt, Roots, ptr[t], va)
      BY <2>1 DEF Walks, UserPages
    <3> QED
      BY <1>4, <3>1, <3>2, WalkUntouched
  <2> QED
    BY <1>4, <1>15, <2>1, <2>2, ViewKept
<1>22. View(m2, q) = [va \in UserPages |-> Promise!Unmapped]
  <2>1. ASSUME NEW va \in UserPages PROVE SeenIn(m2, q, va) = Promise!Unmapped
    <3>1. \A k \in Digits : k \notin Kernel => m2[q][k] = Empty
      BY <1>7, <1>11
    <3>2. Target(m2, q, va) = Empty
      BY <1>6, <3>1, NothingMapped
    <3>3. SeenIn(m2, q, va) = ForUser(Target(m2, q, va))
      BY <1>15, SeenIs
    <3> QED
      BY <3>2, <3>3, Nothing
  <2> QED
    BY <2>1 DEF View
<1>23. PICK a, b : a = AllSeen(mem, ptr) /\ b = AllSeen(mem', ptr')
  OBVIOUS
<1>24. \A t \in Spaces : /\ a[t] = IF ptr[t] = 0 THEN Unset ELSE View(mem, ptr[t])
                         /\ b[t] = IF t = s THEN View(m2, q)
                                   ELSE IF ptr[t] = 0 THEN Unset ELSE View(m2, ptr[t])
  BY <1>6, <1>10, <1>16, <1>23, Seeing
<1>25. a \in [Spaces -> {a[t] : t \in Spaces}] /\ DOMAIN a = Spaces /\ DOMAIN b = Spaces
       /\ b = [t \in Spaces |-> b[t]]
  BY <1>23 DEF AllSeen
<1>26. b = [a EXCEPT ![s] = View(m2, q)]
  BY <1>21, <1>24, <1>25
<1>27. a[s] = Promise!Gone
  BY <1>1, <1>24 DEF Unset, Promise!Gone
<1>28. Promise!Call(a, b)
  BY <1>22, <1>26, <1>27 DEF Promise!Call, Promise!Protect
<1> QED
  BY <1>20, <1>23, <1>28, SpacesAre, Promised

\* protect.
LEMMA ProtectKeeps ==
    ASSUME VmeAssumption, VmeInv, NEW s \in Spaces, protect(s)
    PROVE  VmeInv' /\ PromisedStep
<1>1. CASE free # {}
  BY <1>1, ProtectMakes
<1>2. CASE free = {}
  <2>1. /\ panic' = TRUE /\ mem' = mem /\ free' = free /\ ptr' = ptr /\ kpt' = kpt /\ cur' = cur
    BY <1>2 DEF protect
  <2>2. VmeTypes'
    BY <2>1 DEF VmeInv, VmeTypes
  <2>3. SpacesSeen' = SpacesSeen
    BY <2>1, SpacesAre
  <2> QED
    BY <2>1, <2>2, <2>3 DEF VmeInv, PromisedStep
<1> QED
  BY <1>1, <1>2

\* unprotect.
LEMMA UnprotectKeeps ==
    ASSUME VmeAssumption, VmeInv, NEW s \in Spaces, unprotect(s)
    PROVE  VmeInv' /\ PromisedStep
<1>1. /\ ~panic /\ kpt # 0 /\ cur \notin VirtualPages /\ ptr[s] # 0
      /\ kpt' = kpt /\ cur' = cur /\ mem' = mem /\ panic' = panic
      /\ ptr' = [ptr EXCEPT ![s] = 0] /\ free' = free \cup teardown(ptr[s])
  BY DEF unprotect, Ready
<1>2. /\ VmeTypes /\ free \subseteq Pages /\ cur \in Nat
      /\ Roots \subseteq Pages /\ 0 \notin Roots
      /\ \A t \in Spaces : ptr[t] # 0 <=> ptr[t] \in Roots
      /\ \A t, u \in Spaces : ptr[t] = ptr[u] /\ ptr[t] # 0 => t = u
      /\ ptr \in [Spaces -> Pages \cup {0}]
  BY <1>1, ReadyIs
<1>3. PICK g : Whole(mem, g, kpt, Roots, free, cur)
  BY <1>1, ReadyIs
<1>4. Forest(mem, g, kpt, Roots, free) /\ Leaves(mem, g, kpt) /\ Copies(mem, kpt, Roots)
  BY <1>3 DEF Whole
<1>5. PICK r : r = ptr[s]
  OBVIOUS
<1>6. r \in Roots
  BY <1>1, <1>2, <1>5
<1>7. teardown(r) = {p \in Pages : g[p].own = r}
  BY <1>4, <1>6, TeardownIs
<1>8. PICK g2 : g2 = [p \in Pages |-> IF g[p].own = r
                                       THEN [own |-> 0, lev |-> 1, up |-> p, ix |-> 0] ELSE g[p]]
  OBVIOUS
<1>9. Freed(g, r, g2)
  <2>1. 1 \in 1 .. Levels /\ 0 \in Digits
    BY DEF VmeAssumption, Digits
  <2>2. \A p \in Pages : [own |-> 0, lev |-> 1, up |-> p, ix |-> 0] \in Info
    BY <2>1 DEF Info
  <2>3. g2 \in [Pages -> Info]
    BY <1>4, <1>8, <2>2 DEF Forest
  <2>4. \A p \in Pages : IF g[p].own = r THEN g2[p].own = 0 ELSE g2[p] = g[p]
    BY <1>8
  <2> QED
    BY <2>3, <2>4 DEF Freed
<1>10. Whole(mem, g2, kpt, Roots \ {r}, free \cup {p \in Pages : g[p].own = r}, cur)
  BY <1>3, <1>6, <1>9, TornDown
<1>11. \A t \in Spaces : ptr'[t] = IF t = s THEN 0 ELSE ptr[t]
  BY <1>1, <1>2
<1>12. Roots' = Roots \ {r}
  <2>1. Roots' = {ptr'[t] : t \in Spaces} \ {0}
    BY DEF Roots
  <2>2. \A x : x \in Roots <=> \E t \in Spaces : x = ptr[t] /\ x # 0
    BY DEF Roots
  <2>3. \A x : x \in Roots' <=> \E t \in Spaces : x = ptr'[t] /\ x # 0
    BY <2>1
  <2>4. \A t \in Spaces : ptr[t] = r <=> t = s
    BY <1>1, <1>2, <1>5
  <2>5. \A x : x \in Roots' <=> x \in Roots /\ x # r
    BY <1>1, <1>5, <1>11, <2>2, <2>3, <2>4
  <2> QED
    BY <2>5
<1>13. VmeInv'
  <2>1. Whole(mem', g2, kpt', Roots', free', cur')
    BY <1>1, <1>5, <1>7, <1>10, <1>12
  <2>2. free' \subseteq Pages
    BY <1>1, <1>2, <1>5, <1>7
  <2>3. ptr' \in [Spaces -> Pages \cup {0}]
    BY <1>1, <1>2
  <2>4. \A t, u \in Spaces : ptr'[t] = ptr'[u] /\ ptr'[t] # 0 => t = u
    BY <1>2, <1>11
  <2>5. VmeTypes'
    BY <1>1, <1>2, <2>2, <2>3, <2>4 DEF VmeTypes
  <2> QED
    BY <2>1, <2>5 DEF VmeInv
<1>14. PICK a, b : a = AllSeen(mem, ptr) /\ b = AllSeen(mem', ptr')
  OBVIOUS
<1>15. \A t \in Spaces : /\ a[t] = IF ptr[t] = 0 THEN Unset ELSE View(mem, ptr[t])
                         /\ b[t] = IF t = s \/ ptr[t] = 0 THEN Unset ELSE View(mem, ptr[t])
  <2>1. PICK m, f : m = mem' /\ f = ptr'
    OBVIOUS
  <2>2. /\ a = [t \in Spaces |-> IF ptr[t] = 0 THEN Unset ELSE View(mem, ptr[t])]
        /\ b = [t \in Spaces |-> IF f[t] = 0 THEN Unset ELSE View(m, f[t])]
    BY <1>14, <2>1, Seeing
  <2>3. m = mem /\ \A t \in Spaces : f[t] = IF t = s THEN 0 ELSE ptr[t]
    BY <1>1, <1>11, <2>1
  <2> QED
    BY <2>2, <2>3
<1>16. DOMAIN a = Spaces /\ a = [t \in Spaces |-> a[t]] /\ b = [t \in Spaces |-> b[t]]
  BY <1>14 DEF AllSeen
<1>17. b = [a EXCEPT ![s] = Unset]
  BY <1>15, <1>16
<1>18. Unset = Promise!Gone
  BY DEF Unset, Promise!Gone
<1>19. CASE UserPages = {}
  <2>1. View(mem, r) = Unset
    BY <1>19 DEF View, Unset
  <2>2. a[s] = Unset
    BY <1>1, <1>5, <1>15, <2>1
  <2>3. b = a
    BY <1>16, <1>17, <2>2
  <2> QED
    BY <1>13, <1>14, <2>3, SpacesAre, Promised
<1>20. CASE UserPages # {}
  <2>1. DOMAIN View(mem, r) = UserPages /\ DOMAIN Unset = {}
    BY DEF View, Unset
  <2>2. a[s] # Promise!Gone
    BY <1>1, <1>5, <1>15, <1>18, <1>20, <2>1
  <2>3. Promise!Call(a, b)
    BY <1>17, <1>18, <2>2 DEF Promise!Call, Promise!Unprotect
  <2> QED
    BY <1>13, <1>14, <2>3, SpacesAre, Promised
<1> QED
  BY <1>19, <1>20

\* Whether a page is mapped.
LEMMA IsMappedIs ==
    ASSUME VmeAssumption, NEW root, NEW va
    PROVE  IsMapped(root, va) <=> Target(mem, root, va).to # 0
<1>1. Existing(root, va)[Levels] = LastTable(mem, root, va)
  BY ExistingIs DEF LastTable
<1>2. PICK l : l = LastTable(mem, root, va)
  OBVIOUS
<1>3. IsMapped(root, va) <=> (l # 0 /\ mem[l][indexof(va, Levels)].to # 0)
  BY <1>1, <1>2 DEF IsMapped
<1>4. Target(mem, root, va) = IF l = 0 THEN Empty ELSE mem[l][indexof(va, Levels)]
  BY <1>2 DEF Target
<1>5. Empty.to = 0
  BY DEF Empty, Entry
<1> QED
  BY <1>3, <1>4, <1>5

\* map panics, or it changes what is seen of one page of one space.
Panics == panic' = TRUE /\ mem' = mem /\ ptr' = ptr
Maps(s, va, e) ==
    /\ panic' = panic /\ ptr' = ptr
    /\ (e.to # 0) <=> (Target(mem, ptr[s], va).to = 0)
    /\ Target(mem, ptr[s], va) \in UserEntries
    /\ AllSeen(mem', ptr) = [AllSeen(mem, ptr) EXCEPT ![s] = [View(mem, ptr[s]) EXCEPT ![va] = ForUser(e)]]
    /\ SeenIn(mem', ptr[s], va) = ForUser(e)

\* It does one of the two, and keeps the invariant.
LEMMA MapMakes ==
    ASSUME VmeAssumption, VmeInv, NEW s \in Spaces, NEW va \in UserPages,
           NEW e \in UserEntries, map(s, va, e)
    PROVE  VmeInv' /\ (Panics \/ Maps(s, va, e))
<1>1. /\ Ready /\ ~panic /\ kpt # 0 /\ cur \notin VirtualPages /\ ptr[s] # 0
      /\ kpt' = kpt /\ cur' = cur /\ ptr' = ptr
  BY DEF map, Ready
<1>2. /\ VmeTypes /\ free \subseteq Pages /\ cur \in Nat
      /\ Roots \subseteq Pages /\ 0 \notin Roots
      /\ \A t \in Spaces : ptr[t] # 0 <=> ptr[t] \in Roots
      /\ \A t, u \in Spaces : ptr[t] = ptr[u] /\ ptr[t] # 0 => t = u
      /\ ptr \in [Spaces -> Pages \cup {0}]
  BY <1>1, ReadyIs
<1>3. PICK g : Whole(mem, g, kpt, Roots, free, cur)
  BY <1>1, ReadyIs
<1>4. /\ Forest(mem, g, kpt, Roots, free) /\ Leaves(mem, g, kpt) /\ Copies(mem, kpt, Roots)
      /\ Identity(mem, kpt, cur)
  BY <1>3 DEF Whole
<1>5. PICK r : r = ptr[s]
  OBVIOUS
<1>6. r \in Roots /\ r # kpt
  BY <1>1, <1>2, <1>4, <1>5 DEF Forest, Owners
<1>7. Roots' = Roots
  BY <1>1 DEF Roots
<1>8. ASSUME panic' = TRUE, mem' = mem, free' = free
      PROVE  VmeInv' /\ Panics
  <2>1. VmeTypes'
    BY <1>1, <1>2, <1>8 DEF VmeTypes
  <2> QED
    BY <1>1, <1>8, <2>1 DEF VmeInv, Panics
<1>9. CASE (e.to # 0) = IsMapped(ptr[s], va)
  BY <1>8, <1>9 DEF map
<1>10. CASE (e.to # 0) # IsMapped(ptr[s], va)
  <2>1. PICK flags : flags = UserTable
    OBVIOUS
  <2>2. Write(r, va, flags, e)
    BY <1>5, <1>10, <2>1 DEF map
  <2>3. TableFlags(flags, r, kpt)
    BY <1>6, <2>1 DEF TableFlags, UserTable, Entry
  <2>4. e \in Word
    <3>1. CASE e = Empty
      BY <3>1 DEF Word, Empty, Entry
    <3>2. CASE e \in [to : Frames, w : BOOLEAN, u : {TRUE}]
      BY <3>2 DEF Word, VmeAssumption
    <3> QED
      BY <3>1, <3>2 DEF UserEntries
  <2>5. Walks(kpt, Roots, r, va)
    BY <1>6 DEF Walks, UserPages
  <2>6. \/ panic' = TRUE /\ mem' = mem /\ free' = free
        \/ panic' = panic /\ \E w, t, g2 : Made(mem, g, kpt, Roots, free, r, va, w, t, e,
                                                mem', g2, free')
    BY <1>1, <1>2, <1>4, <2>2, <2>3, <2>4, <2>5, WriteGrows
  <2>7. CASE panic' = panic /\ \E w, t, g2 : Made(mem, g, kpt, Roots, free, r, va, w, t, e,
                                                mem', g2, free')
    <3>1. PICK w, t, g2 : Made(mem, g, kpt, Roots, free, r, va, w, t, e, mem', g2, free')
      BY <2>7
    <3>2. PICK m2, f2 : m2 = mem' /\ f2 = free'
      OBVIOUS
    <3>3. /\ Growth(mem, g, kpt, Roots, free, r, va, w, t, e, m2, g2)
          /\ f2 = {p \in free : \A i \in 1 .. Levels : t[i] # p}
      BY <3>1, <3>2 DEF Made
    <3>4. Forest(m2, g2, kpt, Roots, f2)
      BY <3>3, GrowsForest
    <3>5. Leaves(m2, g2, kpt)
      BY <1>4, <3>3, GrowsLeaves
    <3>6. Copies(m2, kpt, Roots)
      BY <1>4, <1>6, <3>3, GrowsCopies
    <3>7. Identity(m2, kpt, cur)
      BY <1>4, <1>6, <3>3, GrowsIdentity
    <3>8. Target(m2, r, va) = e
      BY <3>3, GrownWalk
    <3>9. Whole(mem', g2, kpt', Roots', free', cur')
      <4>1. Whole(m2, g2, kpt, Roots, f2, cur)
        BY <3>4, <3>5, <3>6, <3>7 DEF Whole
      <4> QED
        BY <1>1, <1>7, <3>2, <4>1
    <3>10. VmeTypes'
      <4>1. m2 \in [Pages -> [Digits -> Word]] /\ f2 \subseteq Pages
        BY <1>2, <3>3, <3>4 DEF Forest
      <4> QED
        BY <1>1, <1>2, <2>7, <3>2, <4>1 DEF VmeTypes
    <3>11. ASSUME NEW t2 \in Spaces, ptr[t2] # 0, NEW vb \in UserPages, t2 # s \/ vb # va
           PROVE  SeenIn(m2, ptr[t2], vb) = SeenIn(mem, ptr[t2], vb)
      <4>1. ptr[t2] \in Roots /\ (ptr[t2] # r \/ vb # va)
        BY <1>1, <1>2, <1>5, <3>11
      <4>2. Walks(kpt, Roots, ptr[t2], vb)
        BY <4>1 DEF Walks, UserPages
      <4>3. Target(m2, ptr[t2], vb) = Target(mem, ptr[t2], vb)
        BY <3>3, <4>1, <4>2, OthersKept
      <4>4. SeenIn(mem, ptr[t2], vb) = ForUser(Target(mem, ptr[t2], vb))
        BY <1>4, <4>1, SeenIs
      <4>5. SeenIn(m2, ptr[t2], vb) = ForUser(Target(m2, ptr[t2], vb))
        BY <3>4, <3>5, <4>1, SeenIs
      <4> QED
        BY <4>3, <4>4, <4>5
    <3>12. SeenIn(m2, r, va) = ForUser(e)
      BY <1>6, <3>4, <3>5, <3>8, SeenIs
    <3>13. View(m2, r) = [View(mem, r) EXCEPT ![va] = ForUser(e)]
      BY <1>1, <1>5, <3>11, <3>12 DEF View
    <3>14. \A t2 \in Spaces : t2 # s /\ ptr[t2] # 0 => View(m2, ptr[t2]) = View(mem, ptr[t2])
      BY <3>11 DEF View
    <3>15. PICK a, b : a = AllSeen(mem, ptr) /\ b = AllSeen(m2, ptr)
      OBVIOUS
    <3>16. \A t2 \in Spaces : /\ a[t2] = IF ptr[t2] = 0 THEN Unset ELSE View(mem, ptr[t2])
                              /\ b[t2] = IF ptr[t2] = 0 THEN Unset ELSE View(m2, ptr[t2])
      BY <3>15, Seeing
    <3>17. DOMAIN a = Spaces /\ a = [t2 \in Spaces |-> a[t2]] /\ b = [t2 \in Spaces |-> b[t2]]
      BY <3>15 DEF AllSeen
    <3>18. b = [a EXCEPT ![s] = View(m2, r)]
      BY <1>1, <1>5, <3>14, <3>16, <3>17
    <3>19. (e.to # 0) <=> (Target(mem, r, va).to = 0)
      <4>1. (e.to # 0) <=> ~IsMapped(r, va)
        BY ONLY <1>5, <1>10 DEF IsMapped
      <4>2. IsMapped(r, va) <=> Target(mem, r, va).to # 0
        BY IsMappedIs
      <4> QED
        BY ONLY <4>1, <4>2
    <3>20. Target(mem, r, va) \in UserEntries
      BY <1>4, <1>6, UserTarget
    <3>21. Maps(s, va, e)
      BY <1>1, <1>5, <2>7, <3>2, <3>12, <3>13, <3>15, <3>18, <3>19, <3>20 DEF Maps
    <3> QED
      BY <3>9, <3>10, <3>21 DEF VmeInv
  <2> QED
    BY <1>8, <2>6, <2>7
<1> QED
  BY <1>9, <1>10

\* A call that panics changes nothing that is seen.
LEMMA PanicKeeps ==
    ASSUME Panics
    PROVE  PromisedStep
<1>1. SpacesSeen' = SpacesSeen
  BY SpacesAre DEF Panics
<1> QED
  BY <1>1 DEF PromisedStep

\* What a space sees before it maps or unmaps a page.
LEMMA SeenBefore ==
    ASSUME VmeAssumption, VmeInv, NEW s \in Spaces, ptr[s] # 0, ~panic, kpt # 0
    PROVE  /\ AllSeen(mem, ptr)[s] = View(mem, ptr[s])
           /\ \A va \in UserPages : View(mem, ptr[s])[va] = ForUser(Target(mem, ptr[s], va))
<1>1. PICK g : Whole(mem, g, kpt, Roots, free, cur)
  BY ReadyIs
<1>2. ptr[s] \in Roots /\ Forest(mem, g, kpt, Roots, free) /\ Leaves(mem, g, kpt)
  BY <1>1, ReadyIs DEF Whole
<1>3. \A va \in UserPages : SeenIn(mem, ptr[s], va) = ForUser(Target(mem, ptr[s], va))
  BY <1>2, SeenIs
<1> QED
  BY <1>3, Seeing DEF View

\* map of a page.
LEMMA MapPageKeeps ==
    ASSUME VmeAssumption, VmeInv, NEW s \in Spaces, NEW va \in UserPages,
           NEW pa \in Frames, NEW w \in BOOLEAN, MapPage(s, va, pa, w)
    PROVE  VmeInv' /\ PromisedStep /\ (~panic' => Seen(s, va)' = [pa |-> pa, write |-> w])
<1>1. PICK e : e = Entry(pa, w, TRUE)
  OBVIOUS
<1>2. e \in UserEntries
  BY <1>1 DEF UserEntries, Entry
<1>3. map(s, va, e)
  BY <1>1 DEF MapPage
<1>4. VmeInv' /\ (Panics \/ Maps(s, va, e))
  BY <1>2, <1>3, MapMakes
<1>5. ~panic /\ kpt # 0 /\ ptr[s] # 0
  BY <1>3 DEF map, Ready
<1>6. pa # 0 /\ ForUser(e) = [pa |-> pa, write |-> w] /\ e.to # 0
  <2>1. pa # 0
    BY DEF VmeAssumption
  <2>2. e.to = pa /\ e.w = w
    BY <1>1 DEF Entry
  <2>3. e.u = TRUE
    BY ONLY <1>1 DEF Entry
  <2> QED
    BY <2>1, <2>2, <2>3 DEF ForUser
<1>7. CASE Panics
  BY <1>4, <1>7, PanicKeeps DEF Panics
<1>8. CASE Maps(s, va, e)
  <2>1. PICK a, b : a = AllSeen(mem, ptr) /\ b = AllSeen(mem', ptr')
    OBVIOUS
  <2>2. PICK v : v = View(mem, ptr[s])
    OBVIOUS
  <2>3. a[s] = v /\ b = [a EXCEPT ![s] = [v EXCEPT ![va] = ForUser(e)]]
    BY <1>5, <1>8, <2>1, <2>2, SeenBefore DEF Maps
  <2>4. v[va] = Promise!Unmapped
    <3>1. Target(mem, ptr[s], va).to = 0
      BY <1>6, <1>8 DEF Maps
    <3>2. v[va] = ForUser(Target(mem, ptr[s], va))
      BY <1>5, <2>2, SeenBefore
    <3> QED
      BY <3>1, <3>2, Nothing
  <2>5. a[s] # Promise!Gone
    <3>1. DOMAIN v = UserPages
      BY <2>2 DEF View
    <3>2. DOMAIN Promise!Gone = {}
      BY DEF Promise!Gone
    <3> QED
      BY <2>3, <3>1, <3>2
  <2>6. ForUser(e) \in Promise!Mappings
    BY <1>6 DEF Promise!Mappings
  <2>7. DOMAIN a = Spaces /\ b = [a EXCEPT ![s][va] = ForUser(e)]
    BY <2>1, <2>3 DEF AllSeen
  <2>8. Promise!Map(a, b, s, va)
    BY <2>3, <2>4, <2>5, <2>6, <2>7 DEF Promise!Map
  <2>9. PromisedStep
    <3>1. Promise!Call(a, b)
      BY <2>8 DEF Promise!Call
    <3> QED
      BY <2>1, <3>1, SpacesAre, Promised
  <2>10. Seen(s, va)' = [pa |-> pa, write |-> w]
    <3>1. Seen(s, va)' = SeenIn(mem', ptr'[s], va)
      BY SpacesAre
    <3>2. SeenIn(mem', ptr[s], va) = ForUser(e) /\ ptr' = ptr
      BY <1>8 DEF Maps
    <3> QED
      BY <1>6, <3>1, <3>2
  <2> QED
    BY <1>4, <2>9, <2>10
<1> QED
  BY <1>4, <1>7, <1>8

\* map of no page, which unmaps.
LEMMA UnmapPageKeeps ==
    ASSUME VmeAssumption, VmeInv, NEW s \in Spaces, NEW va \in UserPages, UnmapPage(s, va)
    PROVE  VmeInv' /\ PromisedStep
<1>1. PICK e : e = Empty
  OBVIOUS
<1>2. e \in UserEntries
  BY <1>1 DEF UserEntries
<1>3. map(s, va, e)
  BY <1>1 DEF UnmapPage
<1>4. VmeInv' /\ (Panics \/ Maps(s, va, e))
  BY <1>2, <1>3, MapMakes
<1>5. ~panic /\ kpt # 0 /\ ptr[s] # 0
  BY <1>3 DEF map, Ready
<1>6. CASE Panics
  BY <1>4, <1>6, PanicKeeps
<1>7. CASE Maps(s, va, e)
  <2>1. PICK a, b : a = AllSeen(mem, ptr) /\ b = AllSeen(mem', ptr')
    OBVIOUS
  <2>2. PICK v : v = View(mem, ptr[s])
    OBVIOUS
  <2>3. a[s] = v /\ b = [a EXCEPT ![s] = [v EXCEPT ![va] = Promise!Unmapped]]
    BY <1>1, <1>5, <1>7, <2>1, <2>2, Nothing, SeenBefore DEF Maps
  <2>4. v[va] # Promise!Unmapped
    <3>1. PICK x : x = Target(mem, ptr[s], va)
      OBVIOUS
    <3>2. x \in UserEntries /\ x.to # 0
      BY <1>1, <1>7, <3>1 DEF Maps, Empty, Entry
    <3>3. x \in [to : Frames, w : BOOLEAN, u : {TRUE}]
      <4>1. Empty.to = 0
        BY DEF Empty, Entry
      <4>2. x # Empty
        BY <3>2, <4>1
      <4> QED
        BY <3>2, <4>2 DEF UserEntries
    <3>4. x.u = TRUE
      BY <3>3
    <3>5. ForUser(x).pa = x.to
      BY <3>2, <3>4 DEF ForUser
    <3>6. v[va] = ForUser(x)
      BY <1>5, <2>2, <3>1, SeenBefore
    <3> QED
      BY <3>2, <3>5, <3>6 DEF Promise!Unmapped
  <2>5. a[s] # Promise!Gone
    <3>1. DOMAIN v = UserPages
      BY <2>2 DEF View
    <3>2. DOMAIN Promise!Gone = {}
      BY DEF Promise!Gone
    <3> QED
      BY <2>3, <3>1, <3>2
  <2>6. DOMAIN a = Spaces /\ b = [a EXCEPT ![s][va] = Promise!Unmapped]
    BY <2>1, <2>3 DEF AllSeen
  <2>7. Promise!Unmap(a, b, s, va)
    BY <2>3, <2>4, <2>5, <2>6 DEF Promise!Unmap
  <2>8. Promise!Call(a, b)
    BY <2>7 DEF Promise!Call
  <2> QED
    BY <1>4, <2>1, <2>8, SpacesAre, Promised
<1> QED
  BY <1>4, <1>6, <1>7

\* Every step keeps the invariant, the promise and what was asked of map.
LEMMA VmeStepKeeps ==
    ASSUME VmeAssumption, VmeInv, [VmeNext]_vmeVars
    PROVE  VmeInv' /\ PromisedStep /\ MappedAsAsked
<1>1. MappedAsAsked
  BY MapPageKeeps DEF MappedAsAsked
<1>2. CASE vme_init
  BY <1>1, <1>2, VmeInitKeeps
<1>3. CASE map_kernel
  BY <1>1, <1>3, MapKernelKeeps
<1>4. ASSUME NEW s \in Spaces, protect(s) PROVE VmeInv' /\ PromisedStep
  BY <1>4, ProtectKeeps
<1>5. ASSUME NEW s \in Spaces, unprotect(s) PROVE VmeInv' /\ PromisedStep
  BY <1>5, UnprotectKeeps
<1>6. ASSUME NEW s \in Spaces, NEW va \in UserPages, UnmapPage(s, va)
      PROVE  VmeInv' /\ PromisedStep
  BY <1>6, UnmapPageKeeps
<1>7. ASSUME NEW s \in Spaces, NEW va \in UserPages, NEW pa \in Frames, NEW w \in BOOLEAN,
             MapPage(s, va, pa, w)
      PROVE  VmeInv' /\ PromisedStep
  BY <1>7, MapPageKeeps
<1>8. CASE UNCHANGED vmeVars
  <2>1. VmeInv'
    BY <1>8 DEF vmeVars, VmeInv, VmeTypes, Whole, Roots
  <2>2. SpacesSeen' = SpacesSeen
    BY <1>8, SpacesAre DEF vmeVars
  <2> QED
    BY <1>1, <2>1, <2>2 DEF PromisedStep
<1> QED
  BY <1>1, <1>2, <1>3, <1>4, <1>5, <1>6, <1>7, <1>8 DEF VmeNext

\* The kernel sees its memory from every space, and the user does not, where the
\* invariant holds.
LEMMA KernelSees ==
    ASSUME VmeAssumption, VmeInv
    PROVE  KernelInEverySpace
<1> SUFFICES ASSUME Ready, NEW root \in {kpt} \cup Roots, NEW va \in KernelPages
             PROVE  Translate(root, va).to = Self(va) /\ ~Translate(root, va).u
  BY DEF KernelInEverySpace
<1>1. ~panic /\ kpt # 0 /\ cur \notin VirtualPages
  BY DEF Ready
<1>2. PICK g : Whole(mem, g, kpt, Roots, free, cur)
  BY <1>1, ReadyIs
<1>3. /\ Forest(mem, g, kpt, Roots, free) /\ Copies(mem, kpt, Roots) /\ Identity(mem, kpt, cur)
      /\ 0 \notin Roots
  BY <1>1, <1>2, ReadyIs DEF Whole
<1>4. TranslateIn(mem, root, va) = TranslateIn(mem, kpt, va)
  BY <1>1, <1>3, KernelSeen
<1>5. PICK e : e = Target(mem, kpt, va)
  OBVIOUS
<1>6. e = Entry(Self(va), TRUE, FALSE)
  <2>1. va < cur
    <3>1. va \in Nat /\ va \in VirtualPages /\ cur \in Nat
      BY <1>1, SpansAre, ReadyIs DEF KernelPages, VirtualPages, VmeAssumption
    <3>2. Span[Levels] \in Nat
      BY SpansAre DEF VmeAssumption
    <3> QED
      BY <1>1, <3>1, <3>2 DEF VirtualPages
  <2> QED
    BY <1>3, <1>5, <2>1 DEF Identity
<1>7. TranslateIn(mem, kpt, va) = Rights(e, kpt # kpt \/ Levels = 1)
  <2>1. Walks(kpt, Roots, kpt, va)
    BY DEF Walks, KernelPages
  <2> QED
    BY <1>3, <1>5, <2>1, TranslateIs
<1>8. PICK u \in BOOLEAN : u <=> (kpt # kpt \/ Levels = 1)
  OBVIOUS
<1>9. Rights(e, kpt # kpt \/ Levels = 1).to = Self(va) /\ ~Rights(e, kpt # kpt \/ Levels = 1).u
  BY <1>6 DEF Rights, Entry
<1>10. Translate(root, va) = TranslateIn(mem, root, va)
  BY ExistingIs
<1> QED
  BY <1>4, <1>7, <1>9, <1>10

\* Each page is free or a table of one owner, where the invariant holds.
LEMMA OwnedOnce ==
    ASSUME VmeAssumption, VmeInv
    PROVE  OwnsItsTables
<1> SUFFICES ASSUME Ready PROVE OwnsItsTables
  BY DEF OwnsItsTables
<1>1. ~panic /\ kpt # 0
  BY DEF Ready
<1>2. PICK g : Whole(mem, g, kpt, Roots, free, cur)
  BY <1>1, ReadyIs
<1>3. Forest(mem, g, kpt, Roots, free) /\ Copies(mem, kpt, Roots) /\ free \subseteq Pages
  BY <1>1, <1>2, ReadyIs DEF Whole
<1>4. KernelTables = {p \in Pages : g[p].own = kpt}
  BY <1>3, KernelTablesAre
<1>5. \A r \in Roots : Tables(r) = {p \in Pages : g[p].own = r}
  BY <1>3, TeardownIs DEF Tables
<1>6. /\ \A p \in Pages : g[p].own \in {0, kpt} \cup Roots /\ (g[p].own = 0 <=> p \in free)
      /\ kpt \notin Roots /\ 0 \notin Roots
  BY <1>1, <1>3, ReadyIs DEF Forest, Owners
<1>7. Pages = free \cup KernelTables \cup UNION {Tables(r) : r \in Roots}
  <2>1. ASSUME NEW p \in Pages
        PROVE  p \in free \cup KernelTables \cup UNION {Tables(r) : r \in Roots}
    <3>1. CASE g[p].own \in {0, kpt}
      BY <1>4, <1>6, <3>1
    <3>2. CASE g[p].own \in Roots
      <4>1. p \in Tables(g[p].own)
        BY <1>5, <3>2
      <4> QED
        BY <3>2, <4>1
    <3> QED
      BY <1>6, <3>1, <3>2
  <2>2. \A r \in Roots : Tables(r) \subseteq Pages
    BY <1>5
  <2>3. UNION {Tables(r) : r \in Roots} \subseteq Pages
    BY <2>2
  <2> QED
    BY <1>3, <1>4, <2>1, <2>3
<1>8. free \cap KernelTables = {}
  BY <1>1, <1>3, <1>4, <1>6
<1>9. \A r \in Roots : Tables(r) \cap (free \cup KernelTables) = {}
  BY <1>3, <1>4, <1>5, <1>6
<1>10. \A r, q \in Roots : r # q => Tables(r) \cap Tables(q) = {}
  BY <1>5
<1> QED
  BY <1>7, <1>8, <1>9, <1>10 DEF OwnsItsTables

\* Whatever the machine did, the invariant holds of it.
THEOREM VmeHolds ==
    ASSUME VmeAssumption
    PROVE  VmeSpec => []VmeInv
<1>1. VmeInit => VmeInv
  BY VmeStarts
<1>2. VmeInv /\ [VmeNext]_vmeVars => VmeInv'
  BY VmeStepKeeps
<1> QED
  BY <1>1, <1>2, PTL DEF VmeSpec

\* vme.c implements address spaces: what the processor sees of each space changes with
\* the calls as they promise, and with nothing else.
THEOREM ImplementsSpaces ==
    ASSUME VmeAssumption
    PROVE  VmeSpec => KeepsPromise
<1>1. VmeInit => VmeInv /\ Promise!Init
  BY VmeStarts
<1>2. VmeInv /\ [VmeNext]_vmeVars => VmeInv' /\ PromisedStep
  BY VmeStepKeeps
<1> QED
  BY <1>1, <1>2, PTL DEF VmeSpec, KeepsPromise

\* A page is mapped where the caller asked, with the rights it asked for.
THEOREM MapsWhatIsAsked ==
    ASSUME VmeAssumption
    PROVE  VmeSpec => MapsAsAsked
<1>1. VmeInit => VmeInv
  BY VmeStarts
<1>2. VmeInv /\ [VmeNext]_vmeVars => VmeInv' /\ MappedAsAsked
  BY VmeStepKeeps
<1> QED
  BY <1>1, <1>2, PTL DEF VmeSpec, MapsAsAsked

\* The kernel sees its memory from every space, no table leaks and none is shared.
THEOREM TablesHold ==
    ASSUME VmeAssumption
    PROVE  VmeSpec => [](KernelInEverySpace /\ OwnsItsTables)
<1>1. VmeInv => KernelInEverySpace /\ OwnsItsTables
  BY KernelSees, OwnedOnce
<1> QED
  BY <1>1, VmeHolds, PTL
====
