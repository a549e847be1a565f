----------------------------- MODULE MemControl -----------------------------
(***************************************************************************)
(* The memory of the simulated build, vsrc/resource/MemControl.sv, as      *)
(* operators on its contents "ram", a function from physical addresses to  *)
(* bytes.  A byte has BYTE bits and a word is eight bytes (8 and 64 in the *)
(* source), so that the widths B, H, W and D keep their ratio in a small   *)
(* instance.  Only the low RAM_SIZE bits of an address reach the array.    *)
(***************************************************************************)
EXTENDS ALU

CONSTANTS BYTE, RAM_SIZE

ASSUME MemShape == BYTE \in Nat \ {0} /\ RAM_SIZE \in 3 .. DATA_WIDTH /\ DATA_WIDTH = 8 * BYTE

PAddrs   == 0 .. 2^RAM_SIZE - 1
PAddr(a) == a % 2^RAM_SIZE

\* Bytes moved by a width code; 4 .. 6 are the zero-extending loads.
Bytes(wid) == CASE wid \in {0, 4} -> 1
                [] wid \in {1, 5} -> 2
                [] wid \in {2, 6} -> 4
                [] OTHER          -> 8

\* The index expression wraps at the end of the array.
Raw(ram, addr, n) ==
    Assemble(n, BYTE, [i \in 0 .. n - 1 |-> ram[(PAddr(addr) + i) % 2^RAM_SIZE]])

MemRead(ram, addr, wid) ==
    LET n == Bytes(wid)
    IN  CASE wid \in 0 .. 3 -> Sext(BYTE * n, Raw(ram, addr, n))
          [] wid \in 4 .. 6 -> Zext(BYTE * n, Raw(ram, addr, n))
          [] OTHER          -> 0

\* Mutant: only the lowest address bit is looked at.
StoreAligned_even(addr, wid) == wid \in 0 .. 3 /\ (wid = 0 \/ PAddr(addr) % 2 = 0)

\* A store has four widths and takes effect only at an aligned address.
StoreAligned(addr, wid) == wid \in 0 .. 3 /\ PAddr(addr) % Bytes(wid) = 0

\* Mutant: the word is shifted but not cut into bytes.
MemWrite_uncut(ram, addr, wid, wdata) ==
    IF ~ StoreAligned(addr, wid) THEN ram
    ELSE [a \in DOMAIN ram |->
            LET i == a - PAddr(addr)
            IN  IF i \in 0 .. Bytes(wid) - 1 THEN wdata \div 2^(BYTE * i) ELSE ram[a]]

MemWrite(ram, addr, wid, wdata) ==
    IF ~ StoreAligned(addr, wid) THEN ram
    ELSE [a \in DOMAIN ram |->
            LET i == a - PAddr(addr)
            IN  IF i \in 0 .. Bytes(wid) - 1 THEN (wdata \div 2^(BYTE * i)) % 2^BYTE
                                             ELSE ram[a]]

\* unalign_access for a store and for a load in MEM1.
StoreUnaligned(addr, wid) == ~ StoreAligned(addr, wid)
LoadUnaligned(wid)        == wid = 7

\* An instruction is fetched only from an address whose two low bits are 0.
CodeAddrs        == {a \in PAddrs : a % 4 = 0}
FetchIllegal(pc) == PAddr(pc) \notin CodeAddrs
=============================================================================
