------------------------------- MODULE X86Vme -------------------------------
(***************************************************************************)
(* The page tables of the x86 runtime (vme.c): ptwalk, teardown, protect,  *)
(* unprotect, map, and the walk of the processor through what they build.  *)
(*                                                                         *)
(* A page of physical memory that pgalloc gives out is a number; what is   *)
(* written in it stays when it is freed.  A virtual page is a number of    *)
(* Levels digits, one per table of the walk.  As in the 32-bit layout, the *)
(* kernel owns the virtual pages under some entries of the first table and *)
(* maps each of them to itself.                                            *)
(***************************************************************************)
EXTENDS Naturals, FiniteSets, SequencesExt

CONSTANTS Levels,      \* mmu.ptlevels
          Fan,         \* entries of a table
          Kernel,      \* the first-level entries of the kernel's areas
          Pages,       \* what pgalloc has to give
          Frames,      \* pages the kernel maps for its users
          Spaces       \* AddrSpace structures of the kernel

VmeAssumption == /\ Levels \in Nat \ {0} /\ Fan \in Nat \ {0}
                 /\ Pages \subseteq Nat \ {0} /\ IsFiniteSet(Pages) /\ Pages # {}
                 /\ Kernel \subseteq 0 .. Fan - 1 /\ Frames \subseteq Nat \ {0}

VARIABLES mem,         \* the tables written into pages
          free,        \* pages pgalloc has left
          kpt,         \* the kernel's first table, 0 before vme_init
          cur,         \* the next page vme_init maps
          ptr,         \* as->ptr of each space, 0 when it is not protected
          panic        \* a panic_on stopped the machine

vmeVars == <<mem, free, kpt, cur, ptr, panic>>

(* The pages under an entry of the n-th table from the last: its shift.    *)
Span == LET span[n \in 0 .. Levels] == IF n = 0 THEN 1 ELSE Fan * span[n - 1] IN span

(* Index of a page in the i-th table (indexof).                            *)
indexof(va, i) == (va \div Span[Levels - i]) % Fan
VirtualPages == 0 .. Span[Levels] - 1
KernelPages == {va \in VirtualPages : indexof(va, 1) \in Kernel}
UserPages == VirtualPages \ KernelPages

(* An entry: PTE_P is "to # 0"; Self stands for the identity mapping.      *)
Self(va) == 1000 + va
Entry(to, w, u) == [to |-> to, w |-> w, u |-> u]
Empty == Entry(0, FALSE, FALSE)
Zeroed == [i \in 0 .. Fan - 1 |-> Empty]

VmeInit == /\ mem = [p \in Pages |-> Zeroed] /\ free = Pages
           /\ kpt = 0 /\ cur = 0 /\ ptr = [s \in Spaces |-> 0] /\ panic = FALSE
-----------------------------------------------------------------------------
(* The n-th page pgalloc returns from here on.                             *)
pgalloc(n) == CHOOSE p \in free : Cardinality({q \in free : q < p}) = n - 1

(* A variant that trusts the page to be zero.                              *)
pgallocz_dirty(p) == mem[p]

pgallocz(p) == Zeroed

(* The tables of the walk to va that exist; 0 from the first that does not.*)
Follow(table, index) == IF table = 0 THEN 0 ELSE mem[table][index].to
Existing(root, va) ==
  LET at[i \in 1 .. Levels] == IF i = 1 THEN root ELSE Follow(at[i - 1], indexof(va, i - 1))
  IN at

(* ptwalk: all its tables, those to allocate included.                     *)
Walk(at) == LET old == Cardinality({i \in DOMAIN at : at[i] # 0})
            IN [i \in DOMAIN at |-> IF at[i] # 0 THEN at[i] ELSE pgalloc(i - old)]

(* What the i-th table holds once the entry of va is written; a table made *)
(* on the way gets the flags of the walk.                                  *)
TableAfter(at, tables, i, va, flags, entry) ==
  [IF at[i] = 0 THEN pgallocz(tables[i]) ELSE mem[tables[i]] EXCEPT
     ![indexof(va, i)] =
        IF i = Levels THEN entry
        ELSE IF at[i + 1] = 0 THEN Entry(tables[i + 1], flags.w, flags.u) ELSE @]

HasRoom(at) == Cardinality({i \in DOMAIN at : at[i] = 0}) <= Cardinality(free)

(* *ptwalk(as, va, flags) = entry, or the panic of pgallocz.               *)
Write(root, va, flags, entry) ==
  \E at \in {Existing(root, va)} :
    \/ /\ ~HasRoom(at)
       /\ panic' = TRUE /\ UNCHANGED <<mem, free>>
    \/ /\ HasRoom(at)
       /\ \E tables \in {Walk(at)} :
            /\ mem' = [p \in Pages |->
                         IF p \in Range(tables)
                         THEN TableAfter(at, tables, CHOOSE i \in DOMAIN tables : tables[i] = p,
                                         va, flags, entry)
                         ELSE mem[p]]
            /\ free' = free \ Range(tables)
       /\ UNCHANGED panic

(* vme_init: a table for the kernel, then each of its pages in it.         *)
vme_init ==
  /\ ~panic /\ kpt = 0
  /\ kpt' = pgalloc(1) /\ cur' = 0
  /\ mem' = [mem EXCEPT ![pgalloc(1)] = pgallocz(pgalloc(1))]
  /\ free' = free \ {pgalloc(1)}
  /\ UNCHANGED <<ptr, panic>>

map_kernel ==
  /\ ~panic /\ kpt # 0 /\ cur \in VirtualPages
  /\ cur' = cur + 1
  /\ IF cur \in KernelPages
     THEN Write(kpt, cur, Entry(0, TRUE, FALSE), Entry(Self(cur), TRUE, FALSE))
     ELSE UNCHANGED <<mem, free, panic>>
  /\ UNCHANGED <<kpt, ptr>>

Ready == ~panic /\ kpt # 0 /\ cur \notin VirtualPages

(* A new first table with the kernel's entries in it, so that all spaces   *)
(* share the kernel's tables.                                              *)
KernelShare == Kernel

protect(s) ==
  /\ Ready /\ ptr[s] = 0
  /\ \/ /\ free # {}
        /\ ptr' = [ptr EXCEPT ![s] = pgalloc(1)]
        /\ mem' = [mem EXCEPT ![pgalloc(1)] = [i \in 0 .. Fan - 1 |->
                      IF i \in KernelShare THEN mem[kpt][i] ELSE pgallocz(pgalloc(1))[i]]]
        /\ free' = free \ {pgalloc(1)}
        /\ UNCHANGED panic
     \/ /\ free = {}
        /\ panic' = TRUE /\ UNCHANGED <<mem, free, ptr>>
  /\ UNCHANGED <<kpt, cur>>

(* The tables under some: entries that are present and the user's.         *)
Below(tables) ==
  UNION {{mem[p][i].to : i \in {i \in 0 .. Fan - 1 : mem[p][i].to # 0 /\ mem[p][i].u}} :
         p \in tables}
BelowAll(tables) ==
  UNION {{mem[p][i].to : i \in {i \in 0 .. Fan - 1 : mem[p][i].to # 0}} : p \in tables}

(* What teardown frees: the tables, level by level, not the pages mapped.  *)
teardown(root) ==
  LET level[i \in 1 .. Levels] == IF i = 1 THEN {root} ELSE Below(level[i - 1])
  IN UNION Range(level)

(* as->ptr keeps its value in the code; the kernel does not use it again.  *)
unprotect(s) ==
  /\ Ready /\ ptr[s] # 0
  /\ free' = free \cup teardown(ptr[s])
  /\ ptr' = [ptr EXCEPT ![s] = 0]
  /\ UNCHANGED <<mem, kpt, cur, panic>>

(* The flags of a table made on the way to a user's page.                  *)
UserTableReadOnly == Entry(0, FALSE, TRUE)
UserTable == Entry(0, TRUE, TRUE)

IsMapped(root, va) == LET last == Existing(root, va)[Levels]
                      IN last # 0 /\ mem[last][indexof(va, Levels)].to # 0

(* map: to map what is mapped, and to unmap what is not, panics.           *)
map(s, va, new) ==
  /\ Ready /\ ptr[s] # 0
  /\ \/ /\ (new.to # 0) = IsMapped(ptr[s], va)
        /\ panic' = TRUE /\ UNCHANGED <<mem, free>>
     \/ /\ (new.to # 0) # IsMapped(ptr[s], va)
        /\ Write(ptr[s], va, UserTable, new)
  /\ UNCHANGED <<kpt, cur, ptr>>

MapPage(s, va, pa, w) == map(s, va, Entry(pa, w, TRUE))
UnmapPage(s, va) == map(s, va, Empty)

VmeNext == \/ vme_init \/ map_kernel
           \/ \E s \in Spaces :
                \/ protect(s) \/ unprotect(s)
                \/ \E va \in UserPages : \/ UnmapPage(s, va)
                                         \/ \E pa \in Frames, w \in BOOLEAN : MapPage(s, va, pa, w)
VmeSpec == VmeInit /\ [][VmeNext]_vmeVars
-----------------------------------------------------------------------------
(* The walk of the processor: where va goes from the table at root, with   *)
(* the rights every entry on the way grants; to = 0 is a page fault.       *)
Through(e, index) ==
  IF e.to = 0 THEN Empty
  ELSE Entry(mem[e.to][index].to, e.w /\ mem[e.to][index].w, e.u /\ mem[e.to][index].u)
Translate(root, va) ==
  LET e[i \in 0 .. Levels] == IF i = 0 THEN Entry(root, TRUE, TRUE)
                              ELSE Through(e[i - 1], indexof(va, i))
  IN e[Levels]

(* What a user program sees of va.                                         *)
ForUser(e) == IF e.to # 0 /\ e.u THEN [pa |-> e.to, write |-> e.w]
              ELSE [pa |-> 0, write |-> FALSE]
Seen(s, va) == ForUser(Translate(ptr[s], va))

Unset == [va \in {} |-> 0]
SpacesSeen == [s \in Spaces |-> IF ptr[s] = 0 THEN Unset ELSE [va \in UserPages |-> Seen(s, va)]]
Promise == INSTANCE AddressSpaces WITH space <- SpacesSeen

(* The calls do to what the processor sees of each space just what they    *)
(* promise, whatever was in the pages they get and whatever the other      *)
(* spaces did before.                                                      *)
PromisedStep == Promise!Next \/ UNCHANGED SpacesSeen
KeepsPromise == Promise!Init /\ [][PromisedStep]_vmeVars

(* A page is mapped where the caller asked, with the rights it asked for.  *)
MappedAsAsked ==
  \A s \in Spaces, va \in UserPages, pa \in Frames, w \in BOOLEAN :
        MapPage(s, va, pa, w) /\ ~panic' => Seen(s, va)' = [pa |-> pa, write |-> w]
MapsAsAsked == [][MappedAsAsked]_vmeVars

Roots == {ptr[s] : s \in Spaces} \ {0}

(* The kernel sees all of its memory from every space, and no user does.   *)
KernelInEverySpace ==
  Ready => \A root \in {kpt} \cup Roots :
    \A va \in KernelPages : /\ Translate(root, va).to = Self(va)
                            /\ ~Translate(root, va).u

(* Every page is free, the kernel's, or a table of exactly one space: none *)
(* leaks, none is freed twice or shared.                                   *)
KernelTables == LET level[i \in 1 .. Levels] == IF i = 1 THEN {kpt} ELSE BelowAll(level[i - 1])
                IN UNION Range(level)
Tables(root) == teardown(root)
OwnsItsTables ==
  Ready =>
    /\ Pages = free \cup KernelTables \cup UNION {Tables(r) : r \in Roots}
    /\ free \cap KernelTables = {}
    /\ \A r \in Roots : Tables(r) \cap (free \cup KernelTables) = {}
    /\ \A r, q \in Roots : r # q => Tables(r) \cap Tables(q) = {}
=============================================================================
