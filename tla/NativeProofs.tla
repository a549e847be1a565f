---------------------------- MODULE NativeProofs ----------------------------
(***************************************************************************)
(* Proofs about traps and address spaces on Linux, for any number of       *)
(* threads of either kind and any pages: a thread goes on where it was     *)
(* left, on its own stack, and sees the pages of its own space.            *)
(*                                                                         *)
(* The invariant NativeInv follows a thread through its trap: its first    *)
(* context is at the bottom of its kernel stack and holds what the history *)
(* says it was left with; a second one, of a yield in a system call, is    *)
(* above it.  A context is complete when irq_handle has stored the space   *)
(* and the kernel stack in it (Left), which it does before any other       *)
(* thread can come.  Of the spaces it says that exactly the entries of the *)
(* current one are mapped.                                                 *)
(***************************************************************************)
EXTENDS NativeCte, SequenceTheorems, TLAPS

KernelPcs == {"start", "text", "lib", "printed", "critical", "unmasked"}
Pcs == KernelPcs \cup UserCode
       \cup {"main", "boot", "irq_handle", "magic", "syscall", "yielded"}
Stacks == (0 .. NThreads + 1) \X (0 .. 3)
Contexts == (0 .. NThreads + 1) \X Depth
Ucs == [pc : Pcs, sp : Stacks, masked : BOOLEAN, gpr1 : Stacks]
Cells == [uc : Ucs, vm_head : UserThreads \cup {0}, ksp : (0 .. NThreads + 1) \X {0}]
Lefts == [pc : Pcs, sp : Stacks, masked : BOOLEAN]

\* What belongs to a thread: its space and its place outside traps.
HeadOf(t) == IF t \in UserThreads THEN t ELSE 0
Home(t) == IF t \in UserThreads THEN Outside ELSE <<t, 0>>

\* uc are registers of the program of t.
OfProgram(t, uc) ==
    /\ uc.sp = Home(t)
    /\ IF t \in UserThreads THEN uc.pc \in UserCode /\ ~ uc.masked
       ELSE uc.pc \in KernelPcs /\ (uc.masked <=> uc.pc = "critical")

Entry(uc) == [pc |-> uc.pc, sp |-> uc.sp, masked |-> uc.masked]

\* The registers in a system call that yields.
InCall(t) == [pc |-> "yielded", sp |-> <<t, 1>>, masked |-> TRUE, gpr1 |-> <<t, 1>>]

\* The contexts of t, whose history is h, with the memory m.
First(m, t, h) == OfProgram(t, m[<<t, 1>>].uc) /\ h[1] = Entry(m[<<t, 1>>].uc)
Second(m, t, h) == t \in UserThreads /\ m[<<t, 2>>].uc = InCall(t) /\ h[2] = Entry(InCall(t))
Left(m, t, c) == m[c].vm_head = HeadOf(t) /\ (t \in UserThreads => m[c].ksp = <<t, 0>>)

\* t waits with its context at c.
Waits(m, t, h, c) ==
    \/ c = <<t, 1>> /\ Len(h) = 1 /\ First(m, t, h) /\ Left(m, t, <<t, 1>>)
    \/ /\ c = <<t, 2>> /\ Len(h) = 2 /\ First(m, t, h) /\ Left(m, t, <<t, 1>>)
       /\ Second(m, t, h) /\ Left(m, t, <<t, 2>>)

\* t, with the registers g, is where its trap has brought it.
AtIrq(m, t, h, g, e) ==
    /\ g.pc = "irq_handle" /\ g.masked /\ g.sp = g.gpr1
    /\ \/ g.gpr1 = <<t, 1>> /\ Len(h) = 1 /\ First(m, t, h) /\ (e = "SYSCALL" => t \in UserThreads)
       \/ /\ g.gpr1 = <<t, 2>> /\ Len(h) = 2 /\ First(m, t, h) /\ Left(m, t, <<t, 1>>)
          /\ Second(m, t, h) /\ e = "YIELD"
AtCall(m, t, h, g) ==
    /\ g.pc \in {"syscall", "yielded"} /\ g.masked /\ g.sp = <<t, 1>> /\ g.gpr1 = <<t, 1>>
    /\ t \in UserThreads /\ Len(h) = 1 /\ First(m, t, h) /\ Left(m, t, <<t, 1>>)
AtMagic(m, t, h, g) == g.pc = "magic" /\ g.masked /\ Waits(m, t, h, g.gpr1)
AtMain(t, g, e) == /\ t = 0 /\ g.masked
                   /\ \/ g.pc = "main" /\ g.sp = <<0, 0>>
                      \/ g.pc = "irq_handle" /\ g.gpr1 = <<0, 1>> /\ e = "YIELD"
AtProgram(t, h, g) == t \in Threads /\ h = << >> /\ OfProgram(t, g)

Where(m, t, h, g, e) ==
    \/ AtMain(t, g, e) \/ AtProgram(t, h, g)
    \/ t \in Threads /\ (AtIrq(m, t, h, g, e) \/ AtCall(m, t, h, g) \/ AtMagic(m, t, h, g))

----------------------------------------------------------------------------
(* The invariant                                                           *)

Vas(list) == {list[k].va : k \in DOMAIN list}
View(s, list) == [v \in Vas(list) |-> <<s, v>>]

\* The entries of a list are pages of s; all are mapped or none is.
PagesOf(s, list) == \A k \in DOMAIN list : list[k].pa = <<s, list[k].va>>
AllMapped(list, b) == \A k \in DOMAIN list : list[k].is_mapped <=> b

\* The entries of the space s, one of which is mapped if the space is.
PageMaps(s) == {e \in [va : Pages, pa : {s} \X Pages, is_mapped : BOOLEAN] : e.pa = <<s, e.va>>}
SpacesOK == /\ DOMAIN spaces = UserThreads
            /\ \A s \in UserThreads :
                  /\ spaces[s] \in Seq(PageMaps(s))
                  /\ AllMapped(spaces[s], s = vm_head)

NativeTypes == /\ regs \in Ucs /\ vm_head \in UserThreads \cup {0}
               /\ ksp \in (0 .. NThreads + 1) \X {0}
               /\ mem \in [Contexts -> Cells]
               /\ current \in 0 .. NThreads /\ cp \in [0 .. NThreads -> Contexts]
               /\ left \in [0 .. NThreads -> Seq(Lefts)]

CurrentOK == /\ Where(mem, current, left[current], regs, ev)
             /\ vm_head = HeadOf(current)
             /\ current \in UserThreads /\ regs.pc # "magic" => ksp = <<current, 0>>
WaitingOK == \A t \in Threads \ {current} : Waits(mem, t, left[t], cp[t])
ShownOK == shown = WithPages(<< >>, ListOf(vm_head))

NativeInv == NativeCteAssumption /\ NativeTypes /\ CurrentOK /\ WaitingOK /\ SpacesOK /\ ShownOK

----------------------------------------------------------------------------
(* Spaces                                                                  *)

\* With nothing else mapped, the process shows the pages of a list.
LEMMA ViewOf ==
    ASSUME NEW s, NEW list, PagesOf(s, list), NEW view, DOMAIN view = {}
    PROVE  WithPages(view, list) = View(s, list)
<1>1. WithPages(view, list) = [v \in Vas(list) |->
         IF \E k \in DOMAIN list : list[k].va = v
         THEN list[CHOOSE k \in DOMAIN list : list[k].va = v].pa ELSE view[v]]
  BY DEF WithPages, Vas
<1>2. ASSUME NEW v \in Vas(list)
      PROVE  /\ \E k \in DOMAIN list : list[k].va = v
             /\ list[CHOOSE k \in DOMAIN list : list[k].va = v].pa = <<s, v>>
  <2>1. \E k \in DOMAIN list : list[k].va = v
    BY DEF Vas
  <2>2. PICK k \in DOMAIN list : /\ k = CHOOSE j \in DOMAIN list : list[j].va = v
                                 /\ list[k].va = v
    BY <2>1
  <2> QED
    BY <2>1, <2>2 DEF PagesOf
<1> QED
  BY <1>1, <1>2 DEF View

\* The entries of a list are pages of its space.
LEMMA ListsOK ==
    ASSUME NativeCteAssumption, SpacesOK, NEW s \in UserThreads \cup {0}
    PROVE  /\ PagesOf(s, ListOf(s)) /\ AllMapped(ListOf(s), s = vm_head)
           /\ s # 0 => s \in UserThreads /\ ListOf(s) = spaces[s]
           /\ s = 0 => ListOf(s) = << >> /\ s \notin UserThreads
<1>1. 0 \notin UserThreads
  BY DEF NativeCteAssumption
<1>2. CASE s = 0
  BY <1>1, <1>2 DEF ListOf, PagesOf, AllMapped
<1>3. CASE s # 0
  <2>1. s \in UserThreads /\ ListOf(s) = spaces[s] /\ spaces[s] \in Seq(PageMaps(s))
        /\ AllMapped(spaces[s], s = vm_head)
    BY <1>3 DEF ListOf, SpacesOK
  <2>2. \A k \in DOMAIN spaces[s] : spaces[s][k] \in PageMaps(s)
    BY <2>1
  <2>3. PagesOf(s, spaces[s])
    BY <2>2 DEF PageMaps, PagesOf
  <2> QED
    BY <1>3, <2>1, <2>3
<1> QED
  BY <1>2, <1>3

\* Marking the entries of a list leaves them entries of the same pages.
LEMMA MarkedOK ==
    ASSUME NEW s, NEW list \in Seq(PageMaps(s)), NEW b \in BOOLEAN
    PROVE  /\ Marked(list, b) \in Seq(PageMaps(s)) /\ AllMapped(Marked(list, b), b)
           /\ PagesOf(s, Marked(list, b)) /\ View(s, Marked(list, b)) = View(s, list)
<1>1. PICK n \in Nat : n = Len(list)
  OBVIOUS
<1>2. DOMAIN list = 1 .. n /\ \A k \in 1 .. n : list[k] \in PageMaps(s)
  BY <1>1
<1>3. ASSUME NEW e \in PageMaps(s)
      PROVE  /\ [e EXCEPT !.is_mapped = b] \in PageMaps(s)
             /\ ([e EXCEPT !.is_mapped = b].is_mapped <=> b) /\ [e EXCEPT !.is_mapped = b].va = e.va
             /\ [e EXCEPT !.is_mapped = b].pa = <<s, e.va>>
  BY DEF PageMaps
<1>4. Marked(list, b) = [k \in 1 .. n |-> [list[k] EXCEPT !.is_mapped = b]]
  BY <1>2 DEF Marked
<1>5. PICK new : new = Marked(list, b)
  OBVIOUS
<1>6. DOMAIN new = 1 .. n /\ \A k \in 1 .. n : new[k] = [list[k] EXCEPT !.is_mapped = b]
  BY <1>4, <1>5
<1>7. \A k \in 1 .. n : /\ new[k] \in PageMaps(s) /\ (new[k].is_mapped <=> b) /\ new[k].va = list[k].va
                         /\ new[k].pa = <<s, list[k].va>>
  <2>1. SUFFICES ASSUME NEW k \in 1 .. n
                 PROVE  /\ new[k] \in PageMaps(s) /\ (new[k].is_mapped <=> b)
                        /\ new[k].va = list[k].va /\ new[k].pa = <<s, list[k].va>>
    OBVIOUS
  <2>2. PICK e \in PageMaps(s) : e = list[k]
    BY <1>2
  <2>3. new[k] = [e EXCEPT !.is_mapped = b]
    BY <1>6, <2>2
  <2> QED
    BY <1>3, <2>2, <2>3
<1>8. new \in Seq(PageMaps(s))
  <2>1. new \in [1 .. n -> PageMaps(s)]
    BY <1>2, <1>3, <1>4, <1>5
  <2> QED
    BY <2>1, SeqDef
<1>9. AllMapped(new, b) /\ PagesOf(s, new)
  BY <1>6, <1>7 DEF AllMapped, PagesOf
<1>10. View(s, new) = View(s, list)
  <2>1. Vas(new) = Vas(list)
    BY <1>2, <1>6, <1>7 DEF Vas
  <2> QED
    BY <2>1 DEF View
<1> QED
  BY <1>5, <1>8, <1>9, <1>10

\* __am_switch takes the pages of one space away and shows those of the other.
LEMMA SwitchView ==
    ASSUME NativeCteAssumption, SpacesOK, ShownOK, vm_head \in UserThreads \cup {0},
           NEW head \in UserThreads \cup {0}, am_switch(head)
    PROVE  SpacesOK' /\ ShownOK'
<1>1. CASE head = vm_head
  <2>1. vm_head' = vm_head /\ shown' = shown /\ spaces' = spaces
    BY <1>1 DEF am_switch
  <2> QED
    BY <2>1 DEF SpacesOK, ShownOK, ListOf
<1>2. CASE head # vm_head
  <2>1. /\ vm_head' = head
        /\ shown' = WithPages(Unmapped(ListOf(vm_head)), ListOf(head))
        /\ spaces' = [s \in UserThreads |->
                         IF s = vm_head THEN Marked(spaces[s], FALSE)
                         ELSE IF s = head THEN Marked(spaces[s], TRUE) ELSE spaces[s]]
    BY <1>2 DEF am_switch, SpacesOK
  <2>2. ASSUME NEW s \in UserThreads
        PROVE  /\ spaces'[s] \in Seq(PageMaps(s)) /\ AllMapped(spaces'[s], s = head)
               /\ PagesOf(s, spaces'[s]) /\ View(s, spaces'[s]) = View(s, spaces[s])
    <3>1. spaces[s] \in Seq(PageMaps(s)) /\ AllMapped(spaces[s], s = vm_head)
          /\ PagesOf(s, spaces[s])
      <4>1. spaces[s] \in Seq(PageMaps(s)) /\ AllMapped(spaces[s], s = vm_head)
        BY DEF SpacesOK
      <4>2. \A k \in DOMAIN spaces[s] : spaces[s][k] \in PageMaps(s)
        BY <4>1
      <4> QED
        BY <4>1, <4>2 DEF PagesOf, PageMaps
    <3>2. CASE s = vm_head
      <4>1. spaces'[s] = Marked(spaces[s], FALSE) /\ s # head
        BY <1>2, <2>1, <3>2
      <4>2. /\ Marked(spaces[s], FALSE) \in Seq(PageMaps(s)) /\ AllMapped(Marked(spaces[s], FALSE), FALSE)
            /\ PagesOf(s, Marked(spaces[s], FALSE)) /\ View(s, Marked(spaces[s], FALSE)) = View(s, spaces[s])
        BY <3>1, MarkedOK
      <4> QED
        BY <4>1, <4>2 DEF AllMapped
    <3>3. CASE s = head
      <4>1. spaces'[s] = Marked(spaces[s], TRUE)
        BY <1>2, <2>1, <3>3
      <4>2. /\ Marked(spaces[s], TRUE) \in Seq(PageMaps(s)) /\ AllMapped(Marked(spaces[s], TRUE), TRUE)
            /\ PagesOf(s, Marked(spaces[s], TRUE)) /\ View(s, Marked(spaces[s], TRUE)) = View(s, spaces[s])
        BY <3>1, MarkedOK
      <4> QED
        BY <3>3, <4>1, <4>2 DEF AllMapped
    <3>4. CASE s # head /\ s # vm_head
      <4>1. spaces'[s] = spaces[s]
        BY <2>1, <3>4
      <4> QED
        BY <3>1, <3>4, <4>1 DEF AllMapped
    <3> QED
      BY <3>2, <3>3, <3>4
  <2>3. SpacesOK'
    BY <2>1, <2>2 DEF SpacesOK
  <2>4. DOMAIN << >> = {} /\ PagesOf(vm_head, ListOf(vm_head)) /\ AllMapped(ListOf(vm_head), TRUE)
        /\ PagesOf(head, ListOf(head))
    <3>1. DOMAIN << >> = {}
      OBVIOUS
    <3>2. PagesOf(vm_head, ListOf(vm_head)) /\ AllMapped(ListOf(vm_head), vm_head = vm_head)
      BY ListsOK
    <3>3. PagesOf(head, ListOf(head))
      BY ListsOK
    <3> QED
      BY <3>1, <3>2, <3>3 DEF AllMapped
  <2>5. DOMAIN Unmapped(ListOf(vm_head)) = {}
    <3>1. shown = View(vm_head, ListOf(vm_head))
      BY <2>4, ViewOf DEF ShownOK
    <3> QED
      BY <2>4, <3>1 DEF Unmapped, Vas, View, AllMapped
  <2>6. shown' = View(head, ListOf(head))
    BY <2>1, <2>4, <2>5, ViewOf
  <2>7. PagesOf(head, ListOf(head)') /\ View(head, ListOf(head)') = View(head, ListOf(head))
    <3>1. CASE head = 0
      BY <2>4, <3>1 DEF ListOf
    <3>2. CASE head # 0
      <4>1. head \in UserThreads /\ ListOf(head)' = spaces'[head] /\ ListOf(head) = spaces[head]
        BY <3>2 DEF ListOf
      <4> QED
        BY <2>2, <4>1
    <3> QED
      BY <3>1, <3>2
  <2>8. WithPages(<< >>, ListOf(head)') = View(head, ListOf(head)')
    BY <2>4, <2>7, ViewOf
  <2> QED
    BY <2>1, <2>3, <2>6, <2>7, <2>8 DEF ShownOK, ListOf
<1> QED
  BY <1>1, <1>2

\* The list of one page, and the space that has that page, too.
OnePage(s, va) == <<[va |-> va, pa |-> <<s, va>>]>>
Grown(s, list, va) == [v \in Vas(list) \cup {va} |-> <<s, v>>]

\* Adding the list of one page adds the page.
LEMMA OneMorePage ==
    ASSUME NEW s, NEW list, NEW va
    PROVE  WithPages(View(s, list), OnePage(s, va)) = Grown(s, list, va)
<1>1. PICK new : new = OnePage(s, va)
  OBVIOUS
<1>2. DOMAIN new = {1} /\ new[1].va = va /\ new[1].pa = <<s, va>>
  BY <1>1 DEF OnePage
<1>3. PICK view : view = View(s, list)
  OBVIOUS
<1>4. DOMAIN view = Vas(list) /\ \A v \in Vas(list) : view[v] = <<s, v>>
  BY <1>3 DEF View
<1>5. WithPages(view, new) = [v \in DOMAIN view \cup {new[k].va : k \in DOMAIN new} |->
         IF \E k \in DOMAIN new : new[k].va = v
         THEN new[CHOOSE k \in DOMAIN new : new[k].va = v].pa ELSE view[v]]
  BY DEF WithPages
<1>6. DOMAIN view \cup {new[k].va : k \in DOMAIN new} = Vas(list) \cup {va}
  BY <1>2, <1>4
<1>7. ASSUME NEW v \in Vas(list) \cup {va}
      PROVE  (IF \E k \in DOMAIN new : new[k].va = v
              THEN new[CHOOSE k \in DOMAIN new : new[k].va = v].pa ELSE view[v]) = <<s, v>>
  <2>1. CASE v = va
    <3>1. (\E k \in DOMAIN new : new[k].va = v) /\ \A k \in DOMAIN new : new[k].pa = <<s, v>>
      BY <1>2, <2>1
    <3>2. (CHOOSE k \in DOMAIN new : new[k].va = v) \in DOMAIN new
      BY <3>1
    <3> QED
      BY <3>1, <3>2
  <2>2. CASE v # va
    <3>1. ~ \E k \in DOMAIN new : new[k].va = v
      BY <1>2, <2>2
    <3> QED
      BY <1>4, <1>7, <2>2, <3>1
  <2> QED
    BY <2>1, <2>2
<1> QED
  BY <1>1, <1>3, <1>5, <1>6, <1>7 DEF Grown

\* map adds an entry, and shows the page if the space is the current one.
LEMMA MapView ==
    ASSUME NativeCteAssumption, SpacesOK, ShownOK, vm_head' = vm_head,
           NEW s \in UserThreads, NEW va \in Pages, map(s, va, <<s, va>>)
    PROVE  SpacesOK' /\ ShownOK'
<1>1. PICK new : new = [va |-> va, pa |-> <<s, va>>, is_mapped |-> s = vm_head]
  OBVIOUS
<1>2. /\ new \in PageMaps(s) /\ new.va = va /\ new.pa = <<s, va>> /\ (new.is_mapped <=> s = vm_head)
  BY <1>1 DEF PageMaps
<1>3. spaces' = [spaces EXCEPT ![s] = <<new>> \o @]
      /\ shown' = IF s = vm_head THEN WithPages(shown, <<[va |-> va, pa |-> <<s, va>>]>>) ELSE shown
  BY <1>1 DEF map
<1>4. PICK old \in Seq(PageMaps(s)) : old = spaces[s]
  BY DEF SpacesOK
<1>5. PICK n \in Nat : n = Len(old)
  OBVIOUS
<1>6. PICK list : list = <<new>> \o old
  OBVIOUS
<1>7. /\ list \in Seq(PageMaps(s)) /\ DOMAIN list = 1 .. n + 1 /\ DOMAIN old = 1 .. n
      /\ list[1] = new /\ \A k \in 1 .. n : list[k + 1] = old[k]
  BY <1>2, <1>5, <1>6
<1>8. DOMAIN spaces' = UserThreads /\ spaces'[s] = list
      /\ \A u \in UserThreads \ {s} : spaces'[u] = spaces[u]
  BY <1>3, <1>4, <1>6 DEF SpacesOK
<1>9. AllMapped(list, s = vm_head) /\ PagesOf(s, list) /\ Vas(list) = Vas(old) \cup {va}
  <2>1. AllMapped(old, s = vm_head) /\ \A k \in 1 .. n : old[k] \in PageMaps(s)
    BY <1>4, <1>5 DEF SpacesOK
  <2>2. \A k \in 1 .. n + 1 : k = 1 \/ \E j \in 1 .. n : k = j + 1
    <3>1. \A k \in 1 .. n + 1 : k # 1 => k - 1 \in 1 .. n /\ k = (k - 1) + 1
      OBVIOUS
    <3> QED
      BY <3>1
  <2>3. 1 \in 1 .. n + 1 /\ \A k \in 1 .. n : k + 1 \in 1 .. n + 1
    OBVIOUS
  <2>4. ASSUME NEW k \in DOMAIN list
        PROVE  (list[k].is_mapped <=> s = vm_head) /\ list[k].pa = <<s, list[k].va>>
    <3>1. CASE k = 1
      BY <1>2, <1>7, <3>1
    <3>2. ASSUME NEW j \in 1 .. n, k = j + 1
          PROVE  (list[k].is_mapped <=> s = vm_head) /\ list[k].pa = <<s, list[k].va>>
      <4>1. list[k] = old[j]
        BY <1>7, <3>2
      <4>2. old[j] \in PageMaps(s)
        BY <2>1
      <4>3. old[j].is_mapped <=> s = vm_head
        BY <1>7, <2>1 DEF AllMapped
      <4>4. old[j].pa = <<s, old[j].va>>
        BY <4>2 DEF PageMaps
      <4> QED
        BY <4>1, <4>3, <4>4
    <3> QED
      BY <1>7, <2>2, <3>1, <3>2
  <2>5. AllMapped(list, s = vm_head) /\ PagesOf(s, list)
    BY <2>4 DEF AllMapped, PagesOf
  <2>6. ASSUME NEW v PROVE v \in Vas(list) <=> v \in Vas(old) \/ v = va
    <3>1. v \in Vas(list) <=> \E k \in 1 .. n + 1 : list[k].va = v
      BY <1>7 DEF Vas
    <3>2. v \in Vas(old) <=> \E k \in 1 .. n : old[k].va = v
      BY <1>7 DEF Vas
    <3> QED
      BY <1>2, <1>7, <2>2, <2>3, <3>1, <3>2
  <2> QED
    BY <2>4, <2>5, <2>6
<1>10. SpacesOK'
  BY <1>7, <1>8, <1>9 DEF SpacesOK
<1>11. ShownOK'
  <2>1. vm_head' = vm_head
    OBVIOUS
  <2>2. CASE s = vm_head
    <3>1. vm_head # 0 /\ DOMAIN << >> = {} /\ PagesOf(s, old)
      <4>1. s # 0
        BY DEF NativeCteAssumption
      <4>2. s \in UserThreads \cup {0}
        OBVIOUS
      <4> QED
        BY <1>4, <2>2, <4>1, <4>2, ListsOK
    <3>2. ListOf(vm_head) = old /\ ListOf(vm_head)' = list
      BY <1>4, <1>8, <2>2, <3>1 DEF ListOf
    <3>3. shown = View(s, old)
      BY <3>1, <3>2, ViewOf DEF ShownOK
    <3>4. shown' = Grown(s, old, va)
      <4>1. WithPages(View(s, old), OnePage(s, va)) = Grown(s, old, va)
        BY OneMorePage
      <4>2. shown' = WithPages(View(s, old), OnePage(s, va))
        BY <1>3, <2>2, <3>3 DEF OnePage
      <4> QED
        BY <4>1, <4>2
    <3>5. shown' = View(s, list)
      BY <1>9, <3>4 DEF View, Grown
    <3>6. WithPages(<< >>, list) = View(s, list)
      BY <1>9, <3>1, ViewOf
    <3> QED
      BY <3>2, <3>5, <3>6 DEF ShownOK
  <2>3. CASE s # vm_head
    <3>1. ListOf(vm_head)' = ListOf(vm_head)
      <4>1. vm_head # 0 => vm_head \in UserThreads \/ spaces'[vm_head] = spaces[vm_head]
        BY <1>3, <2>3
      <4> QED
        BY <1>3, <1>8, <2>3, <4>1 DEF ListOf
    <3> QED
      BY <1>3, <2>3, <3>1 DEF ShownOK
  <2> QED
    BY <2>2, <2>3
<1> QED
  BY <1>10, <1>11

----------------------------------------------------------------------------
(* Threads                                                                 *)

\* Where a thread is in its trap can be told from its pc.
LEMMA PcTells ==
    ASSUME NativeInv
    PROVE  /\ regs.pc \in KernelPcs \cup UserCode => AtProgram(current, left[current], regs)
           /\ regs.pc = "main" => AtMain(current, regs, ev)
           /\ regs.pc = "irq_handle" => \/ AtMain(current, regs, ev)
                                        \/ /\ current \in Threads
                                           /\ AtIrq(mem, current, left[current], regs, ev)
           /\ regs.pc \in {"syscall", "yielded"} => /\ current \in Threads
                                                    /\ AtCall(mem, current, left[current], regs)
           /\ regs.pc = "magic" => current \in Threads /\ AtMagic(mem, current, left[current], regs)
<1>1. Where(mem, current, left[current], regs, ev)
  BY DEF NativeInv, CurrentOK
<1>2. AtProgram(current, left[current], regs) => regs.pc \in KernelPcs \cup UserCode
  BY DEF AtProgram, OfProgram
<1>3. AtMain(current, regs, ev) => regs.pc \in {"main", "irq_handle"}
  BY DEF AtMain
<1>4. AtIrq(mem, current, left[current], regs, ev) => regs.pc = "irq_handle"
  BY DEF AtIrq
<1>5. AtCall(mem, current, left[current], regs) => regs.pc \in {"syscall", "yielded"}
  BY DEF AtCall
<1>6. AtMagic(mem, current, left[current], regs) => regs.pc = "magic"
  BY DEF AtMagic
<1> QED
  BY <1>1, <1>2, <1>3, <1>4, <1>5, <1>6 DEF Where, KernelPcs, UserCode

\* Numbers of threads, and that 0 is none.
LEMMA ThreadNumbers ==
    ASSUME NativeInv
    PROVE  /\ NThreads \in Nat \ {0} /\ UserThreads \subseteq Threads /\ 0 \notin Threads
           /\ Threads \subseteq 0 .. NThreads /\ Threads \subseteq Nat
           /\ current \in 0 .. NThreads /\ vm_head = HeadOf(current)
           /\ \A t \in 0 .. NThreads, k \in Depth : <<t, k>> \in Contexts /\ <<t, k>> \in Stacks
           /\ 1 \in Depth /\ 2 \in Depth
           /\ Outside \in Stacks /\ \A t \in 0 .. NThreads, k \in 0 .. 3 : <<t, k>> \in Stacks
<1>1. NThreads \in Nat \ {0} /\ UserThreads \subseteq 1 .. NThreads
  BY DEF NativeInv, NativeCteAssumption
<1>2. current \in 0 .. NThreads /\ vm_head = HeadOf(current)
  BY DEF NativeInv, NativeTypes, CurrentOK
<1>3. Threads = 1 .. NThreads
  BY DEF Threads
<1>4. 0 .. NThreads \subseteq 0 .. NThreads + 1 /\ NThreads + 1 \in 0 .. NThreads + 1 /\ 0 \in 0 .. 3
      /\ {1, 2, 3} \subseteq 0 .. 3 /\ {1, 2, 3} = Depth /\ Threads \subseteq 0 .. NThreads
      /\ 0 \notin Threads /\ Threads \subseteq Nat
  BY <1>1, <1>3 DEF Depth
<1>5. \A t \in 0 .. NThreads, k \in Depth : <<t, k>> \in Contexts /\ <<t, k>> \in Stacks
  BY <1>4 DEF Contexts, Stacks
<1>6. Outside \in Stacks /\ \A t \in 0 .. NThreads, k \in 0 .. 3 : <<t, k>> \in Stacks
  BY <1>4 DEF Stacks, Outside
<1> QED
  BY <1>1, <1>2, <1>3, <1>4, <1>5, <1>6

\* Nobody writes the contexts of a thread.
Untouched(m, m2, t) == m2[<<t, 1>>] = m[<<t, 1>>] /\ m2[<<t, 2>>] = m[<<t, 2>>]

\* Then they go on waiting.
LEMMA WaitsKept ==
    ASSUME NEW m, NEW m2, NEW t, NEW h, NEW c, Untouched(m, m2, t), Waits(m, t, h, c)
    PROVE  Waits(m2, t, h, c)
  BY DEF Untouched, Waits, First, Second, Left

\* A store of one context.
Stores(t, k, u) == mem' = [mem EXCEPT ![<<t, k>>].uc = u]

\* It changes that context and no other.
LEMMA Stored ==
    ASSUME NativeInv, NEW t \in 0 .. NThreads, NEW k \in Depth, NEW u \in Ucs, Stores(t, k, u)
    PROVE  /\ mem' \in [Contexts -> Cells] /\ mem'[<<t, k>>].uc = u
           /\ \A c \in Contexts : c # <<t, k>> => mem'[c] = mem[c]
           /\ \A s \in Threads \ {t} : Untouched(mem, mem', s)
<1>1. <<t, k>> \in Contexts /\ mem \in [Contexts -> Cells]
  BY ThreadNumbers DEF NativeInv, NativeTypes
<1>2. PICK c \in Contexts : c = <<t, k>>
  BY <1>1
<1>3. mem' = [mem EXCEPT ![c] = [mem[c] EXCEPT !.uc = u]]
  BY <1>1, <1>2 DEF Stores
<1>4. [mem[c] EXCEPT !.uc = u] \in Cells /\ [mem[c] EXCEPT !.uc = u].uc = u
  BY <1>1 DEF Cells
<1>5. mem' \in [Contexts -> Cells] /\ mem'[c].uc = u /\ \A d \in Contexts : d # c => mem'[d] = mem[d]
  BY <1>1, <1>3, <1>4
<1>6. ASSUME NEW s \in Threads \ {t} PROVE Untouched(mem, mem', s)
  <2>1. <<s, 1>> \in Contexts /\ <<s, 2>> \in Contexts /\ <<s, 1>> # c /\ <<s, 2>> # c
    <3>1. s \in 0 .. NThreads /\ s # t /\ 1 \in Depth /\ 2 \in Depth
      BY ThreadNumbers DEF Depth
    <3> QED
      BY <1>2, <3>1, ThreadNumbers
  <2> QED
    BY <1>5, <2>1 DEF Untouched
<1> QED
  BY <1>2, <1>5, <1>6

\* The threads that do not run are not touched.
LEMMA OthersWait ==
    ASSUME NativeInv, current' = current, cp' = cp,
           \A s \in Threads \ {current} : Untouched(mem, mem', s) /\ left'[s] = left[s]
    PROVE  WaitingOK'
<1>1. ASSUME NEW s \in Threads \ {current} PROVE Waits(mem', s, left'[s], cp'[s])
  <2>1. Waits(mem, s, left[s], cp[s])
    BY DEF NativeInv, WaitingOK
  <2> QED
    BY <2>1, WaitsKept
<1> QED
  BY <1>1 DEF WaitingOK, Threads

\* What is shown stays as it is.
LEMMA PagesKept ==
    ASSUME NativeInv, UNCHANGED <<vm_head, shown, spaces>>
    PROVE  SpacesOK' /\ ShownOK'
  BY DEF NativeInv, SpacesOK, ShownOK, ListOf

\* The registers with which irq_handle starts.
LEMMA Redirected ==
    ASSUME NEW c \in Stacks,
           regs' = [pc |-> "irq_handle", sp |-> c, masked |-> TRUE, gpr1 |-> c]
    PROVE  regs' \in Ucs
<1>1. "irq_handle" \in Pcs
  BY DEF Pcs
<1> QED
  BY <1>1 DEF Ucs

\* A step of a program, and a signal that is dropped.
LEMMA ProgramMoves ==
    ASSUME NativeInv, AtProgram(current, left[current], regs),
           regs' \in Ucs, OfProgram(current, regs'),
           UNCHANGED <<vm_head, ksp, mem, shown, spaces, current, cp, left>>
    PROVE  NativeInv'
<1>1. NativeTypes'
  BY DEF NativeInv, NativeTypes
<1>2. SpacesOK' /\ ShownOK'
  BY PagesKept
<1>3. WaitingOK'
  BY OthersWait DEF Untouched
<1>4. current' \in Threads /\ current' = current /\ left'[current'] = << >> /\ vm_head' = HeadOf(current')
  BY ThreadNumbers DEF AtProgram
<1>5. regs.pc # "magic"
  BY DEF AtProgram, OfProgram, KernelPcs, UserCode
<1>6. current \in UserThreads => ksp' = <<current, 0>>
  BY <1>5 DEF NativeInv, CurrentOK
<1>7. Where(mem', current', left'[current'], regs', ev')
  BY <1>4 DEF Where, AtProgram
<1>8. CurrentOK'
  BY <1>4, <1>6, <1>7 DEF CurrentOK
<1>9. NativeCteAssumption
  BY DEF NativeInv
<1> QED
  BY <1>1, <1>2, <1>3, <1>8, <1>9 DEF NativeInv

\* A trap of a program: its context is the first on its stack.
LEMMA ProgramTraps ==
    ASSUME NativeInv, AtProgram(current, left[current], regs),
           NEW event, NEW uc \in Ucs, OfProgram(current, uc), Trap(event, uc), 
           NEW u \in Ucs, u = [uc EXCEPT !.pc = Resumption(event, uc.pc)], OfProgram(current, u),
           event = "SYSCALL" => current \in UserThreads,
           left' = [left EXCEPT ![current] = Append(@, Entry(u))]
    PROVE  NativeInv'
<1>1. /\ current \in Threads /\ left[current] = << >> /\ current \in 0 .. NThreads /\ 1 \in Depth
      /\ regs.pc # "magic" /\ vm_head = HeadOf(current)
  BY ThreadNumbers DEF AtProgram, OfProgram, KernelPcs, UserCode, Depth
<1>2. /\ ev' = event /\ setup_stack(event, uc)
      /\ UNCHANGED <<vm_head, ksp, shown, spaces, current, cp>>
  BY DEF Trap
<1>3. current \in UserThreads => ksp = <<current, 0>>
  BY <1>1 DEF NativeInv, CurrentOK
<1>4. StackFor(uc) = <<current, 1>>
  <2>1. CASE current \in UserThreads
    <3>1. in_userspace(uc.pc)
      BY <1>1, <2>1, ThreadNumbers DEF OfProgram, in_userspace, HeadOf
    <3> QED
      BY <1>3, <2>1, <3>1 DEF StackFor
  <2>2. CASE current \notin UserThreads
    <3>1. ~ in_userspace(uc.pc) /\ uc.sp = <<current, 0>>
      BY <1>1, <2>2 DEF OfProgram, Home, in_userspace, HeadOf
    <3> QED
      BY <3>1 DEF StackFor
  <2> QED
    BY <2>1, <2>2
<1>5. /\ mem' = [mem EXCEPT ![<<current, 1>>].uc = u]
      /\ regs' = [pc |-> "irq_handle", sp |-> <<current, 1>>, masked |-> TRUE, gpr1 |-> <<current, 1>>]
  BY <1>2, <1>4 DEF setup_stack
<1>6. /\ mem' \in [Contexts -> Cells] /\ mem'[<<current, 1>>].uc = u
      /\ \A s \in Threads \ {current} : Untouched(mem, mem', s)
  <2>1. Stores(current, 1, u)
    BY <1>5 DEF Stores
  <2> QED
    BY <1>1, <2>1, Stored
<1>7. Entry(u) \in Lefts
  BY DEF Entry, Ucs, Lefts
<1>8. /\ left' \in [0 .. NThreads -> Seq(Lefts)] /\ left'[current] = <<Entry(u)>>
      /\ \A s \in Threads \ {current} : left'[s] = left[s]
  <2>1. left \in [0 .. NThreads -> Seq(Lefts)]
    BY DEF NativeInv, NativeTypes
  <2>2. Append(<< >>, Entry(u)) = <<Entry(u)>> /\ <<Entry(u)>> \in Seq(Lefts)
    BY <1>7
  <2>3. left' = [left EXCEPT ![current] = <<Entry(u)>>]
    BY <1>1, <2>2
  <2> QED
    BY <1>1, <2>1, <2>2, <2>3, ThreadNumbers
<1>9. regs' \in Ucs
  <2>1. PICK c : c = <<current, 1>>
    OBVIOUS
  <2>2. c \in Stacks
    BY <1>1, <2>1, ThreadNumbers
  <2> QED
    BY <1>5, <2>1, <2>2, Redirected
<1>10. NativeTypes'
  BY <1>2, <1>6, <1>8, <1>9 DEF NativeInv, NativeTypes
<1>11. SpacesOK' /\ ShownOK'
  BY <1>2, PagesKept
<1>12. WaitingOK'
  BY <1>2, <1>6, <1>8, OthersWait
<1>13. AtIrq(mem', current, left'[current], regs', ev')
  <2>1. Len(left'[current]) = 1 /\ left'[current][1] = Entry(u)
    BY <1>8
  <2>2. First(mem', current, left'[current])
    BY <1>6, <2>1 DEF First
  <2> QED
    BY <1>2, <1>5, <2>1, <2>2 DEF AtIrq
<1>14. CurrentOK'
  BY <1>1, <1>2, <1>3, <1>13 DEF CurrentOK, Where
<1> QED
  BY <1>10, <1>11, <1>12, <1>14 DEF NativeInv

\* main() gives way: its context is never loaded again.
LEMMA MainTraps ==
    ASSUME NativeInv, regs.pc = "main", NEW uc \in Ucs, uc = [regs EXCEPT !.pc = "boot"],
           Trap("YIELD", uc), left' = [left EXCEPT ![current] = Append(@, Entry(uc))]
    PROVE  NativeInv'
<1>1. /\ current = 0 /\ current \in 0 .. NThreads /\ vm_head = 0 /\ 1 \in Depth
      /\ current \notin Threads /\ current \notin UserThreads /\ regs.sp = <<0, 0>> /\ regs \in Ucs
  BY PcTells, ThreadNumbers DEF AtMain, HeadOf, Depth, NativeInv, NativeTypes
<1>2. /\ ev' = "YIELD" /\ setup_stack("YIELD", uc)
      /\ UNCHANGED <<vm_head, ksp, shown, spaces, current, cp>>
  BY DEF Trap
<1>3. uc.sp = <<0, 0>> /\ uc.pc = "boot" /\ uc = [uc EXCEPT !.pc = Resumption("YIELD", uc.pc)]
  BY <1>1 DEF Ucs, Resumption
<1>4. StackFor(uc) = <<current, 1>>
  <2>1. ~ in_userspace(uc.pc)
    BY <1>1 DEF in_userspace
  <2> QED
    BY <1>1, <1>3, <2>1 DEF StackFor
<1>5. /\ mem' = [mem EXCEPT ![<<current, 1>>].uc = uc]
      /\ regs' = [pc |-> "irq_handle", sp |-> <<current, 1>>, masked |-> TRUE, gpr1 |-> <<current, 1>>]
  BY <1>2, <1>3, <1>4 DEF setup_stack
<1>6. /\ mem' \in [Contexts -> Cells] /\ \A s \in Threads \ {current} : Untouched(mem, mem', s)
  <2>1. Stores(current, 1, uc)
    BY <1>5 DEF Stores
  <2> QED
    BY <1>1, <2>1, Stored
<1>7. /\ left' \in [0 .. NThreads -> Seq(Lefts)]
      /\ \A s \in Threads \ {current} : left'[s] = left[s]
  <2>1. left \in [0 .. NThreads -> Seq(Lefts)]
    BY DEF NativeInv, NativeTypes
  <2>2. Append(left[current], Entry(uc)) \in Seq(Lefts)
    <3>1. Entry(uc) \in Lefts
      BY DEF Entry, Ucs, Lefts
    <3> QED
      BY <1>1, <2>1, <3>1
  <2> QED
    BY <1>1, <2>1, <2>2, ThreadNumbers
<1>8. regs' \in Ucs
  <2>1. PICK c : c = <<current, 1>>
    OBVIOUS
  <2>2. c \in Stacks
    BY <1>1, <2>1, ThreadNumbers
  <2> QED
    BY <1>5, <2>1, <2>2, Redirected
<1>9. NativeTypes'
  BY <1>2, <1>6, <1>7, <1>8 DEF NativeInv, NativeTypes
<1>10. SpacesOK' /\ ShownOK'
  BY <1>2, PagesKept
<1>11. WaitingOK'
  BY <1>2, <1>6, <1>7, OthersWait
<1>12. AtMain(current', regs', ev')
  BY <1>1, <1>2, <1>5 DEF AtMain
<1>13. CurrentOK'
  BY <1>1, <1>2, <1>12, ThreadNumbers DEF CurrentOK, Where
<1> QED
  BY <1>9, <1>10, <1>11, <1>13 DEF NativeInv

\* irq_handle stores the space and the kernel stack: the context is complete.
LEMMA Completes ==
    ASSUME NativeInv, NEW e, AtHandler(e)
    PROVE  /\ ev = e /\ regs.pc = "irq_handle" /\ regs.gpr1 \in Contexts /\ regs.masked
           /\ mem' \in [Contexts -> Cells]
           /\ \A s \in Threads \ {current} : Untouched(mem, mem', s)
           /\ current \in Threads => /\ Waits(mem', current, left[current], regs.gpr1)
                                     /\ AtIrq(mem, current, left[current], regs, ev)
                                     /\ mem'[regs.gpr1].vm_head = vm_head
                                     /\ current \in UserThreads => ksp = <<current, 0>>
           /\ current \notin Threads => e = "YIELD"
<1>1. /\ ev = e /\ regs.pc = "irq_handle" /\ mem' = Entered(regs.gpr1)
      /\ mem \in [Contexts -> Cells] /\ ksp \in (0 .. NThreads + 1) \X {0}
      /\ vm_head \in UserThreads \cup {0} /\ vm_head = HeadOf(current) /\ current \in 0 .. NThreads
      /\ current \in UserThreads => ksp = <<current, 0>>
  BY ThreadNumbers DEF AtHandler, NativeInv, NativeTypes, CurrentOK
<1>2. \/ AtMain(current, regs, ev)
      \/ current \in Threads /\ AtIrq(mem, current, left[current], regs, ev)
  BY <1>1, PcTells
<1>3. \E k \in {1, 2} : regs.gpr1 = <<current, k>>
  BY <1>1, <1>2 DEF AtMain, AtIrq
<1>4. PICK k \in {1, 2} : regs.gpr1 = <<current, k>>
  BY <1>3
<1>5. PICK c \in Contexts : c = regs.gpr1
  <2>1. k \in Depth
    BY ThreadNumbers
  <2> QED
    BY <1>1, <1>4, <2>1, ThreadNumbers
<1>6. PICK old \in Cells : old = mem[c]
  BY <1>1, <1>5
<1>7. PICK cell : cell = [old EXCEPT !.vm_head = vm_head, !.ksp = ksp]
  OBVIOUS
<1>8. /\ mem' \in [Contexts -> Cells] /\ mem'[c] = cell /\ \A d \in Contexts : d # c => mem'[d] = mem[d]
  <2>1. cell \in Cells
    BY <1>1, <1>6, <1>7 DEF Cells
  <2>2. mem' = [mem EXCEPT ![c].vm_head = vm_head, ![c].ksp = ksp]
    BY <1>1, <1>5 DEF Entered
  <2>3. mem' = [mem EXCEPT ![c] = cell]
    BY <1>1, <1>6, <1>7, <2>2
  <2> QED
    BY <1>1, <2>1, <2>3
<1>9. cell.uc = mem[c].uc /\ cell.vm_head = vm_head /\ cell.ksp = ksp
  BY <1>6, <1>7 DEF Cells
<1>10. ASSUME NEW s \in Threads \ {current} PROVE Untouched(mem, mem', s)
  <2>1. <<s, 1>> \in Contexts /\ <<s, 2>> \in Contexts /\ <<s, 1>> # c /\ <<s, 2>> # c
    <3>1. s \in 0 .. NThreads /\ s # current /\ 1 \in Depth /\ 2 \in Depth
      BY ThreadNumbers DEF Depth
    <3> QED
      BY <1>4, <1>5, <3>1, ThreadNumbers
  <2> QED
    BY <1>8, <2>1 DEF Untouched
<1>11. regs.masked /\ (current \notin Threads => e = "YIELD")
  BY <1>1, <1>2 DEF AtMain, AtIrq
<1>12. ASSUME current \in Threads
       PROVE  /\ Waits(mem', current, left[current], regs.gpr1)
              /\ AtIrq(mem, current, left[current], regs, ev)
              /\ mem'[regs.gpr1].vm_head = vm_head
  <2>1. AtIrq(mem, current, left[current], regs, ev)
    BY <1>2, <1>12, ThreadNumbers DEF AtMain
  <2>2. <<current, 1>> \in Contexts /\ <<current, 2>> \in Contexts
    BY <1>1, ThreadNumbers
  <2>3. Left(mem', current, c)
    BY <1>1, <1>8, <1>9 DEF Left
  <2>4. CASE c = <<current, 1>>
    <3>1. Len(left[current]) = 1 /\ First(mem, current, left[current])
      BY <1>5, <2>1, <2>4 DEF AtIrq
    <3>2. First(mem', current, left[current])
      BY <1>8, <1>9, <2>4, <3>1 DEF First
    <3> QED
      BY <1>5, <1>8, <1>9, <2>1, <2>3, <2>4, <3>1, <3>2 DEF Waits
  <2>5. CASE c = <<current, 2>>
    <3>1. /\ Len(left[current]) = 2 /\ First(mem, current, left[current])
          /\ Left(mem, current, <<current, 1>>) /\ Second(mem, current, left[current])
      BY <1>5, <2>1, <2>5 DEF AtIrq
    <3>2. mem'[<<current, 1>>] = mem[<<current, 1>>] /\ mem'[<<current, 2>>].uc = mem[<<current, 2>>].uc
      BY <1>8, <1>9, <2>2, <2>5
    <3>3. /\ First(mem', current, left[current]) /\ Left(mem', current, <<current, 1>>)
          /\ Second(mem', current, left[current])
      BY <3>1, <3>2 DEF First, Left, Second
    <3> QED
      BY <1>5, <1>8, <1>9, <2>1, <2>3, <2>5, <3>1, <3>3 DEF Waits
  <2> QED
    BY <1>4, <1>5, <2>4, <2>5
<1> QED
  BY <1>1, <1>5, <1>8, <1>10, <1>11, <1>12

\* A context that waits is of its thread, and names the thread's space.
LEMMA WaitsWhere ==
    ASSUME NEW m, NEW t, NEW h, NEW c, Waits(m, t, h, c)
    PROVE  c \in {<<t, 1>>, <<t, 2>>} /\ m[c].vm_head = HeadOf(t)
  BY DEF Waits, Left

\* irq_handle calls the magic address with the context of the thread that goes on.
LEMMA Leaves ==
    ASSUME NativeInv, NEW t \in Threads, NEW c \in Contexts, mem' \in [Contexts -> Cells],
           current' = t, cp' \in [0 .. NThreads -> Contexts], left' = left, vm_head' = HeadOf(t),
           ksp' = ksp, regs' = [regs EXCEPT !.pc = "magic", !.gpr1 = c], regs.masked,
           SpacesOK', ShownOK', WaitingOK', Waits(mem', t, left[t], c)
    PROVE  NativeInv'
<1>1. regs \in Ucs /\ c \in Stacks /\ HeadOf(t) \in UserThreads \cup {0} /\ "magic" \in Pcs
  <2>1. \A k \in 0 .. NThreads + 1, d \in Depth : <<k, d>> \in Stacks
    <3>1. \A d \in Depth : d \in 0 .. 3
      BY DEF Depth
    <3> QED
      BY <3>1 DEF Stacks
  <2>2. c \in Stacks
    BY <2>1 DEF Contexts
  <2> QED
    BY <2>2 DEF NativeInv, NativeTypes, HeadOf, Pcs
<1>2. regs' \in Ucs /\ regs'.pc = "magic" /\ regs'.gpr1 = c /\ regs'.masked
  BY <1>1 DEF Ucs
<1>3. NativeTypes'
  <2>1. t \in 0 .. NThreads
    BY ThreadNumbers
  <2> QED
    BY <1>1, <1>2, <2>1 DEF NativeInv, NativeTypes
<1>4. AtMagic(mem', t, left'[t], regs')
  BY <1>2 DEF AtMagic
<1>5. CurrentOK'
  BY <1>2, <1>4 DEF CurrentOK, Where, Threads
<1> QED
  BY <1>3, <1>5 DEF NativeInv

\* The scheduler takes the next thread.
LEMMA Switches ==
    ASSUME NativeInv, NEW e \in {"TIMER", "YIELD"}, OnSwitch(e), left' = left
    PROVE  NativeInv'
<1>1. PICK t : t = Following(current)
  OBVIOUS
<1>2. t \in Threads
  <2>1. NThreads \in Nat \ {0} /\ current \in 0 .. NThreads
    BY ThreadNumbers
  <2> QED
    BY <1>1, <2>1 DEF Following, Threads
<1>3. /\ AtHandler(e) /\ current' = t /\ cp' = [cp EXCEPT ![current] = regs.gpr1] /\ ksp' = ksp
      /\ \E c \in {cp'[current']} : Leave(c, mem'[c].vm_head)
  BY <1>1 DEF OnSwitch, schedule
<1>4. PICK c : c = cp'[t]
  OBVIOUS
<1>5. /\ regs.gpr1 \in Contexts /\ regs.masked /\ mem' \in [Contexts -> Cells]
      /\ \A s \in Threads \ {current} : Untouched(mem, mem', s)
      /\ current \in Threads => Waits(mem', current, left[current], regs.gpr1)
  BY <1>3, Completes
<1>6. /\ cp' \in [0 .. NThreads -> Contexts] /\ cp'[current] = regs.gpr1
      /\ \A s \in Threads : s # current => cp'[s] = cp[s]
  <2>1. cp \in [0 .. NThreads -> Contexts] /\ current \in 0 .. NThreads /\ Threads \subseteq 0 .. NThreads
    BY ThreadNumbers DEF NativeInv, NativeTypes
  <2> QED
    BY <1>3, <1>5, <2>1
<1>7. ASSUME NEW s \in Threads PROVE Waits(mem', s, left[s], cp'[s])
  <2>1. CASE s = current
    BY <1>5, <1>6, <2>1
  <2>2. CASE s # current
    <3>1. Waits(mem, s, left[s], cp[s]) /\ Untouched(mem, mem', s) /\ cp'[s] = cp[s]
      BY <1>5, <1>6, <2>2 DEF NativeInv, WaitingOK
    <3> QED
      BY <3>1, WaitsKept
  <2> QED
    BY <2>1, <2>2
<1>8. WaitingOK'
  BY <1>7 DEF WaitingOK, Threads
<1>9. Waits(mem', t, left[t], c) /\ mem'[c].vm_head = HeadOf(t) /\ c \in Contexts
  <2>1. Waits(mem', t, left[t], c)
    BY <1>2, <1>4, <1>7
  <2>2. c \in {<<t, 1>>, <<t, 2>>} /\ mem'[c].vm_head = HeadOf(t)
    BY <2>1, WaitsWhere
  <2>3. t \in 0 .. NThreads
    BY <1>2, ThreadNumbers
  <2> QED
    BY <2>1, <2>2, <2>3, ThreadNumbers
<1>10. Leave(c, HeadOf(t))
  BY <1>3, <1>4, <1>9
<1>11. am_switch(HeadOf(t)) /\ regs' = [regs EXCEPT !.pc = "magic", !.gpr1 = c]
  BY <1>10 DEF Leave
<1>12. SpacesOK' /\ ShownOK'
  <2>1. HeadOf(t) \in UserThreads \cup {0}
    BY DEF HeadOf
  <2> QED
    BY <1>11, <2>1, SwitchView DEF NativeInv, NativeTypes
<1>13. vm_head' = HeadOf(t)
  BY <1>11 DEF am_switch
<1> QED
  BY <1>2, <1>3, <1>5, <1>6, <1>8, <1>9, <1>11, <1>12, <1>13, Leaves

\* A switch to the space that is current changes nothing.
LEMMA SameSpace ==
    ASSUME NativeInv, am_switch(vm_head)
    PROVE  UNCHANGED <<vm_head, shown, spaces>> /\ SpacesOK' /\ ShownOK'
<1>1. UNCHANGED <<vm_head, shown, spaces>>
  BY DEF am_switch
<1> QED
  BY <1>1, PagesKept

\* A handler that does not switch: the thread goes on.
LEMMA SameThread ==
    ASSUME NativeInv, NEW e, e # "YIELD", AtHandler(e), SpacesOK', ShownOK',
           UNCHANGED <<vm_head, ksp, current, cp, left>>,
           regs' = [regs EXCEPT !.pc = "magic", !.gpr1 = regs.gpr1]
    PROVE  NativeInv'
<1>1. /\ regs.gpr1 \in Contexts /\ regs.masked /\ mem' \in [Contexts -> Cells] /\ current \in Threads
      /\ \A s \in Threads \ {current} : Untouched(mem, mem', s)
      /\ Waits(mem', current, left[current], regs.gpr1)
  BY Completes
<1>2. WaitingOK'
  BY <1>1, OthersWait
<1>3. vm_head' = HeadOf(current) /\ cp' \in [0 .. NThreads -> Contexts]
  BY ThreadNumbers DEF NativeInv, NativeTypes
<1> QED
  BY <1>1, <1>2, <1>3, Leaves

\* A key, and a system call that returns.
LEMMA GoesBack ==
    ASSUME NativeInv, NEW e, e # "YIELD", AtHandler(e), Leave(regs.gpr1, vm_head),
           UNCHANGED <<ksp, current, cp, left>>
    PROVE  NativeInv'
<1>1. am_switch(vm_head) /\ regs' = [regs EXCEPT !.pc = "magic", !.gpr1 = regs.gpr1]
  BY DEF Leave
<1>2. UNCHANGED <<vm_head, shown, spaces>> /\ SpacesOK' /\ ShownOK'
  BY <1>1, SameSpace
<1> QED
  BY <1>1, <1>2, SameThread

\* A page fault is answered with a page.
LEMMA PageComes ==
    ASSUME NativeInv, NEW va \in Pages, OnPageFault(va), left' = left
    PROVE  NativeInv'
<1>1. /\ AtHandler("PAGEFAULT") /\ vm_head # 0 /\ map(vm_head, va, <<vm_head, va>>)
      /\ regs' = [regs EXCEPT !.pc = "magic"] /\ UNCHANGED <<vm_head, ksp, current, cp>>
  BY DEF OnPageFault
<1>2. vm_head \in UserThreads /\ regs \in Ucs
  BY <1>1 DEF NativeInv, NativeTypes
<1>3. SpacesOK' /\ ShownOK'
  BY <1>1, <1>2, MapView DEF NativeInv
<1>4. regs' = [regs EXCEPT !.pc = "magic", !.gpr1 = regs.gpr1]
  BY <1>1, <1>2 DEF Ucs
<1> QED
  BY <1>1, <1>3, <1>4, SameThread

\* A system call that will yield.
LEMMA ServesCall ==
    ASSUME NativeInv, AtHandler("SYSCALL"), regs' = [regs EXCEPT !.pc = "syscall"],
           UNCHANGED <<vm_head, shown, spaces, ksp, current, cp, left>>
    PROVE  NativeInv'
<1>1. /\ regs.gpr1 \in Contexts /\ regs.masked /\ mem' \in [Contexts -> Cells] /\ current \in Threads
      /\ \A s \in Threads \ {current} : Untouched(mem, mem', s)
      /\ Waits(mem', current, left[current], regs.gpr1)
      /\ AtIrq(mem, current, left[current], regs, ev) /\ ev = "SYSCALL"
      /\ current \in UserThreads => ksp = <<current, 0>>
  BY Completes
<1>2. regs \in Ucs /\ "syscall" \in Pcs
  BY DEF NativeInv, NativeTypes, Pcs
<1>3. /\ regs' \in Ucs /\ regs'.pc = "syscall" /\ regs'.gpr1 = regs.gpr1 /\ regs'.sp = regs.sp
      /\ (regs'.masked <=> regs.masked)
  BY <1>2 DEF Ucs
<1>4. /\ regs.gpr1 = <<current, 1>> /\ regs.sp = <<current, 1>> /\ current \in UserThreads
      /\ Len(left[current]) = 1
  BY <1>1 DEF AtIrq
<1>5. First(mem', current, left[current]) /\ Left(mem', current, <<current, 1>>)
  BY <1>1, <1>4 DEF Waits
<1>6. AtCall(mem', current, left[current], regs')
  BY <1>1, <1>3, <1>4, <1>5 DEF AtCall
<1>7. CurrentOK'
  BY <1>1, <1>4, <1>6, ThreadNumbers DEF CurrentOK, Where
<1>8. WaitingOK'
  BY <1>1, OthersWait
<1>9. SpacesOK' /\ ShownOK'
  BY PagesKept
<1>10. NativeTypes'
  BY <1>1, <1>3 DEF NativeInv, NativeTypes
<1> QED
  BY <1>7, <1>8, <1>9, <1>10 DEF NativeInv

\* It yields: its second context is above the first.
LEMMA CallYields ==
    ASSUME NativeInv, regs.pc = "syscall", NEW uc \in Ucs, uc = [regs EXCEPT !.pc = "yielded"],
           Trap("YIELD", uc), left' = [left EXCEPT ![current] = Append(@, Entry(uc))]
    PROVE  NativeInv'
<1>1. /\ current \in Threads /\ AtCall(mem, current, left[current], regs) /\ regs \in Ucs
      /\ current \in 0 .. NThreads /\ vm_head = HeadOf(current) /\ 2 \in Depth
      /\ left \in [0 .. NThreads -> Seq(Lefts)]
  BY PcTells, ThreadNumbers DEF NativeInv, NativeTypes
<1>2. /\ current \in UserThreads /\ regs.masked /\ regs.sp = <<current, 1>> /\ regs.gpr1 = <<current, 1>>
      /\ Len(left[current]) = 1 /\ First(mem, current, left[current])
      /\ Left(mem, current, <<current, 1>>)
  BY <1>1 DEF AtCall
<1>3. ksp = <<current, 0>>
  BY <1>2 DEF NativeInv, CurrentOK
<1>4. /\ ev' = "YIELD" /\ setup_stack("YIELD", uc)
      /\ UNCHANGED <<vm_head, ksp, shown, spaces, current, cp>>
  BY DEF Trap
<1>5. /\ uc.pc = "yielded" /\ uc.sp = <<current, 1>> /\ uc.gpr1 = <<current, 1>> /\ uc.masked
      /\ uc = [uc EXCEPT !.pc = Resumption("YIELD", uc.pc)] /\ uc = InCall(current)
  <2>1. uc.pc = "yielded" /\ uc.sp = regs.sp /\ uc.gpr1 = regs.gpr1 /\ (uc.masked <=> regs.masked)
    BY <1>1 DEF Ucs
  <2>2. uc = [uc EXCEPT !.pc = Resumption("YIELD", uc.pc)]
    BY <2>1 DEF Ucs, Resumption
  <2>3. uc = InCall(current)
    <3>1. PICK c : c = <<current, 1>>
      OBVIOUS
    <3>2. uc.sp = c /\ uc.gpr1 = c /\ uc.masked = TRUE
      BY <1>2, <2>1, <3>1 DEF Ucs
    <3>3. uc = [pc |-> "yielded", sp |-> c, masked |-> TRUE, gpr1 |-> c]
      BY <2>1, <3>2 DEF Ucs
    <3> QED
      BY <3>1, <3>3 DEF InCall
  <2> QED
    BY <1>2, <2>1, <2>2, <2>3
<1>6. StackFor(uc) = <<current, 2>>
  <2>1. ~ in_userspace(uc.pc)
    BY <1>5 DEF in_userspace, UserCode
  <2> QED
    BY <1>5, <2>1 DEF StackFor
<1>7. /\ mem' = [mem EXCEPT ![<<current, 2>>].uc = uc]
      /\ regs' = [pc |-> "irq_handle", sp |-> <<current, 2>>, masked |-> TRUE, gpr1 |-> <<current, 2>>]
  BY <1>4, <1>5, <1>6 DEF setup_stack
<1>8. /\ mem' \in [Contexts -> Cells] /\ mem'[<<current, 2>>].uc = uc
      /\ mem'[<<current, 1>>] = mem[<<current, 1>>]
      /\ \A s \in Threads \ {current} : Untouched(mem, mem', s)
  <2>1. Stores(current, 2, uc)
    BY <1>7 DEF Stores
  <2>2. <<current, 1>> \in Contexts /\ <<current, 1>> # <<current, 2>>
    BY <1>1, ThreadNumbers
  <2> QED
    BY <1>1, <2>1, <2>2, Stored
<1>9. /\ left' \in [0 .. NThreads -> Seq(Lefts)] /\ Len(left'[current]) = 2
      /\ left'[current][1] = left[current][1] /\ left'[current][2] = Entry(uc)
      /\ \A s \in Threads \ {current} : left'[s] = left[s]
  <2>1. Entry(uc) \in Lefts
    BY DEF Entry, Ucs, Lefts
  <2>2. PICK entry \in Lefts : entry = Entry(uc)
    BY <2>1
  <2>3. PICK h \in Seq(Lefts) : h = left[current]
    BY <1>1
  <2>4. /\ Append(h, entry) \in Seq(Lefts) /\ Len(Append(h, entry)) = 2
        /\ Append(h, entry)[1] = h[1] /\ Append(h, entry)[2] = entry
    BY <1>2, <2>2, <2>3
  <2>5. left' = [left EXCEPT ![current] = Append(h, entry)]
    BY <2>2, <2>3
  <2> QED
    BY <1>1, <2>2, <2>3, <2>4, <2>5, ThreadNumbers
<1>10. regs' \in Ucs
  <2>1. PICK c : c = <<current, 2>>
    OBVIOUS
  <2>2. c \in Stacks
    BY <1>1, <2>1, ThreadNumbers
  <2> QED
    BY <1>7, <2>1, <2>2, Redirected
<1>11. NativeTypes'
  BY <1>4, <1>8, <1>9, <1>10 DEF NativeInv, NativeTypes
<1>12. SpacesOK' /\ ShownOK'
  BY <1>4, PagesKept
<1>13. WaitingOK'
  BY <1>4, <1>8, <1>9, OthersWait
<1>14. AtIrq(mem', current, left'[current], regs', ev')
  <2>1. First(mem', current, left'[current]) /\ Left(mem', current, <<current, 1>>)
    BY <1>2, <1>8, <1>9 DEF First, Left
  <2>2. Second(mem', current, left'[current])
    BY <1>2, <1>5, <1>8, <1>9 DEF Second
  <2> QED
    BY <1>4, <1>7, <1>9, <2>1, <2>2 DEF AtIrq
<1>15. CurrentOK'
  BY <1>1, <1>3, <1>4, <1>14 DEF CurrentOK, Where
<1> QED
  BY <1>11, <1>12, <1>13, <1>15 DEF NativeInv

\* Behind the yield the system call returns.
LEMMA CallReturns ==
    ASSUME NativeInv, AfterYield, left' = left
    PROVE  NativeInv'
<1>1. /\ regs.pc = "yielded" /\ Leave(regs.gpr1, mem[regs.gpr1].vm_head)
      /\ UNCHANGED <<ksp, ev, mem, current, cp>>
  BY DEF AfterYield
<1>2. /\ current \in Threads /\ AtCall(mem, current, left[current], regs)
      /\ current \in 0 .. NThreads /\ vm_head = HeadOf(current)
      /\ <<current, 1>> \in Contexts
  BY <1>1, PcTells, ThreadNumbers
<1>3. /\ regs.gpr1 = <<current, 1>> /\ regs.masked /\ Len(left[current]) = 1
      /\ First(mem, current, left[current]) /\ Left(mem, current, <<current, 1>>)
  BY <1>2 DEF AtCall
<1>4. Waits(mem, current, left[current], regs.gpr1)
  BY <1>3 DEF Waits
<1>5. mem[regs.gpr1].vm_head = vm_head
  BY <1>2, <1>3 DEF Left
<1>6. am_switch(vm_head) /\ regs' = [regs EXCEPT !.pc = "magic", !.gpr1 = regs.gpr1]
  BY <1>1, <1>5 DEF Leave
<1>7. UNCHANGED <<vm_head, shown, spaces>> /\ SpacesOK' /\ ShownOK'
  BY <1>6, SameSpace
<1>8. WaitingOK'
  BY <1>1, OthersWait DEF Untouched
<1>9. mem' \in [Contexts -> Cells] /\ cp' \in [0 .. NThreads -> Contexts]
  BY <1>1 DEF NativeInv, NativeTypes
<1>10. Waits(mem', current, left[current], regs.gpr1) /\ regs.gpr1 \in Contexts
  BY <1>1, <1>2, <1>3, <1>4
<1>11. vm_head' = HeadOf(current) /\ current' = current /\ ksp' = ksp
  BY <1>1, <1>2, <1>7
<1> QED
  BY <1>2, <1>3, <1>6, <1>7, <1>8, <1>9, <1>10, <1>11, Leaves

\* What is left of a history, and what is taken.
LEMMA AllButLast ==
    ASSUME NEW S, NEW h \in Seq(S), NEW n \in Nat, Len(h) = n + 1
    PROVE  /\ Front(h) \in Seq(S) /\ Len(Front(h)) = Len(h) - 1 /\ Last(h) = h[Len(h)] /\ h # << >>
           /\ Len(h) = 2 => Front(h)[1] = h[1]
  BY DEF Front, Last

\* The handler of the magic address loads the context.
LEMMA Loads ==
    ASSUME NativeInv, iret, left' = [left EXCEPT ![current] = Front(@)]
    PROVE  /\ NativeInv' /\ regs'.pc # "irq_handle" /\ regs'.pc # "magic"
           /\ left[current] # << >>
           /\ \E was \in {Last(left[current])} :
                 regs'.pc = was.pc /\ regs'.sp = was.sp /\ regs'.masked = was.masked
<1>1. /\ regs.pc = "magic" /\ regs' = mem[regs.gpr1].uc /\ ksp' = mem[regs.gpr1].ksp
      /\ UNCHANGED <<vm_head, mem, shown, spaces, current, cp>>
  BY DEF iret
<1>2. /\ current \in Threads /\ Waits(mem, current, left[current], regs.gpr1)
      /\ current \in 0 .. NThreads /\ vm_head = HeadOf(current)
      /\ left \in [0 .. NThreads -> Seq(Lefts)] /\ mem \in [Contexts -> Cells]
      /\ <<current, 1>> \in Contexts /\ <<current, 2>> \in Contexts
  BY <1>1, PcTells, ThreadNumbers DEF AtMagic, NativeInv, NativeTypes
<1>3. PICK h \in Seq(Lefts) : h = left[current]
  BY <1>2
<1>4. Len(h) \in {1, 2} /\ regs.gpr1 \in Contexts /\ Left(mem, current, regs.gpr1) /\ First(mem, current, h)
  BY <1>2, <1>3 DEF Waits
<1>5. /\ Front(h) \in Seq(Lefts) /\ Len(Front(h)) = Len(h) - 1 /\ Last(h) = h[Len(h)] /\ h # << >>
      /\ Len(h) = 2 => Front(h)[1] = h[1]
  <2>1. PICK k \in {1, 2} : k = Len(h)
    BY <1>4, Zenon
  <2>2. PICK n \in {0, 1} : k = n + 1
    BY ONLY k \in {1, 2}
  <2>3. n \in Nat /\ Len(h) = n + 1
    BY <2>1, <2>2
  <2> QED
    BY <2>3, AllButLast
<1>6. /\ left' \in [0 .. NThreads -> Seq(Lefts)] /\ left'[current] = Front(h)
      /\ \A s \in Threads \ {current} : left'[s] = left[s]
  BY <1>2, <1>3, <1>5, ThreadNumbers
<1>7. mem[regs.gpr1] \in Cells
  BY <1>2, <1>4
<1>8. regs' \in Ucs /\ ksp' \in (0 .. NThreads + 1) \X {0}
  BY <1>1, <1>7 DEF Cells
<1>9. current \in UserThreads => ksp' = <<current, 0>>
  BY <1>1, <1>4 DEF Left
<1>10. NativeTypes'
  BY <1>1, <1>6, <1>8 DEF NativeInv, NativeTypes
<1>11. SpacesOK' /\ ShownOK'
  BY <1>1, PagesKept
<1>12. WaitingOK'
  BY <1>1, <1>6, OthersWait DEF Untouched
<1>13. /\ Where(mem', current, left'[current], regs', ev')
       /\ regs'.pc # "irq_handle" /\ regs'.pc # "magic" /\ Last(h) = Entry(regs')
  <2>1. CASE regs.gpr1 = <<current, 1>> /\ Len(h) = 1
    <3>1. OfProgram(current, regs') /\ h[1] = Entry(regs')
      BY <1>1, <1>4, <2>1 DEF First
    <3>2. Front(h) = << >>
      BY <1>5, <2>1
    <3>3. regs'.pc \in KernelPcs \cup UserCode
      BY <3>1 DEF OfProgram
    <3> QED
      BY <1>2, <1>5, <1>6, <2>1, <3>1, <3>2, <3>3 DEF Where, AtProgram, KernelPcs, UserCode
  <2>2. CASE regs.gpr1 = <<current, 2>> /\ Len(h) = 2
    <3>1. /\ Second(mem, current, h) /\ Left(mem, current, <<current, 1>>)
      BY <1>2, <1>3, <2>2 DEF Waits
    <3>2. current \in UserThreads /\ regs' = InCall(current) /\ h[2] = Entry(regs')
      BY <1>1, <2>2, <3>1 DEF Second
    <3>3. /\ regs'.pc = "yielded" /\ regs'.masked /\ regs'.sp = <<current, 1>>
          /\ regs'.gpr1 = <<current, 1>>
      BY <3>2 DEF InCall
    <3>4. Len(left'[current]) = 1 /\ First(mem', current, left'[current])
      BY <1>1, <1>4, <1>5, <1>6, <2>2 DEF First
    <3>5. AtCall(mem', current, left'[current], regs')
      BY <1>1, <3>1, <3>2, <3>3, <3>4 DEF AtCall
    <3> QED
      BY <1>2, <1>5, <2>2, <3>2, <3>3, <3>5 DEF Where
  <2>3. \/ regs.gpr1 = <<current, 1>> /\ Len(h) = 1
        \/ regs.gpr1 = <<current, 2>> /\ Len(h) = 2
    BY <1>2, <1>3 DEF Waits
  <2> QED
    BY <2>1, <2>2, <2>3
<1>14. CurrentOK'
  BY <1>1, <1>2, <1>9, <1>13 DEF CurrentOK
<1>15. NativeInv'
  BY <1>10, <1>11, <1>12, <1>14 DEF NativeInv
<1>16. Last(h).pc = regs'.pc /\ Last(h).sp = regs'.sp /\ Last(h).masked = regs'.masked
  BY <1>13 DEF Entry
<1> QED
  BY <1>3, <1>5, <1>13, <1>15, <1>16

\* What it loads is the program, or a system call behind its yield.
LEMMA LoadsProgram ==
    ASSUME NativeInv, iret
    PROVE  regs'.pc # "irq_handle" /\ regs'.pc # "magic"
<1>1. regs.pc = "magic" /\ regs' = mem[regs.gpr1].uc
  BY DEF iret
<1>2. Waits(mem, current, left[current], regs.gpr1)
  BY <1>1, PcTells DEF AtMagic
<1> QED
  BY <1>1, <1>2 DEF Waits, First, Second, OfProgram, InCall, KernelPcs, UserCode

\* A kernel thread gives a space a page; its own processor shows none.
LEMMA PageGiven ==
    ASSUME NativeInv, NEW s \in UserThreads, NEW va \in Pages, MapFor(s, va), left' = left
    PROVE  NativeInv'
<1>1. /\ regs.pc = "critical" /\ map(s, va, <<s, va>>)
      /\ UNCHANGED <<regs, vm_head, ksp, ev, mem, current, cp>>
  BY DEF MapFor
<1>2. SpacesOK' /\ ShownOK'
  BY <1>1, MapView DEF NativeInv
<1>3. WaitingOK'
  BY <1>1, OthersWait DEF Untouched
<1>4. NativeTypes' /\ CurrentOK'
  BY <1>1 DEF NativeInv, NativeTypes, CurrentOK
<1> QED
  BY <1>2, <1>3, <1>4 DEF NativeInv

----------------------------------------------------------------------------
(* The steps                                                               *)

\* What a step does to the history.
LEMMA History ==
    ASSUME NativeNext
    PROVE  /\ trapped => left' = [left EXCEPT ![current] =
                            Append(@, [pc |-> Expected, sp |-> regs.sp, masked |-> regs.masked])]
           /\ ~ trapped /\ returned => left' = [left EXCEPT ![current] = Front(@)]
           /\ ~ trapped /\ ~ returned => left' = left
  BY DEF NativeNext

\* A step that neither traps nor returns.
LEMMA NoTrap ==
    ASSUME NativeNext, regs.pc = "irq_handle" \/ regs'.pc # "irq_handle",
           regs.pc # "magic" \/ regs'.pc = "magic"
    PROVE  left' = left /\ GoesOn
<1>1. ~ trapped /\ ~ returned
  BY DEF trapped, returned
<1> QED
  BY <1>1, History DEF GoesOn

\* The places that a program can be at with its registers.
FitsProgram(t, uc, p) == IF t \in UserThreads THEN p \in UserCode
                         ELSE p \in KernelPcs /\ (p = "critical" <=> uc.pc = "critical")

\* The registers of a program with another pc are registers of that program.
LEMMA PcChanged ==
    ASSUME NativeInv, AtProgram(current, left[current], regs), NEW p, FitsProgram(current, regs, p),
           NEW uc, uc = [regs EXCEPT !.pc = p]
    PROVE  /\ uc \in Ucs /\ OfProgram(current, uc) /\ uc.pc = p /\ uc.sp = regs.sp
           /\ uc.masked = regs.masked
<1>1. regs \in Ucs /\ p \in Pcs
  BY DEF NativeInv, NativeTypes, FitsProgram, Pcs
<1>2. uc \in Ucs /\ uc.pc = p /\ uc.sp = regs.sp /\ uc.masked = regs.masked
  BY <1>1 DEF Ucs
<1>3. OfProgram(current, uc)
  BY <1>2 DEF AtProgram, OfProgram, FitsProgram
<1> QED
  BY <1>2, <1>3

\* An instruction of a program.
LEMMA GoesTo ==
    ASSUME NativeInv, NativeNext, NEW from, NEW to, Goto(from, to), from \in KernelPcs \cup UserCode,
           from \in UserCode <=> to \in UserCode, from \in KernelPcs => to \in KernelPcs,
           from # "critical", to # "critical"
    PROVE  NativeInv' /\ GoesOn
<1>1. /\ regs.pc = from /\ regs' = [regs EXCEPT !.pc = to]
      /\ UNCHANGED <<vm_head, ksp, mem, shown, spaces, current, cp>>
  BY DEF Goto
<1>2. AtProgram(current, left[current], regs)
  BY <1>1, PcTells
<1>3. from \in UserCode <=> current \in UserThreads
  BY <1>1, <1>2 DEF AtProgram, OfProgram, KernelPcs, UserCode
<1>4. FitsProgram(current, regs, to)
  BY <1>1, <1>3 DEF FitsProgram
<1>5. regs' \in Ucs /\ OfProgram(current, regs') /\ regs'.pc = to
  BY <1>1, <1>2, <1>4, PcChanged
<1>6. left' = left /\ GoesOn
  <2>1. from # "magic" /\ to # "irq_handle"
    BY DEF KernelPcs, UserCode
  <2> QED
    BY <1>1, <1>5, <2>1, NoTrap
<1> QED
  BY <1>1, <1>2, <1>5, <1>6, ProgramMoves

\* iset of a kernel thread.
LEMMA IsetKeeps ==
    ASSUME NativeInv, NativeNext, NEW from \in KernelPcs, NEW to \in KernelPcs, NEW enable \in BOOLEAN,
           iset(from, to, enable), to = "critical" <=> ~ enable
    PROVE  NativeInv' /\ GoesOn
<1>1. /\ regs.pc = from /\ regs' = [regs EXCEPT !.pc = to, !.masked = ~ enable]
      /\ UNCHANGED <<vm_head, ksp, mem, shown, spaces, current, cp>>
  BY DEF iset
<1>2. AtProgram(current, left[current], regs) /\ regs \in Ucs
  BY <1>1, PcTells DEF NativeInv, NativeTypes
<1>3. to \in Pcs /\ (~ enable) \in BOOLEAN
  BY DEF Pcs
<1>4. regs' \in Ucs /\ regs'.pc = to /\ regs'.sp = regs.sp /\ (regs'.masked <=> ~ enable)
  BY <1>1, <1>2, <1>3 DEF Ucs
<1>5. OfProgram(current, regs')
  BY <1>1, <1>2, <1>4 DEF AtProgram, OfProgram, KernelPcs, UserCode
<1>6. left' = left /\ GoesOn
  <2>1. from # "magic" /\ to # "irq_handle"
    BY DEF KernelPcs
  <2> QED
    BY <1>1, <1>4, <2>1, NoTrap
<1> QED
  BY <1>1, <1>2, <1>4, <1>5, <1>6, ProgramMoves

\* Every trap of a program.
LEMMA ProgramEnters ==
    ASSUME NativeInv, NativeNext, AtProgram(current, left[current], regs), NEW event, NEW to,
           FitsProgram(current, regs, to), FitsProgram(current, regs, Resumption(event, to)),
           NEW uc, uc = [regs EXCEPT !.pc = to], Trap(event, uc),
           event = "SYSCALL" => current \in UserThreads,
           Resumption(event, to) = Expected, regs.pc # "lib"
    PROVE  NativeInv' /\ GoesOn
<1>1. uc \in Ucs /\ OfProgram(current, uc) /\ uc.pc = to /\ uc.sp = regs.sp /\ uc.masked = regs.masked
  BY PcChanged
<1>2. PICK u : u = [regs EXCEPT !.pc = Resumption(event, to)]
  OBVIOUS
<1>3. /\ u \in Ucs /\ OfProgram(current, u) /\ u.pc = Resumption(event, to) /\ u.sp = regs.sp
      /\ u.masked = regs.masked
  BY <1>2, PcChanged
<1>4. u = [uc EXCEPT !.pc = Resumption(event, uc.pc)]
  <2>1. regs \in Ucs
    BY DEF NativeInv, NativeTypes
  <2> QED
    BY <1>1, <1>2, <2>1 DEF Ucs
<1>5. Entry(u) = [pc |-> Expected, sp |-> regs.sp, masked |-> regs.masked]
  BY <1>3 DEF Entry
<1>6. regs'.pc = "irq_handle" /\ regs.pc # "irq_handle" /\ regs.pc # "magic"
  BY DEF Trap, setup_stack, AtProgram, OfProgram, KernelPcs, UserCode
<1>7. trapped /\ ~ returned
  BY <1>6 DEF trapped, returned
<1>8. left' = [left EXCEPT ![current] = Append(@, Entry(u))]
  BY <1>5, <1>7, History
<1>9. NativeInv'
  BY <1>1, <1>3, <1>4, <1>8, ProgramTraps
<1> QED
  BY <1>7, <1>9 DEF GoesOn

\* An instruction that is not part of a trap, of either kind of thread.
LEMMA CodeKeeps ==
    ASSUME NativeInv, NativeNext, KernelCode \/ Goto("user2", "user0") \/ Goto("user0", "user1")
    PROVE  NativeInv' /\ GoesOn
<1>1. CASE Goto("start", "text")
  BY <1>1, GoesTo DEF KernelPcs, UserCode
<1>2. CASE Goto("text", "lib")
  BY <1>2, GoesTo DEF KernelPcs, UserCode
<1>3. CASE Goto("lib", "printed")
  BY <1>3, GoesTo DEF KernelPcs, UserCode
<1>4. CASE Goto("unmasked", "printed")
  BY <1>4, GoesTo DEF KernelPcs, UserCode
<1>5. CASE Goto("user2", "user0")
  BY <1>5, GoesTo DEF KernelPcs, UserCode
<1>6. CASE Goto("user0", "user1")
  BY <1>6, GoesTo DEF KernelPcs, UserCode
<1>7. CASE iset("text", "critical", FALSE)
  BY <1>7, IsetKeeps DEF KernelPcs
<1>8. CASE iset("critical", "unmasked", TRUE)
  BY <1>8, IsetKeeps DEF KernelPcs
<1> QED
  BY <1>1, <1>2, <1>3, <1>4, <1>5, <1>6, <1>7, <1>8 DEF KernelCode

\* regs with the pc it has.
LEMMA SamePc == ASSUME NativeInv PROVE regs = [regs EXCEPT !.pc = regs.pc]
  BY DEF NativeInv, NativeTypes, Ucs

\* The traps a program asks for.
LEMMA AsksKeep ==
    ASSUME NativeInv, NativeNext, NEW va,
           yield("printed", "text") \/ UserCall \/ (Touch(va) /\ ~ Goto("user0", "user1"))
    PROVE  NativeInv' /\ GoesOn
<1>1. CASE yield("printed", "text")
  <2>1. regs.pc = "printed" /\ Trap("YIELD", [regs EXCEPT !.pc = "text"]) /\ ev' = "YIELD"
    BY <1>1 DEF yield, Trap
  <2>2. AtProgram(current, left[current], regs)
    BY <2>1, PcTells DEF KernelPcs
  <2>3. FitsProgram(current, regs, "text")
    BY <2>1, <2>2 DEF AtProgram, OfProgram, FitsProgram, KernelPcs, UserCode
  <2>4. Resumption("YIELD", "text") = "text" /\ Expected = "text"
    BY <2>1 DEF Resumption, Expected
  <2>5. PICK uc : uc = [regs EXCEPT !.pc = "text"]
    OBVIOUS
  <2>6. Trap("YIELD", uc) /\ FitsProgram(current, regs, Resumption("YIELD", "text"))
        /\ Resumption("YIELD", "text") = Expected /\ regs.pc # "lib" /\ "YIELD" # "SYSCALL"
    BY <2>1, <2>3, <2>4, <2>5
  <2> QED
    BY <2>2, <2>3, <2>5, <2>6, ProgramEnters
<1>2. CASE UserCall
  <2>1. regs.pc = "user1" /\ Trap("SYSCALL", regs) /\ ev' = "SYSCALL"
    BY <1>2 DEF UserCall, Trap
  <2>2. AtProgram(current, left[current], regs)
    BY <2>1, PcTells DEF UserCode
  <2>3. current \in UserThreads
    BY <2>1, <2>2 DEF AtProgram, OfProgram, KernelPcs
  <2>4. Resumption("SYSCALL", "user1") = "user2" /\ Expected = "user2"
    BY <2>1 DEF Resumption, Expected
  <2>5. FitsProgram(current, regs, "user1") /\ FitsProgram(current, regs, "user2")
    BY <2>3 DEF FitsProgram, UserCode
  <2>6. regs = [regs EXCEPT !.pc = "user1"] /\ regs.pc # "lib"
    BY <2>1, SamePc
  <2>7. Resumption("SYSCALL", "user1") = Expected
        /\ FitsProgram(current, regs, Resumption("SYSCALL", "user1"))
    BY <2>4, <2>5
  <2> QED
    BY <2>1, <2>2, <2>3, <2>5, <2>6, <2>7, ProgramEnters
<1>3. CASE Touch(va) /\ ~ Goto("user0", "user1")
  <2>1. regs.pc = "user0" /\ Trap("PAGEFAULT", regs) /\ ev' = "PAGEFAULT"
    BY <1>3 DEF Touch, Trap
  <2>2. AtProgram(current, left[current], regs)
    BY <2>1, PcTells DEF UserCode
  <2>3. current \in UserThreads
    BY <2>1, <2>2 DEF AtProgram, OfProgram, KernelPcs
  <2>4. Resumption("PAGEFAULT", "user0") = "user0" /\ Expected = "user0"
    BY <2>1 DEF Resumption, Expected
  <2>5. FitsProgram(current, regs, "user0")
    BY <2>3 DEF FitsProgram, UserCode
  <2>6. regs = [regs EXCEPT !.pc = "user0"] /\ regs.pc # "lib" /\ "PAGEFAULT" # "SYSCALL"
    BY <2>1, SamePc
  <2>7. Resumption("PAGEFAULT", "user0") = Expected
        /\ FitsProgram(current, regs, Resumption("PAGEFAULT", "user0"))
    BY <2>4, <2>5
  <2> QED
    BY <2>1, <2>2, <2>5, <2>6, <2>7, ProgramEnters
<1> QED
  BY <1>1, <1>2, <1>3

\* A signal that is delivered, or dropped in a library.
LEMMA SignalKeeps ==
    ASSUME NativeInv, NativeNext, NEW s \in {"TIMER", "IODEV"}, Deliver(s)
    PROVE  NativeInv' /\ GoesOn
<1>1. ~ regs.masked
  BY DEF Deliver
<1>2. AtProgram(current, left[current], regs)
  BY <1>1 DEF NativeInv, CurrentOK, Where, AtMain, AtIrq, AtCall, AtMagic
<1>3. CASE signal_safe(regs.pc) /\ Trap(s, regs)
  <2>1. FitsProgram(current, regs, regs.pc)
    BY <1>2 DEF AtProgram, OfProgram, FitsProgram
  <2>2. ev' = s
    BY <1>3 DEF Trap
  <2>3. Resumption(s, regs.pc) = regs.pc /\ Expected = regs.pc
    BY <2>2 DEF Resumption, Expected
  <2>4. regs = [regs EXCEPT !.pc = regs.pc] /\ regs.pc # "lib" /\ s # "SYSCALL"
    BY <1>3, SamePc DEF signal_safe
  <2>5. Resumption(s, regs.pc) = Expected /\ FitsProgram(current, regs, Resumption(s, regs.pc))
    BY <2>1, <2>3
  <2> QED
    BY <1>2, <1>3, <2>1, <2>4, <2>5, ProgramEnters
<1>4. CASE UNCHANGED <<regs, vm_head, ksp, mem, shown, spaces, current, cp>>
  <2>1. regs' \in Ucs /\ OfProgram(current, regs')
    BY <1>2, <1>4 DEF NativeInv, NativeTypes, AtProgram
  <2>2. regs.pc # "magic" /\ regs'.pc # "irq_handle"
    BY <1>2, <1>4 DEF AtProgram, OfProgram, KernelPcs, UserCode
  <2>3. left' = left /\ GoesOn
    BY <2>2, NoTrap
  <2> QED
    BY <1>2, <1>4, <2>1, <2>3, ProgramMoves
<1> QED
  BY <1>3, <1>4 DEF Deliver

\* A step that leaves all but the signals alone.
LEMMA Idle ==
    ASSUME NativeInv, UNCHANGED <<regs, vm_head, ksp, ev, mem, shown, spaces, current, cp, left>>
    PROVE  NativeInv'
  BY DEF NativeInv, NativeTypes, CurrentOK, WaitingOK, SpacesOK, ShownOK, ListOf

\* The kernel, while a thread's trap lasts.
LEMMA KernelKeeps ==
    ASSUME NativeInv, NativeNext, Kernel
    PROVE  NativeInv' /\ GoesOn
<1>1. ASSUME NEW e \in {"TIMER", "YIELD"}, OnSwitch(e) PROVE NativeInv' /\ GoesOn
  <2>1. regs.pc = "irq_handle"
    BY <1>1 DEF OnSwitch, AtHandler
  <2>2. left' = left /\ GoesOn
    BY <2>1, NoTrap
  <2> QED
    BY <1>1, <2>2, Switches
<1>2. CASE OnKey
  <2>1. /\ AtHandler("IODEV") /\ Leave(regs.gpr1, vm_head) /\ UNCHANGED <<ksp, current, cp>>
        /\ regs.pc = "irq_handle"
    BY <1>2 DEF OnKey, AtHandler
  <2>2. left' = left /\ GoesOn
    BY <2>1, NoTrap
  <2> QED
    BY <2>1, <2>2, GoesBack
<1>3. CASE OnSyscall
  <2>1. /\ AtHandler("SYSCALL") /\ UNCHANGED <<ksp, current, cp>> /\ regs.pc = "irq_handle"
        /\ \/ Leave(regs.gpr1, vm_head)
           \/ regs' = [regs EXCEPT !.pc = "syscall"] /\ UNCHANGED <<vm_head, shown, spaces>>
    BY <1>3 DEF OnSyscall, AtHandler
  <2>2. left' = left /\ GoesOn
    BY <2>1, NoTrap
  <2> QED
    BY <2>1, <2>2, GoesBack, ServesCall
<1>4. CASE YieldInSyscall
  <2>1. PICK uc : uc = [regs EXCEPT !.pc = "yielded"]
    OBVIOUS
  <2>2. regs.pc = "syscall" /\ Trap("YIELD", uc) /\ ev' = "YIELD" /\ regs'.pc = "irq_handle"
    BY <1>4, <2>1 DEF YieldInSyscall, Trap, setup_stack
  <2>3. regs \in Ucs /\ "yielded" \in Pcs
    BY DEF NativeInv, NativeTypes, Pcs
  <2>4. /\ uc \in Ucs /\ uc.pc = "yielded" /\ uc.sp = regs.sp /\ uc.masked = regs.masked
    BY <2>1, <2>3 DEF Ucs
  <2>5. Expected = "yielded" /\ trapped /\ ~ returned
    BY <2>2 DEF Expected, trapped, returned
  <2>6. Entry(uc) = [pc |-> Expected, sp |-> regs.sp, masked |-> regs.masked]
    BY <2>4, <2>5 DEF Entry
  <2>7. left' = [left EXCEPT ![current] = Append(@, Entry(uc))]
    BY <2>5, <2>6, History
  <2>8. GoesOn
    BY <2>2, <2>5 DEF GoesOn
  <2> QED
    BY <2>1, <2>2, <2>4, <2>7, <2>8, CallYields
<1>5. CASE AfterYield
  <2>1. regs.pc = "yielded" /\ Leave(regs.gpr1, mem[regs.gpr1].vm_head)
    BY <1>5 DEF AfterYield
  <2>2. regs \in Ucs
    BY DEF NativeInv, NativeTypes
  <2>3. regs'.pc = "magic"
    BY <2>1, <2>2 DEF Leave, Ucs
  <2>4. left' = left /\ GoesOn
    BY <2>1, <2>3, NoTrap
  <2> QED
    BY <1>5, <2>4, CallReturns
<1>6. CASE iret
  <2>1. regs.pc = "magic"
    BY <1>6 DEF iret
  <2>2. CASE left' = [left EXCEPT ![current] = Front(@)]
    <3>1. /\ NativeInv' /\ regs'.pc # "irq_handle" /\ left[current] # << >>
          /\ \E was \in {Last(left[current])} :
                 regs'.pc = was.pc /\ regs'.sp = was.sp /\ regs'.masked = was.masked
      BY <1>6, <2>2, Loads
    <3> QED
      BY <2>1, <3>1 DEF GoesOn, trapped
  <2>3. regs'.pc # "irq_handle" /\ regs'.pc # "magic"
    BY <1>6, LoadsProgram
  <2>4. left' = [left EXCEPT ![current] = Front(@)]
    BY <2>1, <2>3, History DEF trapped, returned
  <2> QED
    BY <2>2, <2>4
<1>7. CASE yield("main", "boot")
  <2>1. PICK uc : uc = [regs EXCEPT !.pc = "boot"]
    OBVIOUS
  <2>2. regs.pc = "main" /\ Trap("YIELD", uc) /\ ev' = "YIELD" /\ regs'.pc = "irq_handle"
    BY <1>7, <2>1 DEF yield, Trap, setup_stack
  <2>3. regs \in Ucs /\ "boot" \in Pcs
    BY DEF NativeInv, NativeTypes, Pcs
  <2>4. /\ uc \in Ucs /\ uc.pc = "boot" /\ uc.sp = regs.sp /\ uc.masked = regs.masked
    BY <2>1, <2>3 DEF Ucs
  <2>5. Expected = "boot" /\ trapped /\ ~ returned
    BY <2>2 DEF Expected, trapped, returned
  <2>6. Entry(uc) = [pc |-> Expected, sp |-> regs.sp, masked |-> regs.masked]
    BY <2>4, <2>5 DEF Entry
  <2>7. left' = [left EXCEPT ![current] = Append(@, Entry(uc))]
    BY <2>5, <2>6, History
  <2>8. GoesOn
    BY <2>2, <2>5 DEF GoesOn
  <2> QED
    BY <2>1, <2>2, <2>4, <2>7, <2>8, MainTraps
<1> QED
  BY <1>1, <1>2, <1>3, <1>4, <1>5, <1>6, <1>7 DEF Kernel

\* Every step of the program, the kernel and the world keeps the invariant.
LEMMA NativeStep ==
    ASSUME NativeInv, [NativeNext]_allVars
    PROVE  NativeInv' /\ GoesOn
<1>1. CASE NativeNext
  <2>1. NativeCteNext
    BY <1>1 DEF NativeNext
  <2>2. CASE Kernel
    BY <1>1, <2>2, KernelKeeps
  <2>3. CASE Program
    BY <1>1, <2>3, CodeKeeps, AsksKeep DEF Program
  <2>4. ASSUME NEW va \in Pages, Touch(va) PROVE NativeInv' /\ GoesOn
    <3>1. CASE Goto("user0", "user1")
      BY <1>1, <3>1, CodeKeeps
    <3>2. CASE ~ Goto("user0", "user1")
      BY <1>1, <2>4, <3>2, AsksKeep
    <3> QED
      BY <3>1, <3>2
  <2>5. ASSUME NEW va \in Pages, OnPageFault(va) PROVE NativeInv' /\ GoesOn
    <3>1. regs.pc = "irq_handle"
      BY <2>5 DEF OnPageFault, AtHandler
    <3>2. left' = left /\ GoesOn
      BY <1>1, <3>1, NoTrap
    <3> QED
      BY <2>5, <3>2, PageComes
  <2>6. ASSUME NEW s \in UserThreads, NEW va \in Pages, MapFor(s, va) PROVE NativeInv' /\ GoesOn
    <3>1. regs.pc = "critical" /\ regs' = regs
      BY <2>6 DEF MapFor
    <3>2. left' = left /\ GoesOn
      BY <1>1, <3>1, NoTrap
    <3> QED
      BY <2>6, <3>2, PageGiven
  <2>7. ASSUME NEW s \in {"TIMER", "IODEV"}, Deliver(s) PROVE NativeInv' /\ GoesOn
    BY <1>1, <2>7, SignalKeeps
  <2>8. ASSUME NEW s \in {"TIMER", "IODEV"}, Arrive(s) PROVE NativeInv' /\ GoesOn
    <3>1. UNCHANGED <<regs, vm_head, ksp, ev, mem, shown, spaces, current, cp>>
      BY <2>8 DEF Arrive
    <3>2. left' = left /\ GoesOn
      BY <1>1, <3>1, NoTrap
    <3> QED
      BY <3>1, <3>2, Idle
  <2> QED
    BY <2>1, <2>2, <2>3, <2>4, <2>5, <2>6, <2>7, <2>8 DEF NativeCteNext
<1>2. CASE UNCHANGED allVars
  <2>1. UNCHANGED <<regs, vm_head, ksp, ev, mem, shown, spaces, current, cp, left>>
    BY <1>2 DEF allVars, nativeVars
  <2>2. NativeInv'
    BY <2>1, Idle
  <2>3. GoesOn
    <3>1. ~ trapped /\ ~ returned
      BY <2>1 DEF trapped, returned
    <3> QED
      BY <3>1 DEF GoesOn
  <2> QED
    BY <2>2, <2>3
<1> QED
  BY <1>1, <1>2

\* The first state: main() has made the contexts of all threads.
LEMMA NativeFirst == NativeCteAssumption /\ NativeInit => NativeInv
<1> SUFFICES ASSUME NativeCteAssumption, NativeInit PROVE NativeInv
  OBVIOUS
<1>1. /\ NThreads \in Nat \ {0} /\ UserThreads \subseteq 1 .. NThreads /\ 0 \notin UserThreads
      /\ Threads = 1 .. NThreads
  BY DEF NativeCteAssumption, Threads
<1>2. /\ regs = Uc("main", <<0, 0>>, TRUE) /\ vm_head = 0 /\ ksp = Outside /\ current = 0
      /\ mem = [c \in Contexts |->
                  IF c[2] = 1 /\ c[1] \in UserThreads THEN ucontext(c[1]) ELSE kcontext(c[1])]
      /\ shown = << >> /\ spaces = [s \in UserThreads |-> << >>] /\ cp = [t \in 0 .. NThreads |-> <<t, 1>>]
      /\ left = [t \in 0 .. NThreads |->
                   IF t \in UserThreads THEN <<[pc |-> "user0", sp |-> Outside, masked |-> FALSE]>>
                   ELSE <<[pc |-> "start", sp |-> <<t, 0>>, masked |-> FALSE]>>]
  BY DEF NativeInit, NativeCteInit, Contexts
<1>3. /\ \A t \in 0 .. NThreads + 1 : <<t, 0>> \in Stacks /\ <<t, 0>> \in (0 .. NThreads + 1) \X {0}
      /\ Outside \in Stacks /\ Outside \in (0 .. NThreads + 1) \X {0} /\ <<0, 0>> \in Stacks
      /\ 0 .. NThreads \subseteq 0 .. NThreads + 1 /\ 1 \in Depth /\ 2 \in Depth
  BY <1>1 DEF Stacks, Outside, Depth
<1>4. ASSUME NEW p \in Pcs, NEW c \in Stacks, NEW b \in BOOLEAN
      PROVE  /\ Uc(p, c, b) \in Ucs /\ Uc(p, c, b).pc = p /\ Uc(p, c, b).sp = c
             /\ Uc(p, c, b).masked = b
  BY <1>3 DEF Uc, Ucs
<1>5. ASSUME NEW t \in 0 .. NThreads + 1 PROVE ucontext(t) \in Cells \/ t \notin UserThreads
  <2>1. Uc("user0", Outside, FALSE) \in Ucs
    BY <1>3, <1>4 DEF Pcs, UserCode
  <2> QED
    BY <1>3, <2>1 DEF ucontext, Cells
<1>6. ASSUME NEW t \in 0 .. NThreads + 1 PROVE kcontext(t) \in Cells
  <2>1. Uc("start", <<t, 0>>, FALSE) \in Ucs
    BY <1>3, <1>4 DEF Pcs, KernelPcs
  <2> QED
    BY <1>3, <2>1 DEF kcontext, Cells
<1>7. mem \in [Contexts -> Cells]
  <2>1. \A c \in Contexts : c[1] \in 0 .. NThreads + 1
    BY DEF Contexts
  <2> QED
    BY <1>2, <1>5, <1>6, <2>1
<1>8. ASSUME NEW t \in Threads
      PROVE  mem[<<t, 1>>] = IF t \in UserThreads THEN ucontext(t) ELSE kcontext(t)
  <2>0. t \in 0 .. NThreads + 1 /\ 1 \in Depth
    BY <1>1, <1>3
  <2>1. PICK c \in Contexts : c = <<t, 1>>
    BY <2>0 DEF Contexts
  <2>2. c[1] = t /\ c[2] = 1
    BY <2>1
  <2> QED
    BY <1>2, <2>1, <2>2
<1>9. left \in [0 .. NThreads -> Seq(Lefts)]
  <2>1. [pc |-> "user0", sp |-> Outside, masked |-> FALSE] \in Lefts
    BY <1>3 DEF Lefts, Pcs, UserCode
  <2>2. ASSUME NEW t \in 0 .. NThreads PROVE [pc |-> "start", sp |-> <<t, 0>>, masked |-> FALSE] \in Lefts
    <3>1. <<t, 0>> \in Stacks
      BY <1>3
    <3>2. PICK c \in Stacks : c = <<t, 0>>
      BY <3>1
    <3> QED
      BY <3>2 DEF Lefts, Pcs, KernelPcs
  <2> QED
    BY <1>2, <2>1, <2>2
<1>10. NativeTypes
  <2>1. regs \in Ucs
    BY <1>2, <1>3, <1>4 DEF Pcs
  <2>2. cp \in [0 .. NThreads -> Contexts]
    BY <1>2, <1>3 DEF Contexts
  <2>3. vm_head \in UserThreads \cup {0} /\ ksp \in (0 .. NThreads + 1) \X {0}
    BY <1>2, <1>3
  <2>4. current \in 0 .. NThreads
    BY <1>1, <1>2
  <2> QED
    BY <1>7, <1>9, <2>1, <2>2, <2>3, <2>4 DEF NativeTypes
<1>11. ASSUME NEW t \in Threads PROVE Waits(mem, t, left[t], cp[t])
  <2>1. cp[t] = <<t, 1>> /\ t \in 0 .. NThreads
    BY <1>1, <1>2
  <2>2. CASE t \in UserThreads
    <3>1. mem[<<t, 1>>] = ucontext(t) /\ left[t] = <<[pc |-> "user0", sp |-> Outside, masked |-> FALSE]>>
      BY <1>2, <1>8, <2>1, <2>2
    <3>2. mem[<<t, 1>>].uc = Uc("user0", Outside, FALSE) /\ mem[<<t, 1>>].vm_head = t
          /\ mem[<<t, 1>>].ksp = <<t, 0>>
      BY <3>1 DEF ucontext
    <3>3. Entry(Uc("user0", Outside, FALSE)) = [pc |-> "user0", sp |-> Outside, masked |-> FALSE]
      BY DEF Entry, Uc
    <3>4. OfProgram(t, Uc("user0", Outside, FALSE))
      BY <2>2 DEF OfProgram, Uc, Home, UserCode
    <3>5. Len(left[t]) = 1 /\ left[t][1] = Entry(Uc("user0", Outside, FALSE))
      <4>1. left[t] = <<Entry(Uc("user0", Outside, FALSE))>>
        BY ONLY <3>1, <3>3, Zenon
      <4>2. PICK e : e = Entry(Uc("user0", Outside, FALSE))
        OBVIOUS
      <4>3. left[t] = <<e>>
        BY <4>1, <4>2
      <4>4. Len(left[t]) = 1 /\ left[t][1] = e
        BY ONLY <4>3
      <4> QED
        BY <4>2, <4>4
    <3>6. First(mem, t, left[t])
      BY <3>2, <3>4, <3>5 DEF First
    <3>7. Left(mem, t, <<t, 1>>)
      BY <2>2, <3>2 DEF Left, HeadOf
    <3> QED
      BY <2>1, <3>5, <3>6, <3>7 DEF Waits
  <2>3. CASE t \notin UserThreads
    <3>1. mem[<<t, 1>>] = kcontext(t) /\ left[t] = <<[pc |-> "start", sp |-> <<t, 0>>, masked |-> FALSE]>>
      BY <1>2, <1>8, <2>1, <2>3
    <3>2. mem[<<t, 1>>].uc = Uc("start", <<t, 0>>, FALSE) /\ mem[<<t, 1>>].vm_head = 0
      BY <3>1 DEF kcontext
    <3>3. Entry(Uc("start", <<t, 0>>, FALSE)) = [pc |-> "start", sp |-> <<t, 0>>, masked |-> FALSE]
      BY DEF Entry, Uc
    <3>4. OfProgram(t, Uc("start", <<t, 0>>, FALSE))
      BY <2>3 DEF OfProgram, Uc, Home, KernelPcs
    <3>5. Len(left[t]) = 1 /\ left[t][1] = Entry(Uc("start", <<t, 0>>, FALSE))
      <4>1. left[t] = <<Entry(Uc("start", <<t, 0>>, FALSE))>>
        BY ONLY <3>1, <3>3, Zenon
      <4>2. PICK e : e = Entry(Uc("start", <<t, 0>>, FALSE))
        OBVIOUS
      <4>3. left[t] = <<e>>
        BY <4>1, <4>2
      <4>4. Len(left[t]) = 1 /\ left[t][1] = e
        BY ONLY <4>3
      <4> QED
        BY <4>2, <4>4
    <3>6. First(mem, t, left[t])
      BY <3>2, <3>4, <3>5 DEF First
    <3>7. Left(mem, t, <<t, 1>>)
      BY <2>3, <3>2 DEF Left, HeadOf
    <3> QED
      BY <2>1, <3>5, <3>6, <3>7 DEF Waits
  <2> QED
    BY <2>2, <2>3
<1>12. WaitingOK
  BY <1>11 DEF WaitingOK
<1>13. CurrentOK
  <2>1. AtMain(0, regs, ev)
    BY <1>2 DEF AtMain, Uc
  <2> QED
    BY <1>1, <1>2, <2>1 DEF CurrentOK, Where, HeadOf
<1>14. SpacesOK
  <2>1. \A s \in UserThreads : spaces[s] = << >>
    BY <1>2
  <2>2. DOMAIN << >> = {}
    OBVIOUS
  <2> QED
    BY <1>2, <2>1, <2>2 DEF SpacesOK, AllMapped
<1>15. ShownOK
  <2>1. ListOf(vm_head) = << >> /\ DOMAIN << >> = {}
    BY <1>2 DEF ListOf
  <2>2. PagesOf(0, << >>)
    BY <2>1 DEF PagesOf
  <2>3. WithPages(<< >>, << >>) = View(0, << >>)
    BY <2>1, <2>2, ViewOf
  <2>4. View(0, << >>) = << >>
    BY <2>1 DEF View, Vas
  <2> QED
    BY <1>2, <2>1, <2>3, <2>4 DEF ShownOK
<1> QED
  BY <1>10, <1>12, <1>13, <1>14, <1>15 DEF NativeInv

----------------------------------------------------------------------------
(* The theorems                                                            *)

\* The invariant holds in every state.
LEMMA NativeInvariant == NativeCteAssumption /\ NativeSpec => []NativeInv
<1>1. NativeInv /\ [NativeNext]_allVars => NativeInv'
  BY NativeStep
<1> QED
  BY <1>1, NativeFirst, PTL DEF NativeSpec

\* The states in which a thread runs.
LEMMA RunsOnItsOwn == NativeInv => OwnPagesAndStack
<1> SUFFICES ASSUME NativeInv, Runs
             PROVE  /\ regs.sp = IF current \in UserThreads THEN Outside ELSE <<current, 0>>
                    /\ vm_head = IF current \in UserThreads THEN current ELSE 0
                    /\ shown = WithPages(<< >>, ListOf(vm_head))
                    /\ current \in UserThreads => ksp = <<current, 0>>
  BY DEF OwnPagesAndStack
<1>1. AtProgram(current, left[current], regs)
  BY DEF NativeInv, CurrentOK, Where, AtMain, AtIrq, AtCall, AtMagic, Runs
<1> QED
  BY <1>1 DEF NativeInv, CurrentOK, ShownOK, AtProgram, OfProgram, Home, HeadOf, Runs

\* A thread that runs is on its own stack and sees the pages of its own space,
\* all of them and no other, and a user thread that traps finds its own kernel
\* stack empty: OwnPagesAndStack.
THEOREM PagesAreOwn == NativeCteAssumption /\ NativeSpec => []OwnPagesAndStack
  BY NativeInvariant, RunsOnItsOwn, PTL

\* A thread goes on where its last trap left it, with its stack and signal mask,
\* and is not interrupted in a library: ThreadsGoOn.
THEOREM GoesOnAsLeft == NativeCteAssumption /\ NativeSpec => ThreadsGoOn
<1>1. NativeInv /\ [NativeNext]_allVars => [GoesOn]_allVars
  BY NativeStep
<1> QED
  BY <1>1, NativeInvariant, PTL DEF NativeSpec, ThreadsGoOn
=============================================================================
