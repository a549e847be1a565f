------------------------------ MODULE Brainfuck ------------------------------
(***************************************************************************)
(* The interpreter of am-kernels/kernels/demo/src/bf/bf.c.  It loads the   *)
(* program into a list whose brackets point to each other: while a loop is *)
(* open, the jmp of its [ is the link to the loop around it, and the ] that*)
(* closes it turns both ends round.  Then it executes the list on a tape   *)
(* that grows to the right.                                                *)
(***************************************************************************)
EXTENDS Integers, Sequences

CONSTANTS Programs,   \* texts, as sequences of characters
          CELL,       \* values of a char
          TapeLength  \* cells that the tape may have

BfAssumption == CELL \in Nat \ {0} /\ TapeLength \in Nat \ {0}

VARIABLES prog, s,    \* the text, and the next character of it
          pgm,        \* the list: cmd and jmp
          j,          \* the innermost loop that is open, 0 if there is none
          tape, m,    \* the cells, and the current one
          n,          \* the command that is executed next
          at          \* "load", "strip", "run", "done" or "halt"

bfVars == <<prog, s, pgm, j, tape, m, n, at>>

Nowhere  == 0
Commands == {"<", ">", "+", "-", ".", "["}

----------------------------------------------------------------------------
(* Loading                                                                 *)

Reads == at = "load" /\ s <= Len(prog) /\ s' = s + 1 /\ UNCHANGED <<prog, tape, m, n, at>>

\* A character that is no command, or a ] when no loop is open.
Ignore == /\ Reads
          /\ prog[s] \notin Commands /\ (prog[s] = "]" => j = Nowhere)
          /\ UNCHANGED <<pgm, j>>

Plain == /\ Reads /\ prog[s] \in Commands \ {"["}
         /\ pgm' = Append(pgm, [cmd |-> prog[s], jmp |-> Nowhere]) /\ UNCHANGED j

Open == /\ Reads /\ prog[s] = "["
        /\ pgm' = Append(pgm, [cmd |-> "[", jmp |-> j]) /\ j' = Len(pgm')

\* A variant: the [ keeps its link to the loop around.
Close_one_way ==
    /\ Reads /\ prog[s] = "]" /\ j # Nowhere
    /\ pgm' = Append(pgm, [cmd |-> "]", jmp |-> j]) /\ j' = pgm[j].jmp

\* Both ends point to each other, and the loop around is the open one.
Close == /\ Reads /\ prog[s] = "]" /\ j # Nowhere
         /\ pgm' = [Append(pgm, [cmd |-> "]", jmp |-> j]) EXCEPT ![j].jmp = Len(pgm) + 1]
         /\ j' = pgm[j].jmp

\* A [ that is still open becomes a blank, and so does the one around it.
Strip == /\ at = "load" /\ s > Len(prog) /\ j # Nowhere
         /\ pgm' = [pgm EXCEPT ![j] = [cmd |-> "blank", jmp |-> Nowhere]]
         /\ j' = pgm[j].jmp
         /\ UNCHANGED <<prog, s, tape, m, n, at>>

Loaded == /\ at = "load" /\ s > Len(prog) /\ j = Nowhere
          /\ at' = "run" /\ n' = 1
          /\ UNCHANGED <<prog, s, pgm, j, tape, m>>

----------------------------------------------------------------------------
(* Executing                                                               *)

Executes(cmd) == /\ at = "run" /\ n <= Len(pgm) /\ pgm[n].cmd = cmd
                 /\ UNCHANGED <<prog, s, pgm, j>>

\* The commands that change one cell, the one that prints it, and the blank.
Cell(cmd, v) == Executes(cmd) /\ tape' = [tape EXCEPT ![m] = v % CELL] /\ n' = n + 1
                /\ UNCHANGED <<m, at>>
Putch2 == \/ Cell(".", tape[m])
          \/ Cell("blank", tape[m])

\* A bracket that jumps goes to its partner, and on from there.
\* A variant: the command behind the partner is skipped.
Bracket_next(cmd, jumps) == /\ Executes(cmd)
                            /\ n' = IF jumps THEN pgm[n].jmp + 2 ELSE n + 1
                            /\ UNCHANGED <<tape, m, at>>

Bracket(cmd, jumps) == /\ Executes(cmd)
                       /\ n' = IF jumps THEN pgm[n].jmp + 1 ELSE n + 1
                       /\ UNCHANGED <<tape, m, at>>

\* Left of the tape there is nothing: the machine halts.
Left == /\ Executes("<")
        /\ IF m = 1 THEN at' = "halt" /\ UNCHANGED <<m, n>>
                    ELSE m' = m - 1 /\ n' = n + 1 /\ UNCHANGED at
        /\ UNCHANGED tape

Grown == IF m = Len(tape) THEN Append(tape, 0) ELSE tape

Right == /\ Executes(">") /\ m < TapeLength
         /\ tape' = Grown
         /\ m' = m + 1 /\ n' = n + 1 /\ UNCHANGED at

Done == /\ at = "run" /\ n > Len(pgm) /\ at' = "done"
        /\ UNCHANGED <<prog, s, pgm, j, tape, m, n>>

BfInit == /\ prog \in Programs /\ s = 1 /\ pgm = <<>> /\ j = Nowhere
          /\ tape = <<0>> /\ m = 1 /\ n = 0 /\ at = "load"

BfNext == \/ Ignore
          \/ Plain
          \/ Open
          \/ Close
          \/ Strip
          \/ Loaded
          \/ Cell("+", tape[m] + 1)
          \/ Cell("-", tape[m] - 1)
          \/ Putch2
          \/ Bracket("[", tape[m] = 0)
          \/ Bracket("]", tape[m] # 0)
          \/ Left
          \/ Right
          \/ Done

BfSpec == BfInit /\ [][BfNext]_bfVars

----------------------------------------------------------------------------
\* The depth of the brackets from a to b, and the partner of one: the nearest
\* place behind it where as many have been closed as opened.
Count(ch, a, b) == Len(SelectSeq(SubSeq(prog, a, b), LAMBDA c : c = ch))
Partners(a, b) == /\ prog[a] = "[" /\ prog[b] = "]" /\ a < b
                  /\ Count("[", a, b) = Count("]", a, b)
                  /\ \A k \in a .. b - 1 : Count("[", a, k) > Count("]", a, k)

\* The text without what the loader ignores.
HasPartner(a) == \E b \in DOMAIN prog : Partners(a, b) \/ Partners(b, a)
Kept == {a \in DOMAIN prog : prog[a] \in Commands \/ (prog[a] = "]" /\ HasPartner(a))}
Place(a) == Len(SelectSeq([k \in 1 .. a |-> k], LAMBDA k : k \in Kept))

\* What is executed is the text: each bracket that has a partner points to it,
\* those that have none do nothing, and every other command is where it was,
\* however the loops are nested or left open (bf.c:58).
BracketsMatch ==
    at = "run" =>
      /\ \A a \in Kept :
            /\ prog[a] = "[" /\ ~HasPartner(a) => pgm[Place(a)].cmd = "blank"
            /\ prog[a] # "[" \/ HasPartner(a) => pgm[Place(a)].cmd = prog[a]
      /\ \A a, b \in Kept : Partners(a, b) => /\ pgm[Place(a)].jmp = Place(b)
                                              /\ pgm[Place(b)].jmp = Place(a)

\* A loop is entered only when its cell is not zero, and left, at its end or
\* before it, only when it is zero (bf.c:83).
Inside(k) == {a \in DOMAIN pgm : pgm[a].cmd = "[" /\ a < k /\ k <= pgm[a].jmp}
LoopsWhileNotZero ==
    at = "run" /\ n # 0 /\ Inside(n)' # Inside(n) =>
        IF Inside(n) \subseteq Inside(n)' THEN tape[m] # 0 ELSE tape[m] = 0
=============================================================================
