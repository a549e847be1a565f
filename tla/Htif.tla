------------------------------- MODULE Htif -------------------------------
(***************************************************************************)
(* The console of the spike runtime, abstract-machine/am/src/riscv/spike/  *)
(* htif.c.  The program and the host share two words: the program writes   *)
(* tohost when it is zero, the host writes fromhost when it is zero.  An   *)
(* answer to one request may be in fromhost while the program waits to     *)
(* send another.  Keys and characters are numbered modulo CHARS.           *)
(***************************************************************************)
EXTENDS Integers, Sequences

CONSTANTS CHARS,      \* numbers for the characters
          TypeAhead   \* keys the host's terminal holds

HtifAssumption == CHARS \in Nat \ {0, 1} /\ TypeAhead \in 1 .. CHARS - 1

VARIABLES tohost, fromhost,     \* a request or an answer, or Empty
          htif_console_buf,     \* -1: a key is asked for; 0: none; 1 + key
          call,                 \* the call of the program, and its character
          at,                   \* "idle", "set" (__set_tohost) or "answer"
          returned,             \* the value of the last call
          keys, wanted, queue,  \* host: keys typed, reads to answer, answers
          typed, got, put, shown  \* how many so far, modulo CHARS (history)

htifVars == <<tohost, fromhost, htif_console_buf, call, at, returned,
              keys, wanted, queue, typed, got, put, shown>>

Empty == <<>>
Command(dev, cmd, data) == [dev |-> dev, cmd |-> cmd, data |-> data]
Exit == Command(0, 0, 1)
Next1(n) == (n + 1) % CHARS

----------------------------------------------------------------------------
(* The host                                                                *)

HostRest == UNCHANGED <<htif_console_buf, call, at, returned, got, put>>

\* A request is taken: a read of the console waits for a key, a write shows
\* its character, a system call is answered.
HostTakes ==
    /\ tohost # Empty /\ tohost # Exit /\ tohost' = Empty
    /\ wanted' = wanted + (IF tohost.dev = 1 /\ tohost.cmd = 0 THEN 1 ELSE 0)
    /\ shown' = IF tohost.dev = 1 /\ tohost.cmd = 1 THEN tohost.data ELSE shown
    /\ queue' = IF tohost.dev = 0 THEN Append(queue, Command(0, 0, 0)) ELSE queue
    /\ HostRest /\ UNCHANGED <<fromhost, keys, typed>>

HostReads == /\ wanted > 0 /\ keys # <<>>
             /\ wanted' = wanted - 1 /\ keys' = Tail(keys)
             /\ queue' = Append(queue, Command(1, 0, Head(keys)))
             /\ HostRest /\ UNCHANGED <<tohost, fromhost, typed, shown>>

HostGives == /\ fromhost = Empty /\ queue # <<>>
             /\ fromhost' = Head(queue) /\ queue' = Tail(queue)
             /\ HostRest /\ UNCHANGED <<tohost, keys, wanted, typed, shown>>

\* A key is pressed; the bound is on the keys the program has not got.
Type == /\ (typed - got) % CHARS < TypeAhead
        /\ typed' = Next1(typed) /\ keys' = Append(keys, typed')
        /\ HostRest /\ UNCHANGED <<tohost, fromhost, wanted, queue, shown>>

----------------------------------------------------------------------------
(* The program                                                             *)

HostIdle == UNCHANGED <<keys, wanted, queue, typed>>

\* __check_fromhost: an answer from the console is a key.
check_fromhost ==
    IF fromhost = Empty
      THEN UNCHANGED <<fromhost, htif_console_buf>>
      ELSE /\ fromhost.dev = 1     \* asserted
           /\ fromhost' = Empty
           /\ htif_console_buf' = IF fromhost.cmd = 0 THEN 1 + fromhost.data
                                                      ELSE htif_console_buf

\* What getchar leaves in the buffer.
\* A variant: as if nothing had been asked.
Asked_again == 0

Asked == -1

Buffer == IF fromhost # Empty /\ fromhost.cmd = 0 THEN 1 + fromhost.data ELSE htif_console_buf

\* htif_console_getchar: a key that was asked for, and the next one is asked.
getchar == /\ at = "idle" /\ (fromhost # Empty => fromhost.dev = 1)
           /\ fromhost' = Empty
           /\ returned' = Buffer - 1
           /\ got' = IF Buffer > 0 THEN Next1(got) ELSE got
           /\ IF Buffer >= 0
                THEN /\ htif_console_buf' = Asked
                     /\ call' = Command(1, 0, 0) /\ at' = "set"
                ELSE /\ htif_console_buf' = Buffer /\ UNCHANGED <<call, at>>
           /\ HostIdle /\ UNCHANGED <<tohost, put, shown>>

\* The character waits in __set_tohost until the one before it was taken.
putchar == /\ at = "idle"
           /\ put' = Next1(put) /\ call' = Command(1, 1, put') /\ at' = "set"
           /\ HostIdle
           /\ UNCHANGED <<tohost, fromhost, htif_console_buf, returned, got, shown>>

syscall == /\ at = "idle"
           /\ call' = Command(0, 0, 2) /\ at' = "set"
           /\ HostIdle
           /\ UNCHANGED <<tohost, fromhost, htif_console_buf, returned, got, put, shown>>

\* One turn of __set_tohost.
set_tohost ==
    /\ at = "set"
    /\ IF tohost # Empty
         THEN check_fromhost /\ UNCHANGED <<tohost, at>>
         ELSE /\ tohost' = call
              /\ at' = IF call.dev = 0 THEN "answer" ELSE "idle"
              /\ UNCHANGED <<fromhost, htif_console_buf>>
    /\ HostIdle /\ UNCHANGED <<call, returned, got, put, shown>>

IsAnswer == fromhost.dev = call.dev /\ fromhost.cmd = call.cmd

\* One turn of the loop of do_tohost_fromhost: a key may come first.
answer == /\ at = "answer" /\ fromhost # Empty
          /\ IF IsAnswer
               THEN fromhost' = Empty /\ at' = "idle" /\ UNCHANGED htif_console_buf
               ELSE check_fromhost /\ UNCHANGED at
          /\ HostIdle /\ UNCHANGED <<tohost, call, returned, got, put, shown>>

\* halt: the exit is written, whatever is there; the last character of the
\* program may be.
poweroff == /\ at \in {"idle", "off"} /\ at' = "off"
            /\ fromhost' = Empty /\ tohost' = Exit
            /\ HostIdle
            /\ UNCHANGED <<htif_console_buf, call, returned, got, put, shown>>

HtifInit == /\ tohost = Empty /\ fromhost = Empty /\ htif_console_buf = 0
            /\ call = Empty /\ at = "idle" /\ returned = -1
            /\ keys = <<>> /\ wanted = 0 /\ queue = <<>>
            /\ typed = 0 /\ got = 0 /\ put = 0 /\ shown = 0

HtifNext == \/ HostTakes
            \/ HostReads
            \/ HostGives
            \/ Type
            \/ getchar
            \/ putchar
            \/ syscall
            \/ set_tohost
            \/ answer
            \/ poweroff

\* The host goes on, and so does the program inside a call; it asks for a key
\* from time to time.
HtifSpec == /\ HtifInit /\ [][HtifNext]_htifVars
            /\ WF_htifVars(HostTakes) /\ WF_htifVars(HostReads) /\ WF_htifVars(HostGives)
            /\ WF_htifVars(set_tohost) /\ WF_htifVars(answer)
            /\ SF_htifVars(getchar)

----------------------------------------------------------------------------
\* Keys are got in the order they were typed, none of them twice and none
\* lost, also when one arrives while the program waits for something else.
KeyInOrder == got' # got => returned' = got'
KeysInOrder == [][KeyInOrder]_htifVars

\* Characters are shown in the order they were put, none of them twice and
\* none lost, before the machine is switched off.
CharInOrder == shown' # shown => shown' = Next1(shown)
CharsInOrder == [][CharInOrder]_htifVars

\* A call that has begun returns, and a key that was typed reaches the
\* program: no answer is waited for behind one that nobody takes, and none is
\* taken by the wrong one of the two loops (htif.c:41, 70).
Returned == at \in {"idle", "off"}
Got(k) == got # k \/ typed = k \/ at = "off"
ConsoleGoesOn == []<>Returned /\ \A k \in 0 .. CHARS - 1 : []<>Got(k)
=============================================================================
