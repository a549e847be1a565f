------------------------------ MODULE X86Ioe ------------------------------
(***************************************************************************)
(* The clock and the keyboard of the x86 runtime,                          *)
(* abstract-machine/am/src/x86/qemu/ioe.c, each with its own state.        *)
(*                                                                         *)
(* The CMOS clock goes on while its registers are read one at a time: a    *)
(* date may be torn by a tick.  timer_rtc reads the second twice; the      *)
(* estimate of the frequency at boot waits for two changes of the second.  *)
(* Day, month and year are read like the hour and are left out.            *)
(*                                                                         *)
(* A key sends its scan code when it is pressed and the code plus RELEASE  *)
(* when it is released; some keys send PREFIX before either.  A program    *)
(* polls until there is no key, and does that again and again.  The prefix *)
(* looks like no key: the bytes behind it wait for the next round.         *)
(***************************************************************************)
EXTENDS Integers, Sequences

-----------------------------------------------------------------------------
(* The clock                                                               *)

CONSTANTS SECONDS, MINUTES, HOURS, \* 60, 60, 24
          TickGap,    \* port accesses that fit in a second, at least
          MaxMissed   \* seconds an estimate may take

RtcAssumption == /\ {SECONDS, MINUTES, HOURS} \subseteq Nat \ {0, 1}
                 /\ TickGap \in Nat /\ TickGap >= 7 /\ MaxMissed \in Nat
                 /\ MaxMissed < SECONDS * MINUTES

VARIABLES now,      \* the time of the CMOS, in seconds, modulo a day
          phase,    \* port accesses since the last tick, up to TickGap
          at,       \* <<reading, register>>: where the processor is
          rtc,      \* the date being read
          t0,       \* the second of wait_sec's first reading
          t1,       \* estimate_freq: the first time, in seconds of the hour
          begun     \* when t1 was taken (history), or -1

rtcVars == <<now, phase, at, rtc, t0, t1, begun>>

DAY == SECONDS * MINUTES * HOURS

Second(t) == t % SECONDS
Minute(t) == (t \div SECONDS) % MINUTES
Hour(t)   == t \div (SECONDS * MINUTES)
Date(t)   == [second |-> Second(t), minute |-> Minute(t), hour |-> Hour(t)]

\* The registers hold two decimal digits, four bits each.
Bcd(v) == (v % 10) + 16 * (v \div 10)

read_rtc(v) == (Bcd(v) % 16) + (Bcd(v) \div 16) * 10

\* What a time of the clock looks like through its registers, and the order
\* in which they are read.
Seen(t, f) == read_rtc(Date(t)[f])
Fields     == <<"second", "minute", "hour">>

Elapsed(from) == (now - from) % DAY

----------------------------------------------------------------------------
\* The clock: a second takes at least TickGap port accesses, and an estimate
\* at most MaxMissed seconds.
Tick == /\ phase = TickGap
        /\ begun # -1 => Elapsed(begun) < MaxMissed
        /\ now' = (now + 1) % DAY /\ phase' = 0
        /\ UNCHANGED <<at, rtc, t0, t1, begun>>

Access == /\ phase' = IF phase = TickGap THEN phase ELSE phase + 1
          /\ UNCHANGED now

\* One register of read_rtc_async.  There are three calls of it: the two of
\* wait_sec, and the one of timer_rtc.
read_register ==
    \E k \in 1 .. 3 :
       /\ at[2] = k
       /\ at[1] \in {"t0", "t1", "rtc"}
       /\ Access
       /\ rtc' = [rtc EXCEPT ![Fields[k]] = Seen(now, Fields[k])]
       /\ at' = <<at[1], k + 1>>
       /\ UNCHANGED <<t0, t1, begun>>

----------------------------------------------------------------------------
(* timer_init                                                              *)

\* wait_sec: the first reading, the delay, the second one.
delay == /\ at = <<"t0", 4>> /\ Access
         /\ t0' = rtc.second
         /\ at' = <<"t1", 1>>
         /\ UNCHANGED <<rtc, t1, begun>>

Changed == t0 # rtc.second

same_second == /\ at = <<"t1", 4>> /\ ~Changed
               /\ at' = <<"t0", 1>>
               /\ UNCHANGED <<now, phase, rtc, t0, t1, begun>>

Clock == rtc.minute * SECONDS + rtc.second

first_change == /\ at = <<"t1", 4>> /\ Changed /\ begun = -1
                /\ t1' = Clock /\ begun' = now
                /\ at' = <<"t0", 1>>
                /\ UNCHANGED <<now, phase, rtc, t0>>

\* The hour has passed between the two: the estimate starts again.
Useless(t2) == t1 >= t2

second_change ==
    /\ at = <<"t1", 4>> /\ Changed /\ begun # -1
    /\ at' = IF Useless(Clock) THEN <<"t0", 1>> ELSE <<"rtc", 1>>
    /\ begun' = -1 /\ t1' = 0
    /\ UNCHANGED <<now, phase, rtc, t0>>

----------------------------------------------------------------------------

again(tmp) == tmp # rtc.second

\* timer_rtc reads the second again; the date is read again when it changed.
check_second ==
    /\ at = <<"rtc", 4>> /\ Access
    /\ at' = IF again(Seen(now, "second")) THEN <<"rtc", 1>> ELSE <<"idle", 0>>
    /\ UNCHANGED <<rtc, t0, t1, begun>>

\* The program asks for the date, some time later.
timer_rtc == /\ at = <<"idle", 0>> /\ at' = <<"rtc", 1>>
             /\ UNCHANGED <<now, phase, rtc, t0, t1, begun>>

Compute == /\ at = <<"idle", 0>> /\ phase # TickGap /\ Access
           /\ UNCHANGED <<at, rtc, t0, t1, begun>>

RtcInit == /\ now \in 0 .. DAY - 1 /\ phase = 0
           /\ at = <<"t0", 1>> /\ rtc = Date(0)
           /\ t0 = 0 /\ t1 = 0 /\ begun = -1

RtcNext == \/ Tick
           \/ read_register
           \/ delay
           \/ same_second
           \/ first_change
           \/ second_change
           \/ check_second
           \/ timer_rtc
           \/ Compute

RtcSpec == RtcInit /\ [][RtcNext]_rtcVars

----------------------------------------------------------------------------
\* A date that timer_rtc returns is the time of the clock: none of its fields
\* comes from before a tick that the others were read after (ioe.c:90).
DateIsWhole == at[1] = "rtc" /\ at'[1] = "idle" => rtc = Date(now)
DatesAreWhole == [][DateIsWhole]_rtcVars

\* The frequency is the count of the processor's clock over the seconds that
\* did pass while it was counted: the hour that wraps and a minute that
\* begins in the middle do not falsify the divisor (ioe.c:71).
RateRead == at[1] = "t1" /\ at'[1] = "rtc" => Clock - t1 = Elapsed(begun)
RateIsReal == [][RateRead]_rtcVars

\* How old the date is that the program has.
Age == (now - ((rtc.hour * MINUTES + rtc.minute) * SECONDS + rtc.second)) % DAY

-----------------------------------------------------------------------------
(* The keyboard                                                            *)

CONSTANTS RELEASE,      \* 128
          PREFIX,       \* 224
          Keys,         \* scan codes of the keyboard
          Prefixed,     \* those that send PREFIX
          keylut,       \* scan codes to keys of the AM
          BufferSize    \* bytes that the controller holds

AM_KEY_NONE == 0

\* The codes are of one byte, no two keys have the same, and the code of the
\* prefix without its highest bit is no key.
KbdAssumption ==
    /\ RELEASE \in Nat \ {0}
    /\ Prefixed \subseteq Keys /\ Keys \subseteq 1 .. RELEASE - 1
    /\ PREFIX \in RELEASE + 1 .. 2 * RELEASE - 1 /\ PREFIX - RELEASE \notin Keys
    /\ DOMAIN keylut = 0 .. RELEASE - 1 /\ keylut[PREFIX - RELEASE] = AM_KEY_NONE
    /\ \A a \in Keys : /\ keylut[a] # AM_KEY_NONE
                       /\ \A b \in Keys : keylut[a] = keylut[b] => a = b

VARIABLES buffer,   \* the controller's
          down,     \* the keys that are held
          polling,  \* the program is in its loop
          held      \* what the program takes them for, by the events it got

kbdVars == <<buffer, down, polling, held>>

Sent(code, c) == IF c \in Prefixed THEN <<PREFIX, code>> ELSE <<code>>

\* A user is not faster than the program takes the keys.
Press(c) == /\ c \notin down /\ Len(buffer) + 2 <= BufferSize
            /\ down' = down \cup {c} /\ buffer' = buffer \o Sent(c, c)
            /\ UNCHANGED <<polling, held>>
Release(c) == /\ c \in down /\ Len(buffer) + 2 <= BufferSize
              /\ down' = down \ {c} /\ buffer' = buffer \o Sent(c + RELEASE, c)
              /\ UNCHANGED <<polling, held>>

keycode(code) == keylut[code % RELEASE]

keydown(code) == code < RELEASE

\* input_keybrd, called by a program that keeps the keys which are held and
\* leaves its loop when there is none.
input_keybrd ==
    /\ polling
    /\ IF buffer = <<>>
         THEN polling' = FALSE /\ UNCHANGED <<buffer, held>>
         ELSE /\ buffer' = Tail(buffer)
              /\ polling' = (keycode(buffer[1]) # AM_KEY_NONE)
              /\ held' = IF keycode(buffer[1]) = AM_KEY_NONE THEN held
                         ELSE IF keydown(buffer[1]) THEN held \cup {keycode(buffer[1])}
                                                    ELSE held \ {keycode(buffer[1])}
    /\ UNCHANGED down

Again == ~polling /\ polling' = TRUE /\ UNCHANGED <<buffer, down, held>>

KbdInit == buffer = <<>> /\ down = {} /\ polling = FALSE /\ held = {}

KbdNext == \/ \E c \in Keys : Press(c)
           \/ \E c \in Keys : Release(c)
           \/ input_keybrd
           \/ Again

\* A program comes back to its loop.
KbdSpec == /\ KbdInit /\ [][KbdNext]_kbdVars
           /\ WF_kbdVars(input_keybrd) /\ WF_kbdVars(Again)

----------------------------------------------------------------------------
\* When every byte has been read the program knows which keys are held.
HeldIsKnown == buffer = <<>> => held = {keylut[c] : c \in down}

\* No byte stays, also behind a prefix that ends a loop (ioe.c:140).
ByteRead(n) == Len(buffer) # n
BytesAreRead == \A n \in 1 .. BufferSize : []<>ByteRead(n)
=============================================================================
