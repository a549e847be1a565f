------------------------------ MODULE NativeIoe ------------------------------
(***************************************************************************)
(* Keyboard and sound of the native runtime, each with its own state:      *)
(* abstract-machine/am/src/native/ioe/input.c and audio.c.                 *)
(*                                                                         *)
(* A thread of the host puts the keys in a ring and raises the interrupt;  *)
(* the machine takes them out, one at a poll.  The ring that fills up is   *)
(* taken for empty.  Keys are numbered modulo KEYS.                        *)
(*                                                                         *)
(* The program of am-tests/src/tests/audio.c puts a sound into a pipe,     *)
(* piece by piece, and then waits until none is left; a thread of SDL      *)
(* takes it out again.  Both change `count` without a lock.  The bytes of  *)
(* the sound are 1 .. SOUND; pieces are not longer than PIPE_BUF, so that  *)
(* a write puts all of a piece or nothing.                                 *)
(***************************************************************************)
EXTENDS Integers, Sequences

-----------------------------------------------------------------------------
(* The keyboard                                                            *)

CONSTANTS KEY_QUEUE_LEN, KEYS

InputAssumption == /\ KEY_QUEUE_LEN \in Nat \ {0}
                   /\ KEYS \in Nat /\ KEYS > KEY_QUEUE_LEN

VARIABLES key_queue, key_f, key_r,
          key_queue_lock,   \* "free", "event" or "poll"
          event,            \* the event thread
          poll,             \* the machine: in its handler, or not
          k,                \* the key of the poll
          pending,          \* the interrupt is raised
          pressed           \* the last key of the ring (history)

inputVars == <<key_queue, key_f, key_r, key_queue_lock, event, poll, k, pending, pressed>>

Ring == 0 .. KEY_QUEUE_LEN - 1
NONE == -1
Waiting == (key_r - key_f) % KEY_QUEUE_LEN

----------------------------------------------------------------------------
(* The event thread                                                        *)

EventOnly == UNCHANGED <<key_f, poll, k>>

\* A key is pressed or released.
key_event == /\ event = "wait" /\ event' = "lock"
             /\ EventOnly
             /\ UNCHANGED <<key_queue, key_r, key_queue_lock, pending, pressed>>

lock_queue == /\ event = "lock" /\ key_queue_lock = "free"
              /\ key_queue_lock' = "event" /\ event' = "store"
              /\ EventOnly /\ UNCHANGED <<key_queue, key_r, pending, pressed>>

store_key == /\ event = "store" /\ event' = "advance"
             /\ pressed' = (pressed + 1) % KEYS
             /\ key_queue' = [key_queue EXCEPT ![key_r] = pressed']
             /\ EventOnly /\ UNCHANGED <<key_r, key_queue_lock, pending>>

advance == /\ event = "advance" /\ event' = "raise"
           /\ key_r' = (key_r + 1) % KEY_QUEUE_LEN
           /\ key_queue_lock' = "free"
           /\ EventOnly /\ UNCHANGED <<key_queue, pending, pressed>>

\* __am_send_kbd_intr
raise == /\ event = "raise" /\ event' = "wait" /\ pending' = TRUE
         /\ EventOnly /\ UNCHANGED <<key_queue, key_r, key_queue_lock, pressed>>

----------------------------------------------------------------------------
(* The machine                                                             *)

PollOnly == UNCHANGED <<key_queue, key_r, event, pressed>>

\* The interrupt; its handler polls until there is no key.
interrupt == /\ poll = "idle" /\ pending
             /\ pending' = FALSE /\ poll' = "lock"
             /\ PollOnly /\ UNCHANGED <<key_f, key_queue_lock, k>>

lock_poll == /\ poll = "lock" /\ key_queue_lock = "free"
             /\ key_queue_lock' = "poll" /\ poll' = "take"
             /\ PollOnly /\ UNCHANGED <<key_f, k, pending>>

\* A variant: the ring is empty when its last key is left.
Empty_at_one == Waiting \in {0, 1}

Empty == key_f = key_r

Front == key_f

take == /\ poll = "take"
        /\ IF Empty
             THEN k' = NONE /\ poll' = "idle" /\ UNCHANGED key_f
             ELSE /\ k' = key_queue[Front] /\ poll' = "lock"
                  /\ key_f' = (key_f + 1) % KEY_QUEUE_LEN
        /\ key_queue_lock' = "free"
        /\ PollOnly /\ UNCHANGED pending

InputInit == /\ key_queue = [s \in Ring |-> NONE]
             /\ key_f = 0 /\ key_r = 0 /\ key_queue_lock = "free"
             /\ event = "wait" /\ poll = "idle" /\ k = NONE
             /\ pending = FALSE /\ pressed = 0

InputNext == \/ key_event
             \/ lock_queue
             \/ store_key
             \/ advance
             \/ raise
             \/ interrupt
             \/ lock_poll
             \/ take

\* A mutex lets a thread through that asks for it again and again.
InputSpec == /\ InputInit /\ [][InputNext]_inputVars
             /\ SF_inputVars(lock_queue) /\ WF_inputVars(store_key)
             /\ WF_inputVars(advance) /\ WF_inputVars(raise)
             /\ WF_inputVars(interrupt) /\ SF_inputVars(lock_poll) /\ WF_inputVars(take)

----------------------------------------------------------------------------
\* A poll gives the oldest of the keys that the ring counts, also after the
\* ring was full and all its keys were lost with it: keys come in the order
\* they were pressed, and never twice.
OldestTaken == k' # NONE /\ key_f' # key_f => k' = (pressed - Waiting + 1) % KEYS
OldestFirst == [][OldestTaken]_inputVars

\* No key is left in the ring without an interrupt to come for it.
KeyTaken(s) == Waiting = 0 \/ key_f # s
KeysTaken == \A s \in Ring : []<>KeyTaken(s)

-----------------------------------------------------------------------------
(* The sound                                                               *)

CONSTANTS PIPE,     \* bytes the pipe holds
          SOUND,    \* bytes of the sound
          Pieces,   \* lengths of the pieces
          LEN       \* bytes SDL asks for

AudioAssumption == /\ {SOUND, LEN} \subseteq Nat \ {0} /\ 1 \in Pieces
                   /\ PIPE \in Nat /\ Pieces \subseteq 1 .. PIPE

VARIABLES pipe, count, opened,
          play, written, len, n, old,  \* the program: where it is, its locals
          back, nread, rest,           \* SDL's thread: the same
          stream, heard,               \* what SDL gets, and has got (history)
          raced                        \* an access met another's update (history)

programVars  == <<play, written, len, n, old>>
callbackVars == <<back, nread, rest, stream, heard>>
audioVars == <<pipe, count, opened, programVars, callbackVars, raced>>

Bytes(a, b) == [i \in 1 .. b - a |-> a + i]
NoSound == [i \in 1 .. LEN |-> 0]

----------------------------------------------------------------------------
(* The program                                                             *)

audio_ctrl == /\ play = "ctrl" /\ play' = "play"
              /\ count' = 0 /\ opened' = TRUE
              /\ UNCHANGED <<pipe, written, len, n, old, callbackVars, raced>>

audio_play == /\ play = "play"
              /\ \/ \E l \in Pieces : /\ written + l <= SOUND /\ len' = l
                                      /\ play' = "write"
                 \/ written = SOUND /\ play' = "wait" /\ UNCHANGED len
              /\ UNCHANGED <<pipe, count, opened, written, n, old, callbackVars, raced>>

\* A full pipe takes nothing, and the loop of audio_write tries again.
write == /\ play = "write" /\ play' = "load"
         /\ n' = IF Len(pipe) + len <= PIPE THEN len ELSE 0
         /\ pipe' = pipe \o Bytes(written, written + n')
         /\ written' = written + n'
         /\ UNCHANGED <<count, opened, len, old, callbackVars, raced>>

\* count += n, also when n is 0.
Sum == old + n

load_count == /\ play = "load" /\ play' = "add" /\ old' = count
              /\ UNCHANGED <<pipe, count, opened, written, len, n, callbackVars, raced>>

add_count == /\ play = "add"
             /\ play' = IF n = 0 THEN "write" ELSE "play"
             /\ count' = Sum
             /\ raced' = (raced \/ (back \in {"clip", "store"} /\ count' # count))
             /\ UNCHANGED <<pipe, opened, written, len, n, old, callbackVars>>

\* while (io_read(AM_AUDIO_STATUS).count > 0);
audio_status == /\ play = "wait" /\ count <= 0 /\ play' = "done"
                /\ UNCHANGED <<pipe, count, opened, written, len, n, old, callbackVars, raced>>

----------------------------------------------------------------------------
(* audio_play, called by SDL                                               *)

Clips == count < LEN

callback == /\ back = "idle" /\ opened /\ play # "done"
            /\ nread' = LEN /\ back' = IF Clips THEN "clip" ELSE "read"
            /\ rest' = 0 /\ stream' = NoSound
            /\ UNCHANGED <<pipe, count, opened, programVars, heard, raced>>

\* nread = count reads it for the second time.
clip == /\ back = "clip" /\ back' = "read" /\ nread' = count
        /\ UNCHANGED <<pipe, count, opened, programVars, rest, stream, heard, raced>>

Least(a, b) == IF a < b THEN a ELSE b

\* Every read goes to the beginning of the stream, and rest is the loop's b.
read == /\ back = "read"
        /\ IF rest >= nread THEN back' = "load" /\ UNCHANGED <<pipe, rest, stream>>
           ELSE /\ pipe # <<>> /\ back' = back
                /\ \E m \in {Least(nread, Len(pipe))} :
                      /\ stream' = SubSeq(pipe, 1, m) \o SubSeq(stream, m + 1, Len(stream))
                      /\ pipe' = SubSeq(pipe, m + 1, Len(pipe))
                      /\ rest' = rest + m
        /\ UNCHANGED <<count, opened, programVars, nread, heard, raced>>

\* count -= nread; rest keeps the count it began with.
load_nread == /\ back = "load" /\ back' = "store" /\ rest' = count
              /\ UNCHANGED <<pipe, count, opened, programVars, nread, stream, heard, raced>>

Difference == rest - nread

subtract == /\ back = "store" /\ back' = "idle"
            /\ count' = Difference
            /\ raced' = (raced \/ (play = "add" /\ count' # count))
            /\ heard' = heard \o SubSeq(stream, 1, nread)
            /\ UNCHANGED <<pipe, opened, programVars, nread, rest, stream>>

AudioInit == /\ pipe = <<>> /\ count = 0 /\ opened = FALSE
             /\ play = "ctrl" /\ written = 0 /\ len = 0 /\ n = 0 /\ old = 0
             /\ back = "idle" /\ nread = 0 /\ rest = 0
             /\ stream = NoSound /\ heard = <<>> /\ raced = FALSE

\* The program is followed up to the first race.
AudioNext == /\ ~raced
             /\ \/ audio_ctrl
                \/ audio_play
                \/ write
                \/ load_count
                \/ add_count
                \/ audio_status
                \/ callback
                \/ clip
                \/ read
                \/ load_nread
                \/ subtract

ProgramGoesOn == audio_ctrl \/ audio_play \/ write \/ load_count \/ add_count \/ audio_status
SdlGoesOn == callback \/ clip \/ read \/ load_nread \/ subtract

AudioSpec == /\ AudioInit /\ [][AudioNext]_audioVars
             /\ WF_audioVars(~raced /\ ProgramGoesOn) /\ WF_audioVars(~raced /\ SdlGoesOn)

----------------------------------------------------------------------------
\* Unless an access to count meets the other thread's update of it, the sound
\* is heard byte by byte, and all of it when the program has seen count at 0;
\* and SDL never gets more than it asked for (audio.c:20, 28, 42).
HeardInOrder ==
    ~raced => /\ nread <= LEN
              /\ heard = Bytes(0, Len(heard))
              /\ play = "done" => Len(heard) = SOUND

\* Then the wait for the end of the sound ends, too, and no read waits for
\* bytes that nobody will write (audio.c:23, am-tests audio.c:26).
Ended == raced \/ play = "done"
SoundEnds == <>Ended
=============================================================================
