----------------------------- MODULE TypingGame -----------------------------
(***************************************************************************)
(* The game of am-kernels/kernels/typing-game/game.c: letters fall, a key  *)
(* sends the lowest one of its letter back up, one that lands stays there  *)
(* for a while.  Frames are made up for when the program was late, and the *)
(* picture is drawn once after them.  Where a letter falls is left out.    *)
(***************************************************************************)
EXTENDS Integers, FiniteSets

CONSTANTS NCHAR,        \* slots
          Letters,
          FPS,          \* frames a letter stays on the ground
          Period,       \* FPS / CPS, frames from letter to letter
          Ground,       \* screen_h - CHAR_H
          Speeds,       \* of a falling letter
          HitSpeed,     \* of one that was hit
          MaxLate,      \* frames the program may be late
          COUNT         \* the counters are kept modulo this

\* A screen so low that a speed is 0 keeps its letters for ever.
TypingAssumption ==
    /\ {NCHAR, FPS, Period, Ground, HitSpeed, MaxLate} \subseteq Nat \ {0}
    /\ Speeds \subseteq Nat \ {0} /\ COUNT \in Nat /\ COUNT > NCHAR /\ "none" \notin Letters

VARIABLES chars,        \* slots of ch, y, v and t
          hit, miss,
          spawned,      \* letters that were made (history)
          frame,        \* current, modulo Period
          late,         \* frames - current
          stale,        \* current > rendered
          lastn,        \* x[], y[] and n: what render drew
          screen,       \* the letters that are seen
          at            \* "update", "keys" or "render"

gameVars == <<chars, hit, miss, spawned, frame, late, stale, lastn, screen, at>>

Free  == [ch |-> "none", y |-> 0, v |-> 0, t |-> 0]
Slots == 1 .. NCHAR
Used(c) == c.ch # "none"

Min(S) == CHOOSE x \in S : \A z \in S : x <= z

----------------------------------------------------------------------------
(* game_logic_update                                                       *)

\* The slot of a new letter; when there is none, the letter is not made.
Vacant == {s \in Slots : ~Used(chars[s])}

WithNew(letter, speed) ==
    IF Vacant = {} THEN chars
    ELSE [chars EXCEPT ![Min(Vacant)] = [ch |-> letter, y |-> 0, v |-> speed, t |-> 0]]

\* The fall of a letter; below the ground it has landed.
Landed(c) == c.y + c.v >= Ground

Moved(c) ==
    CASE ~Used(c)        -> c
      [] c.t = 1         -> Free
      [] c.t > 1         -> [c EXCEPT !.t = c.t - 1]
      [] c.t = 0 /\ c.y + c.v < 0 -> Free
      [] c.t = 0 /\ Landed(c)     -> [c EXCEPT !.v = 0, !.y = Ground, !.t = FPS]
      [] OTHER           -> [c EXCEPT !.y = c.y + c.v]

Missed(cs) == {s \in Slots : Used(cs[s]) /\ cs[s].t = 0 /\ Landed(cs[s])}

\* One frame that is due: a letter at the beginning of a period.
game_logic_update(letter, speed) ==
    /\ at = "update" /\ late > 0
    /\ \E cs \in {IF frame = 0 THEN WithNew(letter, speed) ELSE chars} :
          /\ chars' = [s \in Slots |-> Moved(cs[s])]
          /\ miss' = (miss + Cardinality(Missed(cs))) % COUNT
          /\ spawned' = (spawned + (IF cs = chars THEN 0 ELSE 1)) % COUNT
    /\ frame' = (frame + 1) % Period
    /\ late' = late - 1 /\ stale' = TRUE
    /\ UNCHANGED <<hit, lastn, screen, at>>

updated == /\ at = "update" /\ late = 0 /\ at' = "keys"
           /\ UNCHANGED <<chars, hit, miss, spawned, frame, late, stale, lastn, screen>>

----------------------------------------------------------------------------
(* Keys                                                                    *)

Targets(letter) == {s \in Slots : chars[s].ch = letter /\ chars[s].v > 0}

Lowest(T) == {s \in T : \A o \in T : chars[o].y <= chars[s].y}

\* check_hit: a wrong key changes a counter that nothing else reads.
check_hit(letter) ==
    /\ at = "keys"
    /\ IF Targets(letter) = {} THEN UNCHANGED <<chars, hit>>
       ELSE /\ hit' = (hit + 1) % COUNT
            /\ chars' = [chars EXCEPT ![Min(Lowest(Targets(letter)))].v = -HitSpeed]
    /\ UNCHANGED <<miss, spawned, frame, late, stale, lastn, screen, at>>

no_key == /\ at = "keys" /\ at' = "render"
          /\ UNCHANGED <<chars, hit, miss, spawned, frame, late, stale, lastn, screen>>

----------------------------------------------------------------------------
(* render                                                                  *)

Places == {<<chars[s].ch, chars[s].y, s>> : s \in {s \in Slots : Used(chars[s])}}

Blanked == screen \ lastn

render == /\ at = "render" /\ stale
          /\ screen' = Blanked \cup Places
          /\ lastn' = Places /\ stale' = FALSE /\ at' = "update"
          /\ UNCHANGED <<chars, hit, miss, spawned, frame, late>>

\* Nothing to draw: no frame was due.
nothing_new == /\ at = "render" /\ ~stale /\ at' = "update"
               /\ UNCHANGED <<chars, hit, miss, spawned, frame, late, stale, lastn, screen>>

\* Time goes on: a frame more is due.
frame_due == /\ late < MaxLate /\ late' = late + 1
             /\ UNCHANGED <<chars, hit, miss, spawned, frame, stale, lastn, screen, at>>

GameInit == /\ chars = [s \in Slots |-> Free]
            /\ hit = 0 /\ miss = 0 /\ spawned = 0
            /\ frame = 0 /\ late = 0 /\ stale = FALSE
            /\ lastn = {} /\ screen = {} /\ at = "update"

GameNext == \/ \E letter \in Letters, speed \in Speeds : game_logic_update(letter, speed)
            \/ updated
            \/ \E letter \in Letters : check_hit(letter)
            \/ no_key
            \/ render
            \/ nothing_new
            \/ frame_due

\* Frames fall due and the program goes round its loop; there is an end to
\* the keys of a frame.
GameSpec == /\ GameInit /\ [][GameNext]_gameVars
            /\ WF_gameVars(frame_due) /\ WF_gameVars(updated) /\ WF_gameVars(no_key)
            /\ WF_gameVars(\E letter \in Letters, speed \in Speeds : game_logic_update(letter, speed))
            /\ WF_gameVars(render) /\ WF_gameVars(nothing_new)

----------------------------------------------------------------------------
\* Every letter that was made is counted once, as hit or as missed, or still
\* falls: none is hit twice, missed after it was hit, or counted again while
\* it lies on the ground (game.c:56, 96).
Falling == {s \in Slots : Used(chars[s]) /\ chars[s].v > 0}
EachCountedOnce == (spawned - hit - miss) % COUNT = Cardinality(Falling)

\* After a picture is drawn, the letters on the screen are those there are:
\* nothing stays of letters that moved or ended in the frames between two
\* pictures (game.c:74).
NothingStale == at = "update" /\ ~stale => screen = Places

\* Again and again there is no letter in slot s: none is lost, whatever is hit.
Ended(s) == ~Used(chars[s])

----------------------------------------------------------------------------
\* What holds at every moment of the game.  A letter that lies on the ground, and
\* no other, has a time; the rest of them are above it.
LetterOK(c) == IF Used(c) THEN (c.t > 0 <=> c.v = 0) /\ (c.v # 0 => c.y < Ground) ELSE c = Free
Characters == [ch : Letters \cup {"none"}, y : 0 .. Ground, v : Int, t : 0 .. FPS]

GameTypes == /\ chars \in [Slots -> Characters] /\ \A s \in Slots : LetterOK(chars[s])
             /\ hit \in Int /\ miss \in Int /\ spawned \in Int /\ stale \in BOOLEAN
Shown == screen = lastn /\ (stale = FALSE => lastn = Places)
GameInv == GameTypes /\ Shown /\ EachCountedOnce
=============================================================================
