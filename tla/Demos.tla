-------------------------------- MODULE Demos --------------------------------
(***************************************************************************)
(* Three demonstrations of am-kernels/kernels/demo and the game of         *)
(* kernels/snake, each with its own state.                                 *)
(*                                                                         *)
(* The Galton box, galton/galton.c.  The places of the balls and the       *)
(* characters of the board are two accounts of the same box: move takes a  *)
(* character from its place before it puts it into another, and a ball at  *)
(* rest is forgotten, its character stays.  Balls are drawn with different *)
(* characters; here they have one.                                         *)
(*                                                                         *)
(* The towers, hanoi/hanoi.c: the recursion of move as a stack of calls,   *)
(* the towers as arrays with a height, and the screen, which is changed    *)
(* where a disk is taken and where it is put.                              *)
(*                                                                         *)
(* Langton's ant, ant/ant.c.  The ant walks on a plane without bounds; pix *)
(* is a window of it in one array, row after row, which is moved by one    *)
(* place or by one row when the ant leaves it.                             *)
(*                                                                         *)
(* The snake, snake/snake.c: the body is a ring of MAX_LENGTH points that  *)
(* the head goes round, and the screen is changed by two tiles a turn, the *)
(* head's and the one the tail has left.                                   *)
(***************************************************************************)
EXTENDS Integers, Sequences, FiniteSets

-----------------------------------------------------------------------------
(* The Galton box                                                          *)

CONSTANTS N,       \* rows of pegs
          H,       \* rows of the board
          BALLS

GaltonAssumption == N \in Nat \ {0} /\ BALLS \in Nat /\ H \in Nat /\ H > 2 * N

VARIABLES board,   \* the character at each place
          ball,    \* y and x of each ball that has come, NoBall at rest
          next,    \* the ball that moves next
          step,
          over

galtonVars == <<board, ball, next, step, over>>

W      == 2 * N + 1
Places == (0 .. H - 1) \X (0 .. W - 1)
Top    == <<0, W \div 2>>
NoBall == <<-1, -1>>
Blank  == "blank"
Peg    == "peg"
Ball   == "ball"

Pegs   == UNION {{<<2 * i + 2, W \div 2 - i + 2 * k>> : k \in 0 .. i} : i \in 0 .. N - 1}

IsFree(y, x) == board[<<y, x>>] = Blank

----------------------------------------------------------------------------
\* Where a ball that is stopped may go: to a side that is free, with nothing
\* below it.
Sides(y, x) == {o \in {-1, 1} : /\ x + o \in 0 .. W - 1
                                /\ IsFree(y, x + o) /\ IsFree(y + 1, x + o)}

\* rnd(1) is 0: on a peg the first side there is is taken unless the other one
\* is taken after it; on a ball neither has to be.
Bounces(y, x) ==
    Sides(y, x) \cup (IF board[<<y + 1, x>>] = Peg /\ Sides(y, x) # {} THEN {} ELSE {0})

\* The ball from p is put at q, and it rests there or goes on.
Lands(p, q, rests) ==
    /\ board' = [board EXCEPT ![p] = Blank, ![q] = board[p]]
    /\ ball' = [ball EXCEPT ![next] = IF rests THEN NoBall ELSE q]

Moves == ~over /\ next <= Len(ball) /\ next' = next + 1 /\ UNCHANGED <<step, over>>

Forgotten == Moves /\ ball[next] = NoBall /\ UNCHANGED <<board, ball>>

AtBottom == /\ Moves /\ ball[next][1] = H - 1
            /\ ball' = [ball EXCEPT ![next] = NoBall] /\ UNCHANGED board

Falls == /\ Moves /\ ball[next] # NoBall /\ ball[next][1] < H - 1
         /\ LET p == ball[next]
            IN  IsFree(p[1] + 1, p[2]) /\ Lands(p, <<p[1] + 1, p[2]>>, FALSE)

Bumps == /\ Moves /\ ball[next] # NoBall /\ ball[next][1] < H - 1
         /\ LET p == ball[next]
            IN /\ ~IsFree(p[1] + 1, p[2])
               /\ \E o \in Bounces(p[1], p[2]) : Lands(p, <<p[1], p[2] + o>>, o = 0)

\* A variant: the ball that finds its place taken is dropped, and the game goes on.
Enter_dropped == IF board[Top] # Blank
                   THEN UNCHANGED <<board, ball, over>>
                   ELSE /\ board' = [board EXCEPT ![Top] = Ball]
                        /\ ball' = Append(ball, Top) /\ UNCHANGED over

\* The end of run: at every second call a ball comes, unless the place at the
\* top is taken, which ends the game.  A step beyond 2 never is 2 again.
Enter == IF board[Top] # Blank
           THEN over' = TRUE /\ UNCHANGED <<board, ball>>
           ELSE /\ board' = [board EXCEPT ![Top] = Ball]
                /\ ball' = Append(ball, Top) /\ UNCHANGED over

run == /\ ~over /\ next = Len(ball) + 1 /\ next' = 1
       /\ IF step = 1 /\ Len(ball) < BALLS
            THEN step' = 0 /\ Enter
            ELSE step' = (IF step = 3 THEN 3 ELSE step + 1) /\ UNCHANGED <<board, ball, over>>

GaltonInit == /\ board = [p \in Places |-> IF p \in Pegs THEN Peg ELSE Blank]
              /\ ball = <<>> /\ next = 1 /\ step = 0 /\ over = FALSE

GaltonNext == \/ Forgotten
              \/ AtBottom
              \/ Falls
              \/ Bumps
              \/ run

GaltonSpec == GaltonInit /\ [][GaltonNext]_galtonVars /\ WF_galtonVars(GaltonNext)

----------------------------------------------------------------------------
Live == {k \in DOMAIN ball : ball[k] # NoBall}

\* Board and places agree, however the balls bounce on each other: every ball
\* that has come is a character of the board, no two are at one place, and the
\* pegs stay (galton.c:69).
BallsConserved ==
    /\ Cardinality({p \in Places : board[p] = Ball}) = Len(ball)
    /\ \A k \in Live : board[ball[k]] = Ball
    /\ \A k, l \in Live : ball[k] = ball[l] => k = l
    /\ \A p \in Places : board[p] = Peg <=> p \in Pegs

\* What holds at every moment of the box.
BoxTypes == /\ board \in [Places -> {Blank, Peg, Ball}]
            /\ ball \in Seq(Places \cup {NoBall}) /\ next \in Nat \ {0}
BoxInv == BoxTypes /\ BallsConserved

\* When there are more balls than places, the box fills up to the top and the
\* game ends: no ball bounces for ever (galton.c:84).
IsFull == over

-----------------------------------------------------------------------------
(* The towers                                                              *)

CONSTANT DISKS

HanoiAssumption == DISKS \in Nat \ {0}

VARIABLES t,        \* x[] and n of each tower
          screen,   \* the characters: "disk" or "blank"
          stack,    \* the calls of move, and the disks that are set up first
          hand      \* the disk between remove_disk and add_disk, or None

hanoiVars == <<t, screen, stack, hand>>

Towers  == 0 .. 2
Rows    == 1 .. DISKS
Columns == 0 .. 6 * (DISKS + 1) - 1
None    == 0

Call(n, from, to, via) == [n |-> n, from |-> from, to |-> to, via |-> via]

\* text: the disk of size d at height y of tower i, two characters per unit.
Under(y, i, d) == {<<DISKS - y + 1, (DISKS + 1) * (2 * i + 1) - d + k>> : k \in 0 .. 2 * d - 1}

text(y, i, d, ch) ==
    screen' = [p \in Rows \X Columns |-> IF p \in Under(y, i, d) THEN ch ELSE screen[p]]

add_disk(i, d) == /\ t' = [t EXCEPT ![i].x[t[i].n + 1] = d, ![i].n = t[i].n + 1]
                  /\ text(t[i].n + 1, i, d, "disk")

\* The array keeps what is above its height.
remove_disk(i) == /\ t' = [t EXCEPT ![i].n = t[i].n - 1]
                  /\ text(t[i].n, i, t[i].x[t[i].n], "blank")

----------------------------------------------------------------------------
\* hanoi: the disks, the largest first.
SetUp == /\ stack = <<>> /\ t[0].n < DISKS /\ t[1].n = 0 /\ t[2].n = 0
         /\ add_disk(0, DISKS - t[0].n)
         /\ stack' = IF t[0].n + 1 = DISKS THEN <<Call(DISKS, 0, 2, 1)>> ELSE <<>>
         /\ UNCHANGED hand

\* A call of move does the two calls and, between them, the move of a disk.
Expanded(c) == <<Call(c.n - 1, c.from, c.via, c.to), Call(-1, c.from, c.to, c.via),
                 Call(c.n - 1, c.via, c.to, c.from)>>

move == /\ stack # <<>> /\ stack[1].n >= 0
        /\ stack' = (IF stack[1].n = 0 THEN <<>> ELSE Expanded(stack[1])) \o Tail(stack)
        /\ UNCHANGED <<t, screen, hand>>

Take == /\ stack # <<>> /\ stack[1].n = -1 /\ hand = None
        /\ hand' = t[stack[1].from].x[t[stack[1].from].n]
        /\ remove_disk(stack[1].from)
        /\ UNCHANGED stack

Put == /\ stack # <<>> /\ stack[1].n = -1 /\ hand # None
       /\ add_disk(stack[1].to, hand)
       /\ hand' = None /\ stack' = Tail(stack)

HanoiInit == /\ t = [i \in Towers |-> [x |-> [k \in 1 .. DISKS |-> 0], n |-> 0]]
             /\ screen = [p \in Rows \X Columns |-> "blank"]
             /\ stack = <<>> /\ hand = None

HanoiNext == \/ SetUp
             \/ move
             \/ Take
             \/ Put

HanoiSpec == HanoiInit /\ [][HanoiNext]_hanoiVars /\ WF_hanoiVars(HanoiNext)

----------------------------------------------------------------------------
\* No disk is ever above a smaller one, and none is taken from an empty tower
\* or put beyond the top of one.
DisksInOrder ==
    /\ \A i \in Towers : /\ t[i].n \in 0 .. DISKS
                         /\ \A k \in 1 .. t[i].n - 1 : t[i].x[k] > t[i].x[k + 1]
    /\ hand # None => \A i \in {stack[1].to} : t[i].n = 0 \/ t[i].x[t[i].n] > hand

\* The screen shows the disks that are on the towers and no others, although
\* only two places of it are changed by a move (hanoi.c:34).
ScreenShowsTowers ==
    \A p \in Rows \X Columns :
       screen[p] = "disk" <=> \E i \in Towers : \E k \in 1 .. t[i].n : p \in Under(k, i, t[i].x[k])

\* The disks arrive.
AllArrived == t[2].n = DISKS

-----------------------------------------------------------------------------
(* Langton's ant                                                           *)

CONSTANTS Windows,   \* widths and heights of a screen
          AntSteps      \* steps that a walk is followed

AntAssumption == AntSteps \in Nat /\ \A s \in Windows : {s.w, s.h} \subseteq Nat \ {0}

VARIABLES w, h, pix, x, y, dx, dy,
          left,          \* steps still to go
          plane,         \* the black places of the plane (history)
          ox, oy         \* the place of the plane that the window begins at

antVars == <<w, h, pix, x, y, dx, dy, left, plane, ox, oy>>

All == 0 .. w * h - 1

\* The window moved by a column or by a row.  The array moves as one: what
\* leaves a row at its end comes into the next one, and that column is cleared.
ColumnBefore(p) == [i \in All |-> IF i % w = 0 THEN 0 ELSE p[i - 1]]
ColumnAfter(p)  == [i \in All |-> IF i % w = w - 1 THEN 0 ELSE p[i + 1]]
RowBefore(p)    == [i \in All |-> IF i < w THEN 0 ELSE p[i - w]]

RowAfter(p) == [i \in All |-> IF i >= w * (h - 1) THEN 0 ELSE p[i + w]]

\* Black to the left, white to the right.
Turned == IF pix[y * w + x] = 1 THEN <<-dy, dx>> ELSE <<dy, -dx>>

\* What the ant leaves behind, and the window it goes on in.
Scrolled(p, nx, ny) == CASE nx < 0  -> ColumnBefore(p)
                         [] nx >= w -> ColumnAfter(p)
                         [] ny >= h -> RowAfter(p)
                         [] ny < 0  -> RowBefore(p)
                         [] OTHER   -> p

Clamped(v, size) == IF v < 0 THEN 0 ELSE IF v >= size THEN size - 1 ELSE v
Moved(v, size)   == IF v < 0 THEN -1 ELSE IF v >= size THEN 1 ELSE 0

\* The plane forgets what the window has left.
InWindow(q, px, py) == q[1] \in px .. px + w - 1 /\ q[2] \in py .. py + h - 1
Flipped(q) == IF q \in plane THEN plane \ {q} ELSE plane \cup {q}

walk == /\ left > 0 /\ left' = left - 1
        /\ dx' = Turned[1] /\ dy' = Turned[2]
        /\ LET nx == x + Turned[1]
               ny == y + Turned[2]
           IN /\ pix' = Scrolled([pix EXCEPT ![y * w + x] = 1 - @], nx, ny)
              /\ x' = Clamped(nx, w) /\ y' = Clamped(ny, h)
              /\ ox' = ox + Moved(nx, w) /\ oy' = oy + Moved(ny, h)
        /\ plane' = {q \in Flipped(<<ox + x, oy + y>>) : InWindow(q, ox', oy')}
        /\ UNCHANGED <<w, h>>

AntInit == \E s \in Windows :
              /\ w = s.w /\ h = s.h /\ x = s.w \div 2 /\ y = s.h \div 2
              /\ pix = [i \in 0 .. s.w * s.h - 1 |-> 0]
              /\ dx = 0 /\ dy = 1 /\ left = AntSteps
              /\ plane = {} /\ ox = 0 /\ oy = 0

AntNext == walk

AntSpec == AntInit /\ [][AntNext]_antVars

----------------------------------------------------------------------------
\* The array is the part of the plane that the ant's walk has made and that
\* has never left the window, wherever the window has gone: no row gets what
\* belongs to another one, and nothing comes back (ant.c:49).
WindowIsPlane == \A i \in All : pix[i] = 1 <=> <<ox + (i % w), oy + (i \div w)>> \in plane

\* What holds at every moment of a walk.
AntTypes == /\ w \in Nat \ {0} /\ h \in Nat \ {0} /\ pix \in [All -> {0, 1}]
            /\ x \in 0 .. w - 1 /\ y \in 0 .. h - 1
            /\ <<dx, dy>> \in {<<0, 1>>, <<0, -1>>, <<1, 0>>, <<-1, 0>>}
            /\ ox \in Int /\ oy \in Int
AntInv == AntTypes /\ WindowIsPlane /\ \A q \in plane : InWindow(q, ox, oy)

-----------------------------------------------------------------------------
(* The snake                                                               *)

CONSTANTS Width, Height,    \* the field, inside the board
          MAX_LENGTH,       \* points of the ring
          Longest           \* the length that a game is played to

\* The ring has a place for the tile the tail has left.
SnakeAssumption == /\ Width \in Nat \ {0} /\ Height \in Nat \ {0, 1, 2}
                   /\ MAX_LENGTH \in Nat /\ Longest \in 2 .. MAX_LENGTH - 1

VARIABLES body, length, index, dead,
          dir, food,
          tile,     \* the colour of each tile of the screen
          turn      \* "draw", "move" or "over"

snakeVars == <<body, length, index, dead, dir, food, tile, turn>>

Dirs  == {"UP", "DOWN", "LEFT", "RIGHT"}
Ring  == 0 .. MAX_LENGTH - 1
Field == (0 .. Width - 1) \X (0 .. Height - 1)
Board == (-1 .. Width) \X (-1 .. Height)

\* A point of the body, as many moves ago.
Ago(n) == body[(index - n) % MAX_LENGTH]

\* print_board, print_food, print_head and clear_tail colour one tile each.
Wall == "green"
Food == "blue"
Red  == "red"
Bare == "black"

Opposite(d) == CASE d = "UP" -> "DOWN" [] d = "DOWN" -> "UP"
                 [] d = "LEFT" -> "RIGHT" [] d = "RIGHT" -> "LEFT"

\* get_dir and the switch in main: any other key, or none, leaves it.
steered(key) == IF key \in Dirs /\ dir # Opposite(key) THEN key ELSE dir

Ahead(p, d) == CASE d = "LEFT"  -> <<p[1] - 1, p[2]>>
                 [] d = "RIGHT" -> <<p[1] + 1, p[2]>>
                 [] d = "UP"    -> <<p[1], p[2] - 1>>
                 [] d = "DOWN"  -> <<p[1], p[2] + 1>>

----------------------------------------------------------------------------
\* print_head, then clear_tail: the place the tail was at a turn ago.
Left == Ago(length)

draw == /\ turn = "draw"
        /\ tile' = [tile EXCEPT ![Ago(0)] = Red, ![Left] = Bare]
        /\ turn' = "move"
        /\ UNCHANGED <<body, length, index, dead, dir, food>>

\* is_dead: out of the field, or onto itself.
Bites(p, at) == \E n \in 1 .. length - 1 : body[(at - n) % MAX_LENGTH] = p

is_dead(p, at) == p \notin Field \/ Bites(p, at)

Grown(p) == IF p = food THEN length + 1 ELSE length

\* A key, the move, and a meal: the new food may be anywhere, on the body too.
move_snake(key, next_food) ==
    /\ turn = "move"
    /\ dir' = steered(key)
    /\ index' = (index + 1) % MAX_LENGTH
    /\ LET p == Ahead(Ago(0), dir')
       IN /\ body' = [body EXCEPT ![index'] = p]
          /\ dead' = is_dead(p, index')
          /\ length' = Grown(p) /\ length' =< Longest
          /\ IF p = food
               THEN food' = next_food /\ tile' = [tile EXCEPT ![next_food] = Food]
               ELSE next_food = food /\ UNCHANGED <<food, tile>>
    /\ turn' = IF dead' THEN "over" ELSE "draw"

SnakeInit ==
    /\ body = [n \in Ring |-> CASE n = 0 -> <<Width \div 2, Height \div 2>>
                                [] n = 1 -> <<Width \div 2, Height \div 2 + 1>>
                                [] OTHER -> <<0, 0>>]
    /\ length = 2 /\ index = 1 /\ dead = FALSE /\ dir = "RIGHT"
    /\ food \in Field
    /\ tile = [p \in Board |-> IF p = food THEN Food
                               ELSE IF p \in Field THEN Bare ELSE Wall]
    /\ turn = "draw"

SnakeNext == \/ draw
             \/ \E key \in Dirs \cup {"NONE"}, f \in Field : move_snake(key, f)

SnakeSpec == SnakeInit /\ [][SnakeNext]_snakeVars /\ WF_snakeVars(SnakeNext)

----------------------------------------------------------------------------
Body == {Ago(n) : n \in 0 .. length - 1}
Near(p, q) == \E d \in Dirs : q = Ahead(p, d)

Chain == /\ Body \subseteq Field
         /\ \A n \in 1 .. length - 1 : Near(Ago(n - 1), Ago(n))

\* While it lives the snake is a chain of points of the field, all different;
\* but the place that the tail leaves may be entered, and when there is food
\* on it the tail stays under the head.  It dies at the edge or on a part of
\* itself that it came back to, never by a turn on the spot (snake.c:109, 161).
IsAChain ==
    turn = "move" =>
         /\ ~dead' => /\ Chain'
                      /\ length' = length => Cardinality(Body)' = length'
                      /\ Cardinality({Ago(n) : n \in 0 .. length - 2})' = length' - 1
         /\ dead' => \/ Ago(0)' \notin Field
                     \/ (\E n \in 4 .. length : Ago(0) = Ago(n))'

\* The board is never drawn over, and every red tile of it is the snake's:
\* nothing that the tail has left stays (snake.c:79).
DrawnWhereItIs ==
    /\ \A p \in Board \ Field : tile[p] = Wall
    /\ turn = "move" => \A p \in Field : tile[p] = Red => p \in Body

\* What holds at every moment of a game: a turn that is not drawn yet has left no
\* red tile but on the points of the turn before.
SnakeTypes ==
    /\ body \in [Ring -> Int \X Int] /\ index \in Ring /\ length \in 2 .. Longest
    /\ tile \in [Board -> {Wall, Food, Red, Bare}] /\ food \in Field
    /\ dir \in Dirs /\ dead \in BOOLEAN /\ turn \in {"draw", "move", "over"}
    /\ turn # "over" => \A n \in Ring : body[n] \in Field
SnakeInv ==
    /\ SnakeTypes /\ DrawnWhereItIs
    /\ turn = "draw" => \A p \in Field : tile[p] = Red => \E n \in 1 .. length : p = Ago(n)
=============================================================================
