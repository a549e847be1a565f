---------------------------- MODULE Framebuffer ----------------------------
(***************************************************************************)
(* Drawing of the x86 runtime, abstract-machine/am/src/x86/qemu/ioe.c      *)
(* (AM_GPU_FBDRAW, AM_GPU_MEMCPY, AM_GPU_RENDER), and of the logisim       *)
(* board, am/src/platform/logisim/ioe.c.  Pixels lie in memory row after   *)
(* row: a wrong length or a wrong step spoils another row.                 *)
(***************************************************************************)
EXTENDS Integers, Sequences, SequencesExt

CONSTANTS W, H,       \* the display
          Draws,      \* AM_GPU_FBDRAW: x, y, w, h and the pixels
          Trees,      \* AM_GPU_RENDER: the canvas at the root
          MaxDraws    \* how many are drawn one over the other

FbAssumption == {W, H} \subseteq Nat \ {0} /\ MaxDraws \in Nat

VARIABLES fb,         \* the frame buffer, a pixel per place
          drawn,      \* the last command
          left        \* commands that may still come

fbVars == <<fb, drawn, left>>

\* R, G and B of a word: the byte above them is dropped.
Pixel(p) == p % 16777216

Black == 0
Idle  == [op |-> "none"]

----------------------------------------------------------------------------
(* gpu_fbdraw                                                              *)

\* A variant: what is beyond the right edge goes to the next row.
Visible_whole(d) == d.w

\* The pixels of a row that are on the screen.
Visible(d) == IF d.x + d.w >= W THEN W - d.x ELSE d.w

\* pixels += w
Row(d, j) == j * d.w

\* The places that the two loops write, and the source of each.
Writes(d) == {<<d.x + (j + d.y) * W + i, Row(d, j) + i>> :
                 <<i, j>> \in {c \in (0 .. Visible(d) - 1) \X (0 .. d.h - 1) : d.y + c[2] < H}}

\* Later writes win: no two of them are at the same place.
Put(m, writes, pixels) ==
    [a \in DOMAIN m |-> IF \E t \in writes : t[1] = a
                          THEN Pixel(pixels[(CHOOSE t \in writes : t[1] = a)[2] + 1])
                          ELSE m[a]]

\* logisim: a whole screen at once; a part of it must be on the screen.
Whole(d) == d.x = 0 /\ d.y = 0 /\ d.w = W /\ d.h = H
Bad(d)   == d.x + d.w > W \/ d.y + d.h > H

FirstPlace(d) == d.y * W + d.x

LogisimWrites(d) ==
    IF Whole(d) THEN {<<a, a>> : a \in 0 .. W * H - 1}
    ELSE {<<FirstPlace(d) + j * W + i, j * d.w + i>> : i \in 0 .. d.w - 1, j \in 0 .. d.h - 1}

----------------------------------------------------------------------------
(* render: a tree of canvases, each drawn at (x1, y1), w1 by h1 pixels, in *)
(* the canvas above it.                                                    *)

\* The pixel of the source that pixel i of size1 shows.
Scaled(i, size, size1) == (i * size) \div size1

\* The pixels of a canvas drawn at its place over those of its parent.
Placed(px, parentw, cv, local) ==
    [a \in DOMAIN px |->
        IF \E i \in 0 .. cv.w1 - 1, j \in 0 .. cv.h1 - 1 :
              parentw * (cv.y1 + j) + cv.x1 + i = a
          THEN \* i and j of that place, which is inside the parent
               local[cv.w * Scaled((a \div parentw) - cv.y1, cv.h, cv.h1)
                       + Scaled((a % parentw) - cv.x1, cv.w, cv.w1)]
          ELSE px[a]]

\* A texture's pixels are in the memory of the device.
Texture(cv) == [a \in 0 .. cv.w * cv.h - 1 |-> Pixel(cv.pixels[a + 1])]

\* vbuf_alloc clears what it gives.
Cleared(cv) == [a \in 0 .. cv.w * cv.h - 1 |-> Black]

\* The children of a subtree, the first one first.
RECURSIVE Local(_)
Local(cv) == IF cv.type = "texture" THEN Texture(cv)
             ELSE FoldLeft(LAMBDA px, ch : Placed(px, cv.w, ch, Local(ch)),
                           Cleared(cv), cv.children)

----------------------------------------------------------------------------
Draw(op, d) == left > 0 /\ left' = left - 1 /\ drawn' = [op |-> op, arg |-> d]

gpu_fbdraw(d) == Draw("qemu", d) /\ fb' = Put(fb, Writes(d), d.pixels)

logisim_fbdraw(d) == Draw("logisim", d) /\ ~Bad(d) /\ fb' = Put(fb, LogisimWrites(d), d.pixels)

gpu_render(cv) == Draw("render", cv) /\ fb' = Placed(fb, W, cv, Local(cv))

FbInit == /\ fb = [a \in 0 .. W * H - 1 |-> Black]
          /\ drawn = Idle /\ left = MaxDraws

FbNext == \/ \E d \in Draws : gpu_fbdraw(d)
          \/ \E d \in Draws : logisim_fbdraw(d)
          \/ \E cv \in Trees : gpu_render(cv)

FbSpec == FbInit /\ [][FbNext]_fbVars

----------------------------------------------------------------------------
At(m, x, y) == m[y * W + x]
Within(v, first, n) == first <= v /\ v < first + n

\* The pixel of a tree that is seen at a point of a canvas: the last child
\* that covers the point shows its own.
Covers(ch, x, y) == Within(x, ch.x1, ch.w1) /\ Within(y, ch.y1, ch.h1)

RECURSIVE SeenAt(_, _, _)
SeenAt(cv, x, y) ==
    IF cv.type = "texture" THEN Pixel(cv.pixels[y * cv.w + x + 1])
    ELSE LET cover == SelectSeq(cv.children, LAMBDA ch : Covers(ch, x, y))
             top   == cover[Len(cover)]
         IN IF cover = <<>> THEN Black
            ELSE SeenAt(top, ((x - top.x1) * top.w) \div top.w1,
                             ((y - top.y1) * top.h) \div top.h1)

Points == (0 .. W - 1) \X (0 .. H - 1)

InRect(d, x, y) == Within(x, d.x, d.w) /\ Within(y, d.y, d.h)

\* A rectangle that was drawn shows its own pixels at every point of it that
\* is on the screen, and nothing else changed; a tree shows at every point of
\* its root the child on top, scaled, and nothing else changed.  The two
\* loops of a clipped rectangle, the one copy of a whole screen and the
\* buffers of a tree's canvases agree on where a row begins (ioe.c:190, 230;
\* logisim ioe.c:78).
Shown ==
    \A p \in Points : \E c \in {drawn'.arg} :
          At(fb', p[1], p[2]) =
             IF drawn'.op = "render"
               THEN IF Covers(c, p[1], p[2])
                      THEN SeenAt(c, ((p[1] - c.x1) * c.w) \div c.w1, ((p[2] - c.y1) * c.h) \div c.h1)
                      ELSE At(fb, p[1], p[2])
               ELSE IF InRect(c, p[1], p[2])
                      THEN Pixel(c.pixels[(p[2] - c.y) * c.w + p[1] - c.x + 1])
                      ELSE At(fb, p[1], p[2])
ShowsWhatIsDrawn == [][Shown]_fbVars
=============================================================================
