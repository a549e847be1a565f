----------------------------- MODULE MCPrograms -----------------------------
(***************************************************************************)
(* An evaluation of a unit (MCUnits), LiteNES with a cartridge (part nes), *)
(* or drawing in a frame buffer (part screen), one of them per behaviour.  *)
(* The parts share the variables s1 .. s13; one that needs fewer leaves    *)
(* the others at 0.                                                        *)
(***************************************************************************)
EXTENDS MCUnits, TLC

VARIABLES s1, s2, s3, s4, s5, s6, s7, s8, s9, s10, s11, s12, s13

pool == <<s1, s2, s3, s4, s5, s6, s7, s8, s9, s10, s11, s12, s13>>
mcVars == <<unitVars, pool>>

-----------------------------------------------------------------------------
(* Programs for LiteNES, in the machine code of the 6502.  Each waits until *)
(* the picture unit takes its registers, then repeats a body; the interrupt *)
(* of the vertical blank meets the body at every instruction, because frame *)
(* and body have no common length.                                          *)

NoBytes == [a \in {} |-> 0]
Abs(op, a) == <<op, a % 256, a \div 256>>
LdaImm(v) == <<169, v>>
Lda(a) == Abs(173, a)
Sta(a) == Abs(141, a)
Inc0(a) == <<230, a>>
Jmp(a) == Abs(76, a)
Pha == <<72>>
Pla == <<104>>
Rti == <<64>>
Inx == <<232>>
AndImm(v) == <<41, v>>
Put(v, a) == LdaImm(v) \o Sta(a)

BASE == 49152                   \* the second copy of the block
HANDLER == BASE + 1024

\* LDA $2002, BPL: the first blank is already there at power up, the second one
\* comes when the unit is ready.
AwaitBlank == Lda(8194) \o <<16, 251>>
Prologue == AwaitBlank \o AwaitBlank

\* A block: code, interrupt handler, vectors.
Block(code, handler) ==
    [k \in 0 .. Len(code) - 1 |-> code[k + 1]]
    @@ [k \in 1024 .. 1024 + Len(handler) - 1 |-> handler[k - 1023]]
    @@ (16378 :> HANDLER % 256) @@ (16379 :> HANDLER \div 256)
    @@ (16380 :> BASE % 256) @@ (16381 :> BASE \div 256)

\* Setup, then the body for ever.
Code(setup, body) ==
    LET start == Prologue \o setup IN start \o body \o Jmp(BASE + Len(start))
End(setup, body) == BASE + Len(Prologue \o setup \o body)

Cartridge(kind, setup, body, handler, chr, rom_type, more) ==
    more @@
    [held |-> {{}}, kind |-> kind, handler |-> HANDLER, chr |-> chr, rom_type |-> rom_type,
     prg |-> Block(Code(setup, body), handler),
     start |-> BASE + Len(Prologue \o setup), end |-> End(setup, body)]

-----------------------------------------------------------------------------
\* upload: three bytes through the data register, and two of them back.

Bytes3 == <<5, 6, 7>>
SetAddress(a) == Put(a \div 256, 8198) \o Put(a % 256, 8198)
UploadBody(a) ==
    SetAddress(a) \o Put(Bytes3[1], 8199) \o Put(Bytes3[2], 8199) \o Put(Bytes3[3], 8199)
    \o SetAddress(a) \o Lda(8199) \o Lda(8199) \o <<133, 16>> \o Lda(8199) \o <<133, 17>>

Upload(a, ctrl, mirroring) ==
    Cartridge("upload", Put(ctrl, 8192), UploadBody(a),
              Pha \o Inc0(18) \o LdaImm(0) \o <<133, 18>> \o Pla \o Rti, NoBytes, mirroring,
              [a |-> a, data |-> Bytes3, step |-> IF (ctrl \div 4) % 2 = 1 THEN 32 ELSE 1])

Uploads == {Upload(8192, 128, 0), Upload(9214, 132, 1), Upload(16143, 128, 0),
            Upload(12287, 132, 0)}

\* pad: strobe, then eight reads.
ReadPad == Lda(16406) \o Lda(16406) \o Lda(16406) \o Lda(16406)
Strobe == Put(1, 16406) \o Put(0, 16406)
Pad == Cartridge("pad", Put(128, 8192), Strobe \o ReadPad \o ReadPad,
                 Pha \o Lda(8194) \o Pla \o Rti, NoBytes, 0,
                 [held |-> {{}, {1, 3}, {2, 8}},
                  read |-> [k \in 1 .. 8 |-> End(Put(128, 8192), Strobe) + 3 * (k - 1)]])

\* scene: object memory by DMA in the handler, which moves a sprite, a scrolled
\* background, two sprites that meet each other and the background.
OamPage == <<0, 1, 0, 0>> \o <<8, 2, 65, 13>>
MoveSprite == Lda(515) \o <<24, 105, 16>> \o AndImm(63) \o Sta(515)
FillPage == LdaImm(OamPage[1]) \o Sta(512) \o LdaImm(OamPage[2]) \o Sta(513)
            \o LdaImm(OamPage[3]) \o Sta(514) \o LdaImm(OamPage[4]) \o Sta(515)
            \o LdaImm(OamPage[5]) \o Sta(516) \o LdaImm(OamPage[6]) \o Sta(517)
            \o LdaImm(OamPage[7]) \o Sta(518) \o LdaImm(OamPage[8]) \o Sta(519)

\* Tile 1 has colour 1 in a diagonal, tile 2 colours 2 and 3.
Patterns == (16 :> 128) @@ (17 :> 64) @@ (18 :> 33) @@ (20 :> 24)
            @@ (40 :> 255) @@ (41 :> 15) @@ (33 :> 3)

\* After the transfer.
HandlerEnd(move) == HANDLER + Len(Pha \o move) + 10

SceneSetup(scroll) ==
    FillPage \o SetAddress(8192) \o Put(1, 8199) \o Put(2, 8199) \o Put(1, 8199)
    \o SetAddress(8192 + 33) \o Put(2, 8199) \o SetAddress(9216) \o Put(2, 8199)
    \o SetAddress(8192 + 960) \o Put(228, 8199)
    \o SetAddress(16129) \o Put(33, 8199) \o Put(34, 8199) \o Put(35, 8199)
    \o SetAddress(16145) \o Put(49, 8199) \o Put(50, 8199) \o Put(51, 8199)
    \o Lda(8194) \o Put(scroll, 8197) \o Put(0, 8197) \o Put(30, 8193) \o Put(128, 8192)

Scene(scroll, oam) ==
    Cartridge("scene", SceneSetup(scroll), Inx \o <<202>>,
              Pha \o MoveSprite \o Put(oam, 8195) \o Put(2, 16404) \o Pla \o Rti, Patterns, 1,
              [moved |-> HandlerEnd(MoveSprite), oam |-> oam])
Scenes == {Scene(58, 0), Scene(8, 250)}
\* split: counts the hits of sprite 0; the handler starts the count again.
Split ==
    Cartridge("split", SceneSetup(0), Lda(8194) \o AndImm(64) \o <<240, 2>> \o Inc0(16),
              Pha \o Put(0, 8195) \o Put(2, 16404) \o LdaImm(0) \o <<133, 16>> \o Pla \o Rti,
              Patterns, 1, [oam |-> 0])

-----------------------------------------------------------------------------
(* What is drawn                                                           *)

\* Rectangles on the screen, over its edges and outside it.
Rect(x, y, w, h) == [x |-> x, y |-> y, w |-> w, h |-> h,
                     pixels |-> [a \in 1 .. w * h |-> 16777226 + a]]
Draws == {Rect(p[1], p[2], p[3], p[4]) :
             p \in {q \in (0 .. 3) \X (0 .. 2) \X (0 .. 4) \X (0 .. 3) : q[3] * q[4] # 0}}
         \cup {Rect(0, 0, 0, 0)}

\* Trees: a texture; two that may overlap on a canvas; canvases in a canvas, scaled.
Texture(w, h, c, p) == [type |-> "texture", w |-> w, h |-> h, pixels |-> [a \in 1 .. w * h |-> c + a],
                        x1 |-> p[1], y1 |-> p[2], w1 |-> p[3], h1 |-> p[4]]
Subtree(w, h, ch, p) == [type |-> "subtree", w |-> w, h |-> h, children |-> ch,
                         x1 |-> p[1], y1 |-> p[2], w1 |-> p[3], h1 |-> p[4]]
Places == {p \in (0 .. 2) \X (0 .. 1) \X (1 .. 3) \X (1 .. 2) : p[1] + p[3] <= 3 /\ p[2] + p[4] <= 2}
Trees ==
    {Texture(2, 2, 30, p) : p \in Places}
    \cup {Subtree(3, 2, <<Texture(2, 2, 30, p), Texture(3, 1, 40, q)>>, <<0, 0, 3, 2>>) :
             p \in Places, q \in Places}
    \cup {Subtree(2, 3, <<Subtree(3, 2, <<Texture(2, 2, 30, <<0, 1, 3, 1>>)>>, <<0, 1, 2, 2>>)>>, p) :
             p \in Places}

-----------------------------------------------------------------------------
(* The programs                                                            *)

Nes == INSTANCE LiteNes WITH
    SCR_W <- 64, SCR_H <- 10, SLICES <- <<8, 5, 3>>, LINES <- 13, VBLANK_LINE <- 11,
    WARMUP <- 60, CLOCK_MOD <- 65536, Cartridges <- Uploads \cup Scenes \cup {Pad, Split},
    cartridge <- s1, m <- s2, phase <- s3, budget <- s4, scanlines <- s5, cpu_cycles
    <- s6, canvas <- s7, bgc <- s8, screen <- s9, frame_cnt <- s10, due <- s11,
    found <- s12, drawing <- s13

\* Drawing, of which every program with a picture makes its own.
Screen == INSTANCE Framebuffer WITH
    W <- 3, H <- 2, MaxDraws <- 2, Draws <- Draws, Trees <- Trees,
    fb <- s1, drawn <- s2, left <- s3

ASSUME Screen!FbAssumption

-----------------------------------------------------------------------------
IsProgram(p) == unit = p /\ given = Pending /\ got = Pending

MCInit ==
    \/ /\ Init
       /\ s1 = 0 /\ s2 = 0 /\ s3 = 0 /\ s4 = 0 /\ s5 = 0 /\ s6 = 0 /\ s7 = 0 /\ s8 = 0
       /\ s9 = 0 /\ s10 = 0 /\ s11 = 0 /\ s12 = 0 /\ s13 = 0
    \/ /\ IsProgram("nes") /\ Nes!HInit
    \/ /\ IsProgram("screen") /\ Screen!FbInit
       /\ s4 = 0 /\ s5 = 0 /\ s6 = 0 /\ s7 = 0 /\ s8 = 0 /\ s9 = 0 /\ s10 = 0
       /\ s11 = 0 /\ s12 = 0 /\ s13 = 0

\* A step of one program.
InNes(A) == unit = "nes" /\ A /\ UNCHANGED <<unitVars>>
InScreen(A) == /\ unit = "screen" /\ A
               /\ UNCHANGED <<unitVars, s4, s5, s6, s7, s8, s9, s10, s11, s12, s13>>

MCNext == \/ Next /\ UNCHANGED pool
          \/ InNes(Nes!HNext)
          \/ InScreen(Screen!FbNext)

\* A cartridge takes steps for ever.
MCFair == []<>(unit # "nes") \/ []<><<TRUE>>_mcVars

MCSpec == MCInit /\ [][MCNext]_mcVars /\ MCFair

-----------------------------------------------------------------------------
(* What they promise                                                       *)

\* Decoder, ALU, branch decision and immediates give what the manual of RV64I says
\* (IDU.sv, ALU.sv, PCN.sv, IMMGen.sv).
UnitsCompute == ComputesRv64 /\ BranchesRv64 /\ GathersImmediate

\* The memory keeps what is stored and nothing else changes (MemControl.sv).
MemoryKeeps == LoadReturnsStore /\ OtherBytesKept

\* The library's arithmetic and the macros of the minirv tool chain compute their
\* functions, and a macro leaves other registers alone (int64.c, inst-replace.h).
LibraryComputes ==
    DivisionCorrect /\ ProductCorrect /\ CountsZeros /\ MacrosCompute /\ MacrosPreserve

\* What a program sends to the picture unit arrives and is reported once (litenes).
NesFinds == unit = "nes" => Nes!UploadArrives /\ Nes!DmaCopiesPage /\ Nes!HitOncePerFrame

\* What a program is given is in order: registers after an interrupt, keys after a
\* strobe, and the pixels of a frame on the screen (litenes).
NesGives ==
    [][unit = "nes" => Nes!NmiTransparent /\ Nes!PadInOrder /\ Nes!ShowsScene]_mcVars

\* A rectangle shows its own pixels at every point of it that is on the screen, a
\* tree the child on top at every point of its root, scaled; nothing else changes
\* (x86/qemu/ioe.c, logisim).
ShowsWhatIsDrawn == [][unit = "screen" => Screen!Shown]_mcVars

\* Neither the program of a cartridge nor its interrupt handler is starved: each runs
\* again and again (litenes).
NesGoesOn ==
    \A k \in 1 .. 2 : []<>(unit = "nes" => IF k = 1 THEN Nes!InBody ELSE Nes!InHandler)
=============================================================================
