------------------------------- MODULE LiteNes -------------------------------
(***************************************************************************)
(* The loop of LiteNES (litenes: fce.c, and ppu_cycle of ppu.c): a frame   *)
(* is LINES scan lines; a line runs the processor for three slices of      *)
(* cycles, draws between them, raises the interrupt of the vertical blank, *)
(* and then takes the key events that have come in.                        *)
(***************************************************************************)
EXTENDS Nes6502

CONSTANTS Cartridges,       \* prg: bytes of one block, chr: bytes, rom_type:
                            \* mirroring, held: the sets of keys its player may hold
                            \* down; and what its program does, for the properties
          SLICES,           \* processor cycles of the three slices, <<85, 23, 5>>
          LINES,            \* scan lines per turn of fce_run, 262
          VBLANK_LINE,      \* the line of the interrupt, 241
          WARMUP,           \* cycles before the unit is ready, 29658
          CLOCK_MOD         \* cpu_cycles wraps at 2^64

VARIABLES cartridge,    \* what fce_load_rom was given
          m,            \* the machine
          phase,        \* where the loop is: "wait", "line", "slice1" .. "slice3", "keys"
          budget,       \* what is left of the slice
          scanlines,    \* lines left of this turn
          cpu_cycles,   \* the clock
          canvas, bgc,  \* drawn pixels, and the colour index it was cleared to
          screen,       \* what was shown last
          frame_cnt,    \* frames, modulo 2 (FRAME_SKIP is 1)
          due           \* the frame period has passed

nesVars == <<cartridge, m, phase, budget, scanlines, cpu_cycles, canvas, bgc, screen, frame_cnt, due>>

-----------------------------------------------------------------------------
\* fce_load_rom for one block of program and one page of patterns.

Mapped(prg) ==
    [a \in {32768 + k : k \in DOMAIN prg} \cup {49152 + k : k \in DOMAIN prg} |->
        prg[a % 16384]]

Loaded(c) ==
    PowerUp @@ [ram |-> Empty, rom |-> Mapped(c.prg), chr |-> c.chr, mmc_id |-> 0,
                ppu |-> [ppu_init(c.rom_type % 2) EXCEPT !.PPU_RAM = c.chr],
                pad |-> [p |-> 10, prev_write |-> 0, keys |-> {}]]

Init ==
    /\ cartridge \in Cartridges
    /\ m = cpu_reset(Loaded(cartridge))
    /\ phase = "wait" /\ budget = 0 /\ scanlines = 0 /\ cpu_cycles = 0
    /\ canvas = Empty /\ bgc = 0 /\ screen = Empty /\ frame_cnt = 0 /\ due = FALSE

-----------------------------------------------------------------------------
candraw == frame_cnt = 0
draws(d) == canvas' = IF candraw THEN d @@ canvas ELSE canvas

\* The clock of the host.  It goes on all the time, and is looked at while waiting.
Tick == /\ phase = "wait" /\ ~ due /\ due' = TRUE
        /\ UNCHANGED <<m, phase, budget, scanlines, cpu_cycles, canvas, bgc, screen, frame_cnt>>

wait_for_frame ==
    /\ phase = "wait" /\ due
    /\ due' = FALSE /\ phase' = "line" /\ scanlines' = LINES
    /\ UNCHANGED <<m, budget, cpu_cycles, canvas, bgc, screen, frame_cnt>>

\* ppu_cycle begins: the unit is ready once the clock has passed WARMUP.
begin_line ==
    /\ phase = "line"
    /\ m' = [m EXCEPT !.ppu.ready = @ \/ cpu_cycles > WARMUP]
    /\ phase' = "slice1" /\ budget' = SLICES[1]
    /\ UNCHANGED <<scanlines, cpu_cycles, canvas, bgc, screen, frame_cnt, due>>

\* One instruction.  The clock counts down from 0; it is not looked at once the
\* unit is ready.
cpu_run ==
    /\ phase \in {"slice1", "slice2", "slice3"} /\ budget > 0
    /\ \E s \in {cpu_step(m)} :
          /\ m' = s.m
          /\ budget' = budget - s.cycles
          /\ cpu_cycles' = IF m.ppu.ready THEN cpu_cycles ELSE (cpu_cycles - s.cycles) % CLOCK_MOD
    /\ UNCHANGED <<phase, scanlines, canvas, bgc, screen, frame_cnt, due>>

Drawn(drawn) == m' = [m EXCEPT !.ppu = drawn.p] /\ draws(drawn.draws)

draw_background ==
    /\ phase = "slice1" /\ budget <= 0
    /\ \E p \in {[m.ppu EXCEPT !.scanline = @ + 1]} :
          IF p.scanline < SCR_H /\ ppu_shows_background(p)
          THEN \E drawn \in {ppu_draw_background_scanline(p)} : Drawn(drawn)
          ELSE m' = [m EXCEPT !.ppu = p] /\ UNCHANGED canvas
    /\ phase' = "slice2" /\ budget' = SLICES[2]
    /\ UNCHANGED <<scanlines, cpu_cycles, bgc, screen, frame_cnt, due>>

draw_sprites ==
    /\ phase = "slice2" /\ budget <= 0
    /\ IF m.ppu.scanline < SCR_H /\ ppu_shows_sprites(m.ppu)
       THEN \E drawn \in {ppu_draw_sprite_scanline(m.ppu)} : Drawn(drawn)
       ELSE UNCHANGED <<m, canvas>>
    /\ phase' = "slice3" /\ budget' = SLICES[3]
    /\ UNCHANGED <<scanlines, cpu_cycles, bgc, screen, frame_cnt, due>>

nmi_without_blank ==                                                \* mutant
    \E n \in {[m EXCEPT !.ppu.PPUSTATUS = ClearBits(@, {Hit})]} :
        m' = IF ppu_generates_nmi(n.ppu) THEN cpu_interrupt(n) ELSE n

\* ppu_cycle ends: the vertical blank begins, or the frame ends and every other
\* frame the canvas is shown and cleared (fce_update_screen).
vertical_blank ==
    \E n \in {[m EXCEPT !.ppu.PPUSTATUS = SetBit(ClearBits(@, {Hit}), VBlank)]} :
        m' = IF ppu_generates_nmi(n.ppu) THEN cpu_interrupt(n) ELSE n

frame_end ==
    m' = [m EXCEPT !.ppu.scanline = -1, !.ppu.hit_occured = FALSE,
                   !.ppu.PPUSTATUS = ClearBits(@, {VBlank})]

fce_update_screen ==
    /\ frame_cnt' = 1 - frame_cnt
    /\ IF frame_cnt' = 0
       THEN /\ screen' = canvas
            /\ canvas' = Empty
            /\ bgc' = ppu_ram_read(m.ppu, 16128)
       ELSE UNCHANGED <<screen, canvas, bgc>>

ppu_cycle_ends ==
    /\ phase = "slice3" /\ budget <= 0
    /\ phase' = "keys"
    /\ CASE m.ppu.scanline = VBLANK_LINE ->
                vertical_blank /\ UNCHANGED <<frame_cnt, screen, canvas, bgc>>
         [] m.ppu.scanline = LINES -> frame_end /\ fce_update_screen
         [] OTHER -> UNCHANGED <<m, frame_cnt, screen, canvas, bgc>>
    /\ UNCHANGED <<budget, scanlines, cpu_cycles, due>>

psg_detect_key ==
    /\ phase = "keys"
    /\ \E keys \in cartridge.held : m' = [m EXCEPT !.pad.keys = keys]
    /\ scanlines' = scanlines - 1
    /\ phase' = IF scanlines = 1 THEN "wait" ELSE "line"
    /\ UNCHANGED <<budget, cpu_cycles, canvas, bgc, screen, frame_cnt, due>>

Emulate ==
    \/ wait_for_frame \/ begin_line \/ cpu_run \/ draw_background \/ draw_sprites
    \/ ppu_cycle_ends \/ psg_detect_key

Next == (Tick \/ Emulate) /\ UNCHANGED cartridge

Spec == Init /\ [][Next]_nesVars

\* The emulator is one loop that waits for nothing but the clock of the host, which
\* goes on: some step is always possible, and always one more is taken.
FairSpec == Spec /\ []<><<Next>>_nesVars

-----------------------------------------------------------------------------
(* What a program finds.  History: the registers that the last interrupt   *)
(* found, and the picture unit as it was when the canvas was cleared.      *)

VARIABLES found, drawing

Regs(n) == [A |-> n.A, X |-> n.X, Y |-> n.Y, SP |-> n.SP, PC |-> n.PC, P |-> n.P \cup {I, U}]

Interrupts == phase = "slice3" /\ phase' = "keys" /\ m'.PC # m.PC
Shows == frame_cnt = 1 /\ frame_cnt' = 0
Executes(code) == m' # m /\ budget > 0 /\ Get(m.rom, m.PC) = code

HInit == Init /\ found = Regs(m) /\ drawing = m.ppu

HNext ==
    /\ Next
    /\ found' = IF Interrupts THEN Regs(m) ELSE found
    /\ drawing' = IF Shows THEN [m.ppu EXCEPT !.screen_background = Empty] ELSE drawing

\* The program does not notice the interrupt: when the handler returns, every
\* register, the stack pointer and the flags but I are what they were, wherever
\* the interrupt came (cpu.c cpu_interrupt, cpu_op_rti, the stack routines).
NmiTransparent == Executes(64) => Regs(m') = found

\* Bytes stored one after the other through $2007 are one increment apart, each is
\* at its mirror too, and read back in order after one read that is thrown away:
\* the address advances by reads alone, those that a store makes of its own operand
\* included, and not on the first access after it was set (ppu.c:333-354, 390-399,
\* cpu-addressing.c:32-36).
UploadArrives ==
    cartridge.kind = "upload" /\ m.PC = cartridge.end =>
        \A k \in 1 .. 3 :
            LET a == cartridge.a + (k - 1) * cartridge.step
            IN  /\ ppu_ram_read(m.ppu, a) = cartridge.data[k]
                /\ ppu_ram_read(m.ppu, a ^^ m.ppu.mirroring_xor) = cartridge.data[k]
                /\ k < 3 => Ram(m, 15 + k) = cartridge.data[k]

\* The k-th read of the joypad after a strobe gives key k, as it is at that moment
\* (psg.c:23-42).
PadInOrder ==
    cartridge.kind = "pad" =>
        \A k \in PadKeys \ {0} :
            budget > 0 /\ m.PC = cartridge.read[k] /\ m' # m => (m'.A = 1) = (k \in m.pad.keys)

\* The transfer fills object memory from OAMADDR on, all round, and leaves OAMADDR
\* where it was (memory.c:19-25, ppu.c:422-424).
DmaCopiesPage ==
    cartridge.kind = "scene" /\ m.PC = cartridge.moved =>
        /\ m.ppu.OAMADDR = cartridge.oam
        /\ \A k \in 0 .. 255 :
               Get(m.ppu.PPU_SPRRAM, (cartridge.oam + k) % 256) = Ram(m, 512 + k)

\* Sprite 0 is reported at most once between two blanks, however often the program
\* asks and for however many lines the sprite is drawn (ppu.c:219-222, 294, 323).
HitOncePerFrame == cartridge.kind = "split" => Ram(m, 16) <= 1

\* The picture, pixel by pixel: the column of the two name tables side by side that
\* the scroll puts at x, and the last sprite over it.  A sprite whose top is not on a
\* multiple of eight lines is drawn before some of the background it covers.
Pixel(p, x, y) ==
    LET row == y - 1
        column == (x + p.PPUSCROLL_X) % (2 * SCR_W)
        line == [p EXCEPT !.scanline = row]
        back == BackColor(line, (column % SCR_W) \div 8, column % 8, column >= SCR_W)
        Color(n) == SpriteColor([p EXCEPT !.scanline = row - Sprite(p, n, 0)], n, x - Sprite(p, n, 3))
        over == {n \in 0 .. 63 : /\ x - Sprite(p, n, 3) \in 0 .. 7
                                 /\ row - Sprite(p, n, 0) \in 0 .. 7
                                 /\ Color(n) # 0}
    IN  IF over # {}
        THEN ppu_ram_read(p, 16144 + 4 * (Sprite(p, Max(over), 2) % 4) + Color(Max(over)))
        ELSE IF back = 0 THEN -1
        ELSE BackIndex(line, (column % SCR_W) \div 8, back, column >= SCR_W)

\* Every canvas shown is one whole frame, with no pixel of another (fce.c:125-140,
\* ppu.c:130-226).
ShowsScene ==
    cartridge.kind \in {"scene", "split"} /\ cartridge.oam = 0
      /\ drawing.PPU_SPRRAM # Empty /\ Shows =>
        \A x \in 0 .. SCR_W - 1, y \in 1 .. SCR_H - 1 :
            LET pixel == Pixel(drawing, x, y)
            IN  IF pixel = -1 THEN <<x, y>> \notin DOMAIN screen'
                ELSE <<x, y>> \in DOMAIN screen' /\ screen'[<<x, y>>] = pixel

\* The loop never starves the program: its body and the handler of the blank are
\* run again and again (fce.c:101-123, ppu.c:252-310).
InBody    == m.PC = cartridge.start
InHandler == m.PC = cartridge.handler
=============================================================================
