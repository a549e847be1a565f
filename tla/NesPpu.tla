------------------------------- MODULE NesPpu --------------------------------
(***************************************************************************)
(* The picture unit of LiteNES (litenes: ppu.c): its registers as the      *)
(* processor sees them, its memories, and what a scan line draws.  Every   *)
(* operator takes the unit p, a record, and gives the next one.  A memory  *)
(* is the function of its non-zero bytes.                                  *)
(***************************************************************************)
EXTENDS Integers, Sequences, FiniteSetsExt, Bitwise, TLC

CONSTANTS SCR_W, SCR_H      \* size of the screen, 256 by 240; a name table is as wide

Get(f, a) == IF a \in DOMAIN f THEN f[a] ELSE 0
Sparse(f) == [a \in {k \in DOMAIN f : f[k] # 0} |-> f[a]]
Put(f, a, v) == Sparse((a :> v) @@ f)

Bit(v, k) == (v \div 2^k) % 2 = 1
ClearBits(v, S) == v - SumSet({2^k : k \in {j \in S : Bit(v, j)}})
SetBit(v, k) == IF Bit(v, k) THEN v ELSE v + 2^k

Overflow == 5       \* bits of PPUSTATUS
Hit == 6
VBlank == 7

-----------------------------------------------------------------------------
\* PPUCTRL and PPUMASK.

ppu_base_nametable_address(p) == 8192 + 1024 * (p.PPUCTRL % 4)
ppu_vram_address_increment(p) == IF Bit(p.PPUCTRL, 2) THEN 32 ELSE 1
ppu_sprite_pattern_table_address(p) == IF Bit(p.PPUCTRL, 3) THEN 4096 ELSE 0
ppu_background_pattern_table_address(p) == IF Bit(p.PPUCTRL, 4) THEN 4096 ELSE 0
ppu_sprite_height(p) == IF Bit(p.PPUCTRL, 5) THEN 16 ELSE 8
ppu_generates_nmi(p) == Bit(p.PPUCTRL, 7)
ppu_shows_background_in_leftmost_8px(p) == Bit(p.PPUMASK, 1)
ppu_shows_background(p) == Bit(p.PPUMASK, 3)
ppu_shows_sprites(p) == Bit(p.PPUMASK, 4)

-----------------------------------------------------------------------------
\* Memory.

\* Colour 0 of the sprite palettes is that of the background palettes.
ppu_get_real_ram_address(a) ==
    IF a < 16128 THEN a
    ELSE LET k == a % 32 IN 16128 + IF k \in {16, 20, 24, 28} THEN k - 16 ELSE k

ppu_ram_read(p, a) == Get(p.PPU_RAM, ppu_get_real_ram_address(a))
ppu_ram_write(p, a, v) == [p EXCEPT !.PPU_RAM = Put(@, ppu_get_real_ram_address(a), v)]

ppu_copy(p, a, source) ==
    [p EXCEPT !.PPU_RAM = Sparse([k \in a .. a + 8191 |-> Get(source, k - a)] @@ @)]

-----------------------------------------------------------------------------
\* The registers, as bus accesses: what is read, and the unit after it.

ReadStatus(p) ==
    [p |-> [p EXCEPT !.PPUSTATUS = ClearBits(@, {VBlank, Hit}), !.scroll_received_x = FALSE,
                     !.addr_received_high_byte = FALSE, !.addr_latch = 0, !.first_read = TRUE],
     v |-> p.PPUSTATUS]

ReadData(p) ==
    [p |-> [p EXCEPT !.first_read = FALSE,
                     !.PPUADDR = IF p.first_read THEN @ ELSE @ + ppu_vram_address_increment(p)],
     v |-> ppu_ram_read(p, p.PPUADDR)]

ReadRegister(p, a) ==
    CASE a % 8 = 2 -> ReadStatus(p)
      [] a % 8 = 4 -> [p |-> p, v |-> Get(p.PPU_SPRRAM, p.OAMADDR)]
      [] a % 8 = 7 -> ReadData(p)
      [] OTHER -> [p |-> p, v |-> 255]

ppuio_read(p, a) == ReadRegister([p EXCEPT !.PPUADDR = @ % 16384], a)

WriteScroll(p, v) ==
    IF p.scroll_received_x
    THEN [p EXCEPT !.PPUSCROLL_Y = v, !.scroll_received_x = FALSE]
    ELSE [p EXCEPT !.PPUSCROLL_X = v, !.scroll_received_x = TRUE]

WriteAddress(p, v) ==
    IF p.addr_received_high_byte
    THEN [p EXCEPT !.PPUADDR = 256 * p.addr_latch + v, !.addr_received_high_byte = FALSE,
                   !.first_read = TRUE]
    ELSE [p EXCEPT !.addr_latch = v, !.addr_received_high_byte = TRUE, !.first_read = TRUE]

\* A byte goes to its address and to the mirror of the address, name table or not.
WriteData(p, v) ==
    ppu_ram_write(ppu_ram_write(p, p.PPUADDR ^^ p.mirroring_xor, v), p.PPUADDR, v)

WriteRegister(p, a, v) ==
    CASE a % 8 = 0 /\ p.ready -> [p EXCEPT !.PPUCTRL = v]
      [] a % 8 = 1 /\ p.ready -> [p EXCEPT !.PPUMASK = v]
      [] a % 8 = 3 -> [p EXCEPT !.OAMADDR = v]
      [] a % 8 = 4 -> [p EXCEPT !.PPU_SPRRAM = Put(@, p.OAMADDR, v), !.OAMADDR = (@ + 1) % 256]
      [] a % 8 = 5 -> WriteScroll(p, v)
      [] a % 8 = 6 /\ p.ready -> WriteAddress(p, v)
      [] a % 8 = 7 -> WriteData(p, v)
      [] OTHER -> p

ppuio_write(p, a, v) == WriteRegister([p EXCEPT !.PPUADDR = @ % 16384], a, v)

-----------------------------------------------------------------------------
\* Drawing.  A canvas is the function of the pixels drawn since it was cleared.

On(x, y) == x \in 0 .. SCR_W - 1 /\ y \in 0 .. SCR_H - 1

\* The two bits of a pixel of a tile row are in two bytes eight apart.
PlaneBit(b, x) == (b \div 2^(7 - x)) % 2
TilePixel(p, address, row, x) ==
    PlaneBit(ppu_ram_read(p, address + row), x) + 2 * PlaneBit(ppu_ram_read(p, address + row + 8), x)

\* The colour of a pixel of a background tile, and its entry in the palette.
Table(p, mirror) == ppu_base_nametable_address(p) + IF mirror THEN 1024 ELSE 0
BackColor(p, tile_x, x, mirror) ==
    TilePixel(p, ppu_background_pattern_table_address(p)
                 + 16 * ppu_ram_read(p, Table(p, mirror) + tile_x + 32 * (p.scanline \div 8)),
              p.scanline % 8, x)

BackIndex(p, tile_x, color, mirror) ==
    LET attribute == ppu_ram_read(p, Table(p, mirror) + 960 + tile_x \div 4
                                     + 8 * (p.scanline \div 32))
        quarter == (IF p.scanline % 32 < 16 THEN 0 ELSE 2) + (IF tile_x % 4 < 2 THEN 0 ELSE 1)
    IN  ppu_ram_read(p, 16128 + 4 * ((attribute \div 4^quarter) % 4) + color)

\* Where the left edge of a name table lies on the screen.
Left(p, mirror) == (IF mirror THEN SCR_W ELSE 0) - p.PPUSCROLL_X

Tiles(p, mirror) ==
    {t \in (IF ppu_shows_background_in_leftmost_8px(p) THEN 0 ELSE 1) .. SCR_W \div 8 - 1 :
        8 * t + Left(p, mirror) <= SCR_W}

\* <<tile, pixel>> of what is not transparent.
BackPixels(p, mirror) ==
    {tx \in Tiles(p, mirror) \X (0 .. 7) : BackColor(p, tx[1], tx[2], mirror) # 0}

\* A pixel is drawn one line down.
Moved(pixels, left, y) == {xy \in {<<8 * tx[1] + tx[2] + left, y + 1>> : tx \in pixels} :
                              On(xy[1], xy[2])}

Painted(p, mirror, column) ==
    BackIndex(p, column \div 8, BackColor(p, column \div 8, column % 8, mirror), mirror)

BackDraws(p, mirror, pixels) ==
    [xy \in Moved(pixels, Left(p, mirror), p.scanline) |->
        Painted(p, mirror, xy[1] - Left(p, mirror))]

\* The colours kept for the sprite 0 test: by column of the name table, the second
\* table over the first, and never erased.
Kept(p, mirror, pixels) ==
    [xy \in {<<8 * tx[1] + tx[2], p.scanline>> : tx \in pixels} |->
        BackColor(p, xy[1] \div 8, xy[1] % 8, mirror)]

\* Both calls of a scan line: the unit, and the pixels drawn.
DrawTables(p, first, second) ==
    [p |-> [p EXCEPT !.screen_background = Kept(p, TRUE, second) @@ Kept(p, FALSE, first) @@ @],
     draws |-> BackDraws(p, TRUE, second) @@ BackDraws(p, FALSE, first)]

ppu_draw_background_scanline(p) ==
    DrawTables(p, BackPixels(p, FALSE), BackPixels(p, TRUE))

\* A sprite: y, tile, attributes, x.
Sprite(p, n, k) == Get(p.PPU_SPRRAM, 4 * n + k)
OnLine(p) == {n \in 0 .. 63 : Sprite(p, n, 0) <= p.scanline
                              /\ p.scanline <= Sprite(p, n, 0) + ppu_sprite_height(p)}

\* The row of the tile depends on the line alone; it is drawn where it belongs.
SpriteColor(p, n, x) ==
    LET row == p.scanline % 8
    IN  TilePixel(p, ppu_sprite_pattern_table_address(p) + 16 * Sprite(p, n, 1),
                  IF Bit(Sprite(p, n, 2), 7) THEN 7 - row ELSE row,
                  IF Bit(Sprite(p, n, 2), 6) THEN 7 - x ELSE x)

SpriteAt(p, n, x) == <<Sprite(p, n, 3) + x, Sprite(p, n, 0) + (p.scanline % 8)>>

SpritePixels(p) ==
    {nx \in OnLine(p) \X (0 .. 7) : SpriteColor(p, nx[1], nx[2]) # 0}

\* The last sprite of the list is drawn over the others.
DrawnAt(p, nx) == <<SpriteAt(p, nx[1], nx[2])[1], SpriteAt(p, nx[1], nx[2])[2] + 1>>
SpriteIndex(p, nx) ==
    ppu_ram_read(p, 16144 + 4 * (Sprite(p, nx[1], 2) % 4) + SpriteColor(p, nx[1], nx[2]))
LastOf(pixels) == CHOOSE nx \in pixels : \A o \in pixels : o[1] <= nx[1]

SpriteDraws(p, pixels) ==
    [xy \in {k \in {DrawnAt(p, nx) : nx \in pixels} : On(k[1], k[2])} |->
        SpriteIndex(p, LastOf({nx \in pixels : DrawnAt(p, nx) = xy}))]

\* A pixel of sprite 0 is over background of the same colour number.
MeetsBackground(p, pixels) ==
    \E nx \in pixels :
        /\ nx[1] = 0
        /\ Get(p.screen_background, SpriteAt(p, 0, nx[2])) = SpriteColor(p, 0, nx[2])

Hits(p, pixels) == ppu_shows_background(p) /\ ~ p.hit_occured /\ MeetsBackground(p, pixels)

SetIf(v, k, set) == IF set THEN SetBit(v, k) ELSE v

DrawSprites(p, pixels, hit) ==
    [p |-> [p EXCEPT !.PPUSTATUS = SetIf(SetIf(@, Overflow, Cardinality(OnLine(p)) > 8), Hit, hit),
                     !.hit_occured = @ \/ hit],
     draws |-> SpriteDraws(p, pixels)]

SpriteLine(p, pixels) == DrawSprites(p, pixels, Hits(p, pixels))
ppu_draw_sprite_scanline(p) == SpriteLine(p, SpritePixels(p))

-----------------------------------------------------------------------------
\* ppu_init and ppu_set_mirroring; a unit is not ready and its memories are empty.

Empty == [a \in {} |-> 0]
ppu_init(mirroring) ==
    [PPUCTRL |-> 0, PPUMASK |-> 0, PPUSTATUS |-> 160, OAMADDR |-> 0, PPUSCROLL_X |-> 0,
     PPUSCROLL_Y |-> 0, PPUADDR |-> 0, scroll_received_x |-> FALSE,
     addr_received_high_byte |-> FALSE, addr_latch |-> 0, first_read |-> TRUE, ready |-> FALSE,
     mirroring_xor |-> 1024 * 2^mirroring, scanline |-> 0, hit_occured |-> FALSE,
     PPU_RAM |-> Empty, PPU_SPRRAM |-> Empty, screen_background |-> Empty]
=============================================================================
