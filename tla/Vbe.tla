-------------------------------- MODULE Vbe --------------------------------
(***************************************************************************)
(* drivers/x64/Video/vbe/vbe.c: the mode, the back buffer and what the     *)
(* drawing functions do to it.                                             *)
(*                                                                         *)
(* uint32_t arithmetic is modulo Modulus, uint16_t modulo Modulus16.  A    *)
(* colour is its alpha and one channel: the three channels of a pixel are  *)
(* blended by the same formula.  A font row is the set of its lit columns. *)
(* vbe_init allocates a fresh back buffer (AllocateMemory is external) and *)
(* programs the Bochs display registers, which ignore a new resolution and *)
(* a new depth while the display is enabled.  It keeps four bytes a pixel  *)
(* whatever the depth; the pitch it stores is never read.                  *)
(* vbe_swap_buffers writes memory that the driver never reads: it is an    *)
(* operator, on what that memory held.                                     *)
(*                                                                         *)
(* Definitions F_Something are F with a plausible mistake.                 *)
(***************************************************************************)
EXTENDS Integers, Sequences, FiniteSets

CONSTANTS
    Modulus, Modulus16,
    Sizes,          \* the resolutions, << width, height >>, clients ask for
    Depths,         \* and the bits per pixel
    Coordinates,    \* the x and y they draw at
    Colors,
    Inks,           \* the << foreground, background >> of text
    Bitmaps,        \* [width, height, pixels], pixels row by row
    Strings,
    Scrolls,        \* the numbers of lines they scroll by
    FontRows,       \* rows of a default glyph, 16 in the code
    default_font,   \* character code -> row -> lit columns, of 0..7
    Fonts           \* << width, height >> passed to vbe_set_font

\* A pixel as a program gives it: alpha and one channel.
Argb == [alpha : 0..255, value : 0..255]

\* Everything fits 32 bits, counted in bytes, pixels or, for text, in pixels
\* of a line and of a column: no string is as long as 2^28.
ASSUME VbeAssumption ==
    /\ Modulus \in Nat \ {0} /\ Modulus16 \in 1..Modulus
    /\ \A s \in Sizes : s[1] \in 1..(Modulus16 - 1) /\ s[2] \in 1..(Modulus16 - 1)
                        /\ s[1] * s[2] * 4 < Modulus
    /\ Depths \subseteq {8, 15, 16, 24, 32}
    /\ Coordinates \subseteq 0..(Modulus - 1)
    /\ Scrolls \subseteq 0..(Modulus - 1)
    /\ Colors \subseteq Argb
    /\ \A ink \in Inks : ink[1] \in Argb /\ ink[2] \in Argb
    /\ \A b \in Bitmaps : /\ b.width \in 0..(Modulus - 1) /\ b.height \in 0..(Modulus - 1)
                          /\ b.pixels \in Seq(Argb) /\ Len(b.pixels) = b.width * b.height
    /\ FontRows \in 1..(Modulus - 1)
    /\ \A f \in Fonts : f[1] \in 1..8 /\ f[2] \in 1..FontRows
    /\ \A s \in Strings : /\ s \in Seq(1..255)
                          /\ Len(s) * 8 <= Modulus /\ Len(s) * FontRows <= Modulus

VARIABLES
    mode,         \* vbe_mode_info: width, height, bpp, font_width, font_height
    backbuffer,
    display       \* the display registers: enabled, xres, yres, bpp

vars == << mode, backbuffer, display >>

NewLine == 10

Color(a, v) == [alpha |-> a, value |-> v]

Black == Color(0, 0)

Init ==
    /\ mode = [width |-> 0, height |-> 0, bpp |-> 0, font_width |-> 0, font_height |-> 0]
    /\ backbuffer = << >>
    /\ display = [enabled |-> FALSE, xres |-> 0, yres |-> 0, bpp |-> 0]

-----------------------------------------------------------------------------
(* Pixels.  A buffer is a function from 0 up, row after row.               *)

Pixels == mode.width * mode.height

Blend_Swapped(color, bg) ==
    IF color.alpha = 255 THEN color
    ELSE IF color.alpha = 0 THEN bg
    ELSE Color(255, (bg.value * color.alpha + color.value * (255 - color.alpha)) \div 255)
Blend(color, bg) ==
    IF color.alpha = 255 THEN color
    ELSE IF color.alpha = 0 THEN bg
    ELSE Color(255, (color.value * color.alpha + bg.value * (255 - color.alpha)) \div 255)

vbe_draw_pixel(buffer, x, y, color) ==
    IF x >= mode.width \/ y >= mode.height THEN buffer
    ELSE [buffer EXCEPT ![y * mode.width + x] = Blend(color, buffer[y * mode.width + x])]

Add_NoWrap(a, b) == a + b
Add(a, b) == (a + b) % Modulus

\* Two loops, over the rows of a picture and the columns of a row.
Loops(buffer, x, y, picture) ==
    LET n == picture.width * picture.height
        drawn[k \in 0..n] ==
          IF k = 0 THEN buffer
          ELSE vbe_draw_pixel(drawn[k - 1], Add(x, (k - 1) % picture.width),
                              Add(y, (k - 1) \div picture.width), picture.pixels[k])
    IN  drawn[n]

vbe_draw_bitmap(buffer, x, y, bitmap) == Loops(buffer, x, y, bitmap)

\* A character as vbe_draw_char goes through it, in the size of the font set.
Glyph(c, fg, bg) ==
    [width |-> mode.font_width, height |-> mode.font_height,
     pixels |-> [k \in 1..(mode.font_width * mode.font_height) |->
                    IF (k - 1) % mode.font_width \in default_font[c][(k - 1) \div mode.font_width]
                      THEN fg ELSE bg]]

vbe_draw_char(buffer, c, x, y, fg, bg) == Loops(buffer, x, y, Glyph(c, fg, bg))

\* A character drawn, or not, and where the cursor goes; it goes back to x,
\* not to 0, at the end of a line.
Step_ToLeftEdge(st, c, x, fg, bg) ==
    IF c = NewLine
      THEN [x |-> 0, y |-> Add(st.y, mode.font_height), buffer |-> st.buffer]
      ELSE [x |-> Add(st.x, mode.font_width), y |-> st.y,
            buffer |-> vbe_draw_char(st.buffer, c, st.x, st.y, fg, bg)]
Step(st, c, x, fg, bg) ==
    IF c = NewLine
      THEN [x |-> x, y |-> Add(st.y, mode.font_height), buffer |-> st.buffer]
      ELSE [x |-> Add(st.x, mode.font_width), y |-> st.y,
            buffer |-> vbe_draw_char(st.buffer, c, st.x, st.y, fg, bg)]

vbe_draw_string(buffer, str, x, y, fg, bg) ==
    LET drawn[k \in 0..Len(str)] ==
          IF k = 0 THEN [x |-> x, y |-> y, buffer |-> buffer]
          ELSE Step(drawn[k - 1], str[k], x, fg, bg)
    IN  drawn[Len(str)].buffer

vbe_clear_OneMore(color) == [i \in 0..Pixels |-> color]
vbe_clear(color) == [i \in 0..(Pixels - 1) |-> color]

vbe_scroll_Short(buffer, lines) ==
    LET rows == (lines * mode.font_height) % Modulus
        kept == (mode.height - rows - 1) * mode.width
    IN  IF rows >= mode.height THEN vbe_clear(Black)
        ELSE [i \in 0..(Pixels - 1) |->
                IF i < kept THEN buffer[i + rows * mode.width] ELSE Black]
vbe_scroll(buffer, lines) ==
    LET rows == (lines * mode.font_height) % Modulus
        kept == (mode.height - rows) * mode.width
    IN  IF rows >= mode.height THEN vbe_clear(Black)
        ELSE [i \in 0..(Pixels - 1) |->
                IF i < kept THEN buffer[i + rows * mode.width] ELSE Black]

vbe_swap_buffers(frame) ==
    [i \in DOMAIN frame \cup 0..(Pixels - 1) |->
        IF i < Pixels THEN backbuffer[i] ELSE frame[i]]

-----------------------------------------------------------------------------
(* The interface.                                                          *)

\* One write to the display: all but the switch is taken only while disabled.
Write(d, index, value) ==
    IF index = "enabled" THEN [d EXCEPT !.enabled = value]
    ELSE IF d.enabled THEN d
    ELSE [d EXCEPT ![index] = value]

\* vbe_write has uint16_t values.
Program_WhileEnabled(d, width, height, bpp) ==
    Write(Write(Write(Write(d, "xres", width % Modulus16), "yres", height % Modulus16),
                "bpp", bpp),
          "enabled", TRUE)
Program(d, width, height, bpp) ==
    Write(Write(Write(Write(Write(d, "enabled", FALSE), "xres", width % Modulus16),
                      "yres", height % Modulus16),
                "bpp", bpp),
          "enabled", TRUE)

vbe_init(width, height, bpp) ==
    /\ display' = Program(display, width, height, bpp)
    /\ mode' = [width |-> width, height |-> height, bpp |-> bpp,
                font_width |-> 8, font_height |-> FontRows]
    /\ backbuffer' = [i \in 0..(width * height - 1) |-> Black]

vbe_set_font(width, height) ==
    /\ mode' = [mode EXCEPT !.font_width = width, !.font_height = height]
    /\ UNCHANGED << backbuffer, display >>

\* A function that draws: its result becomes the back buffer.
Draws(buffer) ==
    /\ backbuffer' = buffer
    /\ UNCHANGED << mode, display >>

Next ==
    \/ \E s \in Sizes, bpp \in Depths : vbe_init(s[1], s[2], bpp)
    \/ \E f \in Fonts : vbe_set_font(f[1], f[2])
    \/ \E x, y \in Coordinates :
          \/ \E color \in Colors : Draws(vbe_draw_pixel(backbuffer, x, y, color))
          \/ \E b \in Bitmaps : Draws(vbe_draw_bitmap(backbuffer, x, y, b))
          \/ \E str \in Strings, ink \in Inks :
                Draws(vbe_draw_string(backbuffer, str, x, y, ink[1], ink[2]))
    \/ \E color \in Colors : Draws(vbe_clear(color))
    \/ \E lines \in Scrolls : Draws(vbe_scroll(backbuffer, lines))

Spec == Init /\ [][Next]_vars

-----------------------------------------------------------------------------
(* Properties.  Those on drawing say, in every reachable mode and buffer   *)
(* and for every argument of the run, what the loops of the code compute.  *)

\* Every variable holds a value of its kind, the back buffer one pixel for
\* each place of the mode.
TypeOK ==
    /\ DOMAIN mode = {"width", "height", "bpp", "font_width", "font_height"}
    /\ DOMAIN backbuffer = 0..(Pixels - 1)
    /\ \A i \in DOMAIN backbuffer : backbuffer[i].alpha \in 0..255 /\ backbuffer[i].value \in 0..255
    /\ display.xres \in 0..(Modulus16 - 1) /\ display.yres \in 0..(Modulus16 - 1)
    /\ display.bpp \in Depths \cup {0} /\ mode.bpp \in Depths \cup {0}

Columns == 0..(mode.width - 1)
Rows    == 0..(mode.height - 1)

At(buffer, u, v) == buffer[v * mode.width + u]

\* Where screen coordinate u lies in something drawn at x; what is drawn past
\* the top of the uint32_t range comes out at 0.
Offset(u, x) == (u - x) % Modulus

\* A bitmap changes exactly the pixels it covers, each once, also when its
\* left or upper part lies off the screen at a coordinate that wraps.
BitmapPlaced ==
    \A x, y \in Coordinates, b \in Bitmaps :
      LET drawn == vbe_draw_bitmap(backbuffer, x, y, b)
      IN  \A u \in Columns, v \in Rows :
        LET i == Offset(u, x)
            j == Offset(v, y)
        IN  At(drawn, u, v)
              = IF i < b.width /\ j < b.height
                  THEN Blend(b.pixels[j * b.width + i + 1], At(backbuffer, u, v))
                  ELSE At(backbuffer, u, v)

\* The line a character of a string stands on, and its column there.
TextRow(str, k) == Cardinality({m \in 1..(k - 1) : str[m] = NewLine})
TextColumn(str, k) ==
    CHOOSE n \in 0..(k - 1) :
        /\ n = k - 1 \/ str[k - 1 - n] = NewLine
        /\ \A m \in (k - n)..(k - 1) : str[m] # NewLine

\* Text fills the cells of a grid that starts at x, y, line ends included,
\* with the foreground on the lit columns of each glyph and the
\* background on the others.
TextPlaced ==
    \A x, y \in Coordinates, str \in Strings, ink \in Inks :
      LET drawn == vbe_draw_string(backbuffer, str, x, y, ink[1], ink[2])
      IN  \A u \in Columns, v \in Rows :
        LET i == Offset(u, x)
            j == Offset(v, y)
            under == {k \in 1..Len(str) :
                        /\ str[k] # NewLine
                        /\ TextColumn(str, k) = i \div mode.font_width
                        /\ TextRow(str, k) = j \div mode.font_height}
            Lit(k) == i % mode.font_width \in default_font[str[k]][j % mode.font_height]
        IN  At(drawn, u, v)
              = IF under = {} THEN At(backbuffer, u, v)
                ELSE Blend(IF Lit(CHOOSE k \in under : TRUE) THEN ink[1] ELSE ink[2],
                           At(backbuffer, u, v))

\* Scrolling moves whole rows of pixels up and leaves black rows below; no
\* row is lost that has a place to go.  The rows are counted in 32 bits: of a
\* number of lines whose rows pass 2^32 only the remainder is scrolled, and a
\* screen that should be cleared may keep all its rows.
RowsMoveUp ==
    \A lines \in Scrolls, u \in Columns, v \in Rows :
      LET from == v + ((lines * mode.font_height) % Modulus)
      IN  At(vbe_scroll(backbuffer, lines), u, v)
            = IF from < mode.height THEN At(backbuffer, u, from) ELSE Black

\* A blend lies between what was there and the colour, rounding included, and
\* covers more than half of the way from an alpha of 128 up, less below.
BlendIsBetween ==
    \A c \in Colors, alpha \in 0..255, i \in DOMAIN backbuffer :
        LET a == backbuffer[i].value
            b == c.value
            r == Blend(Color(alpha, b), backbuffer[i]).value
            Far(m, n) == IF m > n THEN m - n ELSE n - m
        IN  /\ (a <= r /\ r <= b) \/ (b <= r /\ r <= a)
            /\ alpha >= 128 => 2 * Far(r, a) + 1 >= Far(b, a)
            /\ alpha <  128 => 2 * Far(r, a) <= Far(b, a) + 1

\* How the display finds a pixel in its memory: the byte it starts at, rows
\* as long as its registers say.
BytesPerPixel(bpp) == (bpp + 7) \div 8
Scan(u, v) == (v * display.xres + u) * BytesPerPixel(display.bpp)

\* However often the mode was set, the display has the size and the depth of
\* the last one.  At 32 bits a pixel it then shows, after a swap, each pixel
\* where the drawing functions put it.  At any other depth the driver still
\* copies four bytes a pixel, and the display looks for every pixel but the
\* first where another one, or a part of one, lies.
ScreenShowsBuffer ==
    display.enabled =>
        LET shown == vbe_swap_buffers(<< >>)
        IN  /\ display.xres * display.yres = mode.width * mode.height
            /\ display.bpp = mode.bpp
            /\ \A u \in Columns, v \in Rows :
                 IF display.bpp = 32
                   THEN Scan(u, v) % 4 = 0 /\ shown[Scan(u, v) \div 4] = At(backbuffer, u, v)
                   ELSE Scan(u, v) = 4 * (v * mode.width + u) => u = 0 /\ v = 0

-----------------------------------------------------------------------------
(* What holds between two calls, and is kept by each.                      *)

Screens == [0..(Pixels - 1) -> Argb]

\* The mode holds numbers that were set together with a back buffer of that
\* size, and the display shows it.
VbeInvariant ==
    /\ mode \in [width : 0..(Modulus16 - 1), height : 0..(Modulus16 - 1),
                 bpp : Depths \cup {0}, font_width : 0..8, font_height : 0..FontRows]
    /\ backbuffer \in Screens
    /\ display \in [enabled : BOOLEAN, xres : 0..(Modulus16 - 1), yres : 0..(Modulus16 - 1),
                    bpp : Depths \cup {0}]
    /\ display.enabled => /\ display.xres = mode.width /\ display.yres = mode.height
                          /\ display.bpp = mode.bpp /\ mode.bpp \in Depths
    /\ mode.width # 0 => mode.font_width # 0 /\ mode.font_height # 0
=============================================================================
