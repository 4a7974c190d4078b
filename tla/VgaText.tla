------------------------------ MODULE VgaText ------------------------------
(***************************************************************************)
(* drivers/x64/Video/vga/vga.c: the text console at 0xB8000.               *)
(*                                                                         *)
(* A character is its code 0..255 as the string holds it; a cell is the    *)
(* attribute and the character of one 16-bit word.  Text memory goes on    *)
(* after the VGA_HEIGHT rows that are displayed.  The code has no last     *)
(* row; MaxRows bounds how far the runs follow it.  This is the console as *)
(* its clients see it; module Printk is the printk that writes to it and   *)
(* has its specification.                                                  *)
(* Definitions F_Something are F with a plausible mistake, as in Scheduler.*)
(***************************************************************************)
EXTENDS Integers, Sequences

CONSTANTS
    VGA_WIDTH, VGA_HEIGHT,
    Strings,      \* the strings clients write
    Colors,       \* the colours, of 0..15, they choose
    MaxRows       \* bound on the rows a run fills

NewLine == 10
Space   == 32
Char    == 1..255   \* of a string; 0 ends it

ASSUME VgaAssumption ==
    /\ VGA_WIDTH \in Nat \ {0} /\ VGA_HEIGHT \in Nat \ {0}
    /\ MaxRows \in Nat /\ MaxRows >= VGA_HEIGHT
    /\ Colors \subseteq 0..15
    /\ Strings \subseteq Seq(Char)

VARIABLES
    vga_row, vga_column, vga_color,
    vga_buffer,   \* text memory; a word not written yet is Unwritten
    since,        \* history: the cursor at the last vga_init
    text          \* history: the characters asked for since then, each with the
                  \* colour that was set

screen == << vga_row, vga_column, vga_color, vga_buffer, since, text >>

Unwritten == << >>

Cell(attribute, c) == [attribute |-> attribute, char |-> c]

Cells == {Unwritten} \cup [attribute : 0..255, char : Char]

Asked == [color : 0..255, char : Char]

Blank == {Unwritten} \cup [attribute : 0..255, char : {Space}]

\* The members of a sequence that are not in a set, in their order.
Without(seq, set) ==
    LET kept[k \in 0..Len(seq)] ==
          IF k = 0 THEN << >>
          ELSE IF seq[k] \in set THEN kept[k - 1]
          ELSE Append(kept[k - 1], seq[k])
    IN  kept[Len(seq)]

Cursor == vga_row * VGA_WIDTH + vga_column

Indices == 0..(VGA_WIDTH * MaxRows - 1)

\* What vga_write_string changes as it goes through a string.
Console == [row |-> vga_row, column |-> vga_column, buffer |-> vga_buffer]

VgaInit ==
    /\ vga_row = 0
    /\ vga_column = 0
    /\ vga_color = 0
    /\ vga_buffer = [i \in Indices |-> Unwritten]
    /\ since = 0
    /\ text = << >>

vga_set_color(fg, bg) ==
    /\ vga_color' = (fg + 16 * bg) % 256
    /\ UNCHANGED << vga_row, vga_column, vga_buffer, since, text >>

\* Light grey on black, on the displayed rows only; the cursor stays.
vga_init ==
    /\ vga_color' = 7
    /\ vga_buffer' = [i \in Indices |-> IF i < VGA_WIDTH * VGA_HEIGHT
                                         THEN Cell(7, Space) ELSE vga_buffer[i]]
    /\ since' = Cursor
    /\ text' = << >>
    /\ UNCHANGED << vga_row, vga_column >>

\* char is signed: from 128 on the sign fills the attribute.
Word_Masked(c) == Cell(vga_color, c)
Word(c) == Cell(IF c >= 128 THEN 255 ELSE vga_color, c)

PutChar_LateWrap(con, c) ==
    IF c = NewLine THEN [con EXCEPT !.column = 0, !.row = @ + 1]
    ELSE LET full   == con.column > VGA_WIDTH
             row    == IF full THEN con.row + 1 ELSE con.row
             column == IF full THEN 0 ELSE con.column
         IN  [row |-> row, column |-> column + 1,
              buffer |-> [con.buffer EXCEPT ![row * VGA_WIDTH + column] = Word(c)]]
PutChar_SameRow(con, c) ==
    IF c = NewLine THEN [con EXCEPT !.column = 0, !.row = @ + 1]
    ELSE LET column == IF con.column >= VGA_WIDTH THEN 0 ELSE con.column
         IN  [con EXCEPT !.column = column + 1,
                         !.buffer = [@ EXCEPT ![con.row * VGA_WIDTH + column] = Word(c)]]
PutChar(con, c) ==
    IF c = NewLine THEN [con EXCEPT !.column = 0, !.row = @ + 1]
    ELSE LET full   == con.column >= VGA_WIDTH
             row    == IF full THEN con.row + 1 ELSE con.row
             column == IF full THEN 0 ELSE con.column
         IN  [row |-> row, column |-> column + 1,
              buffer |-> [con.buffer EXCEPT ![row * VGA_WIDTH + column] = Word(c)]]

\* The console after the loop over a string.
Written(s) ==
    LET written[k \in 0..Len(s)] ==
          IF k = 0 THEN Console ELSE PutChar(written[k - 1], s[k])
    IN  written[Len(s)]

vga_write_string(s) ==
    /\ LET con == Written(s)
       IN  /\ vga_row' = con.row
           /\ vga_column' = con.column
           /\ vga_buffer' = con.buffer
    /\ LET visible == Without(s, {NewLine, Space})
       IN  text' = text \o [k \in 1..Len(visible) |->
                               [color |-> vga_color, char |-> visible[k]]]
    /\ UNCHANGED << vga_color, since >>

\* A string of n characters keeps to the bound: it advances by at most a row
\* per character.
Fits(n) == vga_row + n < MaxRows

\* What clients other than printk do.
VgaNext ==
    \/ \E fg, bg \in Colors : vga_set_color(fg, bg)
    \/ vga_init
    \/ \E s \in Strings : Fits(Len(s)) /\ vga_write_string(s)

-----------------------------------------------------------------------------
(* Properties                                                              *)

\* Every variable holds a value of its kind; the column never passes the end
\* of a row.
VgaTypeOK ==
    /\ vga_row \in 0..(MaxRows - 1)
    /\ vga_column \in 0..VGA_WIDTH
    /\ vga_color \in 0..255
    /\ \A i \in Indices : vga_buffer[i] \in Cells
    /\ since \in 0..(VGA_WIDTH * MaxRows)

\* Everything from the cursor on is blank, whatever mix of full lines, line
\* ends and vga_init calls came before: writing overwrites no text.
BlankAhead == \A i \in Indices : i >= Cursor => vga_buffer[i] \in Blank

\* How a character asked for appears: an ASCII one in the colour that was set
\* when it was written; one from 128 up always white on white, 255, whatever
\* colour was set.
Seen(asked) ==
    Cell(IF asked.char < 128 THEN asked.color ELSE 255, asked.char)

\* Read in order, text memory shows every character written since the last
\* vga_init and no other: none is lost at the end of a line, and a later change
\* of colour leaves it as it was.
ShowsText ==
    Without([k \in 1..(VGA_WIDTH * MaxRows - since) |-> vga_buffer[since + k - 1]], Blank)
      = [k \in 1..Len(text) |-> Seen(text[k])]

-----------------------------------------------------------------------------
(* Why they hold: what each call, the whole of it, keeps.                  *)

ConsoleInvariant ==
    /\ vga_row \in 0..(MaxRows - 1) /\ vga_column \in 0..VGA_WIDTH /\ vga_color \in 0..255
    /\ vga_buffer \in [Indices -> Cells]
    /\ since \in 0..Cursor /\ text \in Seq(Asked)
    /\ BlankAhead /\ ShowsText
=============================================================================
