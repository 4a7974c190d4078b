------------------------------- MODULE MCVbe -------------------------------
(* Vbe on screens of four and of two pixels; a bitmap of 2 by 2 with one     *)
(* transparent, one opaque and two blended pixels; two glyphs of one row;   *)
(* coordinates on the screen, off it and just below the wrap of uint32_t.   *)
EXTENDS Vbe, TLC

MCSizes == { << 2, 2 >>, << 1, 2 >> }

Red  == Color(255, 255)
Pale == Color(254, 200)
None == Color(0, 90)

MCColors == { Pale }

MCInks == { << Pale, Black >>, << Black, Red >> }

MCBitmaps == { [width |-> 2, height |-> 2, pixels |-> << None, Red, Pale, Pale >>] }

MCFont == (65 :> (0 :> {0} @@ 1 :> {1})) @@ (66 :> (0 :> {1} @@ 1 :> {}))

MCStrings == { << 65, 66, NewLine, 66 >> }

MCFonts == { << 1, 1 >>, << 2, 2 >> }
=============================================================================
