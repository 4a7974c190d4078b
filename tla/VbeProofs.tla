----------------------------- MODULE VbeProofs -----------------------------
(***************************************************************************)
(* Theorems about Vbe, for every mode, bitmap, font and text that fits 32  *)
(* bits: the invariant, where bitmaps and text come out, scrolling,        *)
(* blending and the display.                                               *)
(*                                                                         *)
(* The loops of the code are recursive functions in Vbe.  Iterates says    *)
(* that such a function has the values its equation gives, and             *)
(* SetInduction is the induction over the passes of a loop.                *)
(***************************************************************************)
EXTENDS Vbe, FiniteSetTheorems, WellFoundedInduction, TLAPS

-----------------------------------------------------------------------------
(* Induction and loops.                                                    *)

\* Induction on the natural numbers, for a set of them: Nat is well founded.
LEMMA SetInduction ==
    ASSUME NEW T, 0 \in T, \A n \in Nat : n \in T => n + 1 \in T
    PROVE  Nat \subseteq T
<1> DEFINE Rest == Nat \ T
           R == OpToRel(<, Nat)
<1> SUFFICES ASSUME Rest # {} PROVE FALSE
  OBVIOUS
<1>1. PICK x \in Rest : \A y \in Rest : ~ (<< y, x >> \in R)
  <2>1. IsWellFoundedOn(R, Nat)
    BY NatLessThanWellFounded
  <2>2. Rest \subseteq Nat /\ Rest # {}
    OBVIOUS
  <2> HIDE DEF R, Rest
  <2> QED BY <2>1, <2>2, WFMin, Zenon
<1>2. \A y \in Nat : << y, x >> \in R <=> y < x
  BY DEF OpToRel
<1>3. x - 1 \in Nat /\ x - 1 < x /\ x = (x - 1) + 1
  <2>1. x # 0
    OBVIOUS
  <2> QED BY <2>1
<1>4. x - 1 \in T
  BY <1>1, <1>2, <1>3
<1> QED BY <1>3, <1>4

\* A loop: n steps, each a function on a set of states.
LEMMA Iterates ==
    ASSUME NEW States, NEW base \in States, NEW n \in Nat,
           NEW F \in [1..n -> [States -> States]]
    PROVE  \E g \in [0..n -> States] :
              /\ g[0] = base
              /\ \A k \in 1..n : g[k] = F[k][g[k - 1]]
<1> DEFINE Good(g, m) == g[0] = base /\ \A k \in 1..m : g[k] = F[k][g[k - 1]]
           T == {m \in Nat : m <= n => \E g \in [0..m -> States] : Good(g, m)}
<1>1. 0 \in T
  <2> DEFINE g == [k \in 0..0 |-> base]
  <2>1. g \in [0..0 -> States] /\ Good(g, 0)
    OBVIOUS
  <2> QED BY <2>1
<1>2. ASSUME NEW m \in Nat, m \in T PROVE m + 1 \in T
  <2> SUFFICES ASSUME m + 1 <= n PROVE \E g \in [0..(m + 1) -> States] : Good(g, m + 1)
    OBVIOUS
  <2>1. PICK f \in [0..m -> States] : Good(f, m)
    BY <1>2
  <2> DEFINE g == [k \in 0..(m + 1) |-> IF k <= m THEN f[k] ELSE F[m + 1][f[m]]]
  <2>2. F[m + 1] \in [States -> States] /\ f[m] \in States
    OBVIOUS
  <2>3. g \in [0..(m + 1) -> States]
    BY <2>2
  <2>4. ASSUME NEW k \in 1..(m + 1) PROVE g[k] = F[k][g[k - 1]]
    <3>1. CASE k <= m
      BY <2>1, <3>1
    <3>2. CASE k = m + 1
      BY <3>2
    <3> QED BY <3>1, <3>2
  <2>5. g[0] = base
    BY <2>1
  <2> QED BY <2>3, <2>4, <2>5
<1>3. n \in T
  <2> HIDE DEF T
  <2> QED BY <1>1, <1>2, SetInduction
<1> QED BY <1>3

-----------------------------------------------------------------------------
(* Arithmetic.                                                             *)

\* A number below a product is a row and a column.
LEMMA Product ==
    ASSUME NEW w \in Nat, NEW h \in Nat, NEW v \in 0..(h - 1)
    PROVE  v * w \in Nat /\ v * w + w <= h * w
<1>1. PICK e \in Nat : h = v + 1 + e
  <2>1. h - v - 1 \in Nat /\ h = v + 1 + (h - v - 1)
    OBVIOUS
  <2> QED BY <2>1
<1>2. h * w = v * w + w + e * w
  BY <1>1
<1>3. v * w \in Nat /\ e * w \in Nat
  BY <1>1
<1> QED BY <1>2, <1>3

\* Its place in a frame of rows.
LEMMA InFrame ==
    ASSUME NEW w \in Nat, NEW h \in Nat, NEW u \in 0..(w - 1), NEW v \in 0..(h - 1)
    PROVE  v * w + u \in 0..(w * h - 1)
<1>1. v * w \in Nat /\ v * w + w <= h * w
  BY Product
<1>2. h * w = w * h
  OBVIOUS
<1> QED BY <1>1, <1>2

\* A remainder is told by its range.
LEMMA Remainder ==
    ASSUME NEW w \in Nat \ {0}, NEW u \in 0..(w - 1), NEW q \in Int
    PROVE  (q * w + u) % w = u /\ (q * w + u) \div w = q
<1>1. w * q + u \in Int /\ q * w = w * q
  OBVIOUS
<1>2. (w * q + u) % w = u /\ (w * q + u) \div w = q
  OBVIOUS
<1> QED BY <1>1, <1>2

\* No two places share a number.
LEMMA OnePlace ==
    ASSUME NEW w \in Nat, NEW u \in 0..(w - 1), NEW p \in 0..(w - 1),
           NEW v \in Nat, NEW q \in Nat, v * w + u = q * w + p
    PROVE  u = p /\ v = q
<1>1. w \in Nat \ {0}
  OBVIOUS
<1> QED BY <1>1, Remainder

\* Every number is a row and a column.
LEMMA RowAndColumn ==
    ASSUME NEW w \in Nat, NEW h \in Nat, NEW k \in 0..(w * h - 1)
    PROVE  /\ w # 0
           /\ k % w \in 0..(w - 1) /\ k \div w \in 0..(h - 1)
           /\ k = (k \div w) * w + (k % w)
<1>1. w # 0
  OBVIOUS
<1>2. k % w \in 0..(w - 1) /\ k \div w \in Nat /\ k = (k \div w) * w + (k % w)
  BY <1>1
<1> DEFINE q == k \div w
           r == k % w
<1>3. q < h
  <2>1. q \in Nat /\ r \in Nat /\ k = q * w + r /\ k < w * h /\ w * h = h * w
    BY <1>2
  <2> HIDE DEF q, r
  <2> SUFFICES ASSUME h <= q PROVE FALSE
    BY <2>1
  <2>2. PICK e \in Nat : q = h + e
    <3>1. q - h \in Nat /\ q = h + (q - h)
      BY <2>1
    <3> QED BY <3>1
  <2>3. q * w = h * w + e * w /\ e * w \in Nat
    BY <2>2
  <2> QED BY <2>1, <2>3
<1> QED BY <1>1, <1>2, <1>3

\* A coordinate that wraps, and where it lies in what was drawn.
LEMMA Wraps ==
    ASSUME NEW x \in Int, NEW i \in 0..(Modulus - 1), NEW u \in 0..(Modulus - 1)
    PROVE  Add(x, i) = u <=> Offset(u, x) = i
<1> DEFINE M == Modulus
<1>1. M \in Nat \ {0} /\ i \in 0..(M - 1) /\ u \in 0..(M - 1)
  BY VbeAssumption
<1> HIDE DEF M
<1>2. ASSUME (x + i) % M = u PROVE (u - x) % M = i
  <2> DEFINE q == (x + i) \div M
  <2>1. q \in Int /\ x + i = M * q + u
    BY <1>1, <1>2
  <2> HIDE DEF q
  <2>2. u - x = (-q) * M + i
    BY <1>1, <2>1
  <2>3. -q \in Int
    BY <2>1
  <2> QED BY <1>1, <2>2, <2>3, Remainder
<1>3. ASSUME (u - x) % M = i PROVE (x + i) % M = u
  <2> DEFINE q == (u - x) \div M
  <2>1. q \in Int /\ u - x = M * q + i
    BY <1>1, <1>3
  <2> HIDE DEF q
  <2>2. x + i = (-q) * M + u
    BY <1>1, <2>1
  <2>3. -q \in Int
    BY <2>1
  <2> QED BY <1>1, <2>2, <2>3, Remainder
<1> QED BY <1>2, <1>3 DEF Add, Offset, M

-----------------------------------------------------------------------------
(* Drawing.                                                                *)

\* The numbers that bound everything.
LEMMA Limits ==
    /\ Modulus \in Nat \ {0} /\ Modulus16 \in 1..Modulus
    /\ FontRows \in 1..(Modulus - 1)
BY VbeAssumption

\* What the mode and what is drawn must be.
Sized == mode.width \in 0..(Modulus - 1) /\ mode.height \in 0..(Modulus - 1)

Picture(p) ==
    /\ p.width \in 0..Modulus /\ p.height \in 0..Modulus
    /\ \A k \in 1..(p.width * p.height) : p.pixels[k] \in Argb

\* One pass of the inner loop.
Dot(buffer, x, y, p, k) ==
    vbe_draw_pixel(buffer, Add(x, (k - 1) % p.width), Add(y, (k - 1) \div p.width), p.pixels[k])

\* A blend of two bytes is a byte.
LEMMA BlendedByte ==
    ASSUME NEW a \in 0..255, NEW b \in 0..255, NEW c \in 0..255
    PROVE  (c * a + b * (255 - a)) \div 255 \in 0..255
<1>1. c * a \in Nat /\ c * a <= 255 * a
  <2>1. (255 - c) * a \in Nat
    OBVIOUS
  <2>2. (255 - c) * a = 255 * a - c * a /\ c * a \in Nat
    OBVIOUS
  <2> QED BY <2>1, <2>2
<1>2. b * (255 - a) \in Nat /\ b * (255 - a) <= 255 * (255 - a)
  <2>1. (255 - b) * (255 - a) \in Nat
    OBVIOUS
  <2>2. (255 - b) * (255 - a) = 255 * (255 - a) - b * (255 - a) /\ b * (255 - a) \in Nat
    OBVIOUS
  <2> QED BY <2>1, <2>2
<1> DEFINE s == c * a + b * (255 - a)
           n == c * a
           m == b * (255 - a)
<1>3. s \in Nat /\ s <= 255 * 255
  <2>1. n \in Nat /\ m \in Nat /\ n <= 255 * a /\ m <= 255 * (255 - a) /\ s = n + m
    BY <1>1, <1>2
  <2> HIDE DEF s, n, m
  <2> QED BY <2>1
<1> HIDE DEF s
<1>4. s \div 255 \in 0..255
  BY <1>3
<1> QED BY <1>4 DEF s

\* A blend of two pixels is a pixel.
LEMMA Blended ==
    ASSUME NEW color \in Argb, NEW bg \in Argb
    PROVE  Blend(color, bg) \in Argb
<1>1. /\ color.alpha \in 0..255 /\ color.value \in 0..255 /\ bg.value \in 0..255
  BY DEF Argb
<1> DEFINE v == (color.value * color.alpha + bg.value * (255 - color.alpha)) \div 255
<1>2. v \in 0..255
  BY <1>1, BlendedByte, ZenonT(40)
<1>3. Color(255, v) \in Argb
  <2> HIDE DEF v
  <2> QED BY <1>2 DEF Color, Argb
<1> HIDE DEF v
<1> QED BY <1>3 DEF Blend, v

\* A pixel drawn changes that place of the screen only, if it is on it.
LEMMA PixelDrawn ==
    ASSUME Sized, NEW buffer \in Screens, NEW x \in Nat, NEW y \in Nat, NEW color \in Argb
    PROVE  /\ vbe_draw_pixel(buffer, x, y, color) \in Screens
           /\ \A u \in Columns, v \in Rows :
                 At(vbe_draw_pixel(buffer, x, y, color), u, v)
                   = IF u = x /\ v = y THEN Blend(color, At(buffer, u, v)) ELSE At(buffer, u, v)
<1>1. mode.width \in Nat /\ mode.height \in Nat
  BY Limits DEF Sized
<1>2. \A u \in Columns, v \in Rows : v * mode.width + u \in 0..(Pixels - 1)
  BY <1>1, InFrame DEF Columns, Rows, Pixels
<1>3. CASE x >= mode.width \/ y >= mode.height
  <2>1. vbe_draw_pixel(buffer, x, y, color) = buffer
    BY <1>3 DEF vbe_draw_pixel
  <2>2. \A u \in Columns, v \in Rows : ~(u = x /\ v = y)
    BY <1>1, <1>3 DEF Columns, Rows
  <2> QED BY <2>1, <2>2
<1>4. CASE ~(x >= mode.width \/ y >= mode.height)
  <2> DEFINE place == y * mode.width + x
             dot   == Blend(color, buffer[place])
  <2>1. x \in Columns /\ y \in Rows
    BY <1>1, <1>4 DEF Columns, Rows
  <2>2. place \in 0..(Pixels - 1)
    BY <1>2, <2>1
  <2>3. dot \in Argb
    BY <2>2, Blended DEF Screens
  <2>4. vbe_draw_pixel(buffer, x, y, color) = [buffer EXCEPT ![place] = dot]
    BY <1>4 DEF vbe_draw_pixel
  <2>5. [buffer EXCEPT ![place] = dot] \in Screens
    <3> HIDE DEF place, dot
    <3> QED BY <2>3 DEF Screens
  <2>6. ASSUME NEW u \in Columns, NEW v \in Rows
        PROVE  At([buffer EXCEPT ![place] = dot], u, v)
                 = IF u = x /\ v = y THEN Blend(color, At(buffer, u, v)) ELSE At(buffer, u, v)
    <3> DEFINE here == v * mode.width + u
    <3>1. here \in 0..(Pixels - 1)
      BY <1>2
    <3>2. CASE u = x /\ v = y
      <4>1. here = place
        BY <3>2
      <4>2. [buffer EXCEPT ![place] = dot][here] = dot
        <5> HIDE DEF dot, here, place
        <5> QED BY <3>1, <4>1 DEF Screens
      <4>3. dot = Blend(color, buffer[here])
        BY <4>1
      <4> QED BY <3>2, <4>2, <4>3 DEF At
    <3>3. CASE ~(u = x /\ v = y)
      <4>1. here # place
        <5>1. u \in 0..(mode.width - 1) /\ x \in 0..(mode.width - 1) /\ v \in Nat /\ y \in Nat
          BY <1>1, <2>1 DEF Columns, Rows
        <5> QED BY <1>1, <3>3, <5>1, OnePlace
      <4>2. [buffer EXCEPT ![place] = dot][here] = buffer[here]
        <5> HIDE DEF dot, here, place
        <5> QED BY <3>1, <4>1 DEF Screens
      <4> QED BY <3>3, <4>2 DEF At
    <3> QED BY <3>2, <3>3
  <2> HIDE DEF place, dot
  <2> QED BY <2>4, <2>5, <2>6
<1> QED BY <1>3, <1>4

\* What a pass draws: a pixel of the picture, at a place 32 bits can hold.
LEMMA PassDrawn ==
    ASSUME Sized, NEW p, Picture(p), NEW k \in 1..(p.width * p.height),
           NEW x \in Int, NEW y \in Int
    PROVE  /\ Add(x, (k - 1) % p.width) \in Nat
           /\ Add(y, (k - 1) \div p.width) \in Nat
           /\ p.pixels[k] \in Argb
           /\ (k - 1) % p.width \in 0..(p.width - 1)
           /\ (k - 1) \div p.width \in 0..(p.height - 1)
           /\ k - 1 = ((k - 1) \div p.width) * p.width + ((k - 1) % p.width)
<1>1. p.width \in Nat /\ p.height \in Nat /\ Modulus \in Nat \ {0}
  BY Limits DEF Picture
<1>2. k - 1 \in 0..(p.width * p.height - 1)
  BY <1>1
<1>3. /\ (k - 1) % p.width \in 0..(p.width - 1)
      /\ (k - 1) \div p.width \in 0..(p.height - 1)
      /\ k - 1 = ((k - 1) \div p.width) * p.width + ((k - 1) % p.width)
  BY <1>1, <1>2, RowAndColumn
<1>4. /\ Add(x, (k - 1) % p.width) \in Nat
      /\ Add(y, (k - 1) \div p.width) \in Nat
  <2> DEFINE c == (k - 1) % p.width
             r == (k - 1) \div p.width
  <2>1. c \in Int /\ r \in Int
    BY <1>1, <1>3
  <2> HIDE DEF c, r
  <2>2. (x + c) % Modulus \in Nat /\ (y + r) % Modulus \in Nat
    BY <1>1, <2>1
  <2> QED BY <2>2 DEF Add, c, r
<1> QED BY <1>3, <1>4 DEF Picture

\* The passes of the loops, one after the other.
LEMMA LoopsPass ==
    ASSUME Sized, NEW buffer \in Screens, NEW x \in Int, NEW y \in Int, NEW p, Picture(p)
    PROVE  \E drawn \in [0..(p.width * p.height) -> Screens] :
              /\ drawn[0] = buffer
              /\ \A k \in 1..(p.width * p.height) : drawn[k] = Dot(drawn[k - 1], x, y, p, k)
              /\ Loops(buffer, x, y, p) = drawn[p.width * p.height]
<1> DEFINE n       == p.width * p.height
           Body(g) == [k \in 0..n |-> IF k = 0 THEN buffer ELSE Dot(g[k - 1], x, y, p, k)]
           drawn   == CHOOSE g : g = Body(g)
           F       == [k \in 1..n |-> [b \in Screens |-> Dot(b, x, y, p, k)]]
<1>1. n \in Nat
  BY Limits DEF Picture
<1>2. Loops(buffer, x, y, p) = drawn[n]
  BY DEF Loops, Dot
<1>3. \A k \in 1..n : \A b \in Screens : Dot(b, x, y, p, k) \in Screens
  <2> SUFFICES ASSUME NEW k \in 1..n, NEW b \in Screens PROVE Dot(b, x, y, p, k) \in Screens
    OBVIOUS
  <2>1. /\ Add(x, (k - 1) % p.width) \in Nat
        /\ Add(y, (k - 1) \div p.width) \in Nat
        /\ p.pixels[k] \in Argb
    BY PassDrawn
  <2> QED BY <2>1, PixelDrawn DEF Dot
<1> HIDE DEF n
<1>4. F \in [1..n -> [Screens -> Screens]]
  BY <1>3
<1>5. PICK g \in [0..n -> Screens] : g[0] = buffer /\ \A k \in 1..n : g[k] = F[k][g[k - 1]]
  <2> HIDE DEF F
  <2> QED BY <1>1, <1>4, Iterates
<1>6. ASSUME NEW k \in 1..n PROVE g[k] = Dot(g[k - 1], x, y, p, k)
  <2>1. k - 1 \in 0..n
    BY <1>1
  <2>2. g[k - 1] \in Screens
    BY <1>5, <2>1
  <2>3. F[k] = [b \in Screens |-> Dot(b, x, y, p, k)]
    OBVIOUS
  <2> HIDE DEF F
  <2> QED BY <1>5, <2>2, <2>3
<1>7. g = Body(g)
  BY <1>1, <1>5, <1>6
<1>8. drawn = Body(drawn)
  <2> HIDE DEF Body
  <2> QED BY <1>7
<1>9. DOMAIN drawn = 0..n /\ drawn[0] = buffer
  <2> HIDE DEF drawn
  <2> QED BY <1>1, <1>8
<1>10. ASSUME NEW k \in 1..n PROVE drawn[k] = Dot(drawn[k - 1], x, y, p, k)
  <2> HIDE DEF drawn
  <2> QED BY <1>1, <1>8
<1>11. drawn = [k \in 0..n |-> drawn[k]]
  <2> HIDE DEF drawn
  <2> QED BY <1>8
<1>12. \A m \in Nat : m \in 0..n => drawn[m] \in Screens
  <2> DEFINE T == {m \in Nat : m \in 0..n => drawn[m] \in Screens}
  <2> HIDE DEF drawn
  <2>1. 0 \in T
    BY <1>9
  <2>2. ASSUME NEW m \in Nat, m \in T PROVE m + 1 \in T
    <3> SUFFICES ASSUME m + 1 \in 0..n PROVE drawn[m + 1] \in Screens
      OBVIOUS
    <3>1. m \in 0..n /\ m + 1 \in 1..n /\ (m + 1) - 1 = m
      BY <1>1
    <3>2. drawn[m] \in Screens
      BY <2>2, <3>1
    <3> QED BY <1>3, <1>10, <3>1, <3>2
  <2>3. Nat \subseteq T
    <3> HIDE DEF T
    <3> QED BY <2>1, <2>2, SetInduction
  <2> QED BY <2>3
<1>13. drawn \in [0..n -> Screens]
  <2> HIDE DEF drawn
  <2> QED BY <1>1, <1>11, <1>12
<1> HIDE DEF drawn
<1> QED BY <1>2, <1>9, <1>10, <1>13 DEF n

\* Which pass draws a place of the screen: the one for the pixel of the
\* picture that covers it.
LEMMA PassAt ==
    ASSUME Sized, NEW p, Picture(p), NEW k \in 1..(p.width * p.height),
           NEW x \in Int, NEW y \in Int, NEW u \in Columns, NEW v \in Rows
    PROVE  /\ Offset(u, x) \in Nat /\ Offset(v, y) \in Nat
           /\ u = Add(x, (k - 1) % p.width) /\ v = Add(y, (k - 1) \div p.width)
                <=> /\ Offset(u, x) < p.width
                    /\ Offset(v, y) < p.height
                    /\ Offset(v, y) * p.width + Offset(u, x) = k - 1
<1> DEFINE c == (k - 1) % p.width
           r == (k - 1) \div p.width
           i == Offset(u, x)
           j == Offset(v, y)
           w == p.width
           h == p.height
<1>1. /\ w \in Nat /\ h \in Nat /\ Modulus \in Nat \ {0}
      /\ w <= Modulus /\ h <= Modulus
      /\ u \in 0..(Modulus - 1) /\ v \in 0..(Modulus - 1)
  BY Limits DEF Picture, Sized, Columns, Rows
<1>2. c \in 0..(w - 1) /\ r \in 0..(h - 1) /\ k - 1 = r * w + c
  BY PassDrawn
<1>3. i \in Nat /\ j \in Nat
  BY <1>1 DEF Offset
<1>4. u = Add(x, c) <=> i = c
  <2>1. c \in 0..(Modulus - 1)
    BY <1>1, <1>2
  <2> HIDE DEF c
  <2> QED BY <1>1, <2>1, Wraps
<1>5. v = Add(y, r) <=> j = r
  <2>1. r \in 0..(Modulus - 1)
    BY <1>1, <1>2
  <2> HIDE DEF r
  <2> QED BY <1>1, <2>1, Wraps
<1>6. i < w /\ j * w + i = k - 1 => i = c /\ j = r
  <2> HIDE DEF c, r, i, j, w, h
  <2> SUFFICES ASSUME i < w, j * w + i = k - 1 PROVE i = c /\ j = r
    OBVIOUS
  <2>1. i \in 0..(w - 1) /\ r \in Nat /\ j * w + i = r * w + c
    BY <1>1, <1>2, <1>3
  <2> QED BY <1>1, <1>2, <1>3, <2>1, OnePlace
<1>7. i = c /\ j = r => i < w /\ j < h /\ j * w + i = k - 1
  <2> HIDE DEF c, r, i, j, w, h
  <2> QED BY <1>1, <1>2
<1> HIDE DEF c, r, i, j, w, h
<1>8. u = Add(x, c) /\ v = Add(y, r) <=> i < w /\ j < h /\ j * w + i = k - 1
  BY <1>4, <1>5, <1>6, <1>7
<1> QED BY <1>3, <1>8 DEF c, r, i, j, w, h

\* What the loops leave: each place of the screen that the picture covers
\* blended once with the pixel that covers it, the others as they were.
Covered(buffer, x, y, p, u, v) ==
    IF Offset(u, x) < p.width /\ Offset(v, y) < p.height
      THEN Blend(p.pixels[Offset(v, y) * p.width + Offset(u, x) + 1], At(buffer, u, v))
      ELSE At(buffer, u, v)

\* The loops draw the picture.
LEMMA LoopsPlace ==
    ASSUME Sized, NEW buffer \in Screens, NEW x \in Int, NEW y \in Int, NEW p, Picture(p)
    PROVE  /\ Loops(buffer, x, y, p) \in Screens
           /\ \A u \in Columns, v \in Rows :
                 At(Loops(buffer, x, y, p), u, v) = Covered(buffer, x, y, p, u, v)
<1> DEFINE n == p.width * p.height
<1>1. n \in Nat /\ p.width \in Nat /\ p.height \in Nat
  BY Limits DEF Picture
<1>2. PICK drawn \in [0..n -> Screens] :
         /\ drawn[0] = buffer
         /\ \A k \in 1..n : drawn[k] = Dot(drawn[k - 1], x, y, p, k)
         /\ Loops(buffer, x, y, p) = drawn[n]
  BY LoopsPass
<1>3. drawn[n] \in Screens
  <2> HIDE DEF n
  <2> QED BY <1>1, <1>2
<1>4. ASSUME NEW u \in Columns, NEW v \in Rows
      PROVE  At(drawn[n], u, v) = Covered(buffer, x, y, p, u, v)
  <2> DEFINE i       == Offset(u, x)
             j       == Offset(v, y)
             In      == i < p.width /\ j < p.height
             pixel   == p.pixels[j * p.width + i + 1]
             Done(m) == IF In /\ j * p.width + i < m
                          THEN Blend(pixel, At(buffer, u, v)) ELSE At(buffer, u, v)
             T       == {m \in Nat : m \in 0..n => At(drawn[m], u, v) = Done(m)}
  <2>1. i \in Nat /\ j \in Nat /\ j * p.width + i \in Nat
    <3>1. i \in Nat /\ j \in Nat
      BY Limits DEF Offset, Columns, Rows, Sized
    <3> HIDE DEF i, j
    <3>2. j * p.width \in Nat
      BY <1>1, <3>1
    <3> QED BY <3>1, <3>2
  <2>2. 0 \in T
    <3>1. Done(0) = At(buffer, u, v)
      <4> HIDE DEF i, j
      <4> QED BY <2>1
    <3> HIDE DEF Done
    <3> QED BY <1>2, <3>1
  <2>3. ASSUME NEW m \in Nat, m \in T PROVE m + 1 \in T
    <3> SUFFICES ASSUME m + 1 \in 0..n PROVE At(drawn[m + 1], u, v) = Done(m + 1)
      OBVIOUS
    <3> DEFINE k == m + 1
               dx == Add(x, (k - 1) % p.width)
               dy == Add(y, (k - 1) \div p.width)
    <3>1. m \in 0..n /\ k \in 1..n /\ k - 1 = m
      BY <1>1
    <3>2. drawn[m] \in Screens
      BY <1>2, <3>1
    <3>3. At(drawn[m], u, v) = Done(m)
      BY <2>3, <3>1
    <3>4. dx \in Nat /\ dy \in Nat /\ p.pixels[k] \in Argb
      BY <3>1, PassDrawn
    <3>5. drawn[k] = vbe_draw_pixel(drawn[m], dx, dy, p.pixels[k])
      <4>1. drawn[k] = Dot(drawn[k - 1], x, y, p, k)
        <5> HIDE DEF k
        <5> QED BY <1>2, <3>1
      <4> QED BY <3>1, <4>1 DEF Dot
    <3>6. At(drawn[k], u, v) = IF u = dx /\ v = dy THEN Blend(p.pixels[k], At(drawn[m], u, v))
                               ELSE At(drawn[m], u, v)
      <4> DEFINE B == drawn[m]
                 c == p.pixels[k]
      <4>1. B \in Screens /\ dx \in Nat /\ dy \in Nat /\ c \in Argb
        BY <3>2, <3>4
      <4> HIDE DEF dx, dy, k, B, c
      <4>2. At(vbe_draw_pixel(B, dx, dy, c), u, v)
              = IF u = dx /\ v = dy THEN Blend(c, At(B, u, v)) ELSE At(B, u, v)
        BY <4>1, PixelDrawn
      <4> QED BY <3>5, <4>2 DEF B, c
    <3>7. u = dx /\ v = dy <=> i < p.width /\ j < p.height /\ j * p.width + i = k - 1
      BY <3>1, PassAt
    <3>8. CASE In /\ j * p.width + i = m
      <4>1. u = dx /\ v = dy
        BY <3>1, <3>7, <3>8
      <4>2. pixel = p.pixels[k]
        BY <3>8
      <4>3. Done(m) = At(buffer, u, v) /\ Done(k) = Blend(pixel, At(buffer, u, v))
        <5> HIDE DEF i, j, pixel
        <5> QED BY <2>1, <3>1, <3>8
      <4> HIDE DEF Done, dx, dy, k, pixel
      <4> QED BY <3>3, <3>6, <4>1, <4>2, <4>3 DEF k
    <3>9. CASE ~(In /\ j * p.width + i = m)
      <4>1. ~(u = dx /\ v = dy)
        <5> HIDE DEF i, j, dx, dy
        <5> QED BY <3>1, <3>7, <3>9
      <4>2. Done(m) = Done(k)
        <5> HIDE DEF i, j, pixel
        <5> QED BY <2>1, <3>1, <3>9
      <4> HIDE DEF Done, dx, dy
      <4> QED BY <3>3, <3>6, <4>1, <4>2
    <3> QED BY <3>8, <3>9
  <2>4. Nat \subseteq T
    <3> HIDE DEF T
    <3> QED BY <2>2, <2>3, SetInduction
  <2>5. At(drawn[n], u, v) = Done(n)
    <3> HIDE DEF n, Done
    <3> QED BY <1>1, <2>4
  <2>6. In => j * p.width + i < n
    <3> SUFFICES ASSUME In PROVE j * p.width + i < n
      OBVIOUS
    <3>1. i \in 0..(p.width - 1) /\ j \in 0..(p.height - 1)
      <4> HIDE DEF i, j
      <4> QED BY <1>1, <2>1
    <3> HIDE DEF i, j
    <3>2. j * p.width + i \in 0..(p.width * p.height - 1)
      BY <1>1, <3>1, InFrame
    <3> QED BY <1>1, <3>2
  <2>7. Done(n) = Covered(buffer, x, y, p, u, v)
    BY <2>6 DEF Covered
  <2> QED BY <2>5, <2>7
<1> QED BY <1>2, <1>3, <1>4

-----------------------------------------------------------------------------
(* Text.                                                                   *)

\* The size of the glyphs, and whether a string of it fits 32 bits.
Lettered == mode.font_width \in 0..8 /\ mode.font_height \in 0..FontRows

Line(str) ==
    /\ str \in Seq(1..255)
    /\ Len(str) * 8 <= Modulus /\ Len(str) * FontRows <= Modulus

\* What vbe_draw_string keeps between two characters.
Cursors == [x : Nat, y : Nat, buffer : Screens]

\* The pixels of a glyph, by row and column.
Shows(p, c, fg, bg) ==
    /\ p.width = mode.font_width /\ p.height = mode.font_height
    /\ \A k \in 1..(mode.font_width * mode.font_height) :
          p.pixels[k] = IF (k - 1) % mode.font_width
                              \in default_font[c][(k - 1) \div mode.font_width]
                          THEN fg ELSE bg

\* A glyph is a picture, and shows its character.
LEMMA GlyphPicture ==
    ASSUME Lettered, 8 <= Modulus, NEW c, NEW fg \in Argb, NEW bg \in Argb
    PROVE  Picture(Glyph(c, fg, bg)) /\ Shows(Glyph(c, fg, bg), c, fg, bg)
<1>1. /\ mode.font_width \in 0..Modulus /\ mode.font_height \in 0..Modulus
      /\ Modulus \in Nat
  BY Limits DEF Lettered
<1> DEFINE n    == mode.font_width * mode.font_height
           I(k) == IF (k - 1) % mode.font_width
                         \in default_font[c][(k - 1) \div mode.font_width]
                     THEN fg ELSE bg
<1>2. Glyph(c, fg, bg) = [width |-> mode.font_width, height |-> mode.font_height,
                          pixels |-> [k \in 1..n |-> I(k)]]
  BY DEF Glyph
<1>3. \A k \in 1..n : I(k) \in Argb
  OBVIOUS
<1> HIDE DEF I
<1>4. /\ Glyph(c, fg, bg).width = mode.font_width
      /\ Glyph(c, fg, bg).height = mode.font_height
      /\ \A k \in 1..n : Glyph(c, fg, bg).pixels[k] = I(k)
  BY <1>2
<1>5. Picture(Glyph(c, fg, bg))
  BY <1>1, <1>3, <1>4 DEF Picture
<1> QED BY <1>4, <1>5 DEF I, Shows

\* A character leaves a cursor and a screen.
LEMMA StepCursor ==
    ASSUME Sized, Lettered, 8 <= Modulus, NEW st \in Cursors, NEW c, NEW x \in Nat,
           NEW fg \in Argb, NEW bg \in Argb
    PROVE  Step(st, c, x, fg, bg) \in Cursors
<1>1. st.x \in Nat /\ st.y \in Nat /\ st.buffer \in Screens
  BY DEF Cursors
<1>2. Add(st.x, mode.font_width) \in Nat /\ Add(st.y, mode.font_height) \in Nat
  <2>1. mode.font_width \in Nat /\ mode.font_height \in Nat /\ Modulus \in Nat \ {0}
    BY Limits DEF Lettered
  <2>2. st.x + mode.font_width \in Nat /\ st.y + mode.font_height \in Nat
    BY <1>1, <2>1
  <2> QED BY <2>1, <2>2 DEF Add
<1>3. vbe_draw_char(st.buffer, c, st.x, st.y, fg, bg) \in Screens
  <2> DEFINE p == Glyph(c, fg, bg)
             X == st.x
             Y == st.y
             B == st.buffer
  <2>1. Picture(p)
    BY GlyphPicture
  <2>2. X \in Int /\ Y \in Int /\ B \in Screens
    BY <1>1
  <2> HIDE DEF p, X, Y, B
  <2>3. Loops(B, X, Y, p) \in Screens
    BY <2>1, <2>2, LoopsPlace
  <2> QED BY <2>3 DEF vbe_draw_char, p, X, Y, B
<1> QED BY <1>1, <1>2, <1>3 DEF Step, Cursors

\* The characters of a string, one after the other.
Pass(drawn, buffer, str, x, y, fg, bg) ==
    /\ drawn[0] = [x |-> x, y |-> y, buffer |-> buffer]
    /\ \A k \in 1..Len(str) : drawn[k] = Step(drawn[k - 1], str[k], x, fg, bg)
    /\ vbe_draw_string(buffer, str, x, y, fg, bg) = drawn[Len(str)].buffer

\* Drawing a string is such a pass.
LEMMA StringPass ==
    ASSUME Sized, Lettered, NEW str, Line(str), NEW buffer \in Screens,
           NEW x \in Nat, NEW y \in Nat, NEW fg \in Argb, NEW bg \in Argb
    PROVE  \E drawn \in [0..Len(str) -> Cursors] : Pass(drawn, buffer, str, x, y, fg, bg)
<1> DEFINE n       == Len(str)
           start   == [x |-> x, y |-> y, buffer |-> buffer]
           Body(g) == [k \in 0..n |-> IF k = 0 THEN start ELSE Step(g[k - 1], str[k], x, fg, bg)]
           drawn   == CHOOSE g : g = Body(g)
           F       == [k \in 1..n |-> [s \in Cursors |-> Step(s, str[k], x, fg, bg)]]
<1>1. n \in Nat /\ start \in Cursors
  BY DEF Line, Cursors
<1>2. vbe_draw_string(buffer, str, x, y, fg, bg) = drawn[n].buffer
  BY DEF vbe_draw_string
<1>3. \A k \in 1..n : \A s \in Cursors : Step(s, str[k], x, fg, bg) \in Cursors
  <2> SUFFICES ASSUME NEW k \in 1..n, NEW s \in Cursors
               PROVE  Step(s, str[k], x, fg, bg) \in Cursors
    OBVIOUS
  <2>1. 8 <= Modulus
    <3>1. n \in Nat /\ n >= 1 /\ n * 8 <= Modulus /\ Modulus \in Nat
      BY <1>1, Limits DEF Line
    <3> HIDE DEF n
    <3> QED BY <3>1
  <2> QED BY <2>1, StepCursor
<1> HIDE DEF n, start
<1>4. F \in [1..n -> [Cursors -> Cursors]]
  BY <1>3
<1>5. PICK g \in [0..n -> Cursors] : g[0] = start /\ \A k \in 1..n : g[k] = F[k][g[k - 1]]
  <2> HIDE DEF F
  <2> QED BY <1>1, <1>4, Iterates
<1>6. ASSUME NEW k \in 1..n PROVE g[k] = Step(g[k - 1], str[k], x, fg, bg)
  <2>1. k - 1 \in 0..n
    BY <1>1
  <2>2. g[k - 1] \in Cursors
    BY <1>5, <2>1
  <2>3. F[k] = [s \in Cursors |-> Step(s, str[k], x, fg, bg)]
    OBVIOUS
  <2> HIDE DEF F
  <2> QED BY <1>5, <2>2, <2>3
<1>7. g = Body(g)
  BY <1>1, <1>5, <1>6
<1>8. drawn = Body(drawn)
  <2> HIDE DEF Body
  <2> QED BY <1>7
<1>9. /\ drawn[0] = start
      /\ \A k \in 1..n : drawn[k] = Step(drawn[k - 1], str[k], x, fg, bg)
      /\ drawn = [k \in 0..n |-> drawn[k]]
  <2> HIDE DEF drawn
  <2>1. drawn[0] = start
    BY <1>1, <1>8
  <2>2. \A k \in 1..n : drawn[k] = Step(drawn[k - 1], str[k], x, fg, bg)
    BY <1>1, <1>8
  <2>3. drawn = [k \in 0..n |-> drawn[k]]
    BY <1>8
  <2> QED BY <2>1, <2>2, <2>3
<1>10. \A m \in Nat : m \in 0..n => drawn[m] \in Cursors
  <2> DEFINE T == {m \in Nat : m \in 0..n => drawn[m] \in Cursors}
  <2> HIDE DEF drawn
  <2>1. 0 \in T
    BY <1>1, <1>9
  <2>2. ASSUME NEW m \in Nat, m \in T PROVE m + 1 \in T
    <3> SUFFICES ASSUME m + 1 \in 0..n PROVE drawn[m + 1] \in Cursors
      OBVIOUS
    <3>1. m \in 0..n /\ m + 1 \in 1..n /\ (m + 1) - 1 = m
      BY <1>1
    <3>2. drawn[m] \in Cursors
      BY <2>2, <3>1
    <3> QED BY <1>3, <1>9, <3>1, <3>2
  <2>3. Nat \subseteq T
    <3> HIDE DEF T
    <3> QED BY <2>1, <2>2, SetInduction
  <2> QED BY <2>3
<1>11. drawn \in [0..n -> Cursors]
  <2> HIDE DEF drawn
  <2> QED BY <1>1, <1>9, <1>10
<1> HIDE DEF drawn
<1> QED BY <1>2, <1>9, <1>11 DEF n, start, Pass

\* A string leaves a screen.
LEMMA StringScreen ==
    ASSUME Sized, Lettered, NEW str, Line(str), NEW buffer \in Screens,
           NEW x \in Nat, NEW y \in Nat, NEW fg \in Argb, NEW bg \in Argb
    PROVE  vbe_draw_string(buffer, str, x, y, fg, bg) \in Screens
<1>1. PICK drawn \in [0..Len(str) -> Cursors] : Pass(drawn, buffer, str, x, y, fg, bg)
  BY StringPass
<1>2. drawn[Len(str)] \in Cursors
  BY DEF Line
<1>3. vbe_draw_string(buffer, str, x, y, fg, bg) = drawn[Len(str)].buffer
  BY <1>1 DEF Pass
<1> QED BY <1>2, <1>3 DEF Cursors

-----------------------------------------------------------------------------
(* The invariant.                                                          *)

\* Black is a pixel.
LEMMA BlackPixel == Black \in Argb
BY DEF Black, Color, Argb

\* The sizes of a mode fit 32 bits.
LEMMA ModeFits ==
    ASSUME VbeInvariant
    PROVE  /\ Sized /\ Lettered
           /\ mode.width \in Nat /\ mode.height \in Nat
           /\ mode.font_width \in Nat /\ mode.font_height \in Nat
<1>1. Modulus \in Nat /\ Modulus16 \in 1..Modulus /\ FontRows \in Nat
  BY VbeAssumption
<1>2. /\ mode.width \in 0..(Modulus16 - 1) /\ mode.height \in 0..(Modulus16 - 1)
      /\ mode.font_width \in 0..8 /\ mode.font_height \in 0..FontRows
  BY DEF VbeInvariant
<1> QED BY <1>1, <1>2 DEF Sized, Lettered

\* The program starts without a mode.
LEMMA InitVbe == Init => VbeInvariant
<1> SUFFICES ASSUME Init PROVE VbeInvariant
  OBVIOUS
<1>1. 0 \in 0..(Modulus16 - 1) /\ 0 \in 0..FontRows /\ 0 \in 0..8
  BY VbeAssumption
<1>2. /\ mode = [width |-> 0, height |-> 0, bpp |-> 0, font_width |-> 0, font_height |-> 0]
      /\ backbuffer = << >>
      /\ display = [enabled |-> FALSE, xres |-> 0, yres |-> 0, bpp |-> 0]
  BY DEF Init
<1>3. backbuffer \in Screens
  <2>1. Pixels = 0 /\ 0..(Pixels - 1) = {}
    BY <1>2 DEF Pixels
  <2>2. << >> \in Seq(Argb) /\ Len(<< >>) = 0
    OBVIOUS
  <2>3. << >> \in [1..0 -> Argb]
    OBVIOUS
  <2>4. 1..0 = {}
    OBVIOUS
  <2> QED BY <1>2, <2>1, <2>3, <2>4 DEF Screens
<1> QED BY <1>1, <1>2, <1>3 DEF VbeInvariant

\* The registers of the display.
Registers == [enabled : BOOLEAN, xres : 0..(Modulus16 - 1), yres : 0..(Modulus16 - 1),
              bpp : Depths \cup {0}]

\* A write to the switch.
LEMMA SwitchWritten ==
    ASSUME NEW d \in Registers, NEW on \in BOOLEAN
    PROVE  LET e == Write(d, "enabled", on)
           IN  /\ e \in Registers /\ e.enabled = on
               /\ e.xres = d.xres /\ e.yres = d.yres /\ e.bpp = d.bpp
<1>1. Write(d, "enabled", on) = [d EXCEPT !.enabled = on]
  BY DEF Write
<1> QED BY <1>1 DEF Registers

\* A write to another register of a display that is switched off.
LEMMA RegisterWritten ==
    ASSUME NEW d \in Registers, ~d.enabled,
           NEW n \in 0..(Modulus16 - 1), NEW bpp \in Depths
    PROVE  /\ Write(d, "xres", n) = [d EXCEPT !.xres = n]
           /\ Write(d, "yres", n) = [d EXCEPT !.yres = n]
           /\ Write(d, "bpp", bpp) = [d EXCEPT !.bpp = bpp]
BY DEF Write, Registers

\* Whatever it showed before, a display is programmed to show what is asked.
LEMMA Programmed ==
    ASSUME NEW d \in Registers, NEW w \in 0..(Modulus16 - 1), NEW h \in 0..(Modulus16 - 1),
           NEW bpp \in Depths
    PROVE  LET e == Program(d, w, h, bpp)
           IN  e \in Registers /\ e.xres = w /\ e.yres = h /\ e.bpp = bpp
<1> DEFINE d1 == Write(d, "enabled", FALSE)
           d2 == Write(d1, "xres", w)
           d3 == Write(d2, "yres", h)
           d4 == Write(d3, "bpp", bpp)
           d5 == Write(d4, "enabled", TRUE)
<1>1. w % Modulus16 = w /\ h % Modulus16 = h
  BY VbeAssumption
<1>2. Program(d, w, h, bpp) = d5
  BY <1>1 DEF Program
<1>3. d1 \in Registers /\ ~d1.enabled
  BY SwitchWritten
<1> HIDE DEF d1
<1>4. d2 \in Registers /\ ~d2.enabled /\ d2.xres = w
  <2>1. d2 = [d1 EXCEPT !.xres = w]
    BY <1>3, RegisterWritten
  <2> QED BY <1>3, <2>1 DEF Registers
<1> HIDE DEF d2
<1>5. d3 \in Registers /\ ~d3.enabled /\ d3.xres = w /\ d3.yres = h
  <2>1. d3 = [d2 EXCEPT !.yres = h]
    BY <1>4, RegisterWritten
  <2> QED BY <1>4, <2>1 DEF Registers
<1> HIDE DEF d3
<1>6. d4 \in Registers /\ d4.xres = w /\ d4.yres = h /\ d4.bpp = bpp
  <2>1. d4 = [d3 EXCEPT !.bpp = bpp]
    BY <1>5, RegisterWritten
  <2> QED BY <1>5, <2>1 DEF Registers
<1> HIDE DEF d4
<1>7. d5 \in Registers /\ d5.xres = w /\ d5.yres = h /\ d5.bpp = bpp
  BY <1>6, SwitchWritten
<1> HIDE DEF d5
<1> QED BY <1>2, <1>7

\* A new mode is programmed into the display, and has a black back buffer.
LEMMA InitKeeps ==
    ASSUME VbeInvariant, NEW s \in Sizes, NEW bpp \in Depths, vbe_init(s[1], s[2], bpp)
    PROVE  VbeInvariant'
<1> DEFINE w == s[1]
           h == s[2]
<1>1. w \in 0..(Modulus16 - 1) /\ h \in 0..(Modulus16 - 1)
  BY VbeAssumption
<1>2. FontRows \in 0..FontRows /\ 8 \in 0..8 /\ FontRows # 0
  BY VbeAssumption
<1>3. /\ display' = Program(display, w, h, bpp)
      /\ mode' = [width |-> w, height |-> h, bpp |-> bpp,
                  font_width |-> 8, font_height |-> FontRows]
      /\ backbuffer' = [i \in 0..(w * h - 1) |-> Black]
  BY DEF vbe_init
<1> HIDE DEF w, h
<1>4. Pixels' = w * h
  BY <1>3 DEF Pixels
<1>5. backbuffer' \in Screens'
  BY <1>3, <1>4, BlackPixel DEF Screens
<1>6. display' \in Registers /\ display'.xres = w /\ display'.yres = h /\ display'.bpp = bpp
  <2>1. display \in Registers
    BY DEF VbeInvariant, Registers
  <2> QED BY <1>1, <1>3, <2>1, Programmed
<1>7. mode' \in [width : 0..(Modulus16 - 1), height : 0..(Modulus16 - 1),
                 bpp : Depths \cup {0}, font_width : 0..8, font_height : 0..FontRows]
  BY <1>1, <1>2, <1>3
<1>8. /\ display'.xres = mode'.width /\ display'.yres = mode'.height
      /\ display'.bpp = mode'.bpp /\ mode'.bpp \in Depths
  BY <1>3, <1>6
<1>9. mode'.font_width # 0 /\ mode'.font_height # 0
  BY <1>2, <1>3
<1> QED BY <1>5, <1>6, <1>7, <1>8, <1>9 DEF VbeInvariant, Registers

\* A font changes neither the screen nor its size.
LEMMA FontKeeps ==
    ASSUME VbeInvariant, NEW f \in Fonts, vbe_set_font(f[1], f[2])
    PROVE  VbeInvariant'
<1> DEFINE fw == f[1]
           fh == f[2]
<1>1. fw \in 0..8 /\ fh \in 0..FontRows /\ fw # 0 /\ fh # 0
  BY VbeAssumption
<1>2. /\ mode' = [mode EXCEPT !.font_width = fw, !.font_height = fh]
      /\ backbuffer' = backbuffer /\ display' = display
  BY DEF vbe_set_font
<1> HIDE DEF fw, fh
<1>3. /\ mode' \in [width : 0..(Modulus16 - 1), height : 0..(Modulus16 - 1),
                    bpp : Depths \cup {0}, font_width : 0..8, font_height : 0..FontRows]
      /\ mode'.width = mode.width /\ mode'.height = mode.height /\ mode'.bpp = mode.bpp
      /\ mode'.font_width # 0 /\ mode'.font_height # 0
  BY <1>1, <1>2 DEF VbeInvariant
<1>4. Screens' = Screens
  BY <1>3 DEF Screens, Pixels
<1> QED BY <1>2, <1>3, <1>4 DEF VbeInvariant

\* Drawing leaves a screen of the same size.
LEMMA DrawingKeeps ==
    ASSUME VbeInvariant, NEW buffer \in Screens, Draws(buffer)
    PROVE  VbeInvariant'
<1>1. mode' = mode /\ display' = display /\ backbuffer' = buffer
  BY DEF Draws
<1>2. Screens' = Screens
  BY <1>1 DEF Screens, Pixels
<1> QED BY <1>1, <1>2 DEF VbeInvariant

\* Clearing and scrolling leave a screen.
LEMMA Cleared ==
    ASSUME NEW color \in Argb
    PROVE  vbe_clear(color) \in Screens
BY DEF vbe_clear, Screens

\* Where scrolling takes a place of the screen from.
LEMMA Scrolled ==
    ASSUME VbeInvariant, NEW buffer \in Screens, NEW lines \in Scrolls
    PROVE  /\ vbe_scroll(buffer, lines) \in Screens
           /\ \A u \in Columns, v \in Rows :
                 At(vbe_scroll(buffer, lines), u, v)
                   = IF v + ((lines * mode.font_height) % Modulus) < mode.height
                       THEN At(buffer, u, v + ((lines * mode.font_height) % Modulus))
                       ELSE Black
<1> DEFINE w    == mode.width
           h    == mode.height
           rows == (lines * mode.font_height) % Modulus
           kept == (h - rows) * w
           From(i) == IF i < kept THEN buffer[i + rows * w] ELSE Black
<1>1. w \in Nat /\ h \in Nat
  BY ModeFits
<1>2. rows \in Nat
  <2> DEFINE product == lines * mode.font_height
  <2>1. product \in Nat
    <3>1. lines \in Nat /\ mode.font_height \in Nat
      BY ModeFits, VbeAssumption
    <3> QED BY <3>1
  <2>2. Modulus \in Nat \ {0}
    BY VbeAssumption
  <2> HIDE DEF product
  <2>3. product % Modulus \in Nat
    BY <2>1, <2>2
  <2> QED BY <2>3 DEF product
<1>3. \A u \in Columns, v \in Rows : v * w + u \in 0..(Pixels - 1)
  BY <1>1, InFrame DEF Columns, Rows, Pixels
<1>4. CASE rows >= h
  <2>1. vbe_scroll(buffer, lines) = vbe_clear(Black)
    BY <1>2, <1>4 DEF vbe_scroll
  <2>2. vbe_clear(Black) \in Screens
    BY BlackPixel, Cleared
  <2>3. ASSUME NEW u \in Columns, NEW v \in Rows
        PROVE  At(vbe_clear(Black), u, v) = Black /\ ~(v + rows < h)
    <3>1. v * w + u \in 0..(Pixels - 1)
      BY <1>3
    <3>2. v \in Nat
      BY <1>1 DEF Rows
    <3> HIDE DEF rows
    <3> QED BY <1>1, <1>2, <1>4, <3>1, <3>2 DEF vbe_clear, At
  <2> HIDE DEF rows
  <2> QED BY <2>1, <2>2, <2>3 DEF rows
<1>5. CASE rows < h
  <2>1. vbe_scroll(buffer, lines) = [i \in 0..(Pixels - 1) |-> From(i)]
    <3>1. ~(rows >= h)
      BY <1>1, <1>2, <1>5
    <3>2. vbe_scroll(buffer, lines)
            = IF rows >= h THEN vbe_clear(Black) ELSE [i \in 0..(Pixels - 1) |-> From(i)]
      BY DEF vbe_scroll
    <3> HIDE DEF rows
    <3> QED BY <3>1, <3>2
  <2>2. kept + rows * w = Pixels /\ kept \in Nat /\ rows * w \in Nat
    <3>1. h - rows \in Nat /\ rows \in Nat
      BY <1>1, <1>2, <1>5
    <3> HIDE DEF rows
    <3>2. (h - rows) * w \in Nat /\ rows * w \in Nat
      BY <1>1, <3>1
    <3>3. (h - rows) * w + rows * w = w * h
      BY <1>1, <3>1
    <3> QED BY <3>2, <3>3 DEF Pixels
  <2>3. ASSUME NEW i \in 0..(Pixels - 1) PROVE From(i) \in Argb
    <3>1. i < kept => i + rows * w \in 0..(Pixels - 1)
      <4> DEFINE m == rows * w
      <4> HIDE DEF kept, m
      <4> QED BY <2>2 DEF m
    <3> HIDE DEF kept, rows
    <3> QED BY <3>1, BlackPixel DEF Screens
  <2>4. ASSUME NEW u \in Columns, NEW v \in Rows
        PROVE  From(v * w + u) = IF v + rows < h THEN At(buffer, u, v + rows) ELSE Black
    <3>1. u \in 0..(w - 1) /\ v \in Nat /\ v < h
      BY <1>1 DEF Columns, Rows
    <3>2. CASE v + rows < h
      <4>1. v * w + u < kept
        <5>1. v \in 0..(h - rows - 1) /\ h - rows \in Nat
          BY <1>1, <1>2, <3>1, <3>2
        <5>2. v * w + w <= (h - rows) * w /\ v * w \in Nat
          <6> DEFINE r == h - rows
          <6> HIDE DEF r, rows
          <6>1. v * w + w <= r * w /\ v * w \in Nat
            BY <1>1, <5>1, Product DEF r
          <6> QED BY <6>1 DEF r
        <5> DEFINE m == v * w
        <5> HIDE DEF kept, m
        <5> QED BY <1>1, <2>2, <3>1, <5>2 DEF kept, m
      <4>2. v * w + u + rows * w = (v + rows) * w + u
        <5> HIDE DEF rows
        <5> QED BY <1>1, <1>2, <3>1
      <4> HIDE DEF kept, rows
      <4> QED BY <3>2, <4>1, <4>2 DEF At
    <3>3. CASE ~(v + rows < h)
      <4>1. ~(v * w + u < kept)
        <5>1. h - rows \in Nat /\ h - rows <= v
          BY <1>1, <1>2, <1>5, <3>1, <3>3
        <5>2. (h - rows) * w <= v * w /\ v * w \in Nat
          <6> DEFINE r == h - rows
          <6> HIDE DEF r, rows
          <6>1. PICK e \in Nat : v = r + e
            <7>1. v - r \in Nat /\ v = r + (v - r)
              BY <3>1, <5>1 DEF r
            <7> QED BY <7>1
          <6>2. v * w = r * w + e * w /\ e * w \in Nat /\ r * w \in Nat
            BY <1>1, <5>1, <6>1 DEF r
          <6>3. r * w <= v * w /\ v * w \in Nat
            BY <6>2
          <6> QED BY <6>3 DEF r
        <5> DEFINE m == v * w
        <5> HIDE DEF kept, m
        <5> QED BY <1>1, <2>2, <3>1, <5>2 DEF kept, m
      <4> HIDE DEF kept, rows
      <4> QED BY <3>3, <4>1
    <3> QED BY <3>2, <3>3
  <2> HIDE DEF rows, From
  <2>5. vbe_scroll(buffer, lines) \in Screens
    BY <2>1, <2>3 DEF Screens
  <2>6. ASSUME NEW u \in Columns, NEW v \in Rows
        PROVE  At(vbe_scroll(buffer, lines), u, v) = From(v * w + u)
    BY <1>3, <2>1 DEF At
  <2> QED BY <2>4, <2>5, <2>6 DEF rows
<1> QED BY <1>1, <1>2, <1>4, <1>5

\* What a drawing function leaves, for the arguments of the clients.
LEMMA DrawnScreens ==
    ASSUME VbeInvariant, NEW x \in Coordinates, NEW y \in Coordinates
    PROVE  /\ x \in Nat /\ y \in Nat
           /\ \A color \in Colors : vbe_draw_pixel(backbuffer, x, y, color) \in Screens
           /\ \A b \in Bitmaps : Picture(b) /\ vbe_draw_bitmap(backbuffer, x, y, b) \in Screens
           /\ \A str \in Strings, ink \in Inks :
                 /\ Line(str) /\ ink[1] \in Argb /\ ink[2] \in Argb
                 /\ vbe_draw_string(backbuffer, str, x, y, ink[1], ink[2]) \in Screens
<1>1. x \in Nat /\ y \in Nat /\ backbuffer \in Screens /\ Sized /\ Lettered
  BY ModeFits, VbeAssumption DEF VbeInvariant
<1>2. ASSUME NEW color \in Colors PROVE vbe_draw_pixel(backbuffer, x, y, color) \in Screens
  BY <1>1, PixelDrawn, VbeAssumption
<1>3. ASSUME NEW b \in Bitmaps
      PROVE  Picture(b) /\ vbe_draw_bitmap(backbuffer, x, y, b) \in Screens
  <2>1. /\ b.width \in 0..(Modulus - 1) /\ b.height \in 0..(Modulus - 1)
        /\ b.pixels \in Seq(Argb) /\ Len(b.pixels) = b.width * b.height
        /\ Modulus \in Nat
    BY VbeAssumption
  <2>2. Picture(b)
    <3>1. b.width \in 0..Modulus /\ b.height \in 0..Modulus
      BY <2>1
    <3>2. \A k \in 1..(b.width * b.height) : b.pixels[k] \in Argb
      BY <2>1
    <3> QED BY <3>1, <3>2 DEF Picture
  <2> QED BY <1>1, <2>2, LoopsPlace DEF vbe_draw_bitmap
<1>4. ASSUME NEW str \in Strings, NEW ink \in Inks
      PROVE  /\ Line(str) /\ ink[1] \in Argb /\ ink[2] \in Argb
             /\ vbe_draw_string(backbuffer, str, x, y, ink[1], ink[2]) \in Screens
  <2>1. Line(str) /\ ink[1] \in Argb /\ ink[2] \in Argb
    BY VbeAssumption DEF Line
  <2> DEFINE fg == ink[1]
             bg == ink[2]
  <2>2. fg \in Argb /\ bg \in Argb
    BY <2>1
  <2> HIDE DEF fg, bg
  <2>3. vbe_draw_string(backbuffer, str, x, y, fg, bg) \in Screens
    BY <1>1, <2>1, <2>2, StringScreen
  <2> QED BY <2>1, <2>3 DEF fg, bg
<1> QED BY <1>1, <1>2, <1>3, <1>4

\* The invariant holds, whatever is drawn in whatever mode.
THEOREM VbeIsInvariant == Spec => []VbeInvariant
<1>1. VbeInvariant /\ [Next]_vars => VbeInvariant'
  <2> SUFFICES ASSUME VbeInvariant, [Next]_vars PROVE VbeInvariant'
    OBVIOUS
  <2>1. ASSUME NEW s \in Sizes, NEW bpp \in Depths, vbe_init(s[1], s[2], bpp) PROVE VbeInvariant'
    BY <2>1, InitKeeps
  <2>2. ASSUME NEW f \in Fonts, vbe_set_font(f[1], f[2]) PROVE VbeInvariant'
    BY <2>2, FontKeeps
  <2>3. ASSUME NEW x \in Coordinates, NEW y \in Coordinates,
               \/ \E color \in Colors : Draws(vbe_draw_pixel(backbuffer, x, y, color))
               \/ \E b \in Bitmaps : Draws(vbe_draw_bitmap(backbuffer, x, y, b))
               \/ \E str \in Strings, ink \in Inks :
                     Draws(vbe_draw_string(backbuffer, str, x, y, ink[1], ink[2]))
        PROVE  VbeInvariant'
    BY <2>3, DrawnScreens, DrawingKeeps
  <2>4. ASSUME NEW color \in Colors, Draws(vbe_clear(color)) PROVE VbeInvariant'
    <3>1. vbe_clear(color) \in Screens
      BY Cleared, VbeAssumption
    <3> QED BY <2>4, <3>1, DrawingKeeps
  <2>5. ASSUME NEW lines \in Scrolls, Draws(vbe_scroll(backbuffer, lines)) PROVE VbeInvariant'
    <3>1. vbe_scroll(backbuffer, lines) \in Screens
      BY Scrolled DEF VbeInvariant
    <3> QED BY <2>5, <3>1, DrawingKeeps
  <2>6. CASE UNCHANGED vars
    BY <2>6 DEF vars, VbeInvariant, Screens, Pixels
  <2> QED BY <2>1, <2>2, <2>3, <2>4, <2>5, <2>6 DEF Next
<1> QED BY <1>1, InitVbe, PTL DEF Spec

-----------------------------------------------------------------------------
(* What the clients see.                                                   *)

\* The back buffer always has one pixel of bytes for each place of the mode.
THEOREM TypeCorrect == Spec => []TypeOK
<1>1. VbeInvariant => TypeOK
  <2> SUFFICES ASSUME VbeInvariant PROVE TypeOK
    OBVIOUS
  <2>1. DOMAIN mode = {"width", "height", "bpp", "font_width", "font_height"}
    BY DEF VbeInvariant
  <2>2. /\ DOMAIN backbuffer = 0..(Pixels - 1)
        /\ \A i \in DOMAIN backbuffer : backbuffer[i] \in Argb
    BY DEF VbeInvariant, Screens
  <2>3. \A c \in Argb : c.alpha \in 0..255 /\ c.value \in 0..255
    BY DEF Argb
  <2>4. /\ display.xres \in 0..(Modulus16 - 1) /\ display.yres \in 0..(Modulus16 - 1)
        /\ display.bpp \in Depths \cup {0} /\ mode.bpp \in Depths \cup {0}
    BY DEF VbeInvariant
  <2> QED BY <2>1, <2>2, <2>3, <2>4 DEF TypeOK
<1> QED BY <1>1, VbeIsInvariant, PTL

\* In every mode and on every buffer, a bitmap of any size changes exactly the
\* pixels it covers, each once, coordinates that wrap included.
THEOREM BitmapIsPlaced == Spec => []BitmapPlaced
<1>1. VbeInvariant => BitmapPlaced
  <2> SUFFICES ASSUME VbeInvariant, NEW x \in Coordinates, NEW y \in Coordinates,
                      NEW b \in Bitmaps, NEW u \in Columns, NEW v \in Rows
               PROVE  At(vbe_draw_bitmap(backbuffer, x, y, b), u, v)
                        = Covered(backbuffer, x, y, b, u, v)
    BY DEF BitmapPlaced, Covered
  <2>1. x \in Int /\ y \in Int /\ Picture(b)
    BY DrawnScreens
  <2>2. Sized /\ backbuffer \in Screens
    BY ModeFits DEF VbeInvariant
  <2> QED BY <2>1, <2>2, LoopsPlace DEF vbe_draw_bitmap
<1> QED BY <1>1, VbeIsInvariant, PTL

\* Scrolling moves whole rows up, of fonts and screens of every size and by any
\* number of lines: as many rows as the product leaves in 32 bits.
THEOREM RowsMove == Spec => []RowsMoveUp
<1>1. VbeInvariant => RowsMoveUp
  <2> SUFFICES ASSUME VbeInvariant PROVE RowsMoveUp
    OBVIOUS
  <2>1. backbuffer \in Screens
    BY DEF VbeInvariant
  <2> QED BY <2>1, Scrolled DEF RowsMoveUp
<1> QED BY <1>1, VbeIsInvariant, PTL

\* At 32 bits a pixel the display finds a pixel in four bytes of its own.
LEMMA ScanWords ==
    ASSUME NEW here \in Int
    PROVE  /\ BytesPerPixel(32) = 4
           /\ (here * 4) % 4 = 0 /\ (here * 4) \div 4 = here
BY DEF BytesPerPixel

\* At fewer it looks in another place for every pixel but the first.
LEMMA ScanElsewhere ==
    ASSUME NEW here \in Nat, NEW bpp \in {8, 15, 16, 24, 32}, bpp # 32,
           here * BytesPerPixel(bpp) = 4 * here
    PROVE  here = 0
<1>1. BytesPerPixel(bpp) \in {1, 2, 3}
  BY DEF BytesPerPixel
<1> QED BY <1>1

\* However often the mode was set, the display has its size and depth; at 32 bits
\* a pixel it shows each pixel where it was drawn, at any other depth it looks
\* for all but the first elsewhere.
THEOREM ScreenShows == Spec => []ScreenShowsBuffer
<1>1. VbeInvariant => ScreenShowsBuffer
  <2> SUFFICES ASSUME VbeInvariant, display.enabled PROVE ScreenShowsBuffer
    BY DEF ScreenShowsBuffer
  <2> DEFINE shown == vbe_swap_buffers(<< >>)
  <2>1. /\ display.xres = mode.width /\ display.yres = mode.height
        /\ mode.width \in Nat /\ mode.height \in Nat
    BY ModeFits DEF VbeInvariant
  <2>2. display.bpp = mode.bpp /\ display.bpp \in {8, 15, 16, 24, 32}
    BY VbeAssumption DEF VbeInvariant
  <2>3. ASSUME NEW u \in Columns, NEW v \in Rows
        PROVE  IF display.bpp = 32
                 THEN Scan(u, v) % 4 = 0 /\ shown[Scan(u, v) \div 4] = At(backbuffer, u, v)
                 ELSE Scan(u, v) = 4 * (v * mode.width + u) => u = 0 /\ v = 0
    <3> DEFINE here == v * mode.width + u
    <3>1. here \in 0..(Pixels - 1)
      BY <2>1, InFrame DEF Columns, Rows, Pixels
    <3>2. Pixels \in Nat
      BY <2>1 DEF Pixels
    <3>3. here \in Nat /\ here < Pixels
      <4> HIDE DEF here
      <4> QED BY <3>1, <3>2
    <3>4. Scan(u, v) = here * BytesPerPixel(display.bpp)
      BY <2>1 DEF Scan
    <3>5. CASE display.bpp = 32
      <4>1. shown[here] = backbuffer[here]
        <5> HIDE DEF here
        <5> QED BY <3>1, <3>3 DEF vbe_swap_buffers
      <4>2. shown[here] = At(backbuffer, u, v)
        BY <4>1 DEF At
      <4> HIDE DEF here, shown
      <4>3. Scan(u, v) = here * 4 /\ (here * 4) % 4 = 0 /\ (here * 4) \div 4 = here
        BY <3>3, <3>4, <3>5, ScanWords
      <4> QED BY <3>5, <4>2, <4>3
    <3>6. CASE display.bpp # 32
      <4>1. u \in 0..(mode.width - 1) /\ v \in Nat /\ mode.width \in Nat
        BY <2>1 DEF Columns, Rows
      <4>2. here = 0 => u = 0 /\ v = 0
        <5> SUFFICES ASSUME here = 0 PROVE u = 0 /\ v = 0
          OBVIOUS
        <5>1. v * mode.width \in Nat /\ u \in Nat /\ mode.width > 0
          BY <4>1
        <5>2. v * mode.width = 0 /\ u = 0
          BY <5>1
        <5>3. v = 0
          BY <4>1, <5>1, <5>2
        <5> QED BY <5>2, <5>3
      <4> HIDE DEF here, shown
      <4>3. Scan(u, v) = 4 * here => here = 0
        BY <2>2, <3>3, <3>4, <3>6, ScanElsewhere
      <4>4. Scan(u, v) = 4 * here => u = 0 /\ v = 0
        BY <4>2, <4>3
      <4> QED BY <3>6, <4>4 DEF here
    <3> QED BY <3>5, <3>6
  <2> HIDE DEF shown
  <2> QED BY <2>1, <2>2, <2>3 DEF ScreenShowsBuffer, shown
<1> QED BY <1>1, VbeIsInvariant, PTL

\* What BlendIsBetween asks of a blend r of b over a.
Between(a, b, r, alpha) ==
    LET Far(m, n) == IF m > n THEN m - n ELSE n - m
    IN  /\ (a <= r /\ r <= b) \/ (b <= r /\ r <= a)
        /\ alpha >= 128 => 2 * Far(r, a) + 1 >= Far(b, a)
        /\ alpha <  128 => 2 * Far(r, a) <= Far(b, a) + 1

\* The rounded average of two bytes lies between them, and on the side of the
\* heavier one.
LEMMA Average ==
    ASSUME NEW a \in 0..255, NEW b \in 0..255, NEW alpha \in 0..255
    PROVE  Between(a, b, (b * alpha + a * (255 - alpha)) \div 255, alpha)
<1> DEFINE s == b * alpha + a * (255 - alpha)
           r == s \div 255
<1>1. s = 255 * a + (b - a) * alpha
  OBVIOUS
<1>2. s \in Int /\ r \in Int /\ 255 * r <= s /\ s < 255 * r + 255
  <2>1. s \in Int
    BY <1>1
  <2> HIDE DEF s
  <2> QED BY <2>1
<1>3. CASE a <= b
  <2> DEFINE D == b - a
             P == D * alpha
  <2>1. D \in Nat /\ P \in Nat /\ P <= 255 * D
    <3>1. D \in Nat /\ D <= 255
      BY <1>3
    <3> HIDE DEF D
    <3>2. D * (255 - alpha) \in Nat /\ D * (255 - alpha) = 255 * D - D * alpha /\ D * alpha \in Nat
      BY <3>1
    <3> QED BY <3>1, <3>2
  <2>2. alpha >= 128 => P >= 128 * D
    <3> HIDE DEF D
    <3> SUFFICES ASSUME alpha >= 128 PROVE P >= 128 * D
      OBVIOUS
    <3>1. D * (alpha - 128) \in Nat /\ D * (alpha - 128) = D * alpha - 128 * D
      BY <2>1
    <3> QED BY <2>1, <3>1
  <2>3. alpha < 128 => P <= 127 * D
    <3> HIDE DEF D
    <3> SUFFICES ASSUME alpha < 128 PROVE P <= 127 * D
      OBVIOUS
    <3>1. D * (127 - alpha) \in Nat /\ D * (127 - alpha) = 127 * D - D * alpha
      BY <2>1
    <3> QED BY <2>1, <3>1
  <2>4. s = 255 * a + P /\ b = a + D
    BY <1>1
  <2> HIDE DEF s, r, D, P
  <2>5. Between(a, b, r, alpha)
    BY <1>2, <2>1, <2>2, <2>3, <2>4 DEF Between
  <2> QED BY <2>5 DEF r, s
<1>4. CASE b < a
  <2> DEFINE D == a - b
             P == D * alpha
  <2>1. D \in Nat /\ P \in Nat /\ P <= 255 * D
    <3>1. D \in Nat /\ D <= 255
      BY <1>4
    <3> HIDE DEF D
    <3>2. D * (255 - alpha) \in Nat /\ D * (255 - alpha) = 255 * D - D * alpha /\ D * alpha \in Nat
      BY <3>1
    <3> QED BY <3>1, <3>2
  <2>2. alpha >= 128 => P >= 128 * D
    <3> HIDE DEF D
    <3> SUFFICES ASSUME alpha >= 128 PROVE P >= 128 * D
      OBVIOUS
    <3>1. D * (alpha - 128) \in Nat /\ D * (alpha - 128) = D * alpha - 128 * D
      BY <2>1
    <3> QED BY <2>1, <3>1
  <2>3. alpha < 128 => P <= 127 * D
    <3> HIDE DEF D
    <3> SUFFICES ASSUME alpha < 128 PROVE P <= 127 * D
      OBVIOUS
    <3>1. D * (127 - alpha) \in Nat /\ D * (127 - alpha) = 127 * D - D * alpha
      BY <2>1
    <3> QED BY <2>1, <3>1
  <2>4. s = 255 * a - P /\ b = a - D
    BY <1>1
  <2> HIDE DEF s, r, D, P
  <2>5. Between(a, b, r, alpha)
    BY <1>2, <2>1, <2>2, <2>3, <2>4 DEF Between
  <2> QED BY <2>5 DEF r, s
<1> QED BY <1>3, <1>4

\* A blend lies between what was there and the colour, for all colours.
THEOREM BlendsBetween == Spec => []BlendIsBetween
<1>1. VbeInvariant => BlendIsBetween
  <2> SUFFICES ASSUME VbeInvariant, NEW c \in Colors, NEW alpha \in 0..255,
                      NEW i \in DOMAIN backbuffer
               PROVE  Between(backbuffer[i].value, c.value,
                              Blend(Color(alpha, c.value), backbuffer[i]).value, alpha)
    BY DEF BlendIsBetween, Between
  <2> DEFINE a == backbuffer[i].value
             b == c.value
             r == Blend(Color(alpha, b), backbuffer[i]).value
             q == (b * alpha + a * (255 - alpha)) \div 255
  <2>1. a \in 0..255 /\ b \in 0..255
    <3>1. backbuffer[i] \in Argb /\ c \in Argb
      BY VbeAssumption DEF VbeInvariant, Screens
    <3> QED BY <3>1 DEF Argb
  <2>2. /\ alpha = 255 => r = b
        /\ alpha = 0 => r = a
        /\ alpha # 255 /\ alpha # 0 => r = q
    <3>1. Color(alpha, b).alpha = alpha /\ Color(alpha, b).value = b
      BY DEF Color
    <3>2. Color(255, q).value = q
      BY DEF Color
    <3> HIDE DEF a, b
    <3> QED BY <3>1, <3>2 DEF Blend, a, b
  <2> HIDE DEF a, b, r, q
  <2>3. Between(a, b, q, alpha)
    BY <2>1, Average, ZenonT(40) DEF q
  <2>4. Between(a, b, r, alpha)
    BY <2>1, <2>2, <2>3 DEF Between
  <2> QED BY <2>4 DEF a, b, r
<1> QED BY <1>1, VbeIsInvariant, PTL

-----------------------------------------------------------------------------
(* The grid of a text.                                                     *)

\* The line ends before the k-th character.
Ends(str, k) == {m \in 1..(k - 1) : str[m] = NewLine}

\* There are fewer of them than characters, and one more behind each.
LEMMA RowOf ==
    ASSUME NEW str, Line(str), NEW k \in Nat \ {0}
    PROVE  /\ IsFiniteSet(Ends(str, k))
           /\ TextRow(str, k) \in 0..(k - 1)
           /\ TextRow(str, 1) = 0
           /\ TextRow(str, k + 1) = TextRow(str, k) + (IF str[k] = NewLine THEN 1 ELSE 0)
<1> DEFINE m == k - 1
<1>1. m \in Nat /\ m \in Int /\ 1 \in Int
  OBVIOUS
<1>2. IsFiniteSet(1..m) /\ Cardinality(1..m) = m
  <2>1. IsFiniteSet(1..m) /\ Cardinality(1..m) = IF 1 > m THEN 0 ELSE m - 1 + 1
    <3> HIDE DEF m
    <3> QED BY <1>1, FS_Interval, Zenon
  <2> HIDE DEF m
  <2> QED BY <1>1, <2>1
<1>3. /\ IsFiniteSet(Ends(str, k))
      /\ Cardinality(Ends(str, k)) \in Nat /\ Cardinality(Ends(str, k)) <= m
  <2>1. Ends(str, k) \subseteq 1..m
    BY DEF Ends
  <2>2. IsFiniteSet(Ends(str, k)) /\ Cardinality(Ends(str, k)) <= Cardinality(1..m)
    <3> HIDE DEF m
    <3> QED BY <1>2, <2>1, FS_Subset
  <2>3. Cardinality(Ends(str, k)) \in Nat
    BY <2>2, FS_CardinalityType
  <2> HIDE DEF m
  <2> QED BY <1>2, <2>2, <2>3
<1>4. Ends(str, 1) = {} /\ Cardinality({}) = 0
  BY FS_EmptySet DEF Ends
<1>5. \A j : TextRow(str, j) = Cardinality(Ends(str, j))
  BY DEF TextRow, Ends
<1>6. TextRow(str, k) \in 0..(k - 1) /\ TextRow(str, 1) = 0
  BY <1>1, <1>3, <1>4, <1>5
<1>7. CASE str[k] = NewLine
  <2>1. Ends(str, k + 1) = Ends(str, k) \cup {k} /\ k \notin Ends(str, k)
    BY <1>7 DEF Ends
  <2>2. Cardinality(Ends(str, k) \cup {k}) = Cardinality(Ends(str, k)) + 1
    BY <1>3, <2>1, FS_AddElement
  <2> QED BY <1>3, <1>5, <1>6, <1>7, <2>1, <2>2
<1>8. CASE str[k] # NewLine
  <2>1. Ends(str, k + 1) = Ends(str, k)
    BY <1>8 DEF Ends
  <2> QED BY <1>3, <1>5, <1>6, <1>8, <2>1
<1> QED BY <1>7, <1>8

\* The column of a character: how far back the line begins.
ColumnIs(str, k, n) ==
    /\ n = k - 1 \/ str[k - 1 - n] = NewLine
    /\ \A m \in (k - n)..(k - 1) : str[m] # NewLine

\* There is one column only.
LEMMA OneColumn ==
    ASSUME NEW str, NEW k \in Nat \ {0}, NEW n \in 0..(k - 1), NEW m \in 0..(k - 1),
           ColumnIs(str, k, n), ColumnIs(str, k, m)
    PROVE  n = m
<1>1. ASSUME NEW a \in 0..(k - 1), NEW b \in 0..(k - 1),
             ColumnIs(str, k, a), ColumnIs(str, k, b), a < b
      PROVE  FALSE
  <2>1. str[k - 1 - a] = NewLine
    BY <1>1 DEF ColumnIs
  <2>2. k - 1 - a \in (k - b)..(k - 1)
    BY <1>1
  <2> QED BY <1>1, <2>1, <2>2 DEF ColumnIs
<1> QED BY <1>1

\* Every place of a string has a column, one more than the one before it
\* unless a line ended there.
LEMMA ColumnOf ==
    ASSUME NEW str, Line(str)
    PROVE  /\ TextColumn(str, 1) = 0
           /\ \A k \in Nat \ {0} :
                 /\ TextColumn(str, k) \in 0..(k - 1)
                 /\ ColumnIs(str, k, TextColumn(str, k))
                 /\ TextColumn(str, k + 1) = IF str[k] = NewLine THEN 0
                                             ELSE TextColumn(str, k) + 1
<1> DEFINE Has(k) == \E n \in 0..(k - 1) : ColumnIs(str, k, n)
           T      == {m \in Nat : Has(m + 1)}
<1>1. ASSUME NEW k \in Nat \ {0}, str[k] = NewLine
      PROVE  0 \in 0..k /\ ColumnIs(str, k + 1, 0)
  BY <1>1 DEF ColumnIs
<1>2. ASSUME NEW k \in Nat \ {0}, str[k] # NewLine,
             NEW n \in 0..(k - 1), ColumnIs(str, k, n)
      PROVE  n + 1 \in 0..k /\ ColumnIs(str, k + 1, n + 1)
  <2>1. (k + 1) - 1 - (n + 1) = k - 1 - n /\ (k + 1) - (n + 1) = k - n /\ (k + 1) - 1 = k
    OBVIOUS
  <2>2. n + 1 = (k + 1) - 1 \/ str[(k + 1) - 1 - (n + 1)] = NewLine
    BY <1>2, <2>1 DEF ColumnIs
  <2>3. \A m \in (k - n)..k : m = k \/ m \in (k - n)..(k - 1)
    OBVIOUS
  <2>4. \A m \in ((k + 1) - (n + 1))..((k + 1) - 1) : str[m] # NewLine
    BY <1>2, <2>1, <2>3 DEF ColumnIs
  <2>5. n + 1 \in 0..k
    OBVIOUS
  <2> QED BY <2>2, <2>4, <2>5 DEF ColumnIs
<1>3. \A k \in Nat \ {0} : Has(k)
  <2>1. 0 \in T
    <3>1. 0 \in 0..0 /\ ColumnIs(str, 1, 0)
      BY DEF ColumnIs
    <3> QED BY <3>1
  <2>2. ASSUME NEW m \in Nat, m \in T PROVE m + 1 \in T
    <3> DEFINE k == m + 1
    <3>1. k \in Nat \ {0} /\ (k + 1) - 1 = k
      OBVIOUS
    <3>2. PICK n \in 0..(k - 1) : ColumnIs(str, k, n)
      BY <2>2
    <3>3. Has(k + 1)
      <4> HIDE DEF k
      <4> QED BY <1>1, <1>2, <3>1, <3>2
    <3> QED BY <3>3
  <2>3. Nat \subseteq T
    <3> HIDE DEF T
    <3> QED BY <2>1, <2>2, SetInduction
  <2>4. ASSUME NEW k \in Nat \ {0} PROVE Has(k)
    <3>1. k - 1 \in T /\ (k - 1) + 1 = k
      <4> HIDE DEF T
      <4> QED BY <2>3
    <3>2. Has((k - 1) + 1)
      BY <3>1
    <3> HIDE DEF Has
    <3> QED BY <3>1, <3>2
  <2> QED BY <2>4
<1>4. ASSUME NEW k \in Nat \ {0}
      PROVE  /\ TextColumn(str, k) \in 0..(k - 1)
             /\ ColumnIs(str, k, TextColumn(str, k))
  <2>1. TextColumn(str, k) = CHOOSE n \in 0..(k - 1) : ColumnIs(str, k, n)
    BY DEF TextColumn, ColumnIs
  <2>2. \E n \in 0..(k - 1) : ColumnIs(str, k, n)
    BY <1>3
  <2> QED BY <2>1, <2>2
<1>5. ASSUME NEW k \in Nat \ {0}
      PROVE  TextColumn(str, k + 1) = IF str[k] = NewLine THEN 0 ELSE TextColumn(str, k) + 1
  <2> DEFINE n == IF str[k] = NewLine THEN 0 ELSE TextColumn(str, k) + 1
  <2>1. k + 1 \in Nat \ {0} /\ (k + 1) - 1 = k
    OBVIOUS
  <2>2. n \in 0..((k + 1) - 1) /\ ColumnIs(str, k + 1, n)
    BY <1>1, <1>2, <1>4, <2>1
  <2>3. TextColumn(str, k + 1) \in 0..((k + 1) - 1) /\ ColumnIs(str, k + 1, TextColumn(str, k + 1))
    BY <1>4, <2>1
  <2> HIDE DEF n
  <2>4. TextColumn(str, k + 1) = n
    BY <2>1, <2>2, <2>3, OneColumn
  <2> QED BY <2>4 DEF n
<1>6. TextColumn(str, 1) = 0
  <2>1. TextColumn(str, 1) \in 0..(1 - 1)
    BY <1>4
  <2> QED BY <2>1
<1> QED BY <1>4, <1>5, <1>6

\* No two characters share a cell of the grid.
LEMMA OneCell ==
    ASSUME NEW str, Line(str), NEW k \in Nat \ {0}, NEW l \in Nat \ {0}, k < l,
           str[k] # NewLine,
           TextRow(str, k) = TextRow(str, l), TextColumn(str, k) = TextColumn(str, l)
    PROVE  FALSE
<1>1. \A q \in k..(l - 1) : str[q] # NewLine
  <2> SUFFICES ASSUME NEW q \in k..(l - 1), str[q] = NewLine PROVE FALSE
    OBVIOUS
  <2>1. q \notin Ends(str, k) /\ Ends(str, k) \cup {q} \subseteq Ends(str, l)
    BY DEF Ends
  <2>2. IsFiniteSet(Ends(str, k)) /\ IsFiniteSet(Ends(str, l))
    BY RowOf
  <2>3. Cardinality(Ends(str, k) \cup {q}) = Cardinality(Ends(str, k)) + 1
    BY <2>1, <2>2, FS_AddElement
  <2>4. Cardinality(Ends(str, k) \cup {q}) <= Cardinality(Ends(str, l))
    BY <2>1, <2>2, FS_Subset
  <2>5. TextRow(str, k) = Cardinality(Ends(str, k)) /\ TextRow(str, l) = Cardinality(Ends(str, l))
    BY DEF TextRow, Ends
  <2> DEFINE a == Cardinality(Ends(str, k))
             b == Cardinality(Ends(str, l))
             d == Cardinality(Ends(str, k) \cup {q})
  <2>6. a \in Int
    <3>1. TextRow(str, k) \in 0..(k - 1)
      BY RowOf
    <3>2. TextRow(str, k) \in Int
      BY <3>1
    <3> QED BY <2>5, <3>2
  <2>7. d = a + 1 /\ d <= b /\ a = b
    BY <2>3, <2>4, <2>5
  <2> HIDE DEF a, b, d
  <2> QED BY <2>6, <2>7
<1> DEFINE c == TextColumn(str, l)
<1>2. c \in 0..(l - 1) /\ ColumnIs(str, l, c) /\ c \in 0..(k - 1) /\ ColumnIs(str, k, c)
  BY ColumnOf
<1> HIDE DEF c
<1>3. c # l - 1
  BY <1>2
<1>4. str[l - 1 - c] = NewLine
  BY <1>2, <1>3 DEF ColumnIs
<1>5. l - 1 - c \in (k - c)..(k - 1) \/ l - 1 - c \in k..(l - 1)
  BY <1>2
<1> QED BY <1>1, <1>2, <1>4, <1>5 DEF ColumnIs

-----------------------------------------------------------------------------
(* Text on the screen.                                                     *)

\* Two steps that wrap are one.
LEMMA AddAdd ==
    ASSUME NEW x \in Int, NEW a \in Int, NEW b \in Int
    PROVE  Add(Add(x, a), b) = Add(x, a + b)
<1> DEFINE M == Modulus
           q == (x + a) \div M
           r == (x + a) % M
           t == (r + b) \div M
           z == (r + b) % M
<1>1. M \in Nat \ {0}
  BY Limits
<1>2. q \in Int /\ r \in Int /\ x + a = M * q + r
  BY <1>1
<1> HIDE DEF q, r
<1>3. t \in Int /\ z \in 0..(M - 1) /\ r + b = M * t + z
  BY <1>1, <1>2
<1> HIDE DEF t, z, M
<1>4. x + (a + b) = (q + t) * M + z /\ q + t \in Int
  BY <1>1, <1>2, <1>3
<1>5. (x + (a + b)) % M = z
  BY <1>1, <1>3, <1>4, Remainder
<1> QED BY <1>5 DEF Add, M, r, z

\* A coordinate behind one that wraps.
LEMMA OffsetAdd ==
    ASSUME NEW x \in Int, NEW d \in Int, NEW u \in Int
    PROVE  Offset(u, Add(x, d)) = Offset(Offset(u, x), d)
<1> DEFINE M == Modulus
           q == (x + d) \div M
           r == (x + d) % M
           t == (u - x) \div M
           i == (u - x) % M
           s == (i - d) \div M
           z == (i - d) % M
<1>1. M \in Nat \ {0}
  BY Limits
<1>2. q \in Int /\ r \in Int /\ x + d = M * q + r
  BY <1>1
<1>3. t \in Int /\ i \in Int /\ u - x = M * t + i
  BY <1>1
<1> HIDE DEF q, r, t, i
<1>4. s \in Int /\ z \in 0..(M - 1) /\ i - d = M * s + z
  BY <1>1, <1>3
<1> HIDE DEF s, z, M
<1>5. u - r = (s + t + q) * M + z /\ s + t + q \in Int
  BY <1>1, <1>2, <1>3, <1>4
<1>6. (u - r) % M = z
  BY <1>1, <1>4, <1>5, Remainder
<1> QED BY <1>6 DEF Add, Offset, M, r, i, z

\* In a grid of cells of size f, the q-th holds the places whose quotient is q,
\* at their remainder.
LEMMA InCell ==
    ASSUME NEW f \in Nat \ {0}, NEW q \in Nat, q * f + f <= Modulus,
           NEW x \in Int, NEW u \in Int
    PROVE  /\ Offset(u, x) \in Nat
           /\ Offset(u, Add(x, q * f)) \in Nat
           /\ Offset(u, Add(x, q * f)) < f <=> Offset(u, x) \div f = q
           /\ Offset(u, x) \div f = q => Offset(u, Add(x, q * f)) = Offset(u, x) % f
<1> DEFINE i == Offset(u, x)
           d == q * f
           o == Offset(u, Add(x, d))
<1>1. Modulus \in Nat \ {0} /\ d \in Nat /\ d + f <= Modulus
  BY Limits
<1>2. i \in 0..(Modulus - 1)
  BY <1>1 DEF Offset
<1>3. o = (i - d) % Modulus
  <2> HIDE DEF d
  <2>1. o = Offset(Offset(u, x), d)
    BY <1>1, OffsetAdd
  <2> HIDE DEF o
  <2> QED BY <2>1 DEF Offset
<1> HIDE DEF i, o
<1>4. CASE d <= i
  <2>1. i - d \in 0..(Modulus - 1)
    <3> HIDE DEF d
    <3> QED BY <1>1, <1>2, <1>4
  <2>2. o = i - d /\ o \in Nat
    <3> HIDE DEF d
    <3> QED BY <1>1, <1>3, <2>1
  <2>3. ASSUME o < f PROVE i \div f = q /\ o = i % f
    <3>1. o \in 0..(f - 1) /\ i = q * f + o /\ q \in Int
      <4> HIDE DEF d
      <4>1. o \in 0..(f - 1) /\ i = d + o
        BY <1>1, <1>2, <2>2, <2>3
      <4> QED BY <4>1 DEF d
    <3> QED BY <3>1, Remainder
  <2>4. ASSUME i \div f = q PROVE o < f
    <3>1. i % f \in 0..(f - 1) /\ i = f * (i \div f) + (i % f)
      BY <1>2
    <3>2. i = d + (i % f)
      <4>1. i = f * q + (i % f) /\ f * q = q * f
        BY <2>4, <3>1
      <4> QED BY <4>1
    <3> DEFINE m == i % f
    <3> HIDE DEF d, m
    <3> QED BY <1>1, <1>2, <2>2, <3>1, <3>2 DEF m
  <2> QED BY <1>2, <2>2, <2>3, <2>4 DEF i, o
<1>5. CASE i < d
  <2>1. o = i - d + Modulus
    <3> HIDE DEF d
    <3>1. i - d + Modulus \in 0..(Modulus - 1) /\ i - d = (-1) * Modulus + (i - d + Modulus)
      BY <1>1, <1>2, <1>5
    <3> DEFINE z == i - d + Modulus
    <3>2. z \in 0..(Modulus - 1) /\ i - d = (-1) * Modulus + z
      BY <3>1
    <3> HIDE DEF z
    <3>3. (i - d) % Modulus = z
      BY <1>1, <3>2, Remainder, SMTT(30)
    <3> QED BY <1>3, <3>3 DEF z
  <2>2. o \in Nat /\ ~(o < f)
    <3> HIDE DEF d
    <3> QED BY <1>1, <1>2, <1>5, <2>1
  <2>3. i \div f # q
    <3> SUFFICES ASSUME i \div f = q PROVE FALSE
      OBVIOUS
    <3>1. i % f \in 0..(f - 1) /\ i = f * (i \div f) + (i % f)
      BY <1>2
    <3>2. i = d + (i % f)
      <4>1. i = f * q + (i % f) /\ f * q = q * f
        BY <3>1
      <4> QED BY <4>1
    <3> DEFINE m == i % f
    <3> HIDE DEF d, m
    <3> QED BY <1>1, <1>2, <1>5, <3>1, <3>2 DEF m
  <2> QED BY <1>2, <2>2, <2>3 DEF i, o
<1> QED BY <1>1, <1>2, <1>4, <1>5

\* What drawing a character in the cell of column q and row r does to a place.
CharShown(buffer, c, q, r, x, y, fg, bg, u, v) ==
    At(vbe_draw_char(buffer, c, Add(x, q * mode.font_width),
                     Add(y, r * mode.font_height), fg, bg), u, v)
      = IF Offset(u, x) \div mode.font_width = q /\ Offset(v, y) \div mode.font_height = r
          THEN Blend(IF Offset(u, x) % mode.font_width
                          \in default_font[c][Offset(v, y) % mode.font_height]
                       THEN fg ELSE bg,
                     At(buffer, u, v))
          ELSE At(buffer, u, v)

\* A character drawn in a cell of the grid: its glyph there, nothing elsewhere.
LEMMA CharAt ==
    ASSUME VbeInvariant, 8 <= Modulus, NEW buffer \in Screens,
           NEW x \in Int, NEW y \in Int, NEW c, NEW fg \in Argb, NEW bg \in Argb,
           NEW q \in Nat, q * mode.font_width + mode.font_width <= Modulus,
           NEW r \in Nat, r * mode.font_height + mode.font_height <= Modulus,
           NEW u \in Columns, NEW v \in Rows
    PROVE  CharShown(buffer, c, q, r, x, y, fg, bg, u, v)
<1> DEFINE f == mode.font_width
           g == mode.font_height
           X == Add(x, q * f)
           Y == Add(y, r * g)
           i == Offset(u, x)
           j == Offset(v, y)
           o == Offset(u, X)
           p == Offset(v, Y)
           G == Glyph(c, fg, bg)
           Ink == IF i % f \in default_font[c][j % g] THEN fg ELSE bg
<1>1. f \in Nat \ {0} /\ g \in Nat \ {0} /\ Sized /\ Lettered
  <2>1. u \in 0..(mode.width - 1) /\ mode.width \in Nat
    BY ModeFits DEF Columns
  <2>2. mode.width # 0
    BY <2>1
  <2> QED BY <2>2, ModeFits DEF VbeInvariant
<1>2. u \in Int /\ v \in Int
  BY ModeFits DEF Columns, Rows
<1>3. /\ i \in Nat /\ o \in Nat
      /\ o < f <=> i \div f = q
      /\ i \div f = q => o = i % f
  <2> HIDE DEF f
  <2> QED BY <1>1, <1>2, InCell, ZenonT(40) DEF f
<1>4. /\ j \in Nat /\ p \in Nat
      /\ p < g <=> j \div g = r
      /\ j \div g = r => p = j % g
  <2> HIDE DEF g
  <2> QED BY <1>1, <1>2, InCell, ZenonT(40) DEF g
<1>5. X \in Int /\ Y \in Int
  <2>1. q * f \in Int /\ r * g \in Int /\ Modulus \in Nat \ {0}
    BY <1>1, Limits
  <2> DEFINE a == q * f
             b == r * g
  <2> HIDE DEF a, b
  <2>2. Add(x, a) \in Int /\ Add(y, b) \in Int
    BY <2>1 DEF Add, a, b
  <2> QED BY <2>2 DEF a, b
<1>6. /\ Picture(G) /\ G.width = f /\ G.height = g
      /\ \A k \in 1..(f * g) :
            G.pixels[k] = IF (k - 1) % f \in default_font[c][(k - 1) \div f] THEN fg ELSE bg
  <2>1. Picture(G) /\ Shows(G, c, fg, bg)
    BY <1>1, GlyphPicture
  <2> HIDE DEF G
  <2> QED BY <2>1 DEF Shows
<1>7. At(vbe_draw_char(buffer, c, X, Y, fg, bg), u, v) = Covered(buffer, X, Y, G, u, v)
  <2> HIDE DEF X, Y
  <2>1. vbe_draw_char(buffer, c, X, Y, fg, bg) = Loops(buffer, X, Y, G)
    BY DEF vbe_draw_char
  <2>2. Sized /\ X \in Int /\ Y \in Int /\ Picture(G)
    BY <1>1, <1>5, <1>6
  <2> HIDE DEF G, f, g, i, j, o, p
  <2>3. At(Loops(buffer, X, Y, G), u, v) = Covered(buffer, X, Y, G, u, v)
    BY <2>2, LoopsPlace
  <2> QED BY <2>1, <2>3
<1>8. Covered(buffer, X, Y, G, u, v)
        = IF o < f /\ p < g THEN Blend(G.pixels[p * f + o + 1], At(buffer, u, v))
          ELSE At(buffer, u, v)
  <2> HIDE DEF X, Y, G, f, g
  <2> QED BY <1>6 DEF Covered
<1>9. ASSUME o < f, p < g PROVE G.pixels[p * f + o + 1] = Ink
  <2>1. i % f = o /\ j % g = p
    BY <1>3, <1>4, <1>9
  <2>2. o \in 0..(f - 1) /\ p \in 0..(g - 1)
    <3> HIDE DEF f, g, o, p
    <3> QED BY <1>1, <1>3, <1>4, <1>9
  <2> DEFINE k == p * f + o + 1
  <2>3. k \in 1..(f * g) /\ (k - 1) % f = o /\ (k - 1) \div f = p
    <3> HIDE DEF f, g, o, p
    <3>1. p * f + o \in 0..(f * g - 1)
      BY <1>1, <2>2, InFrame
    <3>2. (p * f + o) % f = o /\ (p * f + o) \div f = p
      BY <1>1, <2>2, Remainder
    <3>3. f * g \in Nat
      BY <1>1
    <3> DEFINE z == p * f + o
               n == f * g
    <3>4. k = z + 1
      OBVIOUS
    <3> HIDE DEF z, n, k
    <3>5. z \in 0..(n - 1) /\ n \in Nat /\ z % f = o /\ z \div f = p
      BY <3>1, <3>2, <3>3 DEF z, n
    <3>6. k - 1 = z /\ k \in 1..n
      BY <3>4, <3>5
    <3> QED BY <3>5, <3>6 DEF n
  <2> HIDE DEF G, f, g, o, p, k
  <2>4. G.pixels[k] = IF o \in default_font[c][p] THEN fg ELSE bg
    BY <1>6, <2>3
  <2> QED BY <2>1, <2>4 DEF k
<1> HIDE DEF X, Y, G, f, g, i, j, o, p
<1>10. At(vbe_draw_char(buffer, c, X, Y, fg, bg), u, v)
         = IF i \div f = q /\ j \div g = r THEN Blend(Ink, At(buffer, u, v)) ELSE At(buffer, u, v)
  BY <1>3, <1>4, <1>7, <1>8, <1>9
<1> QED BY <1>10 DEF CharShown, X, Y, f, g, i, j, Ink

\* The characters whose cell covers a place of the screen, and the ink of one
\* of them there.
Under(str, x, y, u, v) ==
    {k \in 1..Len(str) :
        /\ str[k] # NewLine
        /\ TextColumn(str, k) = Offset(u, x) \div mode.font_width
        /\ TextRow(str, k) = Offset(v, y) \div mode.font_height}

InkOf(str, k, x, y, u, v, fg, bg) ==
    IF Offset(u, x) % mode.font_width \in default_font[str[k]][Offset(v, y) % mode.font_height]
      THEN fg ELSE bg

\* A product grows with its second factor.
LEMMA AtMost ==
    ASSUME NEW n \in Nat, NEW a \in Nat, NEW b \in Nat, a <= b
    PROVE  n * a <= n * b
<1>1. b - a \in Nat
  OBVIOUS
<1>2. n * (b - a) \in Nat
  BY <1>1
<1>3. n * (b - a) = n * b - n * a
  OBVIOUS
<1> DEFINE p == n * a
           q == n * b
           d == n * (b - a)
<1>4. p \in Nat /\ q \in Nat
  OBVIOUS
<1> HIDE DEF p, q, d
<1>5. d \in Nat /\ d = q - p
  BY <1>2, <1>3 DEF p, q, d
<1>6. p <= q
  BY <1>4, <1>5
<1> QED BY <1>6 DEF p, q

\* There is at most one.
LEMMA OneUnder ==
    ASSUME NEW str, Line(str), NEW x, NEW y, NEW u, NEW v,
           NEW k \in Under(str, x, y, u, v), NEW l \in Under(str, x, y, u, v)
    PROVE  k = l
<1>1. \A m \in Under(str, x, y, u, v) :
         /\ m \in Nat \ {0} /\ str[m] # NewLine
         /\ TextColumn(str, m) = Offset(u, x) \div mode.font_width
         /\ TextRow(str, m) = Offset(v, y) \div mode.font_height
  BY DEF Under
<1>2. k \in Nat \ {0} /\ l \in Nat \ {0}
  BY <1>1
<1>3. CASE k < l
  BY <1>1, <1>2, <1>3, OneCell
<1>4. CASE l < k
  BY <1>1, <1>2, <1>4, OneCell
<1> QED BY <1>2, <1>3, <1>4

\* While a string is drawn the cursor walks the grid of its lines.
LEMMA CursorWalks ==
    ASSUME VbeInvariant, NEW str, Line(str), NEW buffer \in Screens,
           NEW x \in 0..(Modulus - 1), NEW y \in 0..(Modulus - 1), NEW fg, NEW bg,
           NEW drawn \in [0..Len(str) -> Cursors], Pass(drawn, buffer, str, x, y, fg, bg)
    PROVE  \A k \in 0..Len(str) :
              /\ drawn[k].x = Add(x, TextColumn(str, k + 1) * mode.font_width)
              /\ drawn[k].y = Add(y, TextRow(str, k + 1) * mode.font_height)
<1> DEFINE n    == Len(str)
           f    == mode.font_width
           g    == mode.font_height
           P(k) == /\ drawn[k].x = Add(x, TextColumn(str, k + 1) * f)
                   /\ drawn[k].y = Add(y, TextRow(str, k + 1) * g)
           T    == {k \in Nat : k \in 0..n => P(k)}
<1>1. n \in Nat /\ f \in Nat /\ g \in Nat /\ Modulus \in Nat \ {0}
  BY ModeFits, Limits DEF Line
<1>2. 0 \in T
  <2>1. drawn[0].x = x /\ drawn[0].y = y
    BY DEF Pass
  <2>2. TextColumn(str, 1) * f = 0 /\ TextRow(str, 1) * g = 0
    <3>1. TextColumn(str, 1) = 0
      BY ColumnOf
    <3>2. 1 \in Nat \ {0}
      OBVIOUS
    <3>3. TextRow(str, 1) = 0
      BY <3>2, RowOf
    <3> HIDE DEF f, g
    <3>4. 0 * f = 0 /\ 0 * g = 0
      BY <1>1
    <3> QED BY <3>1, <3>3, <3>4
  <2>3. Add(x, 0) = x /\ Add(y, 0) = y
    BY <1>1 DEF Add
  <2> HIDE DEF f, g
  <2> QED BY <2>1, <2>2, <2>3
<1>3. ASSUME NEW m \in Nat, m \in T PROVE m + 1 \in T
  <2> SUFFICES ASSUME m + 1 \in 0..n PROVE P(m + 1)
    OBVIOUS
  <2> DEFINE k == m + 1
             q == TextColumn(str, k)
             r == TextRow(str, k)
             old == drawn[m]
  <2>1. m \in 0..n /\ k \in 1..n /\ k - 1 = m /\ k \in Nat \ {0}
    BY <1>1
  <2>2. old.x = Add(x, q * f) /\ old.y = Add(y, r * g)
    BY <1>3, <2>1
  <2>3. q \in Int /\ r \in Int
    <3>1. q \in 0..(k - 1) /\ r \in 0..(k - 1)
      BY <2>1, ColumnOf, RowOf
    <3> HIDE DEF q, r, k
    <3> QED BY <2>1, <3>1
  <2>4. drawn[k] = Step(old, str[k], x, fg, bg)
    BY <2>1 DEF Pass
  <2>5. /\ TextColumn(str, k + 1) = IF str[k] = NewLine THEN 0 ELSE q + 1
        /\ TextRow(str, k + 1) = r + (IF str[k] = NewLine THEN 1 ELSE 0)
    BY <2>1, ColumnOf, RowOf
  <2> HIDE DEF k, q, r, old
  <2>6. CASE str[k] = NewLine
    <3>1. drawn[k].x = x /\ drawn[k].y = Add(old.y, g)
      BY <2>4, <2>6 DEF Step
    <3>2. Add(x, 0) = x /\ 0 * f = 0
      BY <1>1 DEF Add
    <3>3. Add(Add(y, r * g), g) = Add(y, (r + 1) * g)
      <4>1. r * g \in Int /\ r * g + g = (r + 1) * g
        BY <1>1, <2>3
      <4> HIDE DEF f, g
      <4> QED BY <1>1, <4>1, AddAdd
    <3>4. TextColumn(str, k + 1) = 0 /\ TextRow(str, k + 1) = r + 1
      BY <2>5, <2>6
    <3> HIDE DEF f, g
    <3>5. P(k)
      BY <2>2, <3>1, <3>2, <3>3, <3>4
    <3> QED BY <3>5 DEF k
  <2>7. CASE str[k] # NewLine
    <3>1. drawn[k].x = Add(old.x, f) /\ drawn[k].y = old.y
      BY <2>4, <2>7 DEF Step
    <3>2. Add(Add(x, q * f), f) = Add(x, (q + 1) * f)
      <4>1. q * f \in Int /\ q * f + f = (q + 1) * f
        BY <1>1, <2>3
      <4> HIDE DEF f, g
      <4> QED BY <1>1, <4>1, AddAdd
    <3>3. TextColumn(str, k + 1) = q + 1 /\ TextRow(str, k + 1) = r
      BY <2>3, <2>5, <2>7
    <3> HIDE DEF f, g
    <3>4. P(k)
      BY <2>2, <3>1, <3>2, <3>3
    <3> QED BY <3>4 DEF k
  <2> QED BY <2>6, <2>7
<1>4. Nat \subseteq T
  <2> HIDE DEF T
  <2> QED BY <1>2, <1>3, SetInduction
<1> QED BY <1>1, <1>4

\* A string fills the cells of its grid.
LEMMA TextAt ==
    ASSUME VbeInvariant, NEW str, Line(str), NEW buffer \in Screens,
           NEW x \in 0..(Modulus - 1), NEW y \in 0..(Modulus - 1),
           NEW fg \in Argb, NEW bg \in Argb, NEW u \in Columns, NEW v \in Rows
    PROVE  At(vbe_draw_string(buffer, str, x, y, fg, bg), u, v)
             = IF Under(str, x, y, u, v) = {} THEN At(buffer, u, v)
               ELSE Blend(InkOf(str, CHOOSE k \in Under(str, x, y, u, v) : TRUE,
                                x, y, u, v, fg, bg),
                          At(buffer, u, v))
<1> DEFINE n      == Len(str)
           under  == Under(str, x, y, u, v)
           Ink(k) == InkOf(str, k, x, y, u, v, fg, bg)
           bg0    == At(buffer, u, v)
<1>1. /\ n \in Nat /\ Sized /\ Lettered /\ Modulus \in Nat \ {0}
      /\ x \in Nat /\ y \in Nat /\ x \in Int /\ y \in Int
      /\ mode.font_width \in Nat /\ mode.font_height \in Nat
  BY ModeFits, Limits DEF Line
<1>2. PICK drawn \in [0..n -> Cursors] : Pass(drawn, buffer, str, x, y, fg, bg)
  BY <1>1, StringPass
<1>3. \A k \in 0..n : /\ drawn[k].x = Add(x, TextColumn(str, k + 1) * mode.font_width)
                      /\ drawn[k].y = Add(y, TextRow(str, k + 1) * mode.font_height)
  BY <1>2, CursorWalks
<1> DEFINE Pixel(k) == At(drawn[k].buffer, u, v)
           P(k)     == /\ (\A m \in under : m > k) => Pixel(k) = bg0
                       /\ \A m \in under : m <= k => Pixel(k) = Blend(Ink(m), bg0)
           T        == {k \in Nat : k \in 0..n => P(k)}
<1>4. \A m \in under : m \in 1..n
  BY DEF Under
<1>5. 0 \in T
  <2>1. drawn[0].buffer = buffer
    BY <1>2 DEF Pass
  <2>2. Pixel(0) = bg0
    BY <2>1
  <2> HIDE DEF Pixel, bg0, under, n, Ink
  <2> QED BY <1>1, <1>4, <2>2
<1>6. ASSUME NEW m \in Nat, m \in T PROVE m + 1 \in T
  <2> SUFFICES ASSUME m + 1 \in 0..n PROVE P(m + 1)
    OBVIOUS
  <2> DEFINE k   == m + 1
             q   == TextColumn(str, k)
             r   == TextRow(str, k)
             old == drawn[m]
  <2>1. m \in 0..n /\ k \in 1..n /\ k - 1 = m /\ k \in Nat \ {0} /\ k <= n
    BY <1>1
  <2>2. P(m) /\ old \in Cursors
    BY <1>2, <1>6, <2>1
  <2>3. old.x = Add(x, q * mode.font_width) /\ old.y = Add(y, r * mode.font_height)
    BY <1>3, <2>1
  <2>4. drawn[k] = Step(old, str[k], x, fg, bg)
    BY <1>2, <2>1 DEF Pass
  <2>5. q \in 0..(k - 1) /\ r \in 0..(k - 1)
    BY <2>1, ColumnOf, RowOf
  <2>6. \A l \in under : (l <= k <=> l <= m \/ l = k) /\ (l > m <=> l > k \/ l = k)
    <3> HIDE DEF under, n
    <3> QED BY <1>4, <2>1
  <2>7. CASE str[k] = NewLine
    <3>1. drawn[k].buffer = old.buffer
      BY <2>4, <2>7 DEF Step
    <3>2. Pixel(k) = Pixel(m)
      BY <3>1
    <3>3. k \notin under
      BY <2>7 DEF Under
    <3> HIDE DEF Pixel, bg0, under, Ink, k, n
    <3>4. P(k)
      BY <2>2, <2>6, <3>2, <3>3
    <3> QED BY <3>4 DEF k
  <2>8. CASE str[k] # NewLine
    <3>1. drawn[k].buffer = vbe_draw_char(old.buffer, str[k], old.x, old.y, fg, bg)
      BY <2>4, <2>8 DEF Step
    <3>2. /\ 8 <= Modulus
          /\ q \in Nat /\ q * mode.font_width + mode.font_width <= Modulus
          /\ r \in Nat /\ r * mode.font_height + mode.font_height <= Modulus
      <4>1. /\ n * 8 <= Modulus /\ n * FontRows <= Modulus /\ FontRows \in Nat
            /\ mode.font_width \in 0..8 /\ mode.font_height \in 0..FontRows
        BY <1>1, Limits DEF Line, Lettered
      <4> DEFINE f == mode.font_width
                 g == mode.font_height
      <4> HIDE DEF n, k, q, r, f, g
      <4>2. q \in 0..(n - 1) /\ r \in 0..(n - 1)
        BY <1>1, <2>1, <2>5
      <4>3. q * f \in Nat /\ q * f + f <= n * f /\ r * g \in Nat /\ r * g + g <= n * g
        BY <1>1, <4>2, Product DEF f, g
      <4>4. n * f <= n * 8 /\ n * g <= n * FontRows
        <5>1. f \in 0..8 /\ g \in 0..FontRows /\ FontRows \in Nat /\ n \in Nat
          BY <1>1, <4>1 DEF f, g
        <5>2. f \in Nat /\ 8 \in Nat /\ g \in Nat /\ f <= 8 /\ g <= FontRows
          BY <5>1
        <5> QED BY <5>1, <5>2, AtMost
      <4>5. 8 <= n * 8
        BY <1>1, <2>1
      <4>6. q \in Nat /\ r \in Nat
        BY <1>1, <4>2
      <4> DEFINE qf == q * f
                 rg == r * g
                 nf == n * f
                 ng == n * g
                 nr == n * FontRows
      <4>7. nf \in Int /\ ng \in Int /\ nr \in Int /\ f \in Nat /\ g \in Nat
        BY <1>1, <4>1 DEF f, g
      <4>8. /\ qf \in Nat /\ qf + f <= nf /\ rg \in Nat /\ rg + g <= ng
            /\ nf <= n * 8 /\ ng <= nr /\ nr <= Modulus /\ n * 8 <= Modulus
        BY <4>1, <4>3, <4>4
      <4> HIDE DEF qf, rg, nf, ng, nr
      <4>9. qf + f <= Modulus /\ rg + g <= Modulus /\ 8 <= Modulus
        BY <1>1, <4>5, <4>7, <4>8
      <4> QED BY <4>6, <4>9 DEF qf, rg, f, g
    <3>3. k \in under <=> /\ Offset(u, x) \div mode.font_width = q
                          /\ Offset(v, y) \div mode.font_height = r
      BY <2>1, <2>8 DEF Under
    <3>4. Pixel(k) = IF k \in under THEN Blend(Ink(k), Pixel(m)) ELSE Pixel(m)
      <4> DEFINE B == old.buffer
                 c == str[k]
      <4>1. B \in Screens
        BY <2>2 DEF Cursors
      <4> HIDE DEF q, r, old, k, B, c
      <4>2. CharShown(B, c, q, r, x, y, fg, bg, u, v)
        BY <1>1, <3>2, <4>1, CharAt
      <4>3. At(drawn[k].buffer, u, v)
              = IF k \in under THEN Blend(Ink(k), At(B, u, v)) ELSE At(B, u, v)
        <5> HIDE DEF under
        <5> QED BY <2>3, <3>1, <3>3, <4>2 DEF CharShown, InkOf, B, c
      <4> QED BY <4>3 DEF B, old
    <3>5. k \in under => \A l \in under : l = k
      BY OneUnder
    <3> HIDE DEF Pixel, bg0, under, Ink, q, r, n
    <3>6. CASE k \in under
      <4>1. \A l \in under : l > m
        BY <2>6, <3>5, <3>6
      <4>2. Pixel(m) = bg0
        BY <2>2, <4>1
      <4>3. Pixel(k) = Blend(Ink(k), bg0)
        BY <3>4, <3>6, <4>2
      <4>4. ~(k > k)
        BY <2>1
      <4> HIDE DEF k
      <4>5. P(k)
        BY <3>5, <3>6, <4>3, <4>4
      <4> QED BY <4>5 DEF k
    <3>7. CASE k \notin under
      <4> HIDE DEF k
      <4>1. Pixel(k) = Pixel(m)
        BY <3>4, <3>7
      <4>2. P(k)
        BY <2>2, <2>6, <3>7, <4>1
      <4> QED BY <4>2 DEF k
    <3> QED BY <3>6, <3>7
  <2> QED BY <2>7, <2>8
<1>7. Nat \subseteq T
  <2> HIDE DEF T
  <2> QED BY <1>5, <1>6, SetInduction
<1>8. P(n)
  <2> HIDE DEF P
  <2> QED BY <1>1, <1>7
<1>9. At(vbe_draw_string(buffer, str, x, y, fg, bg), u, v) = Pixel(n)
  BY <1>2 DEF Pass
<1> HIDE DEF Pixel, bg0, under, Ink, n
<1>10. CASE under = {}
  BY <1>8, <1>9, <1>10 DEF under, bg0
<1>11. CASE under # {}
  <2> DEFINE k == CHOOSE l \in under : TRUE
  <2>1. k \in under
    BY <1>11
  <2>2. k <= n
    <3> HIDE DEF k
    <3> QED BY <1>1, <1>4, <2>1
  <2>3. Pixel(n) = Blend(Ink(k), bg0)
    BY <1>8, <2>1, <2>2
  <2> QED BY <1>9, <1>11, <2>3 DEF under, Ink, bg0
<1> QED BY <1>10, <1>11

\* Text of any length fills the cells of a grid from x, y with its glyphs, in
\* every font size and on every buffer.
THEOREM TextIsPlaced == Spec => []TextPlaced
<1>1. VbeInvariant => TextPlaced
  <2> SUFFICES ASSUME VbeInvariant, NEW x \in Coordinates, NEW y \in Coordinates,
                      NEW str \in Strings, NEW ink \in Inks, NEW u \in Columns, NEW v \in Rows
               PROVE  At(vbe_draw_string(backbuffer, str, x, y, ink[1], ink[2]), u, v)
                        = IF Under(str, x, y, u, v) = {} THEN At(backbuffer, u, v)
                          ELSE Blend(InkOf(str, CHOOSE k \in Under(str, x, y, u, v) : TRUE,
                                           x, y, u, v, ink[1], ink[2]),
                                     At(backbuffer, u, v))
    BY DEF TextPlaced, Under, InkOf
  <2> DEFINE fg == ink[1]
             bg == ink[2]
  <2>1. /\ x \in 0..(Modulus - 1) /\ y \in 0..(Modulus - 1) /\ fg \in Argb /\ bg \in Argb
        /\ Line(str) /\ backbuffer \in Screens
    BY DrawnScreens, VbeAssumption DEF VbeInvariant
  <2> HIDE DEF fg, bg
  <2>2. At(vbe_draw_string(backbuffer, str, x, y, fg, bg), u, v)
          = IF Under(str, x, y, u, v) = {} THEN At(backbuffer, u, v)
            ELSE Blend(InkOf(str, CHOOSE k \in Under(str, x, y, u, v) : TRUE,
                             x, y, u, v, fg, bg),
                       At(backbuffer, u, v))
    BY <2>1, TextAt
  <2> QED BY <2>2 DEF fg, bg
<1> QED BY <1>1, VbeIsInvariant, PTL
=============================================================================
