---------------------------- MODULE PrintkProofs ----------------------------
(***************************************************************************)
(* Theorems about Printk and the console of VgaText, for screens of any    *)
(* size, any strings, formats and arguments, and any size of the buffer:   *)
(* what text memory shows, and what printk writes there.                   *)
(*                                                                         *)
(* A loop over a string is a recursive function in VgaText; Iterates and   *)
(* SetInduction are, as in VbeProofs, how its passes are reasoned about.   *)
(* PrintkInvariant has three parts: of the console (WriteKeeps, ColorKeeps *)
(* and InitKeeps), of the kinds of the variables (KindsKept), and of how   *)
(* far a call has got with its format and arguments (ProgressKept).        *)
(***************************************************************************)
EXTENDS Printk, SequenceTheorems, FiniteSetTheorems, WellFoundedInduction, TLAPS

-----------------------------------------------------------------------------
(* Induction and loops.                                                    *)

\* Induction on the natural numbers, for a set of them: Nat is well founded.
LEMMA SetInduction ==
    ASSUME NEW T, 0 \in T, \A n \in Nat : n \in T => n + 1 \in T
    PROVE  Nat \subseteq T
<1> DEFINE Rest == Nat \ T
           R == OpToRel(<, Nat)
<1> SUFFICES ASSUME Rest # {} PROVE FALSE
  OBVIOUS
<1>1. PICK x \in Rest : \A y \in Rest : ~ (<< y, x >> \in R)
  <2>1. IsWellFoundedOn(R, Nat)
    BY NatLessThanWellFounded
  <2>2. Rest \subseteq Nat /\ Rest # {}
    OBVIOUS
  <2> HIDE DEF R, Rest
  <2> QED BY <2>1, <2>2, WFMin, Zenon
<1>2. \A y \in Nat : << y, x >> \in R <=> y < x
  BY DEF OpToRel
<1>3. x - 1 \in Nat /\ x - 1 < x /\ x = (x - 1) + 1
  <2>1. x # 0
    OBVIOUS
  <2> QED BY <2>1
<1>4. x - 1 \in T
  BY <1>1, <1>2, <1>3
<1> QED BY <1>3, <1>4

\* A loop: n steps, each a function on a set of states.
Loop(States, base, n, F) ==
    \E g \in [0..n -> States] :
        g[0] = base /\ \A k \in 1..n : g[k] = F[k][g[k - 1]]

\* Such a loop has a value after every pass.
LEMMA Iterates ==
    ASSUME NEW States, NEW base \in States, NEW n \in Nat,
           NEW F \in [1..n -> [States -> States]]
    PROVE  Loop(States, base, n, F)
<1> DEFINE Good(g, m) == g[0] = base /\ \A k \in 1..m : g[k] = F[k][g[k - 1]]
           T == {m \in Nat : m <= n => \E g \in [0..m -> States] : Good(g, m)}
<1>1. 0 \in T
  <2> DEFINE g == [k \in 0..0 |-> base]
  <2>1. g \in [0..0 -> States] /\ Good(g, 0)
    OBVIOUS
  <2> QED BY <2>1
<1>2. ASSUME NEW m \in Nat, m \in T PROVE m + 1 \in T
  <2> SUFFICES ASSUME m + 1 <= n PROVE \E g \in [0..(m + 1) -> States] : Good(g, m + 1)
    OBVIOUS
  <2>1. PICK f \in [0..m -> States] : Good(f, m)
    BY <1>2
  <2> DEFINE g == [k \in 0..(m + 1) |-> IF k <= m THEN f[k] ELSE F[m + 1][f[m]]]
  <2>2. F[m + 1] \in [States -> States] /\ f[m] \in States
    OBVIOUS
  <2>3. g \in [0..(m + 1) -> States]
    BY <2>2
  <2>4. ASSUME NEW k \in 1..(m + 1) PROVE g[k] = F[k][g[k - 1]]
    <3>1. CASE k <= m
      BY <2>1, <3>1
    <3>2. CASE k = m + 1
      BY <3>2
    <3> QED BY <3>1, <3>2
  <2>5. g[0] = base
    BY <2>1
  <2> QED BY <2>3, <2>4, <2>5
<1>3. n \in T
  <2> HIDE DEF T
  <2> QED BY <1>1, <1>2, SetInduction
<1> QED BY <1>3 DEF Loop

-----------------------------------------------------------------------------
(* What Without leaves of a sequence.                                      *)

\* One pass of the selection.
Take(kept, c, set) == IF c \in set THEN kept ELSE Append(kept, c)

\* What is kept of each beginning of a sequence.
Keeps(kept, seq, set) ==
    /\ kept[0] = << >>
    /\ \A k \in 1..Len(seq) : kept[k] = Take(kept[k - 1], seq[k], set)
    /\ Without(seq, set) = kept[Len(seq)]

\* The passes over a sequence, one after the other.
LEMMA WithoutPass ==
    ASSUME NEW E, NEW seq \in Seq(E), NEW set
    PROVE  \E kept \in [0..Len(seq) -> Seq(E)] : Keeps(kept, seq, set)
<1> DEFINE n       == Len(seq)
           Es      == Seq(E)
           none    == << >>
           Body(g) == [k \in 0..n |-> IF k = 0 THEN none ELSE Take(g[k - 1], seq[k], set)]
           kept    == CHOOSE g : g = Body(g)
           F       == [k \in 1..n |-> [s \in Es |-> Take(s, seq[k], set)]]
<1>1. n \in Nat
  OBVIOUS
<1>2. Without(seq, set) = kept[n]
  BY DEF Without, Take
<1>3. none \in Es
  OBVIOUS
<1>4. \A k \in 1..n : \A s \in Es : Take(s, seq[k], set) \in Es
  BY DEF Take
<1> HIDE DEF n, none, Es
<1>5. F \in [1..n -> [Es -> Es]]
  BY <1>4
<1>6. PICK g \in [0..n -> Es] : g[0] = none /\ \A k \in 1..n : g[k] = F[k][g[k - 1]]
  <2> HIDE DEF F
  <2>1. Loop(Es, none, n, F)
    BY <1>1, <1>3, <1>5, Iterates
  <2> QED BY <2>1 DEF Loop
<1>7. ASSUME NEW k \in 1..n PROVE g[k] = Take(g[k - 1], seq[k], set)
  <2>1. k - 1 \in 0..n
    BY <1>1
  <2>2. g[k - 1] \in Es
    BY <1>6, <2>1
  <2>3. F[k] = [s \in Es |-> Take(s, seq[k], set)]
    OBVIOUS
  <2> HIDE DEF F
  <2> QED BY <1>6, <2>2, <2>3
<1>8. g = Body(g)
  BY <1>1, <1>6, <1>7
<1>9. kept = Body(kept)
  <2> HIDE DEF Body
  <2> QED BY <1>8
<1>10. DOMAIN kept = 0..n /\ kept[0] = none
  <2> HIDE DEF kept
  <2> QED BY <1>1, <1>9
<1>11. ASSUME NEW k \in 1..n PROVE kept[k] = Take(kept[k - 1], seq[k], set)
  <2> HIDE DEF kept
  <2> QED BY <1>1, <1>9
<1>12. kept = [k \in 0..n |-> kept[k]]
  <2> HIDE DEF kept
  <2> QED BY <1>9
<1>13. \A m \in Nat : m \in 0..n => kept[m] \in Es
  <2> DEFINE T == {m \in Nat : m \in 0..n => kept[m] \in Es}
  <2> HIDE DEF kept
  <2>1. 0 \in T
    BY <1>3, <1>10
  <2>2. ASSUME NEW m \in Nat, m \in T PROVE m + 1 \in T
    <3> SUFFICES ASSUME m + 1 \in 0..n PROVE kept[m + 1] \in Es
      OBVIOUS
    <3>1. m \in 0..n /\ m + 1 \in 1..n /\ (m + 1) - 1 = m
      BY <1>1
    <3>2. kept[m] \in Es
      BY <2>2, <3>1
    <3> QED BY <1>4, <1>11, <3>1, <3>2
  <2>3. Nat \subseteq T
    <3> HIDE DEF T
    <3> QED BY <2>1, <2>2, SetInduction
  <2> QED BY <2>3
<1> HIDE DEF kept
<1>14. kept \in [0..n -> Es]
  <2>1. \A m \in 0..n : m \in Nat
    BY <1>1
  <2> QED BY <1>12, <1>13, <2>1
<1>15. Keeps(kept, seq, set)
  BY <1>2, <1>10, <1>11 DEF Keeps, n, none
<1> QED BY <1>14, <1>15 DEF n, Es

\* A sequence that reads as another does with the member at q behind it.
OneMore(s, t, B, q) ==
    Without(t, B) = IF t[q] \in B THEN Without(s, B) ELSE Append(Without(s, B), t[q])

\* One member changes where only members of the set follow.
LEMMA WithoutOneMore ==
    ASSUME NEW E, NEW B, NEW s \in Seq(E), NEW t \in Seq(E), Len(t) = Len(s),
           NEW q \in 1..Len(s),
           \A k \in 1..Len(s) : k # q => t[k] = s[k],
           \A k \in 1..Len(s) : k >= q => s[k] \in B
    PROVE  OneMore(s, t, B, q)
<1> DEFINE n == Len(s)
<1>1. n \in Nat /\ Len(t) = n /\ q \in 1..n
  OBVIOUS
<1>2. PICK ks \in [0..Len(s) -> Seq(E)] : Keeps(ks, s, B)
  BY WithoutPass
<1>3. PICK kt \in [0..Len(t) -> Seq(E)] : Keeps(kt, t, B)
  BY WithoutPass
<1> DEFINE More(k) == IF k < q \/ t[q] \in B THEN ks[k] ELSE Append(ks[k], t[q])
           T       == {k \in Nat : k \in 0..n => kt[k] = More(k)}
<1>4. 0 \in T
  BY <1>1, <1>2, <1>3 DEF Keeps
<1>5. ASSUME NEW m \in Nat, m \in T PROVE m + 1 \in T
  <2> SUFFICES ASSUME m + 1 \in 0..n PROVE kt[m + 1] = More(m + 1)
    OBVIOUS
  <2> DEFINE k == m + 1
  <2>1. m \in 0..n /\ k \in 1..n /\ k - 1 = m
    BY <1>1
  <2>2. kt[m] = More(m)
    BY <1>5, <2>1
  <2>3. ks[k] = IF s[k] \in B THEN ks[m] ELSE Append(ks[m], s[k])
    <3> HIDE DEF k
    <3> QED BY <1>2, <2>1 DEF Keeps, Take
  <2>4. kt[k] = IF t[k] \in B THEN kt[m] ELSE Append(kt[m], t[k])
    <3> HIDE DEF k
    <3> QED BY <1>1, <1>3, <2>1 DEF Keeps, Take
  <2>5. CASE k < q
    <3>1. t[k] = s[k] /\ m < q
      BY <1>1, <2>1, <2>5
    <3> QED BY <2>2, <2>3, <2>4, <2>5, <3>1
  <2>6. CASE k = q
    <3>1. s[k] \in B /\ m < q /\ ~(k < q) /\ t[k] = t[q]
      BY <1>1, <2>1, <2>6
    <3>2. kt[m] = ks[m] /\ ks[k] = ks[m]
      BY <2>2, <2>3, <3>1
    <3> HIDE DEF k
    <3>3. kt[k] = More(k)
      BY <2>4, <3>1, <3>2
    <3> QED BY <3>3 DEF k
  <2>7. CASE k > q
    <3>1. s[k] \in B /\ t[k] \in B /\ ~(m < q) /\ ~(k < q)
      BY <1>1, <2>1, <2>7
    <3>2. kt[k] = kt[m] /\ ks[k] = ks[m]
      BY <2>3, <2>4, <3>1
    <3> HIDE DEF k
    <3>3. kt[k] = More(k)
      BY <2>2, <3>1, <3>2
    <3> QED BY <3>3 DEF k
  <2> QED BY <1>1, <2>1, <2>5, <2>6, <2>7
<1>6. Nat \subseteq T
  <2> HIDE DEF T
  <2> QED BY <1>4, <1>5, SetInduction
<1>7. kt[n] = More(n) /\ ~(n < q)
  <2>1. n \in T
    BY <1>1, <1>6
  <2> QED BY <1>1, <2>1
<1> QED BY <1>2, <1>3, <1>7 DEF Keeps, OneMore

\* Of a sequence all in the set nothing is left.
LEMMA WithoutAll ==
    ASSUME NEW E, NEW B, NEW s \in Seq(E), \A k \in 1..Len(s) : s[k] \in B
    PROVE  Without(s, B) = << >>
<1> DEFINE n == Len(s)
<1>1. n \in Nat
  OBVIOUS
<1>2. PICK kept \in [0..Len(s) -> Seq(E)] : Keeps(kept, s, B)
  BY WithoutPass
<1> DEFINE T == {k \in Nat : k \in 0..n => kept[k] = << >>}
<1>3. 0 \in T
  BY <1>2 DEF Keeps
<1>4. ASSUME NEW m \in Nat, m \in T PROVE m + 1 \in T
  <2> SUFFICES ASSUME m + 1 \in 0..n PROVE kept[m + 1] = << >>
    OBVIOUS
  <2>1. m \in 0..n /\ m + 1 \in 1..n /\ (m + 1) - 1 = m
    BY <1>1
  <2> QED BY <1>2, <1>4, <2>1 DEF Keeps, Take
<1>5. Nat \subseteq T
  <2> HIDE DEF T
  <2> QED BY <1>3, <1>4, SetInduction
<1> QED BY <1>1, <1>2, <1>5 DEF Keeps

-----------------------------------------------------------------------------
(* The loop of vga_write_string.                                           *)

EndOfMemory == VGA_WIDTH * MaxRows

\* What the loop keeps between two characters, and where it stands.
Consoles == [row : Nat, column : 0..VGA_WIDTH, buffer : [Indices -> Cells]]

Place(con) == con.row * VGA_WIDTH + con.column

Ahead(con) == \A i \in Indices : i >= Place(con) => con.buffer[i] \in Blank

\* Text memory read in order.
Memory(b) == [k \in 1..(EndOfMemory - since) |-> b[since + k - 1]]

Read(b) == Without(Memory(b), Blank)

\* The sizes of the console are numbers.
LEMMA Sizes ==
    /\ VGA_WIDTH \in Nat \ {0} /\ VGA_HEIGHT \in Nat \ {0} /\ MaxRows \in Nat \ {0}
    /\ EndOfMemory \in Nat
<1>1. VGA_WIDTH \in Nat \ {0} /\ VGA_HEIGHT \in Nat \ {0} /\ MaxRows \in Nat \ {0}
  BY VgaAssumption
<1> QED BY <1>1 DEF EndOfMemory

\* A row and a column are a place in text memory.
LEMMA InMemory ==
    ASSUME NEW row \in 0..(MaxRows - 1), NEW column \in 0..(VGA_WIDTH - 1)
    PROVE  row * VGA_WIDTH + column \in Indices
<1>1. row \in Nat /\ MaxRows - 1 - row \in Nat
  BY Sizes
<1> DEFINE W == VGA_WIDTH
           a == row * W
           d == (MaxRows - 1 - row) * W
<1>2. a \in Nat /\ d \in Nat
  BY <1>1, Sizes
<1>3. EndOfMemory = a + d + W
  BY <1>1, Sizes DEF EndOfMemory
<1> HIDE DEF a, d, W
<1>4. W \in Nat \ {0} /\ column \in 0..(W - 1)
  BY Sizes DEF W
<1>5. a + column \in 0..(EndOfMemory - 1)
  BY <1>2, <1>3, <1>4
<1> QED BY <1>5 DEF a, W, Indices, EndOfMemory

\* The next row starts VGA_WIDTH places further on.
LEMMA NextRow ==
    ASSUME NEW row \in Nat
    PROVE  row * VGA_WIDTH \in Nat /\ (row + 1) * VGA_WIDTH = row * VGA_WIDTH + VGA_WIDTH
BY Sizes

\* The word of a character: blank for a space only.
LEMMA WordIs ==
    ASSUME vga_color \in 0..255, NEW c \in Char
    PROVE  Word(c) \in Cells /\ (Word(c) \in Blank <=> c = Space)
<1>1. Word(c) \in [attribute : 0..255, char : Char] /\ Word(c).char = c
  BY DEF Word, Cell
<1>2. Word(c) # Unwritten
  <2>1. DOMAIN Word(c) = {"attribute", "char"}
    BY DEF Word, Cell
  <2>2. DOMAIN Unwritten = {}
    BY DEF Unwritten
  <2> QED BY <2>1, <2>2
<1>3. Word(c) \in [attribute : 0..255, char : {Space}] <=> c = Space
  <2>1. c = Space => Word(c) \in [attribute : 0..255, char : {Space}]
    BY DEF Word, Cell
  <2>2. Word(c) \in [attribute : 0..255, char : {Space}] => c = Space
    BY <1>1
  <2> QED BY <2>1, <2>2
<1> QED BY <1>1, <1>2, <1>3 DEF Cells, Blank

\* A console stays one.
LEMMA PutKeeps ==
    ASSUME vga_color \in 0..255, NEW con \in Consoles, NEW c \in Char
    PROVE  PutChar(con, c) \in Consoles
<1>1. con.row \in Nat /\ con.column \in 0..VGA_WIDTH /\ con.buffer \in [Indices -> Cells]
  BY DEF Consoles
<1>2. VGA_WIDTH \in Nat \ {0} /\ 0 \in 0..VGA_WIDTH
  BY Sizes
<1>3. CASE c = NewLine
  <2>1. PutChar(con, c) = [[con EXCEPT !.column = 0] EXCEPT !.row = con.row + 1]
    BY <1>3 DEF PutChar, Consoles
  <2>2. con \in [row : Nat, column : 0..VGA_WIDTH, buffer : [Indices -> Cells]]
    BY DEF Consoles
  <2>3. [con EXCEPT !.column = 0] \in Consoles
    BY <1>2, <2>2 DEF Consoles
  <2>4. con.row + 1 \in Nat
    BY <1>1
  <2> DEFINE d == [con EXCEPT !.column = 0]
             r == con.row + 1
  <2> HIDE DEF d, r
  <2>5. [d EXCEPT !.row = r] \in Consoles
    BY <2>3, <2>4 DEF Consoles, d, r
  <2> QED BY <2>1, <2>5 DEF d, r
<1>4. CASE c # NewLine
  <2> DEFINE full   == con.column >= VGA_WIDTH
             row    == IF full THEN con.row + 1 ELSE con.row
             column == IF full THEN 0 ELSE con.column
             b      == [con.buffer EXCEPT ![row * VGA_WIDTH + column] = Word(c)]
  <2>1. row \in Nat /\ column + 1 \in 0..VGA_WIDTH
    BY <1>1, <1>2
  <2>2. b \in [Indices -> Cells]
    BY <1>1, WordIs
  <2>3. PutChar(con, c) = [row |-> row, column |-> column + 1, buffer |-> b]
    BY <1>4 DEF PutChar
  <2> HIDE DEF row, column, b
  <2> QED BY <2>1, <2>2, <2>3 DEF Consoles
<1> QED BY <1>3, <1>4

\* Text memory with one more word at the end of what is written.
Reads(b, p, w) ==
    Read([b EXCEPT ![p] = w]) = IF w \in Blank THEN Read(b) ELSE Append(Read(b), w)

\* It reads as before, with that word behind it when it can be seen.
LEMMA ReadOneMore ==
    ASSUME since \in Nat, NEW b \in [Indices -> Cells], NEW p \in Indices, since <= p,
           NEW w \in Cells, \A i \in Indices : i >= p => b[i] \in Blank
    PROVE  Reads(b, p, w)
<1> DEFINE t == [b EXCEPT ![p] = w]
           q == p - since + 1
           n == EndOfMemory - since
<1>1. /\ p \in 0..(EndOfMemory - 1) /\ EndOfMemory \in Nat /\ n \in Nat
      /\ q \in 1..n /\ Indices = 0..(EndOfMemory - 1)
  BY Sizes DEF Indices, EndOfMemory
<1>2. \A k \in 1..n : since + k - 1 \in Indices
  BY <1>1
<1>3. /\ Memory(b) \in Seq(Cells) /\ Len(Memory(b)) = n
      /\ \A k \in 1..n : Memory(b)[k] = b[since + k - 1]
  <2> HIDE DEF n
  <2>1. Memory(b) = [k \in 1..n |-> b[since + k - 1]]
    BY DEF Memory, n
  <2>2. \A k \in 1..n : b[since + k - 1] \in Cells
    BY <1>2
  <2> QED BY <1>1, <2>1, <2>2
<1>4. /\ Memory(t) \in Seq(Cells) /\ Len(Memory(t)) = n
      /\ \A k \in 1..n : Memory(t)[k] = t[since + k - 1]
  <2>1. t \in [Indices -> Cells]
    OBVIOUS
  <2> HIDE DEF n, t
  <2>2. Memory(t) = [k \in 1..n |-> t[since + k - 1]]
    BY DEF Memory, n
  <2>3. \A k \in 1..n : t[since + k - 1] \in Cells
    BY <1>2, <2>1
  <2> QED BY <1>1, <2>2, <2>3
<1>5. Memory(t)[q] = w
  <2>1. since + q - 1 = p
    BY <1>1
  <2> HIDE DEF q, n
  <2> QED BY <1>1, <1>4, <2>1
<1>6. \A k \in 1..n : k # q => Memory(t)[k] = Memory(b)[k]
  <2> SUFFICES ASSUME NEW k \in 1..n, k # q PROVE Memory(t)[k] = Memory(b)[k]
    OBVIOUS
  <2>1. since + k - 1 # p
    BY <1>1
  <2> HIDE DEF q, n
  <2> QED BY <1>2, <1>3, <1>4, <2>1
<1>7. \A k \in 1..n : k >= q => Memory(b)[k] \in Blank
  <2> SUFFICES ASSUME NEW k \in 1..n, k >= q PROVE Memory(b)[k] \in Blank
    OBVIOUS
  <2>1. since + k - 1 >= p
    BY <1>1
  <2> HIDE DEF q, n
  <2> QED BY <1>2, <1>3, <2>1
<1> HIDE DEF t, q, n
<1>8. Without(Memory(t), Blank)
        = IF Memory(t)[q] \in Blank THEN Without(Memory(b), Blank)
          ELSE Append(Without(Memory(b), Blank), Memory(t)[q])
  <2> DEFINE s == Memory(b)
             u == Memory(t)
  <2>1. /\ s \in Seq(Cells) /\ u \in Seq(Cells) /\ Len(u) = Len(s) /\ q \in 1..Len(s)
        /\ \A k \in 1..Len(s) : k # q => u[k] = s[k]
        /\ \A k \in 1..Len(s) : k >= q => s[k] \in Blank
    BY <1>1, <1>3, <1>4, <1>6, <1>7
  <2> HIDE DEF s, u
  <2>2. OneMore(s, u, Blank, q)
    BY <2>1, WithoutOneMore
  <2> QED BY <2>2 DEF OneMore, s, u
<1>9. Read(t) = IF w \in Blank THEN Read(b) ELSE Append(Read(b), w)
  BY <1>5, <1>8 DEF Read
<1> QED BY <1>9 DEF Reads, t

\* What putting a character does to the console: it takes at most a row,
\* leaves what follows blank, and adds the character, if it can be seen, to
\* what text memory reads.
Puts(con, new, c) ==
    /\ since <= Place(new)
    /\ new.row <= con.row + 1
    /\ Ahead(new)
    /\ Read(new.buffer) = IF c \in {NewLine, Space} THEN Read(con.buffer)
                          ELSE Append(Read(con.buffer), Word(c))

\* vga_put_char, on a console whose cursor stands before the last row.
LEMMA PutReads ==
    ASSUME vga_color \in 0..255, since \in Nat, NEW con \in Consoles, NEW c \in Char,
           since <= Place(con), con.row + 1 < MaxRows, Ahead(con)
    PROVE  Puts(con, PutChar(con, c), c)
<1> DEFINE new == PutChar(con, c)
           W   == VGA_WIDTH
<1>1. /\ con.row \in Nat /\ con.column \in 0..W /\ con.buffer \in [Indices -> Cells]
      /\ W \in Nat \ {0} /\ MaxRows \in Nat
  BY Sizes DEF Consoles
<1>2. /\ con.row * W \in Nat /\ (con.row + 1) * W = con.row * W + W
      /\ Place(con) = con.row * W + con.column
  BY <1>1, NextRow DEF Place
<1>3. \A i \in Indices : i \in Nat
  BY Sizes DEF Indices, EndOfMemory
<1>4. CASE c = NewLine
  <2>1. new.row = con.row + 1 /\ new.column = 0 /\ new.buffer = con.buffer
    BY <1>4 DEF PutChar, Consoles
  <2>2. Place(new) = (con.row + 1) * W + 0
    BY <2>1 DEF Place
  <2> HIDE DEF new
  <2> DEFINE a == con.row * W
             b == (con.row + 1) * W
  <2>3. a \in Nat /\ b = a + W /\ Place(con) = a + con.column /\ Place(new) = b + 0
    BY <1>2, <2>2
  <2> HIDE DEF a, b, W
  <2>4. Place(con) \in Nat /\ Place(new) \in Nat /\ Place(con) <= Place(new)
    BY <1>1, <2>3
  <2>5. Ahead(new)
    BY <1>3, <2>1, <2>4 DEF Ahead
  <2>6. since <= Place(new) /\ new.row <= con.row + 1
    BY <1>1, <2>1, <2>4
  <2>7. Puts(con, new, c)
    BY <1>4, <2>1, <2>5, <2>6 DEF Puts
  <2> QED BY <2>7 DEF new
<1>5. CASE c # NewLine
  <2> DEFINE full   == con.column >= W
             row    == IF full THEN con.row + 1 ELSE con.row
             column == IF full THEN 0 ELSE con.column
             p      == row * W + column
             b      == [con.buffer EXCEPT ![p] = Word(c)]
  <2>1. new.row = row /\ new.column = column + 1 /\ new.buffer = b
    BY <1>5 DEF PutChar
  <2>2. row \in 0..(MaxRows - 1) /\ column \in 0..(W - 1) /\ row <= con.row + 1
    BY <1>1
  <2>3. p \in Indices
    <3> HIDE DEF row, column
    <3> QED BY <2>2, InMemory
  <2>4. Place(con) = p
    <3>1. CASE full
      <4>1. con.column = W
        BY <1>1, <3>1
      <4> QED BY <1>1, <1>2, <3>1, <4>1
    <3>2. CASE ~full
      BY <1>2, <3>2
    <3> QED BY <3>1, <3>2
  <2>5. Place(new) = row * W + (column + 1)
    BY <2>1 DEF Place
  <2>6. Place(new) = p + 1
    <3>1. row * W \in Int /\ column \in Int
      BY <1>1, <2>2
    <3> DEFINE a == row * W
    <3> HIDE DEF a, column, new
    <3> QED BY <2>5, <3>1 DEF a
  <2>7. \A i \in Indices : i >= p => con.buffer[i] \in Blank
    BY <2>4 DEF Ahead
  <2>8. Word(c) \in Cells /\ (Word(c) \in Blank <=> c = Space)
    BY WordIs
  <2>9. p \in Nat /\ since <= p
    BY <1>3, <2>3, <2>4
  <2> HIDE DEF p, row, column
  <2>10. Read(b) = IF Word(c) \in Blank THEN Read(con.buffer)
                   ELSE Append(Read(con.buffer), Word(c))
    <3> DEFINE m == con.buffer
               w == Word(c)
    <3>1. m \in [Indices -> Cells] /\ w \in Cells /\ \A i \in Indices : i >= p => m[i] \in Blank
      BY <1>1, <2>7, <2>8
    <3> HIDE DEF m, w
    <3>2. Reads(m, p, w)
      BY <2>3, <2>9, <3>1, ReadOneMore
    <3> QED BY <3>2 DEF Reads, m, w
  <2>11. ASSUME NEW i \in Indices, i >= Place(new) PROVE new.buffer[i] \in Blank
    <3>1. i \in Nat /\ i # p /\ i >= p
      BY <1>3, <2>6, <2>9, <2>11
    <3>2. b[i] = con.buffer[i]
      BY <1>1, <3>1
    <3> HIDE DEF new, b
    <3> QED BY <2>1, <2>7, <3>1, <3>2
  <2> HIDE DEF new, b
  <2>12. since <= Place(new)
    BY <2>6, <2>9
  <2>13. Puts(con, new, c)
    BY <1>5, <2>1, <2>2, <2>8, <2>10, <2>11, <2>12 DEF Puts, Ahead
  <2> QED BY <2>13 DEF new
<1> QED BY <1>4, <1>5

\* The passes of the loop, one after the other.
Writes(written, s) ==
    /\ written[0] = Console
    /\ \A k \in 1..Len(s) : written[k] = PutChar(written[k - 1], s[k])
    /\ Written(s) = written[Len(s)]

\* There is a console after every pass.
LEMMA WrittenPass ==
    ASSUME vga_color \in 0..255, Console \in Consoles, NEW s \in Seq(Char)
    PROVE  \E written \in [0..Len(s) -> Consoles] : Writes(written, s)
<1> DEFINE n       == Len(s)
           start   == Console
           Body(g) == [k \in 0..n |-> IF k = 0 THEN start ELSE PutChar(g[k - 1], s[k])]
           written == CHOOSE g : g = Body(g)
           Es      == Consoles
           F       == [k \in 1..n |-> [con \in Es |-> PutChar(con, s[k])]]
<1>1. n \in Nat /\ start \in Es
  OBVIOUS
<1>2. Written(s) = written[n]
  BY DEF Written
<1>3. \A k \in 1..n : \A con \in Es : PutChar(con, s[k]) \in Es
  BY PutKeeps
<1> HIDE DEF n, start, Es
<1>4. F \in [1..n -> [Es -> Es]]
  BY <1>3
<1>5. PICK g \in [0..n -> Es] : g[0] = start /\ \A k \in 1..n : g[k] = F[k][g[k - 1]]
  <2> HIDE DEF F
  <2>1. Loop(Es, start, n, F)
    BY <1>1, <1>4, Iterates
  <2> QED BY <2>1 DEF Loop
<1>6. ASSUME NEW k \in 1..n PROVE g[k] = PutChar(g[k - 1], s[k])
  <2>1. k - 1 \in 0..n
    BY <1>1
  <2>2. g[k - 1] \in Es
    BY <1>5, <2>1
  <2>3. F[k] = [con \in Es |-> PutChar(con, s[k])]
    OBVIOUS
  <2> HIDE DEF F
  <2> QED BY <1>5, <2>2, <2>3
<1>7. g = Body(g)
  BY <1>1, <1>5, <1>6
<1>8. written = Body(written)
  <2> HIDE DEF Body
  <2> QED BY <1>7
<1>9. DOMAIN written = 0..n /\ written[0] = start
  <2> HIDE DEF written
  <2> QED BY <1>1, <1>8
<1>10. ASSUME NEW k \in 1..n PROVE written[k] = PutChar(written[k - 1], s[k])
  <2> HIDE DEF written
  <2> QED BY <1>1, <1>8
<1>11. written = [k \in 0..n |-> written[k]]
  <2> HIDE DEF written
  <2> QED BY <1>8
<1>12. \A m \in Nat : m \in 0..n => written[m] \in Es
  <2> DEFINE T == {m \in Nat : m \in 0..n => written[m] \in Es}
  <2> HIDE DEF written
  <2>1. 0 \in T
    BY <1>1, <1>9
  <2>2. ASSUME NEW m \in Nat, m \in T PROVE m + 1 \in T
    <3> SUFFICES ASSUME m + 1 \in 0..n PROVE written[m + 1] \in Es
      OBVIOUS
    <3>1. m \in 0..n /\ m + 1 \in 1..n /\ (m + 1) - 1 = m
      BY <1>1
    <3>2. written[m] \in Es
      BY <2>2, <3>1
    <3> QED BY <1>3, <1>10, <3>1, <3>2
  <2>3. Nat \subseteq T
    <3> HIDE DEF T
    <3> QED BY <2>1, <2>2, SetInduction
  <2> QED BY <2>3
<1> HIDE DEF written
<1>13. written \in [0..n -> Es]
  <2>1. \A m \in 0..n : m \in Nat
    BY <1>1
  <2> QED BY <1>11, <1>12, <2>1
<1>14. Writes(written, s)
  BY <1>2, <1>9, <1>10 DEF Writes, n, start
<1> QED BY <1>13, <1>14 DEF n, Es


\* The words of a sequence of characters.
Words(v) == [k \in 1..Len(v) |-> Word(v[k])]

\* They are cells.
LEMMA WordsAre ==
    ASSUME vga_color \in 0..255, NEW v \in Seq(Char)
    PROVE  Words(v) \in Seq(Cells)
<1>1. \A k \in 1..Len(v) : Word(v[k]) \in Cells
  BY WordIs
<1> QED BY <1>1 DEF Words

\* Text asked for, as it should appear.
Rendered(t) == [k \in 1..Len(t) |-> Seen(t[k])]

\* What is asked for of a sequence of characters.
Asks(v) == [k \in 1..Len(v) |-> [color |-> vga_color, char |-> v[k]]]

\* It is made of cells.
LEMMA RenderedIs ==
    ASSUME NEW t \in Seq(Asked)
    PROVE  Rendered(t) \in Seq(Cells)
<1>1. ASSUME NEW a \in Asked PROVE Seen(a) \in Cells
  BY DEF Seen, Asked, Cells, Cell
<1>2. \A k \in 1..Len(t) : Seen(t[k]) \in Cells
  BY <1>1
<1> QED BY <1>2 DEF Rendered

\* A character appears as the word the code makes of it.
LEMMA AppearsAs ==
    ASSUME NEW c \in Char
    PROVE  Seen([color |-> vga_color, char |-> c]) = Word(c)
<1>1. c < 128 \/ c >= 128
  BY DEF Char
<1>2. ~(c < 128 /\ c >= 128)
  BY DEF Char
<1> DEFINE a == [color |-> vga_color, char |-> c]
<1>3. a.color = vga_color /\ a.char = c
  OBVIOUS
<1> HIDE DEF a
<1>4. Seen(a) = Cell(IF c < 128 THEN vga_color ELSE 255, c)
  BY <1>3 DEF Seen
<1>5. Seen(a) = Word(c)
  BY <1>1, <1>2, <1>4 DEF Word
<1> QED BY <1>5 DEF a

\* The text of two pieces.
RendersBoth(t, v) == Rendered(t \o Asks(v)) = Rendered(t) \o Words(v)

\* What is asked for next appears after what was there.
LEMMA RenderedMore ==
    ASSUME vga_color \in 0..255, NEW t \in Seq(Asked), NEW v \in Seq(Char)
    PROVE  t \o Asks(v) \in Seq(Asked) /\ RendersBoth(t, v)
<1> DEFINE q == Asks(v)
           w == Words(v)
           r == Rendered(t)
           b == Rendered(t \o q)
<1>1. /\ q \in Seq(Asked) /\ Len(q) = Len(v)
      /\ \A k \in 1..Len(v) : q[k] = [color |-> vga_color, char |-> v[k]]
  <2>1. \A k \in 1..Len(v) : [color |-> vga_color, char |-> v[k]] \in Asked
    BY DEF Asked
  <2> QED BY <2>1 DEF Asks
<1>2. w \in Seq(Cells) /\ Len(w) = Len(v) /\ \A k \in 1..Len(v) : w[k] = Word(v[k])
  BY WordsAre DEF Words
<1>3. ASSUME NEW k \in 1..Len(v) PROVE Seen(q[k]) = w[k]
  <2> HIDE DEF q, w
  <2>1. v[k] \in Char
    OBVIOUS
  <2> QED BY <1>1, <1>2, <2>1, AppearsAs
<1> HIDE DEF q, w
<1>4. r \in Seq(Cells) /\ Len(r) = Len(t) /\ \A k \in 1..Len(t) : r[k] = Seen(t[k])
  BY RenderedIs DEF Rendered
<1> HIDE DEF r, b
<1>5. /\ t \o q \in Seq(Asked) /\ Len(t \o q) = Len(t) + Len(v)
      /\ \A k \in 1..(Len(t) + Len(v)) : (t \o q)[k] = IF k <= Len(t) THEN t[k] ELSE q[k - Len(t)]
  <2>1. q \in Seq(Asked) /\ Len(q) = Len(v)
    BY <1>1
  <2>2. /\ t \o q \in Seq(Asked) /\ Len(t \o q) = Len(t) + Len(q)
        /\ \A k \in 1..(Len(t) + Len(q)) : (t \o q)[k] = IF k <= Len(t) THEN t[k] ELSE q[k - Len(t)]
    BY <2>1, ConcatProperties
  <2> QED BY <2>1, <2>2
<1>6. /\ b \in Seq(Cells) /\ Len(b) = Len(t) + Len(v)
      /\ \A k \in 1..(Len(t) + Len(v)) : b[k] = Seen((t \o q)[k])
  <2> DEFINE z == t \o q
  <2>1. z \in Seq(Asked) /\ Len(z) = Len(t) + Len(v)
    BY <1>1, <1>5
  <2> HIDE DEF z, q
  <2>2. Rendered(z) \in Seq(Cells)
    BY <2>1, RenderedIs
  <2>3. Len(Rendered(z)) = Len(z) /\ \A k \in 1..Len(z) : Rendered(z)[k] = Seen(z[k])
    BY <2>1 DEF Rendered
  <2> QED BY <2>1, <2>2, <2>3 DEF z, b
<1>7. /\ r \o w \in Seq(Cells) /\ Len(r \o w) = Len(t) + Len(v)
      /\ \A k \in 1..(Len(t) + Len(v)) : (r \o w)[k] = IF k <= Len(t) THEN r[k] ELSE w[k - Len(t)]
  <2>1. r \in Seq(Cells) /\ Len(r) = Len(t) /\ w \in Seq(Cells) /\ Len(w) = Len(v)
    BY <1>2, <1>4
  <2>2. /\ r \o w \in Seq(Cells) /\ Len(r \o w) = Len(r) + Len(w)
        /\ \A k \in 1..(Len(r) + Len(w)) : (r \o w)[k] = IF k <= Len(r) THEN r[k] ELSE w[k - Len(r)]
    BY <2>1, ConcatProperties
  <2> QED BY <2>1, <2>2
<1>8. ASSUME NEW k \in 1..(Len(t) + Len(v)) PROVE b[k] = (r \o w)[k]
  <2>1. CASE k <= Len(t)
    <3>1. k \in 1..Len(t)
      BY <2>1
    <3> QED BY <1>4, <1>5, <1>6, <1>7, <2>1, <3>1
  <2>2. CASE ~(k <= Len(t))
    <3>1. k - Len(t) \in 1..Len(v)
      BY <2>2
    <3>2. (t \o q)[k] = q[k - Len(t)] /\ (r \o w)[k] = w[k - Len(t)]
      BY <1>5, <1>7, <2>2
    <3> QED BY <1>3, <1>6, <3>1, <3>2
  <2> QED BY <2>1, <2>2
<1>9. b = r \o w
  <2> DEFINE c == r \o w
  <2> HIDE DEF c
  <2>1. b \in Seq(Cells) /\ c \in Seq(Cells) /\ Len(b) = Len(c)
    BY <1>6, <1>7 DEF c
  <2>2. \A k \in 1..Len(b) : b[k] = c[k]
    BY <1>6, <1>8 DEF c
  <2>3. b = c
    BY <2>1, <2>2, SeqEqual
  <2> QED BY <2>3 DEF c
<1> QED BY <1>5, <1>9 DEF RendersBoth, q, w, r, b

\* One character more is one word more.
LEMMA WordsOneMore ==
    ASSUME vga_color \in 0..255, NEW v \in Seq(Char), NEW c \in Char
    PROVE  Words(Append(v, c)) = Append(Words(v), Word(c))
<1> DEFINE a == Append(v, c)
           n == Len(v)
<1>1. n \in Nat /\ Len(a) = n + 1 /\ a[n + 1] = c /\ \A k \in 1..n : a[k] = v[k]
  OBVIOUS
<1>2. Words(v) \in Seq(Cells) /\ Len(Words(v)) = n /\ \A k \in 1..n : Words(v)[k] = Word(v[k])
  BY WordsAre DEF Words
<1>3. Words(a) \in Seq(Cells) /\ Len(Words(a)) = n + 1 /\ \A k \in 1..(n + 1) : Words(a)[k] = Word(a[k])
  <2>1. a \in Seq(Char)
    OBVIOUS
  <2> HIDE DEF a
  <2> QED BY <1>1, <2>1, WordsAre DEF Words
<1>4. Word(c) \in Cells
  BY WordIs
<1> DEFINE w == Words(v)
           u == Words(a)
           x == Word(c)
<1>5. \A k \in 1..(n + 1) : u[k] = Append(w, x)[k]
  <2> SUFFICES ASSUME NEW k \in 1..(n + 1) PROVE u[k] = Append(w, x)[k]
    OBVIOUS
  <2>1. CASE k = n + 1
    <3>1. u[k] = x
      BY <1>1, <1>3, <2>1
    <3>2. Append(w, x)[k] = x
      <4> HIDE DEF w, x
      <4> QED BY <1>1, <1>2, <1>4, <2>1 DEF w, x
    <3> QED BY <3>1, <3>2
  <2>2. CASE k # n + 1
    <3>1. k \in 1..n
      BY <1>1, <2>2
    <3>2. u[k] = Word(v[k]) /\ w[k] = Word(v[k])
      BY <1>1, <1>2, <1>3, <3>1
    <3>3. Append(w, x)[k] = w[k]
      <4> HIDE DEF w, x, u
      <4> QED BY <1>1, <1>2, <1>4, <3>1 DEF w, x
    <3> QED BY <3>2, <3>3
  <2> QED BY <2>1, <2>2
<1>6. Append(w, x) \in Seq(Cells) /\ Len(Append(w, x)) = n + 1
  <2> HIDE DEF w, x
  <2> QED BY <1>2, <1>4 DEF w, x
<1> HIDE DEF w, x, u, n
<1>7. u \in Seq(Cells) /\ Len(u) = n + 1 /\ n \in Nat
  BY <1>1, <1>3 DEF u, n
<1>8. u = Append(w, x)
  BY <1>5, <1>6, <1>7, SeqEqual
<1> QED BY <1>8 DEF w, x, u

\* To add to the second of two sequences is to add to both in a row.
Adds(a, b, e) == Append(a \o b, e) = a \o Append(b, e)

\* It is so for all sequences.
LEMMA AppendToConcat ==
    ASSUME NEW E, NEW a \in Seq(E), NEW b \in Seq(E), NEW e \in E
    PROVE  Adds(a, b, e)
<1>1. << e >> \in Seq(E) /\ a \o b \in Seq(E)
  BY ConcatProperties
<1>2. Append(a \o b, e) = (a \o b) \o << e >> /\ Append(b, e) = b \o << e >>
  BY <1>1, AppendIsConcat
<1>3. (a \o b) \o << e >> = a \o (b \o << e >>)
  <2> DEFINE c == << e >>
  <2>1. c \in Seq(E)
    BY <1>1
  <2> HIDE DEF c
  <2>2. (a \o b) \o c = a \o (b \o c)
    BY <2>1, ConcatAssociative
  <2> QED BY <2>2 DEF c
<1> QED BY <1>2, <1>3 DEF Adds

\* After k characters of which v can be seen.
Shown(con, k, v) ==
    /\ con.row <= vga_row + k
    /\ since <= Place(con)
    /\ Ahead(con)
    /\ Read(con.buffer) = Rendered(text) \o Words(v)

\* One pass of the loop of vga_write_string.
LEMMA ShownOneMore ==
    ASSUME vga_color \in 0..255, since \in Nat, vga_row \in Nat, text \in Seq(Asked),
           NEW con \in Consoles, NEW k \in Nat, NEW v \in Seq(Char), NEW c \in Char,
           vga_row + k + 1 < MaxRows, Shown(con, k, v)
    PROVE  Shown(PutChar(con, c), k + 1, Take(v, c, {NewLine, Space}))
<1> DEFINE new == PutChar(con, c)
           u   == Take(v, c, {NewLine, Space})
<1>1. con.row \in Nat /\ con.row + 1 < MaxRows /\ con.row <= vga_row + k
  BY Sizes DEF Shown, Consoles
<1>2. Puts(con, new, c)
  BY <1>1, PutReads DEF Shown
<1>3. new \in Consoles
  BY PutKeeps
<1>4. new.row <= vga_row + (k + 1)
  <2>1. new.row \in Nat /\ new.row <= con.row + 1
    BY <1>2, <1>3 DEF Puts, Consoles
  <2> HIDE DEF new
  <2> QED BY <1>1, <2>1
<1>5. Read(new.buffer) = Rendered(text) \o Words(u)
  <2>1. CASE c \in {NewLine, Space}
    BY <1>2, <2>1 DEF Puts, Shown, Take
  <2>2. CASE c \notin {NewLine, Space}
    <3>1. Read(new.buffer) = Append(Rendered(text) \o Words(v), Word(c))
      BY <1>2, <2>2 DEF Puts, Shown
    <3>2. u = Append(v, c) /\ Words(u) = Append(Words(v), Word(c))
      BY <2>2, WordsOneMore DEF Take
    <3> DEFINE w == Words(v)
               x == Word(c)
               t == Rendered(text)
    <3>3. w \in Seq(Cells) /\ x \in Cells /\ t \in Seq(Cells)
      BY WordsAre, WordIs, RenderedIs
    <3> HIDE DEF w, x, t, u, new
    <3>4. Append(t \o w, x) = t \o Append(w, x)
      <4>1. Adds(t, w, x)
        BY <3>3, AppendToConcat
      <4> QED BY <4>1 DEF Adds
    <3> QED BY <3>1, <3>2, <3>4 DEF w, x, t
  <2> QED BY <2>1, <2>2
<1>6. Shown(new, k + 1, u)
  <2> HIDE DEF new, u
  <2> QED BY <1>2, <1>4, <1>5 DEF Shown, Puts
<1> QED BY <1>6

-----------------------------------------------------------------------------
(* What the calls of the console keep.                                     *)

\* ConsoleInvariant in the words of these proofs.
LEMMA ConsoleIs ==
    ConsoleInvariant
      <=> /\ vga_row \in 0..(MaxRows - 1) /\ vga_column \in 0..VGA_WIDTH /\ vga_color \in 0..255
          /\ vga_buffer \in [Indices -> Cells]
          /\ since \in 0..Cursor /\ text \in Seq(Asked)
          /\ Ahead(Console) /\ Read(vga_buffer) = Rendered(text)
<1>1. Place(Console) = Cursor /\ Console.buffer = vga_buffer
  BY DEF Place, Console, Cursor
<1>2. Ahead(Console) <=> BlankAhead
  BY <1>1 DEF Ahead, BlankAhead
<1>3. Read(vga_buffer) = Rendered(text) <=> ShowsText
  BY DEF Read, Memory, EndOfMemory, ShowsText, Rendered
<1> QED BY <1>2, <1>3 DEF ConsoleInvariant

\* What vga_write_string leaves behind.
WroteAll(s) == Shown(Written(s), Len(s), Without(s, {NewLine, Space}))

\* The whole loop: the text it was given stands in text memory, in order.
LEMMA StringShown ==
    ASSUME ConsoleInvariant, NEW s \in Seq(Char), Fits(Len(s))
    PROVE  WroteAll(s) /\ Written(s) \in Consoles /\ Without(s, {NewLine, Space}) \in Seq(Char)
<1> DEFINE n   == Len(s)
           out == {NewLine, Space}
<1>1. /\ vga_row \in Nat /\ vga_column \in 0..VGA_WIDTH /\ vga_color \in 0..255 /\ since \in Nat
      /\ since <= Cursor /\ Cursor \in Nat
      /\ vga_buffer \in [Indices -> Cells] /\ text \in Seq(Asked)
      /\ Ahead(Console) /\ Read(vga_buffer) = Rendered(text)
  <2>1. /\ vga_row \in Nat /\ vga_column \in 0..VGA_WIDTH /\ vga_color \in 0..255
        /\ vga_buffer \in [Indices -> Cells] /\ since \in 0..Cursor /\ text \in Seq(Asked)
        /\ Ahead(Console) /\ Read(vga_buffer) = Rendered(text)
    BY ConsoleIs
  <2>2. Cursor \in Nat
    <3>1. vga_row * VGA_WIDTH \in Nat
      BY <2>1, NextRow
    <3> DEFINE a == vga_row * VGA_WIDTH
    <3>2. Cursor = a + vga_column
      BY DEF Cursor
    <3> HIDE DEF a
    <3> QED BY <2>1, <3>1, <3>2, Sizes DEF a
  <2> QED BY <2>1, <2>2
<1>2. n \in Nat /\ \A k \in 1..n : s[k] \in Char /\ vga_row + n < MaxRows
  BY DEF Fits
<1>3. Console \in Consoles
  BY <1>1 DEF Console, Consoles
<1>4. PICK written \in [0..n -> Consoles] : Writes(written, s)
  BY <1>1, <1>3, WrittenPass
<1>5. PICK kept \in [0..n -> Seq(Char)] : Keeps(kept, s, out)
  BY WithoutPass
<1> DEFINE T == {k \in Nat : k \in 0..n => Shown(written[k], k, kept[k])}
<1>6. 0 \in T
  <2>1. written[0] = Console /\ kept[0] = << >>
    BY <1>4, <1>5 DEF Writes, Keeps
  <2>2. Place(Console) = Cursor /\ Console.row = vga_row /\ Console.buffer = vga_buffer
    BY DEF Place, Console, Cursor
  <2>3. Words(<< >>) = << >> /\ Rendered(text) \o << >> = Rendered(text)
    <3>1. Words(<< >>) = << >>
      BY DEF Words
    <3> DEFINE t == Rendered(text)
    <3>2. t \in Seq(Cells)
      BY <1>1, RenderedIs
    <3> HIDE DEF t
    <3>3. t \o << >> = t
      BY <3>2, ConcatEmptySeq
    <3> QED BY <3>1, <3>3 DEF t
  <2>4. Read(Console.buffer) = Rendered(text) \o Words(<< >>)
    BY <1>1, <2>2, <2>3
  <2>5. Console.row <= vga_row + 0 /\ since <= Place(Console) /\ Ahead(Console)
    BY <1>1, <2>2
  <2>6. Shown(Console, 0, << >>)
    BY <2>4, <2>5 DEF Shown
  <2> QED BY <2>1, <2>6
<1>7. ASSUME NEW m \in Nat, m \in T PROVE m + 1 \in T
  <2> SUFFICES ASSUME m + 1 \in 0..n PROVE Shown(written[m + 1], m + 1, kept[m + 1])
    OBVIOUS
  <2>1. m \in 0..n /\ m + 1 \in 1..n /\ (m + 1) - 1 = m
    BY <1>2
  <2>2. Shown(written[m], m, kept[m]) /\ written[m] \in Consoles /\ kept[m] \in Seq(Char)
    BY <1>7, <2>1
  <2>3. written[m + 1] = PutChar(written[m], s[m + 1])
    BY <1>4, <2>1 DEF Writes
  <2>4. kept[m + 1] = Take(kept[m], s[m + 1], out)
    BY <1>5, <2>1 DEF Keeps
  <2>5. vga_row + m + 1 < MaxRows /\ s[m + 1] \in Char
    BY <1>1, <1>2, <2>1, Sizes
  <2>6. Shown(PutChar(written[m], s[m + 1]), m + 1, Take(kept[m], s[m + 1], out))
    <3> DEFINE con == written[m]
               v   == kept[m]
               c   == s[m + 1]
    <3>1. con \in Consoles /\ v \in Seq(Char) /\ c \in Char /\ Shown(con, m, v)
      BY <2>2, <2>5
    <3> HIDE DEF con, v, c
    <3>2. Shown(PutChar(con, c), m + 1, Take(v, c, out))
      BY <1>1, <2>5, <3>1, ShownOneMore
    <3> QED BY <3>2 DEF con, v, c
  <2> QED BY <2>3, <2>4, <2>6
<1>8. Nat \subseteq T
  <2> HIDE DEF T
  <2> QED BY <1>6, <1>7, SetInduction
<1>9. Shown(written[n], n, kept[n])
  BY <1>2, <1>8
<1>10. Written(s) = written[n] /\ Without(s, out) = kept[n]
  BY <1>4, <1>5 DEF Writes, Keeps
<1>11. written[n] \in Consoles /\ kept[n] \in Seq(Char)
  BY <1>2
<1> QED BY <1>9, <1>10, <1>11 DEF WroteAll

\* A string written keeps the console.
LEMMA WriteKeeps ==
    ASSUME ConsoleInvariant, NEW s \in Seq(Char), Fits(Len(s)), vga_write_string(s)
    PROVE  ConsoleInvariant'
<1> DEFINE con == Written(s)
           v   == Without(s, {NewLine, Space})
<1>1. Shown(con, Len(s), v) /\ con \in Consoles /\ v \in Seq(Char)
  BY StringShown DEF WroteAll
<1>2. vga_row' = con.row /\ vga_column' = con.column /\ vga_buffer' = con.buffer
  BY DEF vga_write_string
<1>3. text' = text \o Asks(v) /\ vga_color' = vga_color /\ since' = since
  BY DEF vga_write_string, Asks
<1>4. /\ vga_row \in Nat /\ vga_color \in 0..255 /\ since \in Nat /\ text \in Seq(Asked)
      /\ vga_row + Len(s) < MaxRows /\ Len(s) \in Nat
  BY DEF ConsoleInvariant, Fits
<1> HIDE DEF con, v
<1>5. text' \in Seq(Asked) /\ RendersBoth(text, v)
  BY <1>1, <1>3, <1>4, RenderedMore
<1>7. /\ con.row \in Nat /\ con.column \in 0..VGA_WIDTH /\ con.buffer \in [Indices -> Cells]
      /\ con.row <= vga_row + Len(s) /\ since <= Place(con) /\ Ahead(con)
      /\ Read(con.buffer) = Rendered(text) \o Words(v)
  BY <1>1 DEF Shown, Consoles
<1>8. vga_row' \in 0..(MaxRows - 1)
  BY <1>2, <1>4, <1>7, Sizes
<1>9. Place(con) = Cursor'
  BY <1>2 DEF Place, Cursor
<1>10. since' \in 0..Cursor'
  <2>1. con.row * VGA_WIDTH \in Nat
    BY <1>7, NextRow
  <2> DEFINE a == con.row * VGA_WIDTH
  <2>2. Place(con) = a + con.column
    BY DEF Place
  <2> HIDE DEF a
  <2>3. Place(con) \in Nat
    BY <1>7, <2>1, <2>2, Sizes DEF a
  <2> QED BY <1>3, <1>4, <1>7, <1>9, <2>3
<1>11. BlankAhead'
  BY <1>2, <1>7, <1>9 DEF Ahead, BlankAhead, Indices
<1>12. ShowsText'
  <2>1. Read(con.buffer) = Rendered(text')
    BY <1>3, <1>5, <1>7 DEF RendersBoth
  <2>2. ShowsText' <=> Read(con.buffer) = Rendered(text')
    BY <1>2, <1>3 DEF ShowsText, Read, Memory, EndOfMemory, Rendered, Seen, Cell
  <2> QED BY <2>1, <2>2
<1> QED BY <1>2, <1>3, <1>4, <1>5, <1>7, <1>8, <1>10, <1>11, <1>12 DEF ConsoleInvariant, Indices

\* So does a change of colour: what is in text memory keeps its own.
LEMMA ColorKeeps ==
    ASSUME ConsoleInvariant, NEW fg \in Colors, NEW bg \in Colors, vga_set_color(fg, bg)
    PROVE  ConsoleInvariant'
<1>1. UNCHANGED << vga_row, vga_column, vga_buffer, since, text >>
  BY DEF vga_set_color
<1>2. vga_color' \in 0..255
  <2>1. fg \in 0..15 /\ bg \in 0..15
    BY VgaAssumption
  <2> QED BY <2>1 DEF vga_set_color
<1> QED BY <1>1, <1>2
        DEF ConsoleInvariant, Cursor, BlankAhead, ShowsText, Indices

\* And vga_init: what it clears is blank, and what is asked for starts anew
\* where the cursor is.
LEMMA InitKeeps ==
    ASSUME ConsoleInvariant, vga_init
    PROVE  ConsoleInvariant'
<1>1. /\ vga_row \in 0..(MaxRows - 1) /\ vga_column \in 0..VGA_WIDTH
      /\ vga_buffer \in [Indices -> Cells] /\ Ahead(Console)
  BY ConsoleIs
<1>2. vga_row' = vga_row /\ vga_column' = vga_column /\ vga_color' = 7 /\ text' = << >>
  BY DEF vga_init
<1>3. since' = Cursor /\ Cursor' = Cursor
  BY DEF vga_init, Cursor
<1> DEFINE b == [i \in Indices |-> IF i < VGA_WIDTH * VGA_HEIGHT
                                    THEN Cell(7, Space) ELSE vga_buffer[i]]
<1>4. vga_buffer' = b
  BY DEF vga_init
<1>5. Cell(7, Space) \in Cells /\ Cell(7, Space) \in Blank
  BY DEF Cell, Cells, Blank, Char, Space
<1>6. b \in [Indices -> Cells]
  BY <1>1, <1>5
<1>7. Place(Console) = Cursor /\ Console.buffer = vga_buffer
  BY DEF Place, Console, Cursor
<1>8. \A i \in Indices : i >= Cursor => b[i] \in Blank
  BY <1>1, <1>5, <1>7 DEF Ahead
<1>9. Cursor \in Nat
  <2>1. vga_row * VGA_WIDTH \in Nat
    BY <1>1, NextRow
  <2> DEFINE a == vga_row * VGA_WIDTH
  <2>2. Cursor = a + vga_column
    BY DEF Cursor
  <2> HIDE DEF a
  <2> QED BY <1>1, <2>1, <2>2, Sizes DEF a
<1> HIDE DEF b
<1>10. ShowsText'
  <2> DEFINE n == EndOfMemory - Cursor
             m == [k \in 1..n |-> b[Cursor + k - 1]]
  <2>1. EndOfMemory \in Nat /\ Indices = 0..(EndOfMemory - 1)
    BY Sizes DEF Indices, EndOfMemory
  <2>2. \A k \in 1..n : Cursor + k - 1 \in Indices /\ Cursor + k - 1 >= Cursor
    BY <1>9, <2>1
  <2>3. \A k \in 1..n : b[Cursor + k - 1] \in Blank /\ b[Cursor + k - 1] \in Cells
    BY <1>6, <1>8, <2>2
  <2>4. \E l \in Nat : 1..n = 1..l
    <3>1. CASE n \in Nat
      BY <3>1
    <3>2. CASE n \notin Nat
      <4>1. n \in Int /\ n < 0
        BY <1>9, <2>1, <3>2
      <4>2. 1..n = 1..0
        BY <4>1
      <4> QED BY <4>2
    <3> QED BY <3>1, <3>2
  <2>5. PICK l \in Nat : 1..n = 1..l
    BY <2>4
  <2> HIDE DEF n
  <2>6. m \in Seq(Cells) /\ Len(m) = l /\ \A k \in 1..l : m[k] \in Blank
    <3>1. m = [k \in 1..l |-> b[Cursor + k - 1]]
      BY <2>5
    <3>2. \A k \in 1..l : b[Cursor + k - 1] \in Blank /\ b[Cursor + k - 1] \in Cells
      BY <2>3, <2>5
    <3> HIDE DEF m
    <3>3. m \in Seq(Cells) /\ Len(m) = l
      BY <3>1, <3>2
    <3> QED BY <3>1, <3>2, <3>3
  <2> HIDE DEF m
  <2>7. Without(m, Blank) = << >>
    BY <2>6, WithoutAll
  <2> QED BY <1>2, <1>3, <1>4, <2>7 DEF ShowsText, m, n, EndOfMemory
<1>11. BlankAhead'
  BY <1>3, <1>4, <1>8 DEF BlankAhead, Indices
<1>12. << >> \in Seq(Cells) /\ 7 \in 0..255 /\ Cursor \in 0..Cursor
  BY <1>9
<1> QED BY <1>1, <1>2, <1>3, <1>4, <1>6, <1>10, <1>11, <1>12 DEF ConsoleInvariant, Indices

\* At the start nothing is written.
LEMMA StartOfConsole ==
    ASSUME VgaInit
    PROVE  ConsoleInvariant
<1>1. /\ vga_row = 0 /\ vga_column = 0 /\ vga_color = 0 /\ since = 0 /\ text = << >>
      /\ vga_buffer = [i \in Indices |-> Unwritten]
  BY DEF VgaInit
<1>2. Unwritten \in Cells /\ Unwritten \in Blank
  BY DEF Cells, Blank
<1>3. Cursor = 0
  BY <1>1, Sizes DEF Cursor
<1>4. ShowsText
  <2> DEFINE m == Memory(vga_buffer)
  <2>1. EndOfMemory \in Nat /\ Indices = 0..(EndOfMemory - 1)
    BY Sizes DEF Indices, EndOfMemory
  <2>2. \A k \in 1..EndOfMemory : since + k - 1 \in Indices
    BY <1>1, <2>1
  <2>3. m = [k \in 1..EndOfMemory |-> vga_buffer[since + k - 1]]
    BY <1>1, <2>1 DEF Memory
  <2>4. m \in Seq(Cells) /\ Len(m) = EndOfMemory /\ \A k \in 1..EndOfMemory : m[k] \in Blank
    <3> HIDE DEF m
    <3>1. \A k \in 1..EndOfMemory : vga_buffer[since + k - 1] = Unwritten
      BY <1>1, <2>2
    <3>2. \A k \in 1..EndOfMemory : vga_buffer[since + k - 1] \in Cells /\ vga_buffer[since + k - 1] \in Blank
      BY <1>2, <3>1
    <3>3. m \in Seq(Cells) /\ Len(m) = EndOfMemory
      BY <2>1, <2>3, <3>2
    <3> QED BY <2>3, <3>2, <3>3
  <2> HIDE DEF m
  <2>5. Without(m, Blank) = << >>
    BY <2>4, WithoutAll
  <2> QED BY <1>1, <2>5 DEF ShowsText, m, Memory, EndOfMemory
<1>5. BlankAhead
  BY <1>1, <1>2 DEF BlankAhead
<1> QED BY <1>1, <1>2, <1>3, <1>4, <1>5, Sizes DEF ConsoleInvariant

-----------------------------------------------------------------------------
(* printk and the other clients keep the console and the kinds.            *)

\* At the start no call runs.
LEMMA StartOfPrintk ==
    ASSUME Init
    PROVE  Kinds /\ Progress
<1>1. at = "code" /\ call = NoCall /\ fmt = << >> /\ args = << >> /\ buffer = << >>
  BY DEF Init
<1>2. call.format = << >> /\ call.args = << >>
  BY <1>1 DEF NoCall
<1>3. Size \in Nat \ {0}
  BY PrintkAssumption
<1>4. << >> \in Seq(Char) /\ << >> \in Seq(Seq(Char)) /\ Len(<< >>) = 0
  OBVIOUS
<1> QED BY <1>1, <1>2, <1>3, <1>4 DEF Kinds, Progress

\* What is left of a format after a directive.
LEMMA RestOfFormat ==
    ASSUME fmt \in Seq(Char), fmt # << >>
    PROVE  AfterDirective \subseteq Seq(Char) /\ Head(fmt) \in Char /\ Tail(fmt) \in Seq(Char)
<1>1. Head(fmt) \in Char /\ Tail(fmt) \in Seq(Char)
  OBVIOUS
<1>2. Len(fmt) > 1 => Tail(Tail(fmt)) \in Seq(Char)
  <2> SUFFICES ASSUME Len(fmt) > 1 PROVE Tail(Tail(fmt)) \in Seq(Char)
    OBVIOUS
  <2> DEFINE t == Tail(fmt)
  <2>1. t \in Seq(Char) /\ Len(t) = Len(fmt) - 1
    OBVIOUS
  <2> HIDE DEF t
  <2>2. t # << >>
    BY <2>1
  <2>3. Tail(t) \in Seq(Char)
    BY <2>1, <2>2
  <2> QED BY <2>3 DEF t
<1> QED BY <1>1, <1>2, PrintkAssumption DEF AfterDirective

\* Every step keeps the kinds; the bound of the buffer comes from the test
\* before an iteration and from the length of the argument it writes.
LEMMA KindsKept ==
    ASSUME Kinds, [Next]_vars
    PROVE  Kinds'
<1>1. Size \in Nat \ {0} /\ Formats \subseteq Seq(Char) /\ Arguments \subseteq Seq(Seq(Char))
  BY PrintkAssumption
<1>2. /\ fmt \in Seq(Char) /\ buffer \in Seq(Char) /\ Len(buffer) \in Nat
      /\ args \in Seq(Seq(Char)) /\ call.args \in Seq(Seq(Char))
      /\ Len(args) \in Nat /\ Len(call.args) \in Nat /\ Len(args) <= Len(call.args)
  BY DEF Kinds
<1>3. ASSUME NEW f \in Formats, NEW given \in Arguments, Call(f, given) PROVE Kinds'
  <2>1. /\ at' = "loop" /\ call' = [format |-> f, args |-> given]
        /\ fmt' = f /\ args' = given /\ buffer' = << >> /\ vga_row' = vga_row /\ Fits(Size - 1)
    BY <1>3 DEF Call, screen
  <2>2. call'.format = f /\ call'.args = given
    BY <2>1
  <2>3. Fits(Size - 1)'
    BY <2>1 DEF Fits
  <2>4. f \in Seq(Char) /\ given \in Seq(Seq(Char)) /\ Len(given) \in Nat
    <3>1. f \in Seq(Char) /\ given \in Seq(Seq(Char))
      BY <1>1, Zenon
    <3>2. Len(given) \in Nat
      BY <3>1
    <3> QED BY <3>1, <3>2, Zenon
  <2>5. << >> \in Seq(Char) /\ Len(<< >>) = 0
    OBVIOUS
  <2>6. Len(args') <= Len(call'.args) /\ Len(buffer') < Size
    BY <1>1, <2>1, <2>2, <2>4, <2>5
  <2>7. /\ fmt' \in Seq(Char) /\ args' \in Seq(Seq(Char)) /\ call'.args \in Seq(Seq(Char))
        /\ buffer' \in Seq(Char) /\ call'.format \in Formats
    BY <2>1, <2>2, <2>4, <2>5, Zenon
  <2> QED BY <2>1, <2>3, <2>6, <2>7 DEF Kinds
<1>4. CASE Character
  <2>1. /\ at = "loop" /\ at' = at /\ call' = call /\ args' = args /\ vga_row' = vga_row
        /\ fmt # << >> /\ fmt' = Tail(fmt) /\ buffer' = Append(buffer, Head(fmt))
        /\ Len(buffer) < Size - 1
    BY <1>4 DEF Character, Continues, Room, screen
  <2>2. Head(fmt) \in Char /\ fmt' \in Seq(Char)
    BY <1>2, <2>1, RestOfFormat
  <2>3. buffer' \in Seq(Char) /\ Len(buffer') = Len(buffer) + 1
    BY <1>2, <2>1, <2>2
  <2>4. Len(buffer') < Size
    BY <1>1, <1>2, <2>1, <2>3
  <2> QED BY <1>2, <2>1, <2>2, <2>3, <2>4 DEF Kinds, Fits
<1>5. CASE String
  <2>1. at = "loop" /\ fmt # << >> /\ call' = call /\ vga_row' = vga_row
    BY <1>5 DEF String, Continues, screen
  <2>2. CASE args = << >>
    <3>1. at' = "lost" /\ fmt' = fmt /\ args' = args /\ buffer' = buffer
      BY <1>5, <2>2 DEF String
    <3> QED BY <2>1, <3>1 DEF Kinds
  <2>3. CASE args # << >>
    <3>1. /\ at' = IF Len(buffer) + Len(Head(args)) < Size THEN at ELSE "lost"
          /\ fmt' \in AfterDirective /\ buffer' = buffer \o Head(args) /\ args' = Tail(args)
      BY <1>5, <2>3 DEF String
    <3>2. /\ Head(args) \in Seq(Char) /\ args' \in Seq(Seq(Char))
          /\ Len(args') = Len(args) - 1
      BY <1>2, <2>3, <3>1
    <3>3. fmt' \in Seq(Char)
      BY <1>2, <2>1, <3>1, RestOfFormat
    <3>4. buffer' \in Seq(Char) /\ Len(buffer') = Len(buffer) + Len(Head(args))
      <4> DEFINE h == Head(args)
      <4>1. h \in Seq(Char) /\ buffer' = buffer \o h
        BY <3>1, <3>2
      <4> HIDE DEF h
      <4>2. buffer' \in Seq(Char) /\ Len(buffer') = Len(buffer) + Len(h)
        BY <1>2, <4>1, ConcatProperties
      <4> QED BY <4>2 DEF h
    <3>5. at' \in {"loop", "lost"} /\ (at' = "loop" => Len(buffer') < Size)
      BY <2>1, <3>1, <3>4
    <3>6. Len(args') <= Len(call'.args)
      BY <1>2, <2>1, <3>2
    <3> QED BY <1>2, <2>1, <3>2, <3>3, <3>4, <3>5, <3>6 DEF Kinds, Fits
  <2> QED BY <2>2, <2>3
<1>6. CASE OtherDirective
  <2>1. /\ fmt # << >> /\ at' = at /\ at = "loop" /\ call' = call /\ args' = args
        /\ buffer' = buffer /\ vga_row' = vga_row /\ fmt' \in AfterDirective
    BY <1>6 DEF OtherDirective, Continues, screen
  <2>2. fmt' \in Seq(Char)
    BY <1>2, <2>1, RestOfFormat
  <2> QED BY <2>1, <2>2 DEF Kinds, Fits
<1>7. CASE Finish
  <2>1. at' = "code" /\ call' = NoCall /\ fmt' = << >> /\ args' = << >> /\ buffer' = << >>
    BY <1>7 DEF Finish
  <2>2. call'.format = << >> /\ call'.args = << >>
    BY <2>1 DEF NoCall
  <2>3. << >> \in Seq(Char) /\ << >> \in Seq(Seq(Char)) /\ Len(<< >>) = 0
    OBVIOUS
  <2> QED BY <1>1, <2>1, <2>2, <2>3 DEF Kinds
<1>8. CASE at = "code" /\ VgaNext /\ UNCHANGED << at, frame >>
  BY <1>8 DEF Kinds, frame
<1>9. CASE UNCHANGED vars
  BY <1>9 DEF Kinds, Fits, vars, frame, screen
<1> QED BY <1>3, <1>4, <1>5, <1>6, <1>7, <1>8, <1>9 DEF Next, printk

\* Only three kinds of steps write to the console, and each keeps it.
LEMMA ConsoleKept ==
    ASSUME ConsoleInvariant, Kinds, [Next]_vars
    PROVE  ConsoleInvariant'
<1>1. CASE UNCHANGED screen
  BY <1>1 DEF screen, ConsoleInvariant, Cursor, BlankAhead, ShowsText, Indices
<1>2. CASE Finish
  <2>1. vga_write_string(buffer) /\ at = "loop"
    BY <1>2 DEF Finish, Finished
  <2>2. buffer \in Seq(Char) /\ Fits(Size - 1) /\ Len(buffer) < Size
    BY <2>1 DEF Kinds
  <2>3. Fits(Len(buffer))
    <3>1. Size \in Nat /\ vga_row \in Nat /\ Len(buffer) \in Nat /\ MaxRows \in Nat
      BY <2>2, PrintkAssumption, Sizes DEF ConsoleInvariant
    <3> QED BY <2>2, <3>1 DEF Fits
  <2> QED BY <2>1, <2>2, <2>3, WriteKeeps
<1>3. CASE VgaNext
  <2>1. ASSUME NEW fg \in Colors, NEW bg \in Colors, vga_set_color(fg, bg)
        PROVE  ConsoleInvariant'
    BY <2>1, ColorKeeps
  <2>2. CASE vga_init
    BY <2>2, InitKeeps
  <2>3. ASSUME NEW s \in Strings, Fits(Len(s)), vga_write_string(s)
        PROVE  ConsoleInvariant'
    <3>1. s \in Seq(Char)
      BY VgaAssumption
    <3> QED BY <2>3, <3>1, WriteKeeps
  <2> QED BY <1>3, <2>1, <2>2, <2>3 DEF VgaNext
<1>4. ASSUME NEW f \in Formats, NEW given \in Arguments, Call(f, given) PROVE UNCHANGED screen
  BY <1>4 DEF Call
<1>5. Character \/ String \/ OtherDirective => UNCHANGED screen
  BY DEF Character, String, OtherDirective
<1>6. UNCHANGED vars => UNCHANGED screen
  BY DEF vars
<1> QED BY <1>1, <1>2, <1>3, <1>4, <1>5, <1>6 DEF Next, printk

-----------------------------------------------------------------------------
(* Sequences put together, and how they begin.                             *)

\* What FlattenSeq makes of each beginning of a sequence of sequences.
Flattens(flat, seqs) ==
    /\ flat[0] = << >>
    /\ \A k \in 1..Len(seqs) : flat[k] = flat[k - 1] \o seqs[k]
    /\ FlattenSeq(seqs) = flat[Len(seqs)]

\* The passes of FlattenSeq, one after the other.
LEMMA FlattenPass ==
    ASSUME NEW E, NEW seqs \in Seq(Seq(E))
    PROVE  \E flat \in [0..Len(seqs) -> Seq(E)] : Flattens(flat, seqs)
<1> DEFINE n          == Len(seqs)
           Es         == Seq(E)
           none       == << >>
           Join(a, b) == a \o b
           Body(h)    == [i \in 1..n |-> IF i = 1 THEN seqs[i] ELSE Join(h[i - 1], seqs[i])]
           whole      == CHOOSE h : h = Body(h)
           F          == [k \in 1..n |-> [s \in Es |-> Join(s, seqs[k])]]
<1>1. n \in Nat /\ none \in Es /\ \A k \in 1..n : seqs[k] \in Es
  OBVIOUS
<1>2. FlattenSeq(seqs) = IF n = 0 THEN seqs ELSE whole[n]
  BY DEF FlattenSeq
<1>3. \A k \in 1..n : \A s \in Es : Join(s, seqs[k]) \in Es
  BY <1>1, ConcatProperties
<1>4. \A k \in 1..n : Join(none, seqs[k]) = seqs[k]
  BY <1>1, ConcatEmptySeq
<1>5. n = 0 => seqs = none
  OBVIOUS
<1> HIDE DEF n, none, Es, Join
<1>6. F \in [1..n -> [Es -> Es]]
  BY <1>3
<1>7. PICK g \in [0..n -> Es] : g[0] = none /\ \A k \in 1..n : g[k] = F[k][g[k - 1]]
  <2> HIDE DEF F
  <2>1. Loop(Es, none, n, F)
    BY <1>1, <1>6, Iterates
  <2> QED BY <2>1 DEF Loop
<1>8. ASSUME NEW k \in 1..n PROVE g[k] = Join(g[k - 1], seqs[k])
  <2>1. k - 1 \in 0..n
    BY <1>1
  <2>2. g[k - 1] \in Es
    BY <1>7, <2>1
  <2>3. F[k] = [s \in Es |-> Join(s, seqs[k])]
    OBVIOUS
  <2> HIDE DEF F
  <2> QED BY <1>7, <2>2, <2>3
<1>9. whole = Body(whole)
  <2> DEFINE h == [k \in 1..n |-> g[k]]
  <2>1. ASSUME NEW k \in 1..n PROVE g[k] = IF k = 1 THEN seqs[k] ELSE Join(h[k - 1], seqs[k])
    <3>1. CASE k = 1
      BY <1>4, <1>7, <1>8, <3>1
    <3>2. CASE k # 1
      <4>1. k - 1 \in 1..n
        BY <1>1, <3>2
      <4>2. h[k - 1] = g[k - 1]
        BY <4>1
      <4> QED BY <1>8, <3>2, <4>2
    <3> QED BY <3>1, <3>2
  <2>2. h = Body(h)
    BY <2>1
  <2> HIDE DEF Body, h
  <2> QED BY <2>2
<1>10. ASSUME NEW k \in 1..n
       PROVE  whole[k] = IF k = 1 THEN seqs[k] ELSE Join(whole[k - 1], seqs[k])
  <2> HIDE DEF whole
  <2> QED BY <1>9
<1> HIDE DEF whole, F
<1> DEFINE T == {m \in Nat : m \in 1..n => whole[m] = g[m]}
<1>11. 0 \in T
  OBVIOUS
<1>12. ASSUME NEW m \in Nat, m \in T PROVE m + 1 \in T
  <2> SUFFICES ASSUME m + 1 \in 1..n PROVE whole[m + 1] = g[m + 1]
    OBVIOUS
  <2>1. (m + 1) - 1 = m /\ (m + 1 = 1 <=> m = 0)
    OBVIOUS
  <2>2. g[m + 1] = Join(g[m], seqs[m + 1])
    BY <1>8, <2>1
  <2>3. CASE m = 0
    BY <1>4, <1>7, <1>10, <2>2, <2>3
  <2>4. CASE m # 0
    <3>1. m \in 1..n
      BY <1>1, <2>4
    <3>2. whole[m] = g[m]
      BY <1>12, <3>1
    <3>3. whole[m + 1] = Join(whole[m], seqs[m + 1])
      BY <1>10, <2>1, <2>4
    <3> QED BY <2>2, <3>2, <3>3
  <2> QED BY <2>3, <2>4
<1>13. Nat \subseteq T
  <2> HIDE DEF T
  <2> QED BY <1>11, <1>12, SetInduction
<1>14. FlattenSeq(seqs) = g[n]
  <2>1. CASE n = 0
    BY <1>2, <1>5, <1>7, <2>1
  <2>2. CASE n # 0
    <3>1. n \in 1..n
      BY <1>1, <2>2
    <3> QED BY <1>1, <1>2, <1>13, <2>2, <3>1
  <2> QED BY <2>1, <2>2
<1>15. Flattens(g, seqs)
  BY <1>7, <1>8, <1>14 DEF Flattens, n, none, Join
<1> QED BY <1>7, <1>15 DEF n, Es

\* A beginning of the sequence gives a beginning of what it is put together to.
LEMMA FlattenBeginning ==
    ASSUME NEW E, NEW seqs \in Seq(Seq(E)),
           NEW flat \in [0..Len(seqs) -> Seq(E)], Flattens(flat, seqs),
           NEW p \in 0..Len(seqs)
    PROVE  FlattenSeq(SubSeq(seqs, 1, p)) = flat[p]
<1> DEFINE s == SubSeq(seqs, 1, p)
<1>1. /\ s \in Seq(Seq(E)) /\ Len(s) = p /\ p \in Nat
      /\ Len(seqs) \in Nat /\ p <= Len(seqs)
      /\ \A k \in 1..p : s[k] = seqs[k]
  OBVIOUS
<1> HIDE DEF s
<1>2. PICK part \in [0..Len(s) -> Seq(E)] : Flattens(part, s)
  BY <1>1, FlattenPass
<1> DEFINE T == {m \in Nat : m \in 0..p => part[m] = flat[m]}
<1>3. 0 \in T
  BY <1>2 DEF Flattens
<1>4. ASSUME NEW m \in Nat, m \in T PROVE m + 1 \in T
  <2> SUFFICES ASSUME m + 1 \in 0..p PROVE part[m + 1] = flat[m + 1]
    OBVIOUS
  <2>1. m \in 0..p /\ m + 1 \in 1..p /\ m + 1 \in 1..Len(seqs) /\ (m + 1) - 1 = m
    BY <1>1
  <2>2. part[m + 1] = part[m] \o s[m + 1]
    BY <1>1, <1>2, <2>1 DEF Flattens
  <2>3. flat[m + 1] = flat[m] \o seqs[m + 1]
    BY <2>1 DEF Flattens
  <2> QED BY <1>1, <1>4, <2>1, <2>2, <2>3
<1>5. Nat \subseteq T
  <2> HIDE DEF T
  <2> QED BY <1>3, <1>4, SetInduction
<1>6. part[p] = flat[p]
  BY <1>1, <1>5
<1>7. FlattenSeq(s) = part[p]
  BY <1>1, <1>2 DEF Flattens
<1> QED BY <1>6, <1>7 DEF s

\* What begins a sequence begins every longer one.
LEMMA PrefixGrows ==
    ASSUME NEW E, NEW s \in Seq(E), NEW t \in Seq(E), NEW x \in Seq(E), IsPrefix(s, t)
    PROVE  IsPrefix(s, t \o x)
<1>1. /\ Len(s) \in Nat /\ Len(t) \in Nat /\ Len(x) \in Nat /\ Len(s) <= Len(t)
      /\ SubSeq(s, 1, Len(s)) = SubSeq(t, 1, Len(s))
  BY DEF IsPrefix
<1>2. Len(t \o x) = Len(t) + Len(x)
  BY ConcatProperties
<1>3. SubSeq(t \o x, 1, Len(s)) = SubSeq(t, 1, Len(s))
  BY <1>1, SubSeqOfConcat1
<1> QED BY <1>1, <1>2, <1>3 DEF IsPrefix

\* What the beginning of a sequence is put together to begins the whole.
LEMMA FlattenPrefix ==
    ASSUME NEW E, NEW seqs \in Seq(Seq(E)), NEW p \in 0..Len(seqs)
    PROVE  IsPrefix(FlattenSeq(SubSeq(seqs, 1, p)), FlattenSeq(seqs))
<1> DEFINE n == Len(seqs)
<1>1. n \in Nat /\ p \in 0..n /\ \A k \in 1..n : seqs[k] \in Seq(E)
  OBVIOUS
<1>2. PICK flat \in [0..Len(seqs) -> Seq(E)] : Flattens(flat, seqs)
  BY FlattenPass
<1> DEFINE T == {m \in Nat : m \in p..n => IsPrefix(flat[p], flat[m])}
<1>3. ASSUME NEW s \in Seq(E) PROVE IsPrefix(s, s)
  BY DEF IsPrefix
<1>4. 0 \in T
  <2> SUFFICES ASSUME 0 \in p..n PROVE IsPrefix(flat[p], flat[0])
    OBVIOUS
  <2>1. p = 0 /\ flat[0] \in Seq(E)
    BY <1>1, <1>2
  <2> QED BY <1>3, <2>1
<1>5. ASSUME NEW m \in Nat, m \in T PROVE m + 1 \in T
  <2> SUFFICES ASSUME m + 1 \in p..n PROVE IsPrefix(flat[p], flat[m + 1])
    OBVIOUS
  <2>1. flat[m + 1] \in Seq(E) /\ flat[p] \in Seq(E)
    <3>1. m + 1 \in 0..Len(seqs) /\ p \in 0..Len(seqs)
      BY <1>1
    <3> QED BY <1>2, <3>1
  <2>2. CASE p = m + 1
    BY <1>3, <2>1, <2>2
  <2>3. CASE p # m + 1
    <3>1. m \in p..n /\ m \in 0..n /\ m + 1 \in 1..n /\ (m + 1) - 1 = m
      BY <1>1, <2>3
    <3>2. flat[m + 1] = flat[m] \o seqs[m + 1]
      BY <1>2, <3>1 DEF Flattens
    <3>3. IsPrefix(flat[p], flat[m]) /\ flat[m] \in Seq(E) /\ seqs[m + 1] \in Seq(E)
      BY <1>1, <1>2, <1>5, <3>1
    <3> DEFINE a == flat[p]
               b == flat[m]
               c == seqs[m + 1]
    <3>4. a \in Seq(E) /\ b \in Seq(E) /\ c \in Seq(E) /\ IsPrefix(a, b)
      BY <2>1, <3>3
    <3> HIDE DEF a, b, c
    <3>5. IsPrefix(a, b \o c)
      BY <3>4, PrefixGrows
    <3> QED BY <3>2, <3>5 DEF a, b, c
  <2> QED BY <2>2, <2>3
<1>6. Nat \subseteq T
  <2> HIDE DEF T
  <2> QED BY <1>4, <1>5, SetInduction
<1>7. IsPrefix(flat[p], flat[n])
  BY <1>1, <1>6
<1>8. FlattenSeq(seqs) = flat[n]
  BY <1>2 DEF Flattens
<1>9. FlattenSeq(SubSeq(seqs, 1, p)) = flat[p]
  BY <1>2, FlattenBeginning
<1> QED BY <1>7, <1>8, <1>9

\* One sequence more is put behind what is there.
Grows(seqs, p) ==
    FlattenSeq(SubSeq(seqs, 1, p + 1)) = FlattenSeq(SubSeq(seqs, 1, p)) \o seqs[p + 1]

\* It is so at every place of the sequence.
LEMMA FlattenOneMore ==
    ASSUME NEW E, NEW seqs \in Seq(Seq(E)), NEW p \in 0..(Len(seqs) - 1)
    PROVE  Grows(seqs, p) /\ FlattenSeq(SubSeq(seqs, 1, p)) \in Seq(E)
<1>1. Len(seqs) \in Nat /\ p \in 0..Len(seqs) /\ p + 1 \in 0..Len(seqs)
      /\ p + 1 \in 1..Len(seqs) /\ (p + 1) - 1 = p
  OBVIOUS
<1>2. PICK flat \in [0..Len(seqs) -> Seq(E)] : Flattens(flat, seqs)
  BY FlattenPass
<1>3. FlattenSeq(SubSeq(seqs, 1, p)) = flat[p]
  BY <1>1, <1>2, FlattenBeginning
<1> DEFINE q == p + 1
<1>4. q \in 0..Len(seqs)
  BY <1>1
<1> HIDE DEF q
<1>5. FlattenSeq(SubSeq(seqs, 1, q)) = flat[q]
  BY <1>2, <1>4, FlattenBeginning
<1>6. flat[q] = flat[p] \o seqs[q]
  BY <1>1, <1>2 DEF Flattens, q
<1>7. flat[p] \in Seq(E)
  BY <1>1, <1>2
<1> QED BY <1>3, <1>5, <1>6, <1>7 DEF Grows, q

-----------------------------------------------------------------------------
(* Reading a format.                                                       *)

\* A run of n '%' right before a place.
Run(f, p, n) ==
    /\ n \in 0..(p - 1)
    /\ \A q \in (p - n)..(p - 1) : f[q] = Percent
    /\ n = p - 1 \/ f[p - 1 - n] # Percent

\* There is only one run right before a place: PercentsBefore is its length.
LEMMA OneRun ==
    ASSUME NEW f, NEW p \in Nat \ {0}, NEW n, Run(f, p, n)
    PROVE  PercentsBefore(f, p) = n
<1> DEFINE Good(m) == /\ \A q \in (p - m)..(p - 1) : f[q] = Percent
                      /\ m = p - 1 \/ f[p - 1 - m] # Percent
<1>1. n \in 0..(p - 1) /\ Good(n)
  BY DEF Run
<1>2. ASSUME NEW a \in 0..(p - 1), NEW b \in 0..(p - 1), Good(a), Good(b), a < b
      PROVE  FALSE
  <2>1. p - 1 - a \in (p - b)..(p - 1) /\ a # p - 1
    BY <1>2
  <2>2. f[p - 1 - a] = Percent
    BY <1>2, <2>1
  <2> QED BY <1>2, <2>1, <2>2
<1>3. ASSUME NEW m \in 0..(p - 1), Good(m) PROVE m = n
  <2>1. ~(m < n) /\ ~(n < m)
    BY <1>1, <1>2, <1>3
  <2> QED BY <1>1, <2>1
<1>4. PercentsBefore(f, p) = CHOOSE m \in 0..(p - 1) : Good(m)
  BY DEF PercentsBefore
<1> HIDE DEF Good
<1> QED BY <1>1, <1>3, <1>4

\* The run before the next place is longer by one, or starts anew.
LEMMA NextRun ==
    ASSUME NEW f, NEW p \in Nat \ {0}, NEW n, Run(f, p, n)
    PROVE  Run(f, p + 1, IF f[p] = Percent THEN n + 1 ELSE 0)
<1>1. CASE f[p] = Percent
  <2>1. n \in 0..(p - 1) /\ n + 1 \in 0..((p + 1) - 1)
    BY DEF Run
  <2>2. ASSUME NEW q \in ((p + 1) - (n + 1))..((p + 1) - 1) PROVE f[q] = Percent
    <3>1. q = p \/ q \in (p - n)..(p - 1)
      BY <2>1
    <3> QED BY <1>1, <3>1 DEF Run
  <2>3. n + 1 = (p + 1) - 1 \/ f[(p + 1) - 1 - (n + 1)] # Percent
    <3>1. (p + 1) - 1 - (n + 1) = p - 1 - n
      BY <2>1
    <3>2. n = p - 1 \/ f[p - 1 - n] # Percent
      BY DEF Run
    <3> QED BY <2>1, <3>1, <3>2
  <2> QED BY <1>1, <2>1, <2>2, <2>3 DEF Run
<1>2. CASE f[p] # Percent
  <2>1. 0 \in 0..((p + 1) - 1) /\ ((p + 1) - 0)..((p + 1) - 1) = {} /\ (p + 1) - 1 - 0 = p
    OBVIOUS
  <2> QED BY <1>2, <2>1 DEF Run
<1> QED BY <1>1, <1>2

\* There is a run before every place.
LEMMA SomeRun ==
    ASSUME NEW f, NEW p \in Nat \ {0}
    PROVE  \E n : Run(f, p, n)
<1> DEFINE T == {m \in Nat : \E n : Run(f, m + 1, n)}
<1>1. 0 \in T
  <2>1. Run(f, 1, 0)
    BY DEF Run
  <2> QED BY <2>1
<1>2. ASSUME NEW m \in Nat, m \in T PROVE m + 1 \in T
  <2>1. PICK n : Run(f, m + 1, n)
    BY <1>2
  <2>2. m + 1 \in Nat \ {0}
    OBVIOUS
  <2>3. \E l : Run(f, (m + 1) + 1, l)
    <3> DEFINE p1 == m + 1
    <3>1. p1 \in Nat \ {0} /\ Run(f, p1, n)
      BY <2>1, <2>2
    <3> HIDE DEF p1
    <3>2. \E l : Run(f, p1 + 1, l)
      BY <3>1, NextRun
    <3> QED BY <3>2 DEF p1
  <2> QED BY <2>2, <2>3
<1>3. Nat \subseteq T
  <2> HIDE DEF T
  <2> QED BY <1>1, <1>2, SetInduction
<1>4. p - 1 \in T /\ (p - 1) + 1 = p
  BY <1>3
<1> QED BY <1>4

\* A character is read as a directive when a '%' is before it that is not
\* read as one itself.
LEMMA DirectiveIs ==
    ASSUME NEW f
    PROVE  /\ ~Directive(f, 1)
           /\ \A p \in Nat \ {0} :
                 Directive(f, p + 1) <=> (f[p] = Percent /\ ~Directive(f, p))
<1>1. ~Directive(f, 1)
  <2>1. Run(f, 1, 0)
    BY DEF Run
  <2>2. PercentsBefore(f, 1) = 0
    BY <2>1, OneRun
  <2>3. (0 % 2) # 1
    OBVIOUS
  <2> QED BY <2>2, <2>3 DEF Directive
<1>2. ASSUME NEW p \in Nat \ {0}
      PROVE  Directive(f, p + 1) <=> (f[p] = Percent /\ ~Directive(f, p))
  <2>1. PICK n : Run(f, p, n)
    BY SomeRun
  <2>2. PercentsBefore(f, p) = n /\ n \in Nat
    BY <2>1, OneRun DEF Run
  <2> DEFINE m == IF f[p] = Percent THEN n + 1 ELSE 0
             p1 == p + 1
  <2>3. Run(f, p1, m) /\ p1 \in Nat \ {0}
    BY <2>1, NextRun
  <2> HIDE DEF m, p1
  <2>4. PercentsBefore(f, p1) = m
    BY <2>3, OneRun
  <2>5. (m % 2) = 1 <=> (f[p] = Percent /\ ~((n % 2) = 1))
    BY <2>2 DEF m
  <2>6. Directive(f, p1) <=> (f[p] = Percent /\ ~Directive(f, p))
    BY <2>2, <2>4, <2>5 DEF Directive
  <2> QED BY <2>6 DEF p1
<1> QED BY <1>1, <1>2

\* The arguments a format has asked for after so many characters.
LEMMA StringsAre ==
    ASSUME NEW f \in Seq(Char)
    PROVE  /\ StringsUpTo(f, 0) = 0
           /\ IsFiniteSet(StringsIn(f)) /\ Cardinality(StringsIn(f)) \in Nat
           /\ \A p \in Nat : /\ StringsUpTo(f, p) \in 0..Cardinality(StringsIn(f))
                             /\ StringsUpTo(f, p + 1)
                                  = StringsUpTo(f, p) + (IF p + 1 \in StringsIn(f) THEN 1 ELSE 0)
<1> DEFINE All     == StringsIn(f)
           Upto(p) == {q \in All : q <= p}
<1>1. Len(f) \in Nat /\ DOMAIN f = 1..Len(f)
  OBVIOUS
<1>2. IsFiniteSet(1..Len(f))
  <2>1. 1 \in Int /\ Len(f) \in Int
    BY <1>1
  <2> QED BY <2>1, FS_Interval, Zenon
<1>3. All \subseteq 1..Len(f)
  BY <1>1 DEF StringsIn
<1>4. IsFiniteSet(All)
  BY <1>2, <1>3, FS_Subset
<1>5. Cardinality(All) \in Nat
  BY <1>4, FS_CardinalityType
<1>6. Upto(0) = {}
  BY <1>3
<1>7. StringsUpTo(f, 0) = 0
  BY <1>6, FS_EmptySet DEF StringsUpTo
<1> HIDE DEF All
<1>8. ASSUME NEW p \in Nat
      PROVE  IsFiniteSet(Upto(p)) /\ Cardinality(Upto(p)) \in 0..Cardinality(All)
  <2>1. Upto(p) \in SUBSET All
    OBVIOUS
  <2>2. IsFiniteSet(Upto(p)) /\ Cardinality(Upto(p)) <= Cardinality(All)
    BY <1>4, <2>1, FS_Subset
  <2>3. Cardinality(Upto(p)) \in Nat
    BY <2>2, FS_CardinalityType
  <2> QED BY <1>5, <2>2, <2>3
<1>9. ASSUME NEW p \in Nat
      PROVE  Cardinality(Upto(p + 1))
               = Cardinality(Upto(p)) + (IF p + 1 \in All THEN 1 ELSE 0)
  <2>1. \A q \in All : q \in Nat
    BY <1>1, <1>3
  <2>2. CASE p + 1 \in All
    <3>1. Upto(p + 1) = Upto(p) \cup {p + 1}
      BY <2>1, <2>2
    <3>2. p + 1 \notin Upto(p)
      OBVIOUS
    <3> HIDE DEF Upto
    <3> DEFINE q == p + 1
    <3>3. Cardinality(Upto(p) \cup {q})
            = IF q \in Upto(p) THEN Cardinality(Upto(p)) ELSE Cardinality(Upto(p)) + 1
      <4> HIDE DEF q
      <4> QED BY <1>8, FS_AddElement
    <3> QED BY <2>2, <3>1, <3>2, <3>3
  <2>3. CASE p + 1 \notin All
    <3>1. Upto(p + 1) = Upto(p)
      BY <2>1, <2>3
    <3> HIDE DEF Upto
    <3>2. Cardinality(Upto(p)) \in Nat
      BY <1>5, <1>8
    <3> QED BY <2>3, <3>1, <3>2
  <2> QED BY <2>2, <2>3
<1> QED BY <1>4, <1>5, <1>7, <1>8, <1>9 DEF StringsUpTo, All

\* Every part of a format stands for a string, when there is an argument for
\* each %s.
Complete(f, given) ==
    /\ f \in Seq(Char) /\ given \in Seq(Seq(Char))
    /\ Len(given) = Cardinality(StringsIn(f))

\* The parts are strings, one for each character of the format.
LEMMA PartsAre ==
    ASSUME NEW f, NEW given, Complete(f, given)
    PROVE  /\ Parts(f, given) \in Seq(Seq(Char)) /\ Len(Parts(f, given)) = Len(f)
           /\ \A p \in 1..Len(f) : Parts(f, given)[p] = Part(f, given, p)
<1>1. f \in Seq(Char) /\ given \in Seq(Seq(Char)) /\ Len(given) = Cardinality(StringsIn(f))
  BY DEF Complete
<1> DEFINE n == Len(f)
<1>2. n \in Nat /\ DOMAIN f = 1..n /\ \A p \in 1..n : f[p] \in Char
  BY <1>1
<1>3. ASSUME NEW p \in 1..n PROVE Part(f, given, p) \in Seq(Char)
  <2>1. CASE Directive(f, p) /\ f[p] = S
    <3>1. p \in StringsIn(f)
      BY <1>2, <2>1 DEF StringsIn
    <3>2. p - 1 \in Nat /\ (p - 1) + 1 = p
      BY <1>2
    <3>3. /\ StringsUpTo(f, p - 1) \in 0..Cardinality(StringsIn(f))
          /\ StringsUpTo(f, p) \in 0..Cardinality(StringsIn(f))
          /\ StringsUpTo(f, p) = StringsUpTo(f, p - 1) + 1
      <4>1. p \in Nat
        BY <1>2
      <4>2. StringsUpTo(f, (p - 1) + 1)
              = StringsUpTo(f, p - 1) + (IF (p - 1) + 1 \in StringsIn(f) THEN 1 ELSE 0)
        BY <1>1, <3>2, StringsAre
      <4> QED BY <1>1, <3>1, <3>2, <4>1, <4>2, StringsAre
    <3>4. StringsUpTo(f, p) \in 1..Len(given)
      BY <1>1, <3>3, StringsAre
    <3>5. given[StringsUpTo(f, p)] \in Seq(Char)
      BY <1>1, <3>4
    <3> QED BY <2>1, <3>5 DEF Part
  <2>2. CASE ~(Directive(f, p) /\ f[p] = S)
    <3>1. << >> \in Seq(Char) /\ << f[p] >> \in Seq(Char)
      BY <1>2
    <3> QED BY <2>2, <3>1 DEF Part
  <2> QED BY <2>1, <2>2
<1>4. Parts(f, given) = [p \in 1..n |-> Part(f, given, p)]
  BY <1>2 DEF Parts
<1> DEFINE Es == Seq(Char)
<1>5. \A p \in 1..n : Part(f, given, p) \in Es
  BY <1>3
<1> HIDE DEF Es, n
<1>6. Parts(f, given) \in Seq(Es) /\ Len(Parts(f, given)) = n
  BY <1>2, <1>4, <1>5
<1> QED BY <1>4, <1>6 DEF Es, n

-----------------------------------------------------------------------------
(* What a call has written is what the format stands for.                  *)

\* What is left of a sequence after p of its members.
After(s, p) == SubSeq(s, p + 1, Len(s))

\* To step over one member is to take the tail.
Steps(s, p) ==
    /\ After(s, p) # << >> /\ Head(After(s, p)) = s[p + 1]
    /\ Tail(After(s, p)) = After(s, p + 1)
    /\ Len(After(s, p)) = Len(s) - p
    /\ p + 1 < Len(s) => After(s, p)[2] = s[p + 2]

\* It is so while there is a member to step over.
LEMMA AfterSteps ==
    ASSUME NEW E, NEW s \in Seq(E), NEW p \in 0..(Len(s) - 1)
    PROVE  Steps(s, p)
<1> DEFINE n == Len(s)
           r == SubSeq(s, p + 1, n)
<1>1. n \in Nat /\ p + 1 \in 1..n
  OBVIOUS
<1>2. /\ r \in Seq(E) /\ Len(r) = n - p
      /\ \A i \in 1..(n - p) : r[i] = s[p + i]
  OBVIOUS
<1>3. Head(r) = s[p + 1] /\ Tail(r) = SubSeq(s, (p + 1) + 1, n)
  BY <1>1, HeadTailOfSubSeq
<1>4. r # << >>
  <2> HIDE DEF r
  <2> QED BY <1>1, <1>2
<1>5. p + 1 < n => r[2] = s[p + 2]
  <2> HIDE DEF r
  <2> QED BY <1>1, <1>2
<1> HIDE DEF r
<1> QED BY <1>2, <1>3, <1>4, <1>5 DEF Steps, After, r

\* Nothing is left at the end, and only there.
LEMMA AfterAll ==
    ASSUME NEW E, NEW s \in Seq(E), NEW p \in 0..Len(s)
    PROVE  After(s, p) = << >> <=> p = Len(s)
<1>1. Len(s) \in Nat /\ p \in Nat
  OBVIOUS
<1>2. CASE p = Len(s)
  <2>1. SubSeq(s, p + 1, Len(s)) = << >>
    BY <1>1, <1>2, SubSeqEmpty
  <2> QED BY <1>2, <2>1 DEF After
<1>3. CASE p # Len(s)
  <2>1. p \in 0..(Len(s) - 1)
    BY <1>1, <1>3
  <2> QED BY <1>3, <2>1, AfterSteps DEF Steps
<1> QED BY <1>2, <1>3

\* The text of the first p characters.
Built(f, given, p) == FlattenSeq(SubSeq(Parts(f, given), 1, p))

\* A character more of the format adds its part.
LEMMA BuiltOneMore ==
    ASSUME NEW f, NEW given, Complete(f, given), NEW p \in 0..(Len(f) - 1)
    PROVE  /\ Built(f, given, p) \in Seq(Char)
           /\ Built(f, given, p + 1) = Built(f, given, p) \o Part(f, given, p + 1)
<1> DEFINE parts == Parts(f, given)
<1>1. /\ parts \in Seq(Seq(Char)) /\ Len(parts) = Len(f)
      /\ \A q \in 1..Len(f) : parts[q] = Part(f, given, q)
  BY PartsAre
<1>2. p + 1 \in 1..Len(f) /\ p \in 0..(Len(parts) - 1)
  <2>1. Len(f) \in Nat
    BY DEF Complete
  <2> QED BY <1>1, <2>1
<1> HIDE DEF parts
<1>3. Grows(parts, p) /\ FlattenSeq(SubSeq(parts, 1, p)) \in Seq(Char)
  BY <1>1, <1>2, FlattenOneMore
<1>4. parts[p + 1] = Part(f, given, p + 1)
  BY <1>1, <1>2
<1> QED BY <1>3, <1>4 DEF Grows, Built, parts

\* It begins the text of the format, and at the end is all of it.
LEMMA BuiltIs ==
    ASSUME NEW f, NEW given, Complete(f, given)
    PROVE  /\ Built(f, given, 0) = << >>
           /\ Built(f, given, Len(f)) = Text(f, given)
           /\ \A p \in 0..Len(f) : IsPrefix(Built(f, given, p), Text(f, given))
<1> DEFINE parts == Parts(f, given)
<1>1. parts \in Seq(Seq(Char)) /\ Len(parts) = Len(f)
  BY PartsAre
<1> HIDE DEF parts
<1>2. SubSeq(parts, 1, Len(parts)) = parts
  BY <1>1, SubSeqFull
<1>3. SubSeq(parts, 1, 0) = << >>
  BY <1>1, SubSeqEmpty
<1>4. FlattenSeq(<< >>) = << >>
  BY DEF FlattenSeq
<1>5. \A p \in 0..Len(parts) : IsPrefix(FlattenSeq(SubSeq(parts, 1, p)), FlattenSeq(parts))
  BY <1>1, FlattenPrefix
<1> QED BY <1>1, <1>2, <1>3, <1>4, <1>5 DEF Built, Text, parts

\* How the arguments that are left change over a character of the format.
LEMMA ArgumentsMove ==
    ASSUME NEW f, NEW given, Complete(f, given), NEW p \in 0..(Len(f) - 1)
    PROVE  /\ p + 1 \notin StringsIn(f) =>
                 After(given, StringsUpTo(f, p + 1)) = After(given, StringsUpTo(f, p))
           /\ p + 1 \in StringsIn(f) =>
                 /\ StringsUpTo(f, p + 1) = StringsUpTo(f, p) + 1
                 /\ Steps(given, StringsUpTo(f, p))
<1>1. /\ f \in Seq(Char) /\ given \in Seq(Seq(Char)) /\ Len(f) \in Nat
      /\ Len(given) = Cardinality(StringsIn(f)) /\ Len(given) \in Nat
  BY DEF Complete
<1>2. /\ StringsUpTo(f, p) \in 0..Len(given) /\ StringsUpTo(f, p + 1) \in 0..Len(given)
      /\ StringsUpTo(f, p + 1) = StringsUpTo(f, p) + (IF p + 1 \in StringsIn(f) THEN 1 ELSE 0)
  <2>1. p \in Nat /\ p + 1 \in Nat
    BY <1>1
  <2> QED BY <1>1, <2>1, StringsAre
<1>3. CASE p + 1 \notin StringsIn(f)
  BY <1>1, <1>2, <1>3
<1>4. CASE p + 1 \in StringsIn(f)
  <2> DEFINE c == StringsUpTo(f, p)
             d == StringsUpTo(f, p + 1)
  <2>1. d = c + 1 /\ c \in 0..Len(given) /\ d \in 0..Len(given)
    BY <1>2, <1>4
  <2> HIDE DEF c, d
  <2>2. c \in 0..(Len(given) - 1)
    BY <1>1, <2>1
  <2>3. Steps(given, c)
    BY <1>1, <2>2, AfterSteps, Zenon
  <2> QED BY <1>4, <2>1, <2>3 DEF c, d
<1> QED BY <1>3, <1>4

\* Done in the words of these lemmas.
LEMMA DoneIs ==
    ASSUME NEW f, NEW given, NEW p
    PROVE  Done(f, given, p)
             <=> /\ fmt = After(f, p)
                 /\ args = After(given, StringsUpTo(f, p))
                 /\ buffer = Built(f, given, p)
                 /\ ~Directive(f, p + 1)
BY DEF Done, After, Built

\* A call starts with nothing done.
LEMMA Starts ==
    ASSUME NEW f, NEW given, Complete(f, given)
    PROVE  /\ f = After(f, 0) /\ given = After(given, StringsUpTo(f, 0))
           /\ << >> = Built(f, given, 0) /\ ~Directive(f, 0 + 1)
<1>1. f \in Seq(Char) /\ given \in Seq(Seq(Char))
  BY DEF Complete
<1>2. StringsUpTo(f, 0) = 0
  BY <1>1, StringsAre
<1>3. SubSeq(f, 0 + 1, Len(f)) = f
  BY <1>1, SubSeqFull
<1>4. SubSeq(given, 0 + 1, Len(given)) = given
  <2> DEFINE Es == Seq(Char)
  <2>1. given \in Seq(Es)
    BY <1>1
  <2> HIDE DEF Es
  <2> QED BY <2>1, SubSeqFull
<1>5. ~Directive(f, 0 + 1)
  <2>1. 0 + 1 = 1
    OBVIOUS
  <2> QED BY <2>1, DirectiveIs
<1> QED BY <1>2, <1>3, <1>4, <1>5, BuiltIs DEF After

\* A call that runs has an argument for each %s of its format.
LEMMA CompleteCall ==
    ASSUME Kinds, Progress, at = "loop", ~CutShort(call.format)
    PROVE  Complete(call.format, call.args)
<1>1. call.format \in Formats \/ call.format = << >>
  BY DEF Kinds
<1>2. << >> \in Seq(Char)
  OBVIOUS
<1>3. call.format \in Seq(Char)
  BY <1>1, <1>2, PrintkAssumption
<1> QED BY <1>3 DEF Kinds, Progress, Complete

\* Every iteration of printk goes on by one character or one directive, and
\* writes what that stands for.
LEMMA ProgressKept ==
    ASSUME Kinds, Progress, [Next]_vars
    PROVE  Progress'
<1> DEFINE f     == call.format
           given == call.args
<1>1. ASSUME at = "loop", ~CutShort(f), call' = call,
             NEW q \in 0..Len(f), ~Directive(f, q + 1), fmt' = After(f, q),
             args' = After(given, StringsUpTo(f, q)), buffer' = Built(f, given, q)
      PROVE  Progress'
  <2>1. Len(given) = Cardinality(StringsIn(f))
    BY <1>1 DEF Progress
  <2>2. Done(f, given, q)'
    BY <1>1 DEF Done, After, Built
  <2> QED BY <1>1, <2>1, <2>2 DEF Progress
<1>2. ASSUME at = "loop", ~CutShort(f)
      PROVE  /\ Complete(f, given) /\ Len(f) \in Nat
             /\ \E p \in 0..Len(f) : /\ fmt = After(f, p)
                                     /\ args = After(given, StringsUpTo(f, p))
                                     /\ buffer = Built(f, given, p)
                                     /\ ~Directive(f, p + 1)
  <2>1. Complete(f, given)
    BY <1>2, CompleteCall
  <2> QED BY <1>2, <2>1, DoneIs DEF Progress, Complete
<1>3. ASSUME NEW g \in Formats, NEW given1 \in Arguments, Call(g, given1) PROVE Progress'
  <2>1. /\ at' = "loop" /\ call' = [format |-> g, args |-> given1]
        /\ fmt' = g /\ args' = given1 /\ buffer' = << >>
        /\ Len(given1) = Cardinality(StringsIn(g))
    BY <1>3 DEF Call
  <2>2. call'.format = g /\ call'.args = given1
    BY <2>1
  <2>3. g \in Seq(Char) /\ given1 \in Seq(Seq(Char))
    BY PrintkAssumption, Zenon
  <2>4. Complete(g, given1)
    BY <2>1, <2>3 DEF Complete
  <2>5. 0 \in 0..Len(g)
    BY <2>3
  <2>6. Done(g, given1, 0)'
    BY <2>1, <2>4, Starts DEF Done, After, Built
  <2> QED BY <2>1, <2>2, <2>5, <2>6 DEF Progress
<1>4. ASSUME at = "loop", CutShort(f), call' = call PROVE Progress'
  BY <1>4 DEF Progress
<1>5. CASE Character
  <2>1. /\ at = "loop" /\ call' = call /\ fmt # << >> /\ Head(fmt) # Percent
        /\ fmt' = Tail(fmt) /\ buffer' = Append(buffer, Head(fmt)) /\ args' = args
    BY <1>5 DEF Character, Continues
  <2> SUFFICES ASSUME ~CutShort(f) PROVE Progress'
    BY <1>4, <2>1
  <2>2. Complete(f, given) /\ Len(f) \in Nat
    BY <1>2, <2>1
  <2>3. PICK p \in 0..Len(f) : /\ fmt = After(f, p)
                               /\ args = After(given, StringsUpTo(f, p))
                               /\ buffer = Built(f, given, p)
                               /\ ~Directive(f, p + 1)
    BY <1>2, <2>1
  <2>4. p \in 0..(Len(f) - 1) /\ p + 1 \in 0..Len(f) /\ p + 1 \in Nat \ {0}
    <3>1. p # Len(f)
      BY <2>1, <2>2, <2>3, AfterAll DEF Complete
    <3> QED BY <2>2, <3>1
  <2>5. Head(fmt) = f[p + 1] /\ Tail(fmt) = After(f, p + 1)
    BY <2>2, <2>3, <2>4, AfterSteps DEF Steps, Complete
  <2>6. f[p + 1] # Percent /\ ~Directive(f, (p + 1) + 1)
    BY <2>1, <2>4, <2>5, DirectiveIs
  <2>7. args' = After(given, StringsUpTo(f, p + 1))
    <3>1. p + 1 \notin StringsIn(f)
      BY <2>3 DEF StringsIn
    <3> QED BY <2>1, <2>2, <2>3, <2>4, <3>1, ArgumentsMove
  <2>8. buffer' = Built(f, given, p + 1)
    <3>1. Part(f, given, p + 1) = << f[p + 1] >>
      BY <2>3, <2>6 DEF Part
    <3>2. Built(f, given, p + 1) = buffer \o << f[p + 1] >> /\ buffer \in Seq(Char)
      BY <2>2, <2>3, <2>4, <3>1, BuiltOneMore
    <3>3. Append(buffer, f[p + 1]) = buffer \o << f[p + 1] >>
      <4> DEFINE c == f[p + 1]
      <4>1. c \in Char
        BY <2>2, <2>4 DEF Complete
      <4> HIDE DEF c
      <4>2. Append(buffer, c) = buffer \o << c >>
        BY <3>2, <4>1, AppendIsConcat
      <4> QED BY <4>2 DEF c
    <3> QED BY <2>1, <2>5, <3>2, <3>3
  <2> QED BY <1>1, <2>1, <2>4, <2>5, <2>6, <2>7, <2>8
<1>6. ASSUME at = "loop", call' = call, fmt # << >>, Head(fmt) = Percent, ~CutShort(f)
      PROVE  \E p \in 0..(Len(f) - 2) :
               /\ Len(fmt) > 1 /\ fmt[2] = f[p + 2] /\ Tail(Tail(fmt)) = After(f, p + 2)
               /\ args = After(given, StringsUpTo(f, p))
               /\ buffer \in Seq(Char)
               /\ StringsUpTo(f, p + 1) = StringsUpTo(f, p)
               /\ Built(f, given, p + 2) = buffer \o Part(f, given, p + 2)
               /\ Directive(f, p + 2) /\ ~Directive(f, p + 3)
  <2>1. Complete(f, given) /\ Len(f) \in Nat /\ f \in Seq(Char)
    BY <1>2, <1>6 DEF Complete
  <2>2. PICK p \in 0..Len(f) : /\ fmt = After(f, p)
                               /\ args = After(given, StringsUpTo(f, p))
                               /\ buffer = Built(f, given, p)
                               /\ ~Directive(f, p + 1)
    BY <1>2, <1>6
  <2>3. p \in 0..(Len(f) - 1) /\ p \in Nat
    <3>1. p # Len(f)
      BY <1>6, <2>1, <2>2, AfterAll
    <3> QED BY <2>1, <3>1
  <2>4. /\ Head(fmt) = f[p + 1] /\ Tail(fmt) = After(f, p + 1) /\ Len(fmt) = Len(f) - p
        /\ p + 1 < Len(f) => fmt[2] = f[p + 2]
    BY <2>1, <2>2, <2>3, AfterSteps DEF Steps
  <2>5. p + 1 # Len(f)
    <3> SUFFICES ASSUME p + 1 = Len(f) PROVE FALSE
      OBVIOUS
    <3>1. f # << >>
      BY <2>1, <2>3
    <3>2. f[Len(f)] = Percent /\ ~Directive(f, Len(f))
      BY <1>6, <2>2, <2>4
    <3> QED BY <1>6, <3>1, <3>2 DEF CutShort
  <2>6. p \in 0..(Len(f) - 2) /\ p + 1 \in 0..(Len(f) - 1) /\ p + 1 < Len(f) /\ (p + 1) + 1 = p + 2
    BY <2>1, <2>3, <2>5
  <2>7. Tail(Tail(fmt)) = After(f, p + 2)
    <3> DEFINE q == p + 1
    <3>1. q \in 0..(Len(f) - 1)
      BY <2>6
    <3> HIDE DEF q
    <3>2. Tail(After(f, q)) = After(f, q + 1)
      BY <2>1, <3>1, AfterSteps DEF Steps
    <3> QED BY <2>4, <2>6, <3>2 DEF q
  <2>8. Directive(f, p + 2)
    <3>1. p + 1 \in Nat \ {0}
      BY <2>3
    <3> QED BY <1>6, <2>2, <2>4, <2>6, <3>1, DirectiveIs
  <2>9. ~Directive(f, p + 3)
    <3>1. p + 2 \in Nat \ {0} /\ (p + 2) + 1 = p + 3
      BY <2>3
    <3> QED BY <2>8, <3>1, DirectiveIs
  <2>10. StringsUpTo(f, p + 1) = StringsUpTo(f, p)
    <3>1. p + 1 \notin StringsIn(f)
      BY <2>2 DEF StringsIn
    <3>2. StringsUpTo(f, p + 1) = StringsUpTo(f, p) + 0 /\ StringsUpTo(f, p) \in Int
      BY <2>1, <2>3, <3>1, StringsAre
    <3> QED BY <3>2
  <2>11. Built(f, given, p + 1) = buffer /\ buffer \in Seq(Char)
    <3>1. Part(f, given, p + 1) = << >>
      BY <1>6, <2>2, <2>4 DEF Part
    <3>2. buffer \in Seq(Char) /\ Built(f, given, p + 1) = buffer \o << >>
      BY <2>1, <2>2, <2>3, <3>1, BuiltOneMore
    <3> QED BY <3>2
  <2>12. Built(f, given, p + 2) = buffer \o Part(f, given, p + 2)
    <3> DEFINE q == p + 1
    <3>1. q \in 0..(Len(f) - 1)
      BY <2>6
    <3> HIDE DEF q
    <3>2. Built(f, given, q + 1) = Built(f, given, q) \o Part(f, given, q + 1)
      BY <2>1, <3>1, BuiltOneMore
    <3> QED BY <2>6, <2>11, <3>2 DEF q
  <2>13. Len(fmt) > 1
    BY <2>1, <2>3, <2>4, <2>6
  <2> QED BY <2>2, <2>4, <2>6, <2>7, <2>8, <2>9, <2>10, <2>11, <2>12, <2>13
<1>7. CASE String
  <2>1. /\ at = "loop" /\ call' = call /\ fmt # << >> /\ Head(fmt) = Percent /\ fmt[2] = S
    BY <1>7 DEF String, Continues
  <2> SUFFICES ASSUME ~CutShort(f) PROVE Progress'
    BY <1>4, <2>1
  <2>2. Complete(f, given) /\ Len(f) \in Nat /\ f \in Seq(Char)
    BY <1>2, <2>1 DEF Complete
  <2>3. CASE args = << >>
    <3>1. at' = "lost"
      BY <1>7, <2>3 DEF String
    <3> QED BY <3>1 DEF Progress
  <2>4. CASE args # << >>
    <3>1. fmt' \in AfterDirective /\ buffer' = buffer \o Head(args) /\ args' = Tail(args)
      BY <1>7, <2>4 DEF String
    <3>2. PICK p \in 0..(Len(f) - 2) :
               /\ Len(fmt) > 1 /\ fmt[2] = f[p + 2] /\ Tail(Tail(fmt)) = After(f, p + 2)
               /\ args = After(given, StringsUpTo(f, p))
               /\ buffer \in Seq(Char)
               /\ StringsUpTo(f, p + 1) = StringsUpTo(f, p)
               /\ Built(f, given, p + 2) = buffer \o Part(f, given, p + 2)
               /\ Directive(f, p + 2) /\ ~Directive(f, p + 3)
      BY <1>6, <2>1
    <3>3. fmt' = After(f, p + 2)
      BY <3>1, <3>2 DEF AfterDirective
    <3>4. p + 1 \in 0..(Len(f) - 1) /\ p + 2 \in 0..Len(f) /\ p + 2 \in DOMAIN f
      BY <2>2
    <3>5. p + 2 \in StringsIn(f)
      BY <2>1, <3>2, <3>4 DEF StringsIn
    <3> DEFINE q == p + 1
               c == StringsUpTo(f, p)
    <3>6. /\ StringsUpTo(f, p + 2) = c + 1
          /\ Steps(given, c)
      <4>1. q + 1 = p + 2 /\ q \in 0..(Len(f) - 1) /\ StringsUpTo(f, q) = c
        BY <2>2, <3>2, <3>4
      <4> HIDE DEF q, c
      <4> QED BY <2>2, <3>5, <4>1, ArgumentsMove
    <3>7. Head(args) = given[c + 1] /\ Tail(args) = After(given, c + 1)
      BY <3>2, <3>6 DEF Steps
    <3>8. Part(f, given, p + 2) = given[c + 1]
      BY <2>1, <3>2, <3>6 DEF Part
    <3>9. buffer' = Built(f, given, p + 2) /\ args' = After(given, StringsUpTo(f, p + 2))
      BY <3>1, <3>2, <3>6, <3>7, <3>8
    <3>10. (p + 2) + 1 = p + 3
      BY <2>2
    <3> QED BY <1>1, <2>1, <3>2, <3>3, <3>4, <3>9, <3>10
  <2> QED BY <2>3, <2>4
<1>8. CASE OtherDirective
  <2>1. /\ at = "loop" /\ call' = call /\ fmt # << >> /\ Head(fmt) = Percent
        /\ Len(fmt) > 1 => fmt[2] # S
        /\ fmt' \in AfterDirective /\ buffer' = buffer /\ args' = args
    BY <1>8 DEF OtherDirective, Continues
  <2> SUFFICES ASSUME ~CutShort(f) PROVE Progress'
    BY <1>4, <2>1
  <2>2. Complete(f, given) /\ Len(f) \in Nat /\ f \in Seq(Char)
    BY <1>2, <2>1 DEF Complete
  <2>3. PICK p \in 0..(Len(f) - 2) :
               /\ Len(fmt) > 1 /\ fmt[2] = f[p + 2] /\ Tail(Tail(fmt)) = After(f, p + 2)
               /\ args = After(given, StringsUpTo(f, p))
               /\ buffer \in Seq(Char)
               /\ StringsUpTo(f, p + 1) = StringsUpTo(f, p)
               /\ Built(f, given, p + 2) = buffer \o Part(f, given, p + 2)
               /\ Directive(f, p + 2) /\ ~Directive(f, p + 3)
    BY <1>6, <2>1
  <2>4. fmt' = After(f, p + 2)
    BY <2>1, <2>3 DEF AfterDirective
  <2>5. p + 1 \in 0..(Len(f) - 1) /\ p + 2 \in 0..Len(f) /\ (p + 1) + 1 = p + 2 /\ (p + 2) + 1 = p + 3
    BY <2>2
  <2>6. p + 2 \notin StringsIn(f)
    BY <2>1, <2>3 DEF StringsIn
  <2>7. args' = After(given, StringsUpTo(f, p + 2))
    <3> DEFINE q == p + 1
    <3>1. q \in 0..(Len(f) - 1) /\ q + 1 = p + 2 /\ StringsUpTo(f, q) = StringsUpTo(f, p)
      BY <2>3, <2>5
    <3> HIDE DEF q
    <3>2. After(given, StringsUpTo(f, q + 1)) = After(given, StringsUpTo(f, q))
      BY <2>2, <2>6, <3>1, ArgumentsMove
    <3> QED BY <2>1, <2>3, <3>1, <3>2
  <2>8. buffer' = Built(f, given, p + 2)
    <3>1. Part(f, given, p + 2) = << >>
      BY <2>1, <2>3 DEF Part
    <3>2. buffer \o << >> = buffer
      BY <2>3
    <3> QED BY <2>1, <2>3, <3>1, <3>2
  <2> QED BY <1>1, <2>1, <2>3, <2>4, <2>5, <2>7, <2>8
<1>9. CASE Finish
  BY <1>9 DEF Finish, Progress
<1>10. CASE at = "code" /\ VgaNext /\ UNCHANGED << at, frame >>
  BY <1>10 DEF Progress, frame
<1>11. CASE UNCHANGED vars
  BY <1>11 DEF Progress, Done, vars, frame
<1> QED BY <1>3, <1>5, <1>7, <1>8, <1>9, <1>10, <1>11 DEF Next, printk

-----------------------------------------------------------------------------
(* The theorems.                                                           *)

\* The inductive invariant: of the console, of the kinds of the variables and
\* of how far a call has got.
THEOREM Inductive == Spec => []PrintkInvariant
<1>1. Init => PrintkInvariant
  BY StartOfConsole, StartOfPrintk DEF Init, PrintkInvariant
<1>2. PrintkInvariant /\ [Next]_vars => PrintkInvariant'
  BY ConsoleKept, KindsKept, ProgressKept DEF PrintkInvariant
<1> QED BY <1>1, <1>2, PTL DEF Spec

\* Every variable keeps to its kind, the column to its row, and the buffer with
\* its terminator to its size until a call runs out of it.
THEOREM TypeCorrect == Spec => []TypeOK
<1>1. PrintkInvariant => TypeOK
  <2> SUFFICES ASSUME PrintkInvariant PROVE TypeOK
    OBVIOUS
  <2>1. Cursor <= EndOfMemory /\ Cursor \in Nat
    <3>1. vga_row \in 0..(MaxRows - 1) /\ vga_column \in 0..VGA_WIDTH
      BY DEF PrintkInvariant, ConsoleInvariant
    <3>2. MaxRows - 1 - vga_row \in Nat
      BY <3>1, Sizes
    <3> DEFINE W == VGA_WIDTH
               a == vga_row * W
               d == (MaxRows - 1 - vga_row) * W
    <3>3. a \in Nat /\ d \in Nat /\ W \in Nat
      BY <3>1, <3>2, Sizes
    <3>4. EndOfMemory = a + d + W /\ Cursor = a + vga_column
      BY <3>1, <3>2, Sizes DEF EndOfMemory, Cursor
    <3> HIDE DEF a, d, W
    <3> QED BY <3>1, <3>3, <3>4 DEF W
  <2>2. VgaTypeOK
    <3>1. since \in 0..EndOfMemory
      BY <2>1, Sizes DEF PrintkInvariant, ConsoleInvariant
    <3> QED BY <3>1 DEF VgaTypeOK, PrintkInvariant, ConsoleInvariant, EndOfMemory
  <2> QED BY <2>2 DEF PrintkInvariant, Kinds, TypeOK
<1> QED BY <1>1, Inductive, PTL

\* vga_write_string never writes over text, whoever calls it: everything from
\* the cursor on is blank.
THEOREM NothingAhead == Spec => []BlankAhead
<1>1. PrintkInvariant => BlankAhead
  BY DEF PrintkInvariant, ConsoleInvariant
<1> QED BY <1>1, Inductive, PTL

\* Text memory, read in order, is what was written since the last vga_init: an
\* ASCII character in the colour of its time, any other with the attribute 255.
THEOREM TextShown == Spec => []ShowsText
<1>1. PrintkInvariant => ShowsText
  BY DEF PrintkInvariant, ConsoleInvariant
<1> QED BY <1>1, Inductive, PTL

\* The buffer of a call of printk begins the text its format stands for.
THEOREM TextWritten == Spec => []WritesTheText
<1>1. PrintkInvariant => WritesTheText
  <2> SUFFICES ASSUME PrintkInvariant, at # "lost", ~CutShort(call.format)
               PROVE  IsPrefix(buffer, Text(call.format, call.args))
    BY DEF WritesTheText
  <2>1. CASE at = "loop"
    <3>1. Complete(call.format, call.args)
      BY <2>1, CompleteCall DEF PrintkInvariant
    <3>2. PICK p \in 0..Len(call.format) : Done(call.format, call.args, p)
      BY <2>1 DEF PrintkInvariant, Progress
    <3>3. buffer = Built(call.format, call.args, p)
      BY <3>2, DoneIs
    <3> QED BY <3>1, <3>3, BuiltIs
  <2>2. CASE at = "code"
    <3>1. buffer = << >> /\ call.format = << >> /\ call.args = << >>
      BY <2>2 DEF PrintkInvariant, Kinds, NoCall
    <3>2. Parts(<< >>, << >>) = << >>
      BY DEF Parts
    <3>3. Text(<< >>, << >>) = << >>
      BY <3>2 DEF Text, FlattenSeq
    <3>4. IsPrefix(<< >>, << >>)
      BY DEF IsPrefix
    <3> QED BY <3>1, <3>3, <3>4
  <2> QED BY <2>1, <2>2 DEF PrintkInvariant, Kinds
<1> QED BY <1>1, Inductive, PTL

\* What a call hands to the console is all of that text, or fills the buffer to
\* its last place.
THEOREM NothingLost == Spec => []LosesNothing
<1>1. PrintkInvariant => LosesNothing
  <2> SUFFICES ASSUME PrintkInvariant, Finished, ~CutShort(call.format)
               PROVE  buffer = Text(call.format, call.args) \/ Len(buffer) = Size - 1
    BY DEF LosesNothing
  <2>1. at = "loop" /\ Complete(call.format, call.args)
    BY CompleteCall DEF PrintkInvariant, Finished
  <2>2. PICK p \in 0..Len(call.format) : Done(call.format, call.args, p)
    BY <2>1 DEF PrintkInvariant, Progress
  <2>3. CASE fmt = << >>
    <3>1. p = Len(call.format)
      BY <2>1, <2>2, <2>3, DoneIs, AfterAll DEF Complete
    <3> QED BY <2>1, <2>2, <3>1, DoneIs, BuiltIs
  <2>4. CASE ~Room
    <3>1. Size \in Nat /\ Len(buffer) \in Nat /\ Len(buffer) < Size
      BY <2>1, PrintkAssumption DEF PrintkInvariant, Kinds
    <3> QED BY <2>4, <3>1 DEF Room
  <2> QED BY <2>3, <2>4 DEF Finished
<1> QED BY <1>1, Inductive, PTL
=============================================================================
