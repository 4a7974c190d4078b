---------------------------- MODULE KernelProofs ----------------------------
(***************************************************************************)
(* Theorems about Kernel, for any table size, any lines and any masks the  *)
(* firmware may leave: what kernel_main makes of the scheduler, and how    *)
(* its three remaps, its interrupt enables and the devices interleave.     *)
(***************************************************************************)
EXTENDS Kernel, Pic8259Proofs, SequenceTheorems

SP == INSTANCE SchedulerProofs WITH
        Tasks     <- {task1, task2},
        Functions <- {Main},
        Sites     <- {task1, task2, Main},
        Locals    <- [f \in {Main, task1, task2} |-> 0],
        Values    <- {},
        MaxStack  <- 0

-----------------------------------------------------------------------------
(* The program, instruction by instruction.                                *)

Remap == pic_remap(32, 40)

\* The instructions kernel_main is made of.
Instruction ==
    {In(1), In(2), Command(1, 17), Command(2, 17), Data(1, 32), Data(2, 40), Data(1, 4),
     Data(2, 2), Data(1, 1), Data(2, 1), Restore(1), Restore(2)} \cup
    {[op |-> "sti"], [op |-> "create", task |-> task1], [op |-> "create", task |-> task2],
     [op |-> "schedule"], [op |-> "hlt"]}

\* A sequence written out word by word.
LEMMA Twelve ==
    ASSUME NEW V, NEW a1 \in V, NEW a2 \in V, NEW a3 \in V, NEW a4 \in V, NEW a5 \in V,
           NEW a6 \in V, NEW a7 \in V, NEW a8 \in V, NEW a9 \in V, NEW a10 \in V,
           NEW a11 \in V, NEW a12 \in V
    PROVE  LET s == << a1, a2, a3, a4, a5, a6, a7, a8, a9, a10, a11, a12 >>
           IN  /\ s \in Seq(V) /\ Len(s) = 12
               /\ s[1] = a1 /\ s[2] = a2 /\ s[3] = a3 /\ s[4] = a4 /\ s[5] = a5 /\ s[6] = a6
               /\ s[7] = a7 /\ s[8] = a8 /\ s[9] = a9 /\ s[10] = a10 /\ s[11] = a11
               /\ s[12] = a12
OBVIOUS

\* The accesses of one remap.
LEMMA Accesses ==
    /\ Remap \in Seq(Instruction) /\ Len(Remap) = 12
    /\ Remap[1] = In(1) /\ Remap[2] = In(2)
    /\ Remap[3] = Command(1, 17) /\ Remap[4] = Command(2, 17)
    /\ Remap[5] = Data(1, 32) /\ Remap[6] = Data(2, 40)
    /\ Remap[7] = Data(1, 4) /\ Remap[8] = Data(2, 2)
    /\ Remap[9] = Data(1, 1) /\ Remap[10] = Data(2, 1)
    /\ Remap[11] = Restore(1) /\ Remap[12] = Restore(2)
<1> DEFINE a1 == In(1)
           a2 == In(2)
           a3 == Command(1, 17)
           a4 == Command(2, 17)
           a5 == Data(1, 32)
           a6 == Data(2, 40)
           a7 == Data(1, 4)
           a8 == Data(2, 2)
           a9 == Data(1, 1)
           a10 == Data(2, 1)
           a11 == Restore(1)
           a12 == Restore(2)
<1>1. /\ a1 \in Instruction /\ a2 \in Instruction /\ a3 \in Instruction /\ a4 \in Instruction
      /\ a5 \in Instruction /\ a6 \in Instruction /\ a7 \in Instruction /\ a8 \in Instruction
      /\ a9 \in Instruction /\ a10 \in Instruction /\ a11 \in Instruction
      /\ a12 \in Instruction
  BY DEF Instruction
<1>2. Remap = << a1, a2, a3, a4, a5, a6, a7, a8, a9, a10, a11, a12 >>
  BY DEF Remap, pic_remap
<1> HIDE DEF a1, a2, a3, a4, a5, a6, a7, a8, a9, a10, a11, a12
<1>3. /\ Remap \in Seq(Instruction) /\ Len(Remap) = 12
      /\ Remap[1] = a1 /\ Remap[2] = a2 /\ Remap[3] = a3 /\ Remap[4] = a4 /\ Remap[5] = a5
      /\ Remap[6] = a6 /\ Remap[7] = a7 /\ Remap[8] = a8 /\ Remap[9] = a9
      /\ Remap[10] = a10 /\ Remap[11] = a11 /\ Remap[12] = a12
  BY <1>1, <1>2, Twelve
<1> QED BY <1>3 DEF a1, a2, a3, a4, a5, a6, a7, a8, a9, a10, a11, a12

\* kernel_main remaps, remaps and enables, enables again, creates two tasks,
\* remaps and enables, starts the scheduler, and halts.
LEMMA Program ==
    /\ Len(kernel_main) = 43
    /\ \A k \in 1..12 : /\ kernel_main[k] = Remap[k]
                        /\ kernel_main[12 + k] = Remap[k]
                        /\ kernel_main[28 + k] = Remap[k]
    /\ \A k \in {25, 26, 41} : kernel_main[k] = [op |-> "sti"]
    /\ kernel_main[27] = [op |-> "create", task |-> task1]
    /\ kernel_main[28] = [op |-> "create", task |-> task2]
    /\ kernel_main[42] = [op |-> "schedule"]
    /\ kernel_main[43] = [op |-> "hlt"]
<1> DEFINE e == [op |-> "sti"]
           c == [op |-> "create", task |-> task1]
           d == [op |-> "create", task |-> task2]
           g == [op |-> "schedule"]
           h == [op |-> "hlt"]
           se == << e >>
           st == << c, d >>
           sg == << g >>
           sh == << h >>
           r == Remap
           r2 == r \o se
           p2 == r \o r2
           p3 == p2 \o se
           p4 == p3 \o st
           r3 == r2 \o sg
           p5 == p4 \o r3
           p6 == p5 \o sh
<1>1. kernel_main = p6
  BY DEF kernel_main, scheduler_start, init_interrupts, enable_interrupts, Remap
<1>2. e \in Instruction /\ c \in Instruction /\ d \in Instruction /\ g \in Instruction
      /\ h \in Instruction
  BY DEF Instruction
<1>3. r \in Seq(Instruction) /\ Len(r) = 12
  BY Accesses
<1> HIDE DEF e, c, d, g, h, r
<1>4. /\ se \in Seq(Instruction) /\ Len(se) = 1 /\ se[1] = e
      /\ st \in Seq(Instruction) /\ Len(st) = 2 /\ st[1] = c /\ st[2] = d
      /\ sg \in Seq(Instruction) /\ Len(sg) = 1 /\ sg[1] = g
      /\ sh \in Seq(Instruction) /\ Len(sh) = 1 /\ sh[1] = h
  BY <1>2
<1> HIDE DEF se, st, sg, sh
<1>5. /\ r2 \in Seq(Instruction) /\ Len(r2) = 13
      /\ \A i \in 1..12 : r2[i] = r[i]
      /\ \A i \in 1..1 : r2[12 + i] = se[i]
  <2>1. /\ r2 \in Seq(Instruction) /\ Len(r2) = Len(r) + Len(se)
        /\ \A i \in 1..(Len(r) + Len(se)) :
              r2[i] = IF i <= Len(r) THEN r[i] ELSE se[i - Len(r)]
    BY <1>3, <1>4, ConcatProperties
  <2> HIDE DEF r2
  <2> QED BY <1>3, <1>4, <2>1
<1> HIDE DEF r2
<1>6. /\ p2 \in Seq(Instruction) /\ Len(p2) = 25
      /\ \A i \in 1..12 : p2[i] = r[i]
      /\ \A i \in 1..13 : p2[12 + i] = r2[i]
  <2>1. /\ p2 \in Seq(Instruction) /\ Len(p2) = Len(r) + Len(r2)
        /\ \A i \in 1..(Len(r) + Len(r2)) :
              p2[i] = IF i <= Len(r) THEN r[i] ELSE r2[i - Len(r)]
    BY <1>3, <1>5, ConcatProperties, ZenonT(40)
  <2> HIDE DEF p2
  <2> QED BY <1>3, <1>5, <2>1
<1> HIDE DEF p2
<1>7. /\ p3 \in Seq(Instruction) /\ Len(p3) = 26
      /\ \A i \in 1..25 : p3[i] = p2[i]
      /\ \A i \in 1..1 : p3[25 + i] = se[i]
  <2>1. /\ p3 \in Seq(Instruction) /\ Len(p3) = Len(p2) + Len(se)
        /\ \A i \in 1..(Len(p2) + Len(se)) :
              p3[i] = IF i <= Len(p2) THEN p2[i] ELSE se[i - Len(p2)]
    BY <1>4, <1>6, ConcatProperties, ZenonT(40)
  <2> HIDE DEF p3
  <2> QED BY <1>4, <1>6, <2>1
<1> HIDE DEF p3
<1>8. /\ p4 \in Seq(Instruction) /\ Len(p4) = 28
      /\ \A i \in 1..26 : p4[i] = p3[i]
      /\ \A i \in 1..2 : p4[26 + i] = st[i]
  <2>1. /\ p4 \in Seq(Instruction) /\ Len(p4) = Len(p3) + Len(st)
        /\ \A i \in 1..(Len(p3) + Len(st)) :
              p4[i] = IF i <= Len(p3) THEN p3[i] ELSE st[i - Len(p3)]
    BY <1>4, <1>7, ConcatProperties, ZenonT(40)
  <2> HIDE DEF p4
  <2> QED BY <1>4, <1>7, <2>1
<1> HIDE DEF p4
<1>9. /\ r3 \in Seq(Instruction) /\ Len(r3) = 14
      /\ \A i \in 1..13 : r3[i] = r2[i]
      /\ \A i \in 1..1 : r3[13 + i] = sg[i]
  <2>1. /\ r3 \in Seq(Instruction) /\ Len(r3) = Len(r2) + Len(sg)
        /\ \A i \in 1..(Len(r2) + Len(sg)) :
              r3[i] = IF i <= Len(r2) THEN r2[i] ELSE sg[i - Len(r2)]
    BY <1>4, <1>5, ConcatProperties, ZenonT(40)
  <2> HIDE DEF r3
  <2> QED BY <1>4, <1>5, <2>1
<1> HIDE DEF r3
<1>10. /\ p5 \in Seq(Instruction) /\ Len(p5) = 42
       /\ \A i \in 1..28 : p5[i] = p4[i]
       /\ \A i \in 1..14 : p5[28 + i] = r3[i]
  <2>1. /\ p5 \in Seq(Instruction) /\ Len(p5) = Len(p4) + Len(r3)
        /\ \A i \in 1..(Len(p4) + Len(r3)) :
              p5[i] = IF i <= Len(p4) THEN p4[i] ELSE r3[i - Len(p4)]
    <3>1. p4 \in Seq(Instruction) /\ r3 \in Seq(Instruction)
      BY <1>8, <1>9
    <3> QED BY ONLY <3>1, ConcatProperties
  <2> HIDE DEF p5
  <2> QED BY <1>8, <1>9, <2>1
<1> HIDE DEF p5
<1>11. /\ p6 \in Seq(Instruction) /\ Len(p6) = 43
       /\ \A i \in 1..42 : p6[i] = p5[i]
       /\ \A i \in 1..1 : p6[42 + i] = sh[i]
  <2>1. /\ p6 \in Seq(Instruction) /\ Len(p6) = Len(p5) + Len(sh)
        /\ \A i \in 1..(Len(p5) + Len(sh)) :
              p6[i] = IF i <= Len(p5) THEN p5[i] ELSE sh[i - Len(p5)]
    BY <1>4, <1>10, ConcatProperties, ZenonT(40)
  <2> HIDE DEF p6
  <2> QED BY <1>4, <1>10, <2>1
<1> HIDE DEF p6
<1>12. ASSUME NEW k \in 1..12
       PROVE  p6[k] = r[k] /\ p6[12 + k] = r[k] /\ p6[28 + k] = r[k]
  <2>1. ASSUME NEW i \in 1..25
        PROVE  p6[i] = p2[i]
    <3>1. i \in 1..42 /\ i \in 1..28 /\ i \in 1..26
      OBVIOUS
    <3>2. p6[i] = p5[i]
      BY <1>11, <3>1
    <3>3. p5[i] = p4[i]
      BY <1>10, <3>1
    <3>4. p4[i] = p3[i]
      BY <1>8, <3>1
    <3>5. p3[i] = p2[i]
      BY <1>7
    <3> QED BY <3>2, <3>3, <3>4, <3>5
  <2>2. k \in 1..25 /\ 12 + k \in 1..25 /\ k \in 1..13 /\ k \in 1..14 /\ 28 + k \in 1..42
    OBVIOUS
  <2>3. r2[k] = r[k]
    BY <1>5
  <2>4. p6[k] = r[k]
    BY <1>6, <2>1, <2>2
  <2>5. p6[12 + k] = r[k]
    <3>1. p6[12 + k] = p2[12 + k]
      BY <2>1, <2>2
    <3>2. p2[12 + k] = r2[k]
      BY <1>6, <2>2
    <3> QED BY <2>3, <3>1, <3>2
  <2>6. p6[28 + k] = r[k]
    <3>1. p6[28 + k] = p5[28 + k]
      BY <1>11, <2>2
    <3>2. p5[28 + k] = r3[k]
      BY <1>10, <2>2
    <3>3. r3[k] = r2[k]
      BY <1>9, <2>2
    <3> QED BY <2>3, <3>1, <3>2, <3>3
  <2> QED BY <2>4, <2>5, <2>6
<1>13. p6[25] = e /\ p6[26] = e
  <2>1. p6[25] = p5[25] /\ p6[26] = p5[26]
    BY <1>11
  <2>2. p5[25] = p4[25] /\ p5[26] = p4[26]
    BY <1>10
  <2>3. p4[25] = p3[25] /\ p4[26] = p3[26]
    BY <1>8
  <2>4. p3[25] = p2[25]
    BY <1>7
  <2>5. 12 + 13 = 25 /\ 12 + 1 = 13 /\ 25 + 1 = 26 /\ 13 \in 1..13 /\ 1 \in 1..1
    OBVIOUS
  <2>6. p2[25] = r2[13]
    BY <1>6, <2>5
  <2>7. r2[13] = se[1]
    BY <1>5, <2>5
  <2>8. p3[26] = se[1]
    BY <1>7, <2>5
  <2> QED BY <1>4, <2>1, <2>2, <2>3, <2>4, <2>6, <2>7, <2>8
<1>14. p6[27] = c /\ p6[28] = d
  <2>1. p6[27] = p5[27] /\ p6[28] = p5[28] /\ p5[27] = p4[27] /\ p5[28] = p4[28]
    BY <1>10, <1>11
  <2>2. p4[26 + 1] = st[1] /\ p4[26 + 2] = st[2]
    BY <1>8
  <2> QED BY <1>4, <2>1, <2>2
<1>15. p6[41] = e /\ p6[42] = g /\ p6[43] = h
  <2>1. p6[41] = p5[41] /\ p6[42] = p5[42] /\ p6[42 + 1] = sh[1]
    BY <1>11
  <2>2. p5[28 + 13] = r3[13] /\ p5[28 + 14] = r3[14]
    BY <1>10
  <2>3. r3[13] = r2[13] /\ r2[12 + 1] = se[1] /\ r3[13 + 1] = sg[1]
    BY <1>5, <1>9
  <2> QED BY <1>4, <2>1, <2>2, <2>3
<1> QED BY <1>1, <1>11, <1>12, <1>13, <1>14, <1>15 DEF e, c, d, g, h, r

\* The places in the three remaps.
Remaps == (1..24) \cup (29..40)

\* What there is at each place.
LEMMA Fetch ==
    ASSUME pc \in 1..43
    PROVE  /\ pc \in Remaps => Stage \in 0..11 /\ Now = Remap[Stage + 1]
           /\ pc \notin Remaps => Stage = 0
           /\ pc \in {25, 26, 41} => Now = [op |-> "sti"]
           /\ pc = 27 => Now = [op |-> "create", task |-> task1]
           /\ pc = 28 => Now = [op |-> "create", task |-> task2]
           /\ pc = 42 => Now = [op |-> "schedule"]
           /\ pc = 43 => Now = [op |-> "hlt"]
<1>1. CASE pc \in 1..12
  <2>1. Stage = pc - 1
    BY <1>1 DEF Stage
  <2>2. kernel_main[pc] = Remap[pc]
    BY <1>1, Program
  <2> QED BY <1>1, <2>1, <2>2 DEF Now, Remaps
<1>2. CASE pc \in 13..24
  <2>1. PICK k \in 1..12 : pc = 12 + k
    <3>1. pc - 12 \in 1..12 /\ pc = 12 + (pc - 12)
      BY <1>2
    <3> QED BY <3>1
  <2>2. Stage = k - 1
    BY <1>2, <2>1 DEF Stage
  <2>3. kernel_main[pc] = Remap[k]
    BY <2>1, Program
  <2> QED BY <1>2, <2>1, <2>2, <2>3 DEF Now, Remaps
<1>3. CASE pc \in 29..40
  <2>1. PICK k \in 1..12 : pc = 28 + k
    <3>1. pc - 28 \in 1..12 /\ pc = 28 + (pc - 28)
      BY <1>3
    <3> QED BY <3>1
  <2>2. Stage = k - 1
    BY <1>3, <2>1 DEF Stage
  <2>3. kernel_main[pc] = Remap[k]
    BY <2>1, Program
  <2> QED BY <1>3, <2>1, <2>2, <2>3 DEF Now, Remaps
<1>4. CASE pc \notin Remaps
  <2>1. pc \in {25, 26, 27, 28, 41, 42, 43}
    BY <1>4 DEF Remaps
  <2>2. Stage = 0
    BY <2>1 DEF Stage
  <2> QED BY <1>4, <2>1, <2>2, Program DEF Now
<1> QED BY <1>1, <1>2, <1>3, <1>4 DEF Remaps

\* Where each kind of instruction is, and what it accesses.
LEMMA Kinds ==
    ASSUME pc \in 1..43
    PROVE  /\ Now.op = "inb" => pc \in Remaps /\ Stage \in {0, 1} /\ Now.chip = Stage + 1
           /\ Now.op = "command" =>
                 pc \in Remaps /\ Stage \in {2, 3} /\ Now.chip = Stage - 1 /\ Now.val = 17
           /\ Now.op = "data" =>
                 /\ pc \in Remaps /\ Stage \in 4..9
                 /\ Now.chip = IF Stage \in {4, 6, 8} THEN 1 ELSE 2
                 /\ Now.val \in Byte
                 /\ Stage = 4 => Now.val = 32
                 /\ Stage = 5 => Now.val = 40
           /\ Now.op = "restore" => pc \in Remaps /\ Stage \in {10, 11} /\ Now.chip = Stage - 9
           /\ Now.op = "sti" => pc \in {25, 26, 41}
           /\ Now.op = "create" => pc \in {27, 28} /\ Now.task \in {task1, task2}
           /\ Now.op = "schedule" => pc = 42
           /\ Now.op = "hlt" => pc = 43
<1>1. CASE pc \in Remaps
  <2>1. Stage \in 0..11 /\ Now = Remap[Stage + 1]
    BY <1>1, Fetch
  <2>2. CASE Stage \in {0, 1}
    <3>1. Now = In(Stage + 1)
      BY <2>1, <2>2, Accesses
    <3> QED BY <1>1, <2>2, <3>1 DEF In
  <2>3. CASE Stage \in {2, 3}
    <3>1. Now = Command(Stage - 1, 17)
      BY <2>1, <2>3, Accesses
    <3> QED BY <1>1, <2>3, <3>1 DEF Command
  <2>4. CASE Stage \in 4..9
    <3>1. \E v \in {32, 40, 4, 2, 1} :
             /\ Now = Data(IF Stage \in {4, 6, 8} THEN 1 ELSE 2, v)
             /\ Stage = 4 => v = 32
             /\ Stage = 5 => v = 40
      BY <2>1, <2>4, Accesses
    <3> QED BY <1>1, <2>4, <3>1 DEF Data, Byte
  <2>5. CASE Stage \in {10, 11}
    <3>1. Now = Restore(Stage - 9)
      BY <2>1, <2>5, Accesses
    <3> QED BY <1>1, <2>5, <3>1 DEF Restore
  <2> QED BY <2>1, <2>2, <2>3, <2>4, <2>5
<1>2. CASE pc \notin Remaps
  <2>1. pc \in {25, 26, 27, 28, 41, 42, 43}
    BY <1>2 DEF Remaps
  <2> QED BY <2>1, Fetch
<1> QED BY <1>1, <1>2

\* How far the next instruction is in its remap.
LEMMA NextStage ==
    ASSUME pc \in 1..42, pc' = pc + 1
    PROVE  /\ pc \in Remaps => Stage' = IF Stage = 11 THEN 0 ELSE Stage + 1
           /\ pc \notin Remaps => Stage' = 0
           /\ pc' \in 1..43
           /\ pc' > 12 => pc > 12 \/ Stage = 11
<1>1. pc \in 1..11 \/ pc = 12 \/ pc \in 13..23 \/ pc \in {24, 40} \/ pc \in 29..39
      \/ pc \in {25, 26, 27, 28, 41, 42}
  OBVIOUS
<1>2. CASE pc \in 1..11
  BY <1>2 DEF Stage, Remaps
<1>3. CASE pc = 12
  BY <1>3 DEF Stage, Remaps
<1>4. CASE pc \in 13..23
  BY <1>4 DEF Stage, Remaps
<1>5. CASE pc \in {24, 40}
  BY <1>5 DEF Stage, Remaps
<1>6. CASE pc \in 29..39
  BY <1>6 DEF Stage, Remaps
<1>7. CASE pc \in {25, 26, 27, 28, 41, 42}
  BY <1>7 DEF Stage, Remaps
<1> QED BY <1>1, <1>2, <1>3, <1>4, <1>5, <1>6, <1>7

-----------------------------------------------------------------------------
(* One chip in a remap.                                                    *)

\* What the access number n of a remap does to the chip whose first word is
\* the third: every other access is of the other chip.
Touched(a, b, n, mask, base) ==
    \/ n \in {-1, 0, 1, 3, 5, 7, 9, 11} /\ b = a
    \/ n = 2 /\ b = WriteCommand(a, 17)
    \/ n = 4 /\ b = WriteData(a, base)
    \/ n \in {6, 8} /\ \E v \in Byte : b = WriteData(a, v)
    \/ n = 10 /\ b = WriteData(a, mask)

\* The next access is number m, at place q.
Onward(n, m, p, q) ==
    /\ n \in -1..11 /\ m \in -1..11 /\ p \in Nat /\ q \in Nat
    /\ m = n + 1 \/ (n = 10 /\ m = -1) \/ (n = 11 /\ m = 0)
    /\ q > 12 => p > 12 \/ n >= 5

\* The chip takes each of its words for what the remap means by it: vector
\* base, wiring, mode and, after the last, the mask it had.
LEMMA WordTaken ==
    ASSUME NEW a \in Chip, NEW b, NEW n, NEW m, NEW p, NEW q, NEW mask \in Byte,
           NEW base \in {32, 40}, Onward(n, m, p, q),
           InSequence(a, n, p, mask, base), Touched(a, b, n, mask, base)
    PROVE  /\ b \in Chip /\ InSequence(b, m, q, mask, base)
           /\ \A i \in Lines : i \in b.irr => i \in a.irr
<1> USE DEF Onward
<1>1. CASE n \in {-1, 0, 1, 3, 5, 7, 9, 11}
  <2>1. b = a
    BY <1>1 DEF Touched
  <2> QED BY <1>1, <2>1 DEF InSequence
<1>2. CASE n = 2
  <2>1. b = WriteCommand(a, 17) /\ m = 3
    BY <1>2 DEF Touched
  <2>2. b \in Chip /\ b.irr = {} /\ b.next = "icw2" /\ b.icw4 = TRUE /\ b.base = 0
    BY <2>1, RestartedChip
  <2> QED BY <2>1, <2>2 DEF InSequence
<1>3. CASE n = 4
  <2>1. b = WriteData(a, base) /\ m = 5
    BY <1>3 DEF Touched
  <2>2. base \in Byte /\ base - (base % 8) = base
    BY DEF Byte
  <2>3. a.next = "icw2" /\ a.icw4
    BY <1>3 DEF InSequence
  <2>4. b \in Chip /\ b.irr = a.irr /\ b.next = "icw3" /\ b.icw4 = a.icw4 /\ b.base = base
    <3> DEFINE w == WriteData(a, base)
    <3>1. w \in Chip /\ w.irr = a.irr /\ w.next = "icw3" /\ w.base = base - (base % 8)
      BY <2>2, <2>3, WrittenChip
    <3>2. w.icw4 = a.icw4
      BY <2>2, WrittenChip
    <3> HIDE DEF w
    <3>3. b = w
      BY <2>1 DEF w
    <3> QED BY <2>2, <3>1, <3>2, <3>3
  <2> QED BY <2>1, <2>3, <2>4 DEF InSequence
<1>4. CASE n = 6
  <2>1. PICK v \in Byte : b = WriteData(a, v)
    BY <1>4 DEF Touched
  <2>2. a.next = "icw3" /\ a.icw4 /\ a.base = base /\ m = 7
    BY <1>4 DEF InSequence
  <2>3. /\ b \in Chip /\ b.irr = a.irr /\ b.next = "icw4" /\ b.icw4 = a.icw4
        /\ b.base = a.base
    <3> DEFINE w == WriteData(a, v)
    <3>1. /\ w \in Chip /\ w.irr = a.irr /\ w.base = a.base
          /\ w.next = IF a.icw4 THEN "icw4" ELSE "mask"
      BY <2>2, WrittenChip
    <3>2. w.icw4 = a.icw4
      BY WrittenChip
    <3> HIDE DEF w
    <3>3. b = w
      BY <2>1 DEF w
    <3> QED BY <2>2, <3>1, <3>2, <3>3
  <2> QED BY <2>2, <2>3 DEF InSequence
<1>5. CASE n = 8
  <2>1. PICK v \in Byte : b = WriteData(a, v)
    BY <1>5 DEF Touched
  <2>2. a.next = "icw4" /\ a.base = base /\ m = 9
    BY <1>5 DEF InSequence
  <2>3. b \in Chip /\ b.irr = a.irr /\ b.next = "mask" /\ b.base = a.base
    BY <2>1, <2>2, WrittenChip
  <2> QED BY <2>2, <2>3 DEF InSequence
<1>6. CASE n = 10
  <2>1. b = WriteData(a, mask) /\ m \in {11, -1}
    BY <1>6 DEF Touched
  <2>2. a.next = "mask" /\ a.base = base
    BY <1>6 DEF InSequence
  <2>3. b \in Chip /\ b.irr = a.irr /\ b.next = "mask" /\ b.imr = mask /\ b.base = a.base
    BY <2>1, <2>2, WrittenChip
  <2> QED BY <2>1, <2>2, <2>3 DEF InSequence
<1> QED BY <1>1, <1>2, <1>3, <1>4, <1>5, <1>6

\* A chip that only requests more or is acknowledged stays where it is.
LEMMA SameSequence ==
    ASSUME NEW a \in Chip, NEW b \in Chip, NEW n, NEW p, NEW mask, NEW base,
           b.next = a.next, b.imr = a.imr, b.base = a.base, b.icw4 = a.icw4
    PROVE  InSequence(a, n, p, mask, base) => InSequence(b, n, p, mask, base)
BY DEF InSequence

-----------------------------------------------------------------------------
(* The invariant.                                                          *)

\* The boot loader enters with both chips as the firmware left them.
LEMMA InitKernel ==
    ASSUME Init, S!TypeOK
    PROVE  KernelInvariant
<1>1. pc = 1 /\ cpu = "running" /\ iflag = FALSE /\ vector = NULL /\ locals = << 0, 0 >>
      /\ firmware \in FirmwareMasks
  BY DEF Init
<1>2. firmware[1] \in Byte /\ firmware[2] \in Byte
  BY <1>1, KernelAssumption
<1>3. /\ master \in Chip /\ master.irr = {} /\ master.imr = firmware[1] /\ master.base = 8
      /\ master.next = "mask"
      /\ slave \in Chip /\ slave.irr = {} /\ slave.imr = firmware[2] /\ slave.base = 112
      /\ slave.next = "mask"
  <2>1. 8 \in Byte /\ 112 \in Byte
    BY DEF Byte
  <2> QED BY <1>2, <2>1, InitialisedChip DEF Init
<1>4. Stage = 0
  BY <1>1 DEF Stage
<1>5. TypeOK
  <2>1. locals \in Byte \X Byte
    BY <1>1 DEF Byte
  <2>2. pc \in 1..Len(kernel_main)
    BY <1>1, Program
  <2> QED BY <1>1, <1>3, <2>1, <2>2 DEF TypeOK
<1>6. /\ InSequence(master, Stage, pc, firmware[1], 32)
      /\ InSequence(slave, Stage - 1, pc, firmware[2], 40)
  BY <1>1, <1>3, <1>4 DEF InSequence
<1>7. Saved /\ Requested
  BY <1>1, <1>3, <1>4 DEF Saved, Requested
<1> QED BY <1>1, <1>5, <1>6, <1>7 DEF KernelInvariant

\* An access of a remap takes both chips one access on.
LEMMA AccessKeeps ==
    ASSUME KernelInvariant, S!TypeOK', inb \/ outb_command \/ outb_data \/ outb_restore
    PROVE  KernelInvariant'
<1>1. /\ pc \in 1..43 /\ master \in Chip /\ slave \in Chip /\ firmware \in FirmwareMasks
      /\ firmware[1] \in Byte /\ firmware[2] \in Byte
  BY Program, KernelAssumption DEF KernelInvariant, TypeOK
<1>2. /\ pc' = pc + 1 /\ cpu' = cpu /\ iflag' = iflag /\ firmware' = firmware
      /\ vector' = vector
  BY DEF inb, outb_command, outb_data, outb_restore, Access, Advance
<1>3. pc \in Remaps /\ Stage \in 0..11
  <2>1. Now.op \in {"inb", "command", "data", "restore"}
    BY DEF inb, outb_command, outb_data, outb_restore, At
  <2>2. pc \in Remaps
    BY <1>1, <2>1, Kinds
  <2> QED BY <1>1, <2>2, Fetch
<1>4. /\ Touched(master, master', Stage, firmware[1], 32)
      /\ Touched(slave, slave', Stage - 1, firmware[2], 40)
      /\ locals' = IF Stage = 0 THEN [locals EXCEPT ![1] = master.imr]
                   ELSE IF Stage = 1 THEN [locals EXCEPT ![2] = slave.imr]
                   ELSE locals
  <2>1. CASE inb
    <3>1. /\ Now.op = "inb"
          /\ master' = master /\ slave' = slave
          /\ locals' = [locals EXCEPT ![Now.chip] = IF Now.chip = 1 THEN master.imr ELSE slave.imr]
      BY <2>1 DEF inb, At, Access
    <3>2. Stage \in {0, 1} /\ Now.chip = Stage + 1
      BY <1>1, <3>1, Kinds
    <3>3. /\ locals' = IF Stage = 0 THEN [locals EXCEPT ![1] = master.imr]
                      ELSE [locals EXCEPT ![2] = slave.imr]
      <4>1. CASE Stage = 0
        BY <3>1, <3>2, <4>1
      <4>2. CASE Stage = 1
        BY <3>1, <3>2, <4>2
      <4> QED BY <3>2, <4>1, <4>2
    <3>4. /\ Touched(master, master', Stage, firmware[1], 32)
          /\ Touched(slave, slave', Stage - 1, firmware[2], 40)
      BY <3>1, <3>2 DEF Touched
    <3> QED BY <3>2, <3>3, <3>4
  <2>2. CASE outb_command
    <3>1. /\ Now.op = "command"
          /\ locals' = locals
          /\ master' = IF Now.chip = 1 THEN WriteCommand(master, Now.val) ELSE master
          /\ slave' = IF Now.chip = 2 THEN WriteCommand(slave, Now.val) ELSE slave
      BY <2>2 DEF outb_command, At, Access
    <3>2. Stage \in {2, 3} /\ Now.chip = Stage - 1 /\ Now.val = 17
      BY <1>1, <3>1, Kinds
    <3> QED BY <3>1, <3>2 DEF Touched
  <2>3. CASE outb_data
    <3>1. /\ Now.op = "data"
          /\ locals' = locals
          /\ master' = IF Now.chip = 1 THEN WriteData(master, Now.val) ELSE master
          /\ slave' = IF Now.chip = 2 THEN WriteData(slave, Now.val) ELSE slave
      BY <2>3 DEF outb_data, At, Access
    <3>2. /\ Stage \in 4..9 /\ Now.chip = (IF Stage \in {4, 6, 8} THEN 1 ELSE 2)
          /\ Now.val \in Byte /\ (Stage = 4 => Now.val = 32) /\ (Stage = 5 => Now.val = 40)
      BY <1>1, <3>1, Kinds
    <3> QED BY <3>1, <3>2 DEF Touched
  <2>4. CASE outb_restore
    <3>1. /\ Now.op = "restore"
          /\ locals' = locals
          /\ master' = IF Now.chip = 1 THEN WriteData(master, locals[Now.chip]) ELSE master
          /\ slave' = IF Now.chip = 2 THEN WriteData(slave, locals[Now.chip]) ELSE slave
      BY <2>4 DEF outb_restore, At, Access
    <3>2. Stage \in {10, 11} /\ Now.chip = Stage - 9
      BY <1>1, <3>1, Kinds
    <3>3. locals[1] = firmware[1] /\ locals[2] = firmware[2]
      BY <3>2 DEF KernelInvariant, Saved
    <3> QED BY <3>1, <3>2, <3>3 DEF Touched
  <2> QED BY <2>1, <2>2, <2>3, <2>4
<1>5. /\ pc' \in 1..43 /\ Stage' = (IF Stage = 11 THEN 0 ELSE Stage + 1)
      /\ pc' > 12 => pc > 12 \/ Stage = 11
  <2>1. pc \in 1..42
    BY <1>3 DEF Remaps
  <2> QED BY <1>2, <1>3, <2>1, NextStage
<1>6. /\ InSequence(master, Stage, pc, firmware[1], 32)
      /\ InSequence(slave, Stage - 1, pc, firmware[2], 40)
  BY DEF KernelInvariant
<1>7. /\ master' \in Chip /\ InSequence(master', Stage', pc', firmware[1], 32)
      /\ \A i \in Lines : i \in master'.irr => i \in master.irr
  <2> DEFINE n == Stage
             m == Stage'
             p == pc
             q == pc'
             mask == firmware[1]
             base == 32
  <2>1. Onward(n, m, p, q) /\ mask \in Byte /\ base \in {32, 40}
    BY <1>1, <1>3, <1>5 DEF Onward
  <2>2. InSequence(master, n, p, mask, base)
        /\ Touched(master, master', n, mask, base)
    BY <1>4, <1>6
  <2> HIDE DEF n, m, p, q, mask, base
  <2>3. master' \in Chip /\ InSequence(master', m, q, mask, base)
        /\ \A i \in Lines : i \in master'.irr => i \in master.irr
    BY <1>1, <2>1, <2>2, WordTaken, ZenonT(40)
  <2> QED BY <2>3 DEF m, q, mask, base
<1>8. /\ slave' \in Chip /\ InSequence(slave', Stage' - 1, pc', firmware[2], 40)
      /\ \A i \in Lines : i \in slave'.irr => i \in slave.irr
  <2> DEFINE n == Stage - 1
             m == Stage' - 1
             p == pc
             q == pc'
             mask == firmware[2]
             base == 40
  <2>1. Onward(n, m, p, q) /\ mask \in Byte /\ base \in {32, 40}
    BY <1>1, <1>3, <1>5 DEF Onward
  <2>2. InSequence(slave, n, p, mask, base)
        /\ Touched(slave, slave', n, mask, base)
    BY <1>4, <1>6
  <2> HIDE DEF n, m, p, q, mask, base
  <2>3. slave' \in Chip /\ InSequence(slave', m, q, mask, base)
        /\ \A i \in Lines : i \in slave'.irr => i \in slave.irr
    BY <1>1, <2>1, <2>2, WordTaken, ZenonT(40)
  <2> QED BY <2>3 DEF m, q, mask, base
<1>9. locals \in Byte \X Byte /\ master.imr \in Byte /\ slave.imr \in Byte
  BY <1>1 DEF KernelInvariant, TypeOK, Chip
<1>10. TypeOK'
  <2>1. locals' \in Byte \X Byte
    BY <1>4, <1>9
  <2>2. pc' \in 1..Len(kernel_main)
    BY <1>5, Program
  <2> QED BY <1>2, <1>7, <1>8, <2>1, <2>2 DEF KernelInvariant, TypeOK
<1>11. Saved'
  <2>1. Stage = 0 => master.imr = firmware[1]
    BY <1>6 DEF InSequence
  <2>2. Stage = 1 => slave.imr = firmware[2]
    BY <1>6 DEF InSequence
  <2> QED BY <1>2, <1>3, <1>4, <1>5, <1>9, <2>1, <2>2 DEF KernelInvariant, Saved
<1>12. Requested'
  <2>1. master'.irr \subseteq Lines /\ slave'.irr \subseteq Lines
    BY <1>7, <1>8 DEF Chip
  <2> QED BY <1>2, <1>7, <1>8, <2>1 DEF KernelInvariant, Requested
<1>13. iflag' => pc' > 25
  BY <1>1, <1>2 DEF KernelInvariant
<1> QED BY <1>2, <1>7, <1>8, <1>10, <1>11, <1>12, <1>13 DEF KernelInvariant

\* Enabling interrupts, creating a task, starting the scheduler and halting
\* leave both chips alone and happen between two remaps.
LEMMA PlainKeeps ==
    ASSUME KernelInvariant, S!TypeOK', sti \/ create \/ schedule \/ hlt
    PROVE  KernelInvariant'
<1>1. /\ pc \in 1..43 /\ master' = master /\ slave' = slave /\ firmware' = firmware
      /\ locals' = locals /\ vector' = vector /\ cpu # "shutdown"
  BY Program DEF KernelInvariant, TypeOK, sti, create, schedule, hlt, At, pics
<1>2. /\ pc \in {25, 26, 27, 28, 41, 42, 43}
      /\ (pc' = pc + 1 /\ pc \in 1..42) \/ pc' = pc
      /\ cpu' \in {"running", "halted"} /\ cpu = "running"
      /\ iflag' \in {iflag, TRUE}
  <2>1. CASE sti
    BY <1>1, <2>1, Kinds DEF sti, At, Advance
  <2>2. CASE create
    BY <1>1, <2>2, Kinds DEF create, At, Advance
  <2>3. CASE schedule
    BY <1>1, <2>3, Kinds DEF schedule, At, Advance
  <2>4. CASE hlt
    BY <1>1, <2>4, Kinds DEF hlt, At
  <2> QED BY <2>1, <2>2, <2>3, <2>4
<1>3. Stage = 0 /\ Stage' = 0 /\ pc' \in 25..43
  <2>1. pc \notin Remaps
    BY <1>2 DEF Remaps
  <2>2. Stage = 0
    BY <1>1, <2>1, Fetch
  <2>3. CASE pc' = pc
    <3>1. Stage' = Stage
      BY <2>3 DEF Stage
    <3> QED BY <1>2, <2>2, <2>3, <3>1
  <2>4. CASE pc' = pc + 1 /\ pc \in 1..42
    BY <1>2, <2>1, <2>2, <2>4, NextStage
  <2> QED BY <1>2, <2>3, <2>4
<1>4. TypeOK'
  <2>1. pc' \in 1..Len(kernel_main)
    BY <1>3, Program
  <2> QED BY <1>1, <1>2, <2>1 DEF KernelInvariant, TypeOK
<1>5. /\ InSequence(master', Stage', pc', firmware'[1], 32)
      /\ InSequence(slave', Stage' - 1, pc', firmware'[2], 40)
  BY <1>1, <1>2, <1>3 DEF KernelInvariant, InSequence
<1>6. Saved' /\ Requested'
  BY <1>1, <1>3 DEF KernelInvariant, Saved, Requested
<1>7. iflag' => pc' > 25
  <2>1. CASE pc \in {26, 27, 28, 41, 42, 43}
    BY <1>2, <2>1
  <2>2. CASE pc = 25
    <3>1. Now = [op |-> "sti"]
      BY <2>2, Fetch
    <3>2. pc' = pc + 1
      BY <3>1 DEF sti, create, schedule, hlt, At, Advance
    <3> QED BY <2>2, <3>2
  <2> QED BY <1>2, <2>1, <2>2
<1> QED BY <1>4, <1>5, <1>6, <1>7 DEF KernelInvariant

\* A request is of a device's line and changes nothing a remap has written.
LEMMA RaiseKeeps ==
    ASSUME KernelInvariant, S!TypeOK', NEW irq \in IRQs, Raise(irq)
    PROVE  KernelInvariant'
<1>1. /\ pc' = pc /\ cpu' = cpu /\ iflag' = iflag /\ firmware' = firmware /\ locals' = locals
      /\ vector' = vector /\ master \in Chip /\ slave \in Chip
  BY DEF Raise, KernelInvariant, TypeOK
<1>2. Stage' = Stage
  BY <1>1 DEF Stage
<1>3. /\ master' \in Chip /\ slave' \in Chip
      /\ master'.next = master.next /\ master'.imr = master.imr
      /\ master'.base = master.base /\ master'.icw4 = master.icw4
      /\ slave'.next = slave.next /\ slave'.imr = slave.imr
      /\ slave'.base = slave.base /\ slave'.icw4 = slave.icw4
      /\ \A i \in master'.irr : i \in master.irr \/ i = irq
      /\ \A i \in slave'.irr : i \in slave.irr \/ i + 8 = irq
  <2>1. CASE irq < 8
    <3>1. irq \in Lines
      BY <2>1, KernelAssumption DEF Lines
    <3> QED BY <1>1, <2>1, <3>1, LatchedChip DEF Raise
  <2>2. CASE ~(irq < 8)
    <3>1. irq - 8 \in Lines /\ (irq - 8) + 8 = irq
      BY <2>2, KernelAssumption DEF Lines
    <3> QED BY <1>1, <2>2, <3>1, LatchedChip DEF Raise
  <2> QED BY <2>1, <2>2
<1>4. TypeOK'
  BY <1>1, <1>3 DEF KernelInvariant, TypeOK
<1>5. /\ InSequence(master', Stage', pc', firmware'[1], 32)
      /\ InSequence(slave', Stage' - 1, pc', firmware'[2], 40)
  BY <1>1, <1>2, <1>3 DEF KernelInvariant, InSequence
<1>6. Saved' /\ Requested'
  BY <1>1, <1>2, <1>3 DEF KernelInvariant, Saved, Requested
<1> QED BY <1>1, <1>4, <1>5, <1>6 DEF KernelInvariant

\* The request the processor accepts: a device's line on the master, or one on
\* the slave, through line 2.
LEMMA Accepted ==
    ASSUME KernelInvariant, Interrupt
    PROVE  /\ master' \in Chip /\ slave' \in Chip
           /\ master'.next = master.next /\ master'.imr = master.imr
           /\ master'.base = master.base /\ master'.icw4 = master.icw4
           /\ slave'.next = slave.next /\ slave'.imr = slave.imr
           /\ slave'.base = slave.base /\ slave'.icw4 = slave.icw4
           /\ \/ \E i \in Lines : /\ vector' = master.base + i
                                  /\ i \in IRQs /\ i \notin Bits(master.imr)
              \/ \E i \in Lines : /\ vector' = slave.base + i
                                  /\ i + 8 \in IRQs /\ i \notin Bits(slave.imr)
                                  /\ 2 \notin Bits(master.imr)
<1> DEFINE line == Min(Requests(Cascade))
<1>1. master \in Chip /\ slave \in Chip /\ cpu # "shutdown"
  BY DEF KernelInvariant, TypeOK, Interrupt
<1>2. /\ \A i \in master.irr : i \in IRQs
      /\ \A i \in slave.irr : i + 8 \in IRQs
      /\ 2 \notin master.irr
  BY <1>1, KernelAssumption DEF KernelInvariant, Requested
<1>3. /\ Cascade \in Chip /\ Requests(Cascade) # {}
      /\ Cascade.next = master.next /\ Cascade.imr = master.imr
      /\ Cascade.base = master.base /\ Cascade.icw4 = master.icw4
      /\ \A i \in Cascade.irr : i \in master.irr \/ i = 2
      /\ 2 \in Cascade.irr => Asserts(slave)
  <2>1. 2 \in Lines
    BY DEF Lines
  <2>2. CASE Asserts(slave)
    <3>1. Cascade = Latch(master, 2)
      BY <2>2 DEF Cascade
    <3>2. Cascade \in Chip
      BY <1>1, <2>1, <3>1, LatchedChip
    <3> QED BY <1>1, <2>1, <2>2, <3>1, <3>2, LatchedChip, RequestsAre, SMTT(30) DEF Interrupt
  <2>3. CASE ~Asserts(slave)
    <3>1. Cascade = master
      BY <2>3 DEF Cascade
    <3> QED BY <1>1, <1>2, <2>3, <3>1, RequestsAre DEF Interrupt
  <2> QED BY <2>2, <2>3
<1>4. master' = Acknowledge(Cascade)
  BY DEF Interrupt
<1> HIDE DEF Cascade
<1>5. /\ line \in Lines /\ line \in Requests(Cascade)
      /\ master' \in Chip
      /\ master'.next = master.next /\ master'.imr = master.imr
      /\ master'.base = master.base /\ master'.icw4 = master.icw4
  BY <1>3, <1>4, AcknowledgedChip
<1>6. line \in Cascade.irr /\ line \notin Bits(master.imr)
  BY <1>3, <1>5 DEF Requests
<1>7. CASE line # 2
  <2>1. slave' = slave /\ vector' = master.base + line
    BY <1>7 DEF Interrupt
  <2>2. line \in IRQs
    BY <1>2, <1>3, <1>6, <1>7
  <2> QED BY <1>1, <1>5, <1>6, <2>1, <2>2
<1>8. CASE line = 2
  <2> DEFINE i == Min(Requests(slave))
  <2>1. slave' = Acknowledge(slave) /\ vector' = slave.base + i
    BY <1>8 DEF Interrupt
  <2>2. Requests(slave) # {}
    BY <1>1, <1>3, <1>6, <1>8, RequestsAre
  <2>3. /\ i \in Lines /\ i \in Requests(slave) /\ slave' \in Chip
        /\ slave'.next = slave.next /\ slave'.imr = slave.imr
        /\ slave'.base = slave.base /\ slave'.icw4 = slave.icw4
    BY <1>1, <2>1, <2>2, AcknowledgedChip
  <2>4. i \in slave.irr /\ i \notin Bits(slave.imr)
    BY <2>3 DEF Requests
  <2>5. 2 \notin Bits(master.imr) /\ i + 8 \in IRQs
    BY <1>2, <1>6, <1>8, <2>4
  <2> QED BY <1>5, <2>1, <2>3, <2>4, <2>5
<1> QED BY <1>7, <1>8

\* Accepting an interrupt shuts the machine down and changes nothing a remap
\* has written.
LEMMA InterruptKeeps ==
    ASSUME KernelInvariant, S!TypeOK', Interrupt
    PROVE  KernelInvariant'
<1>1. /\ pc' = pc /\ cpu' = "shutdown" /\ iflag' = iflag /\ firmware' = firmware
      /\ locals' = locals
  BY DEF Interrupt
<1>2. Stage' = Stage
  BY <1>1 DEF Stage
<1>3. /\ master' \in Chip /\ slave' \in Chip
      /\ master'.next = master.next /\ master'.imr = master.imr
      /\ master'.base = master.base /\ master'.icw4 = master.icw4
      /\ slave'.next = slave.next /\ slave'.imr = slave.imr
      /\ slave'.base = slave.base /\ slave'.icw4 = slave.icw4
      /\ \E i \in Lines : vector' = master.base + i \/ vector' = slave.base + i
  BY Accepted
<1>4. vector' \in Byte
  <2>1. /\ master.base \in Byte /\ slave.base \in Byte
        /\ master.base <= 112 /\ slave.base <= 112
    BY DEF KernelInvariant, TypeOK, InSequence, Chip
  <2>2. PICK i \in Lines : vector' = master.base + i \/ vector' = slave.base + i
    BY <1>3
  <2> QED BY <2>1, <2>2 DEF Byte, Lines
<1>5. TypeOK'
  BY <1>1, <1>3, <1>4 DEF KernelInvariant, TypeOK
<1>6. /\ InSequence(master', Stage', pc', firmware'[1], 32)
      /\ InSequence(slave', Stage' - 1, pc', firmware'[2], 40)
  BY <1>1, <1>2, <1>3 DEF KernelInvariant, InSequence
<1>7. Saved' /\ Requested'
  BY <1>1, <1>2, <1>3 DEF KernelInvariant, Saved, Requested
<1> QED BY <1>1, <1>5, <1>6, <1>7 DEF KernelInvariant

-----------------------------------------------------------------------------
(* The scheduler in the kernel.                                            *)

\* kernel_main, its calls and its two tasks are a client Scheduler allows.
LEMMA SchedulerConstants == SP!ConstantsAssumption
<1>1. /\ MAX_TASKS \in Nat \ {0} /\ KernelLocals \in Nat /\ Boot \notin {task1, task2}
      /\ NULL \notin Int
  BY KernelAssumption
<1>2. [f \in {Main, task1, task2} |-> 0] \in [{Main} \cup {task1, task2} -> Nat]
  <2>1. {Main} \cup {task1, task2} = {Main, task1, task2}
    OBVIOUS
  <2> QED BY <2>1
<1>3. NULL \notin SP!Address
  <2>1. SP!Address = {task1, task2, Boot} \X (0..3)
    <3>1. SP!Stacks = {task1, task2, Boot}
      BY DEF SP!Stacks
    <3>2. SP!Height = 3
      BY DEF SP!Height
    <3> QED BY <3>1, <3>2 DEF SP!Address
  <2> QED BY <2>1, KernelAssumption
<1>4. NULL \notin SP!Code
  <2>1. {Main} \cup {task1, task2} = {Main, task1, task2}
    OBVIOUS
  <2>2. {task1, task2, Main} \cup {Entry} = {Main, task1, task2, Entry}
    OBVIOUS
  <2>3. SP!Code = {Main, task1, task2} \X {Main, task1, task2, Entry}
    BY <2>1, <2>2 DEF SP!Code
  <2> QED BY <2>3, KernelAssumption
<1> QED BY <1>1, <1>2, <1>3, <1>4 DEF SP!ConstantsAssumption

\* The scheduler the proofs are about is the one the kernel calls.
LEMMA SameScheduler ==
    SP!Init = S!Init /\ SP!Next = S!Next /\ SP!vars = S!vars /\ SP!IInv = S!IInv
<1>1. SP!Init = S!Init
  BY DEF SP!Init, S!Init, SP!Slots, S!Slots, SP!Stacks, S!Stacks, SP!Height, S!Height
<1>2. SP!vars = S!vars
  BY DEF SP!vars, S!vars, SP!table, S!table, SP!machine, S!machine
<1>3. SP!Next = S!Next
  BY DEF SP!Next, S!Next, SP!Call, S!Call, SP!Return, S!Return, SP!Running, S!Running,
         SP!Code, S!Code, SP!Pushed, S!Pushed, SP!StillKept, S!StillKept,
         SP!Frame, S!Frame, SP!ReturnsTo, S!ReturnsTo,
         SP!PopAndReturn, S!PopAndReturn, SP!table, S!table, SP!machine, S!machine,
         SP!scheduler_create_task, S!scheduler_create_task,
         SP!create_task_refused, S!create_task_refused, SP!TableFull, S!TableFull,
         SP!NewSlot, S!NewSlot, SP!EntryFrame, S!EntryFrame, SP!EntryWords, S!EntryWords,
         SP!Slots, S!Slots, SP!Stacks, S!Stacks, SP!Height, S!Height,
         SP!scheduler_start, S!scheduler_start, SP!scheduler_yield, S!scheduler_yield,
         SP!schedule, S!schedule, SP!NextSlot, S!NextSlot
<1>4. SP!IInv = S!IInv
  BY DEF SP!IInv, S!IInv, SP!TypeOK, S!TypeOK, SP!SlotTable, S!SlotTable,
         SP!SlotStacks, S!SlotStacks, SP!EntryWordsIntact, S!EntryWordsIntact,
         SP!NothingRunsOnTaskStack, S!NothingRunsOnTaskStack, SP!KeptFrames, S!KeptFrames,
         SP!Context, S!Context, SP!EntryFrame, S!EntryFrame,
         SP!EntryWords, S!EntryWords, SP!Slots, S!Slots, SP!Stacks, S!Stacks,
         SP!Height, S!Height, SP!Address, S!Address, SP!Word, S!Word, SP!Code, S!Code
<1> QED BY <1>1, <1>2, <1>3, <1>4

\* A step of the kernel is one operation of the scheduler, or none.
LEMMA SchedulerStep ==
    ASSUME KernelInvariant, [Next]_vars
    PROVE  [S!Next]_(S!vars)
<1>1. CASE create
  <2>1. Now.op = "create" /\ S!scheduler_create_task(Now.task, Now.task)
    BY <1>1 DEF create, At
  <2>2. pc \in 1..43
    BY Program DEF KernelInvariant, TypeOK
  <2>3. Now.task \in {task1, task2}
    BY <2>1, <2>2, Kinds
  <2>4. Now.task \in {task1, task2, Main}
    BY <2>3
  <2> QED BY <2>1, <2>3, <2>4 DEF S!Next
<1>2. CASE schedule
  BY <1>2 DEF schedule, S!Next
<1>3. CASE UNCHANGED svars
  BY <1>3 DEF svars, S!vars, S!table, S!machine
<1>4. [Next]_vars => create \/ schedule \/ UNCHANGED svars
  BY DEF Next, vars, Execute, inb, outb_command, outb_data, outb_restore, sti, hlt, Access,
         Raise, Interrupt
<1> QED BY <1>1, <1>2, <1>3, <1>4

\* The scheduler's invariant holds in the kernel, whose steps keep it.
LEMMA SchedulerKeeps ==
    ASSUME S!IInv, [S!Next]_(S!vars)
    PROVE  S!IInv'
<1>1. SP!IInv /\ [SP!Next]_(SP!vars) => SP!IInv'
  BY SchedulerConstants, SP!NextKeeps
<1>2. (SP!IInv = S!IInv)'
  BY SameScheduler, PTL
<1>3. SP!Next \/ UNCHANGED SP!vars
  <2>1. S!Next \/ UNCHANGED S!vars
    OBVIOUS
  <2>2. CASE S!Next
    BY <2>2, SameScheduler
  <2>3. CASE UNCHANGED S!vars
    <3>1. (SP!vars = S!vars)'
      BY SameScheduler, PTL
    <3> QED BY <2>3, <3>1, SameScheduler
  <2> QED BY <2>1, <2>2, <2>3
<1>4. SP!IInv
  BY SameScheduler
<1> QED BY <1>1, <1>2, <1>3, <1>4

-----------------------------------------------------------------------------
(* The theorems.                                                           *)

\* Every step of the kernel keeps the two invariants.
LEMMA NextKeeps ==
    ASSUME S!IInv, KernelInvariant, [Next]_vars
    PROVE  S!IInv' /\ KernelInvariant'
<1>1. S!IInv'
  BY SchedulerStep, SchedulerKeeps
<1>2. S!TypeOK'
  BY <1>1 DEF S!IInv
<1>3. ASSUME Execute PROVE KernelInvariant'
  <2>1. CASE inb \/ outb_command \/ outb_data \/ outb_restore
    BY <1>2, <2>1, AccessKeeps
  <2>2. CASE sti \/ create \/ schedule \/ hlt
    BY <1>2, <2>2, PlainKeeps
  <2> QED BY <1>3, <2>1, <2>2 DEF Execute
<1>4. ASSUME NEW irq \in IRQs, Raise(irq) PROVE KernelInvariant'
  BY <1>2, <1>4, RaiseKeeps
<1>5. ASSUME Interrupt PROVE KernelInvariant'
  BY <1>2, <1>5, InterruptKeeps
<1>6. ASSUME UNCHANGED vars PROVE KernelInvariant'
  <2>1. /\ pc' = pc /\ cpu' = cpu /\ iflag' = iflag /\ master' = master /\ slave' = slave
        /\ firmware' = firmware /\ locals' = locals /\ vector' = vector
    BY <1>6 DEF vars, kvars, pics
  <2>2. Stage' = Stage
    BY <2>1 DEF Stage
  <2> QED BY <1>2, <2>1, <2>2 DEF KernelInvariant, TypeOK, InSequence, Saved, Requested
<1> QED BY <1>1, <1>3, <1>4, <1>5, <1>6 DEF Next

\* At every access of the three remaps both chips are where the sequence has
\* brought them, the masks kernel_main has read are the firmware's, every
\* request is of a device's line, and interrupts are on only after the second
\* remap; and the scheduler the kernel drives keeps its own invariant.
THEOREM KernelIsInvariant == Spec => [](S!IInv /\ KernelInvariant)
<1>1. Init => S!IInv /\ KernelInvariant
  <2> SUFFICES ASSUME Init PROVE S!IInv /\ KernelInvariant
    OBVIOUS
  <2>1. S!IInv
    <3>1. SP!Init => SP!IInv
      BY SchedulerConstants, SP!InitHolds
    <3> QED BY <3>1, SameScheduler DEF Init
  <2>2. S!TypeOK
    BY <2>1 DEF S!IInv
  <2> QED BY <2>1, <2>2, InitKernel
<1>2. (S!IInv /\ KernelInvariant) /\ [Next]_vars => (S!IInv /\ KernelInvariant)'
  BY NextKeeps
<1> QED BY <1>1, <1>2, PTL DEF Spec

\* The variables keep their kinds, the scheduler's and kernel_main's: pc never
\* leaves kernel_main and every vector is a byte.
THEOREM TypeCorrect == Spec => []TypeOK
<1>1. KernelInvariant => TypeOK
  BY DEF KernelInvariant
<1> QED BY <1>1, KernelIsInvariant, PTL

\* kernel_main uses the scheduler as a client may: each of its steps is an
\* operation of scheduler.c or leaves the scheduler alone.
THEOREM KernelIsAClient == Spec => S!Spec
<1>1. Init => S!Init
  BY DEF Init
<1>2. KernelInvariant /\ [Next]_vars => [S!Next]_(S!vars)
  BY SchedulerStep
<1> QED BY <1>1, <1>2, KernelIsInvariant, PTL DEF Spec, S!Spec

\* Outside a remap at most two accesses, the mask reads, are done.
LEMMA BetweenRemaps ==
    ASSUME KernelInvariant, ~Remapping
    PROVE  Stage \in 0..2
<1>1. pc \in 1..43
  BY Program DEF KernelInvariant, TypeOK
<1>2. kernel_main[1] = In(1) /\ kernel_main[13] = In(1) /\ kernel_main[29] = In(1)
  <2>1. 1 \in 1..12 /\ 13 = 12 + 1 /\ 29 = 28 + 1
    OBVIOUS
  <2> QED BY <2>1, Program, Accesses
<1>3. /\ pc \notin (1 + 3)..(1 + 11)
      /\ pc \notin (13 + 3)..(13 + 11)
      /\ pc \notin (29 + 3)..(29 + 11)
  <2>1. 1 \in 1..Len(kernel_main) /\ 13 \in 1..Len(kernel_main) /\ 29 \in 1..Len(kernel_main)
    BY Program
  <2> QED BY <1>2, <2>1 DEF Remapping
<1>4. pc \in 1..3 \/ pc \in 13..15 \/ pc \in 25..31 \/ pc \in 41..43
  BY <1>1, <1>3
<1> QED BY <1>4 DEF Stage

\* The masks the firmware left are in force whenever no remap is going on.
THEOREM MasksSurvive == Spec => []MasksSurviveRemaps
<1>1. KernelInvariant => MasksSurviveRemaps
  <2> SUFFICES ASSUME KernelInvariant, ~Remapping
               PROVE  /\ master.next = "mask" /\ slave.next = "mask"
                      /\ master.imr = firmware[1] /\ slave.imr = firmware[2]
    BY DEF MasksSurviveRemaps
  <2>1. Stage \in 0..2
    BY BetweenRemaps
  <2> QED BY <2>1 DEF KernelInvariant, InSequence
<1> QED BY <1>1, KernelIsInvariant, PTL

\* Between two remaps interrupts are on only with the remapped vectors.
THEOREM EnabledOnlyRemapped == Spec => []EnabledAfterRemap
<1>1. KernelInvariant => EnabledAfterRemap
  <2> SUFFICES ASSUME KernelInvariant, iflag, ~Remapping
               PROVE  master.base = 32 /\ slave.base = 40
    BY DEF EnabledAfterRemap
  <2>1. Stage \in 0..2 /\ pc \in 1..43 /\ pc > 25
    BY BetweenRemaps, Program DEF KernelInvariant, TypeOK
  <2> QED BY <2>1 DEF KernelInvariant, InSequence
<1> QED BY <1>1, KernelIsInvariant, PTL

\* Whatever the devices raise and whenever, an interrupt accepted while no
\* remap is going on is of a line the firmware left open, on the vector the
\* remap gives that line.
THEOREM AcceptsAsProgrammed == Spec => AcceptedAsProgrammed
<1>1. ASSUME KernelInvariant, Interrupt, ~Remapping
      PROVE  \E irq \in IRQs :
                /\ vector' = 32 + irq
                /\ irq < 8 => irq \notin Bits(firmware[1])
                /\ irq >= 8 => irq - 8 \notin Bits(firmware[2]) /\ 2 \notin Bits(firmware[1])
  <2>1. Stage \in 0..2 /\ pc \in 1..43 /\ pc > 25
    BY <1>1, BetweenRemaps, Program DEF KernelInvariant, TypeOK, Interrupt
  <2>2. /\ master.base = 32 /\ slave.base = 40
        /\ master.imr = firmware[1] /\ slave.imr = firmware[2]
    BY <1>1, <2>1 DEF KernelInvariant, InSequence
  <2>3. CASE \E i \in Lines : /\ vector' = master.base + i
                              /\ i \in IRQs /\ i \notin Bits(master.imr)
    BY <2>2, <2>3 DEF Lines
  <2>4. CASE \E i \in Lines : /\ vector' = slave.base + i
                              /\ i + 8 \in IRQs /\ i \notin Bits(slave.imr)
                              /\ 2 \notin Bits(master.imr)
    <3>1. PICK i \in Lines : /\ vector' = 40 + i
                             /\ i + 8 \in IRQs /\ i \notin Bits(firmware[2])
                             /\ 2 \notin Bits(firmware[1])
      BY <2>2, <2>4
    <3>2. 40 + i = 32 + (i + 8) /\ i + 8 >= 8 /\ (i + 8) - 8 = i /\ ~(i + 8 < 8)
      BY DEF Lines
    <3> QED BY <3>1, <3>2
  <2> QED BY <1>1, <2>3, <2>4, Accepted
<1>2. (KernelInvariant /\ Interrupt /\ ~Remapping) =>
         \E irq \in IRQs :
            /\ vector' = 32 + irq
            /\ irq < 8 => irq \notin Bits(firmware[1])
            /\ irq >= 8 => irq - 8 \notin Bits(firmware[2]) /\ 2 \notin Bits(firmware[1])
  BY <1>1
<1> QED BY <1>2, KernelIsInvariant, PTL DEF AcceptedAsProgrammed
=============================================================================
