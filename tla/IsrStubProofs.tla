--------------------------- MODULE IsrStubProofs ---------------------------
(***************************************************************************)
(* Theorems about IsrStub, for any lines, places and selectors: what the   *)
(* stub leaves on the stack, in the registers and in service, and where    *)
(* its iret goes with an error code and without one.                       *)
(***************************************************************************)
EXTENDS IsrStub, Pic8259Proofs, SequenceTheorems

-----------------------------------------------------------------------------
(* The stack.                                                              *)

Value == Places \cup {Scratch, CodeSegment, DataSegment, StubSegment, "client word", "error code"}
         \cup BOOLEAN

Context == Places \X {CodeSegment} \X BOOLEAN \X Places \X {DataSegment} \X {DataSegment}
           \X {<< "client word" >>}

\* What is popped is what was pushed.
LEMMA PushPop ==
    ASSUME NEW s \in Seq(Value), NEW e \in Value
    PROVE  /\ Append(s, e) \in Seq(Value) /\ Len(Append(s, e)) = Len(s) + 1
           /\ Front(Append(s, e)) = s /\ Last(Append(s, e)) = e
<1>1. /\ Append(s, e) \in Seq(Value) /\ Len(Append(s, e)) = Len(s) + 1
      /\ \A i \in 1..Len(s) : Append(s, e)[i] = s[i]
      /\ Append(s, e)[Len(s) + 1] = e
  BY AppendProperties
<1>2. Len(s) \in Nat
  BY LenProperties
<1> DEFINE t == Append(s, e)
           f == SubSeq(t, 1, Len(s))
<1>3. /\ f \in Seq(Value) /\ Len(f) = Len(s)
      /\ \A i \in 1..Len(s) : f[i] = t[i]
  <2>1. 1 \in Int /\ Len(s) \in Int /\ \A i \in 1..Len(s) : t[i] \in Value
    BY <1>1, <1>2
  <2> HIDE DEF t
  <2>2. /\ f \in Seq(Value) /\ Len(f) = IF 1 <= Len(s) THEN Len(s) - 1 + 1 ELSE 0
        /\ \A i \in 1..(Len(s) - 1 + 1) : f[i] = t[1 + i - 1]
    BY <2>1, SubSeqProperties
  <2> HIDE DEF f
  <2> QED BY <1>2, <2>2
<1>4. f = s
  <2> HIDE DEF f
  <2> QED BY <1>1, <1>3, SeqEqual
<1>5. Front(t) = f /\ Last(t) = e
  <2>1. Len(t) - 1 = Len(s)
    BY <1>1, <1>2
  <2> HIDE DEF f
  <2> QED BY <1>1, <1>2, <2>1 DEF Front, Last, f
<1> QED BY <1>1, <1>4, <1>5

\* A pop leaves the words below.
LEMMA Popped ==
    ASSUME NEW s \in Seq(Value), Len(s) = 4
    PROVE  /\ Front(s) \in Seq(Value) /\ Len(Front(s)) = 3
           /\ Front(s)[1] = s[1] /\ Front(s)[2] = s[2] /\ Front(s)[3] = s[3]
<1> DEFINE f == SubSeq(s, 1, 3)
<1>1. Len(s) - 1 = 3
  OBVIOUS
<1>2. Front(s) = f
  BY <1>1 DEF Front
<1>3. \A i \in 1..3 : s[i] \in Value
  BY ElementOfSeq
<1>4. /\ f \in Seq(Value) /\ Len(f) = IF 1 <= 3 THEN 3 - 1 + 1 ELSE 0
      /\ \A i \in 1..(3 - 1 + 1) : f[i] = s[1 + i - 1]
  BY <1>3, SubSeqProperties
<1> HIDE DEF f
<1> QED BY <1>2, <1>4

\* A word below three others.
LEMMA OneAndThree ==
    ASSUME NEW V, NEW a \in V, NEW b \in V, NEW c \in V, NEW d \in V
    PROVE  LET s == << a >> \o << b, c, d >>
           IN  /\ s \in Seq(V) /\ Len(s) = 4
               /\ s[1] = a /\ s[2] = b /\ s[3] = c /\ s[4] = d
<1> DEFINE u == << a >>
           t == << b, c, d >>
           s == u \o t
<1>1. t \in Seq(V) /\ Len(t) = 3 /\ t[1] = b /\ t[2] = c /\ t[3] = d
  OBVIOUS
<1>2. u \in Seq(V) /\ Len(u) = 1 /\ u[1] = a
  OBVIOUS
<1> HIDE DEF t, u
<1>3. /\ s \in Seq(V) /\ Len(s) = Len(u) + Len(t)
      /\ \A i \in 1..(Len(u) + Len(t)) : s[i] = IF i <= Len(u) THEN u[i] ELSE t[i - Len(u)]
  BY <1>1, <1>2, ConcatProperties
<1>4. Len(s) = 4 /\ s[1] = u[1] /\ s[2] = t[1] /\ s[3] = t[2] /\ s[4] = t[3]
  <2> HIDE DEF s
  <2> QED BY <1>1, <1>2, <1>3
<1> QED BY <1>1, <1>2, <1>3, <1>4 DEF t, u

\* The first word alone.
LEMMA FirstWord ==
    ASSUME NEW V, NEW s \in Seq(V), Len(s) = 4
    PROVE  SubSeq(s, 1, 1) = << s[1] >>
<1> DEFINE c == SubSeq(s, 1, 1)
           e == s[1]
           u == << e >>
<1>1. e \in V
  BY ElementOfSeq
<1> HIDE DEF e
<1>2. u \in Seq(V) /\ Len(u) = 1 /\ u[1] = e
  BY <1>1
<1>3. c \in Seq(V) /\ Len(c) = 1 /\ c[1] = e
  <2>1. \A i \in 1..1 : s[i] \in V
    BY ElementOfSeq
  <2>2. /\ c \in Seq(V) /\ Len(c) = IF 1 <= 1 THEN 1 - 1 + 1 ELSE 0
        /\ \A i \in 1..(1 - 1 + 1) : c[i] = s[1 + i - 1]
    BY <2>1, SubSeqProperties
  <2> HIDE DEF c
  <2> QED BY <2>2 DEF e
<1> HIDE DEF c, u
<1>4. c = u
  BY <1>2, <1>3, SeqEqual
<1> QED BY <1>4 DEF c, u, e

\* What the processor pushes on an entry, word by word.
LEMMA PushedByEntry ==
    ASSUME NEW x \in Context
    PROVE  LET s == x[7] \o << x[3], x[2], x[1] >>
           IN  /\ s \in Seq(Value) /\ Len(s) = 4
               /\ s[1] = "client word" /\ s[2] = x[3] /\ s[3] = x[2] /\ s[4] = x[1]
<1> DEFINE a == "client word"
           b == x[3]
           c == x[2]
           d == x[1]
           s == << a >> \o << b, c, d >>
<1>1. x[7] = << a >>
  BY DEF Context
<1>2. a \in Value /\ b \in Value /\ c \in Value /\ d \in Value
  <2>1. x[3] \in BOOLEAN /\ x[2] = CodeSegment /\ x[1] \in Places
    BY DEF Context
  <2> QED BY <2>1 DEF Value
<1>3. x[7] \o << x[3], x[2], x[1] >> = s
  BY <1>1
<1> HIDE DEF a, b, c, d
<1>4. s \in Seq(Value) /\ Len(s) = 4 /\ s[1] = a /\ s[2] = b /\ s[3] = c /\ s[4] = d
  BY <1>2, OneAndThree
<1> QED BY <1>3, <1>4 DEF a, b, c, d

\* The frames of the invariant are sequences of words: the context's, above
\* its own stack.
LEMMA FrameIs ==
    ASSUME before \in Context, errors \in BOOLEAN
    PROVE  /\ Interrupted \in Seq(Value) /\ Len(Interrupted) = 4
           /\ Interrupted[1] = "client word" /\ Interrupted[2] = before[3]
           /\ Interrupted[3] = CodeSegment /\ Interrupted[4] = before[1]
           /\ Frame \in Seq(Value) /\ Len(Frame) \in {4, 5}
           /\ errors => Front(Frame) = Interrupted
           /\ ~errors => Frame = Interrupted
           /\ before[1] \in Places /\ before[2] = CodeSegment /\ before[3] \in BOOLEAN
           /\ before[4] \in Places /\ before[5] = DataSegment /\ before[6] = DataSegment
           /\ before[7] = << "client word" >>
           /\ before[4] \in Value /\ before[5] \in Value /\ before[6] \in Value
<1>1. /\ before[1] \in Places /\ before[2] = CodeSegment /\ before[3] \in BOOLEAN
      /\ before[4] \in Places /\ before[5] = DataSegment /\ before[6] = DataSegment
      /\ before[7] = << "client word" >>
  BY DEF Context
<1>2. before[4] \in Value /\ before[5] \in Value /\ before[6] \in Value
  BY <1>1 DEF Value
<1>3. /\ "client word" \in Value /\ "error code" \in Value
      /\ before[1] \in Value /\ before[2] \in Value /\ before[3] \in Value
  BY <1>1 DEF Value
<1>4. /\ Interrupted \in Seq(Value) /\ Len(Interrupted) = 4
      /\ Interrupted[1] = "client word" /\ Interrupted[2] = before[3]
      /\ Interrupted[3] = before[2] /\ Interrupted[4] = before[1]
  BY PushedByEntry DEF Interrupted
<1>5. ASSUME NEW e \in Value
      PROVE  /\ Append(Interrupted, e) \in Seq(Value) /\ Len(Append(Interrupted, e)) = 5
             /\ Front(Append(Interrupted, e)) = Interrupted
  <2>1. Interrupted \in Seq(Value) /\ Len(Interrupted) = 4
    BY <1>4
  <2>2. /\ Append(Interrupted, e) \in Seq(Value)
        /\ Len(Append(Interrupted, e)) = Len(Interrupted) + 1
        /\ Front(Append(Interrupted, e)) = Interrupted
    BY <2>1, PushPop
  <2> QED BY <2>1, <2>2
<1>6. /\ Frame \in Seq(Value) /\ Len(Frame) \in {4, 5}
      /\ errors => Front(Frame) = Interrupted
      /\ ~errors => Frame = Interrupted
  <2>1. CASE errors
    <3>1. Frame = Append(Interrupted, "error code")
      BY <2>1 DEF Frame
    <3> QED BY <1>3, <1>5, <2>1, <3>1
  <2>2. CASE ~errors
    BY <1>4, <2>2 DEF Frame
  <2> QED BY <2>1, <2>2
<1> QED BY <1>1, <1>2, <1>4, <1>6

\* A stack without its last three words is the client's.
LEMMA ClientStack ==
    ASSUME before \in Context, errors \in BOOLEAN
    PROVE  SubSeq(Interrupted, 1, 1) = << "client word" >>
<1>1. Interrupted \in Seq(Value) /\ Len(Interrupted) = 4 /\ Interrupted[1] = "client word"
  BY FrameIs
<1>2. SubSeq(Interrupted, 1, 1) = << Interrupted[1] >>
  BY <1>1, FirstWord
<1> QED BY <1>1, <1>2

\* A context is its seven parts.
LEMMA SevenParts ==
    ASSUME NEW A, NEW B, NEW C, NEW D, NEW E, NEW F, NEW G,
           NEW x \in A \X B \X C \X D \X E \X F \X G
    PROVE  x = << x[1], x[2], x[3], x[4], x[5], x[6], x[7] >>
OBVIOUS

\* The instructions of the stub, in their order, none twice.
LEMMA Order ==
    /\ Len(Instructions) = 12 /\ DOMAIN Instructions = 1..12
    /\ \A j, k \in 1..12 : Instructions[j] = Instructions[k] => j = k
    /\ Instructions[1] = "pusha" /\ Instructions[2] = "push ds" /\ Instructions[3] = "push es"
    /\ Instructions[4] = "mov ds" /\ Instructions[5] = "mov es"
    /\ Instructions[6] = "out master" /\ Instructions[7] = "out slave"
    /\ Instructions[8] = "pop es" /\ Instructions[9] = "pop ds" /\ Instructions[10] = "popa"
    /\ Instructions[11] = "add esp" /\ Instructions[12] = "iret"
BY DEF Instructions

\* An instruction is followed by the next.
LEMMA NextInstruction ==
    /\ Step("pusha") => at = "pusha" /\ at' = "push ds"
    /\ Step("push ds") => at = "push ds" /\ at' = "push es"
    /\ Step("push es") => at = "push es" /\ at' = "mov ds"
    /\ Step("mov ds") => at = "mov ds" /\ at' = "mov es"
    /\ Step("mov es") => at = "mov es" /\ at' = "out master"
    /\ Step("out master") => at = "out master" /\ at' = "out slave"
    /\ Step("out slave") => at = "out slave" /\ at' = "pop es"
    /\ Step("pop es") => at = "pop es" /\ at' = "pop ds"
    /\ Step("pop ds") => at = "pop ds" /\ at' = "popa"
    /\ Step("popa") => at = "popa" /\ at' = "add esp"
    /\ Step("add esp") => at = "add esp" /\ at' = "iret"
<1>1. ASSUME NEW k \in 1..11, NEW m \in 1..12, m = k + 1, Step(Instructions[k])
      PROVE  at = Instructions[k] /\ at' = Instructions[m]
  <2>1. (CHOOSE j \in 1..Len(Instructions) : Instructions[j] = Instructions[k]) = k
    <3>1. k \in 1..12
      OBVIOUS
    <3> HIDE DEF Instructions
    <3> QED BY <3>1, Order
  <2>2. 1 + k = m
    BY <1>1
  <2> QED BY <1>1, <2>1, <2>2 DEF Step
<1>2. Step("pusha") => at = "pusha" /\ at' = "push ds"
  <2>1. 1 \in 1..11 /\ 2 \in 1..12 /\ 2 = 1 + 1
    OBVIOUS
  <2> QED BY <1>1, <2>1, Order
<1>3. Step("push ds") => at = "push ds" /\ at' = "push es"
  <2>1. 2 \in 1..11 /\ 3 \in 1..12 /\ 3 = 2 + 1
    OBVIOUS
  <2> QED BY <1>1, <2>1, Order
<1>4. Step("push es") => at = "push es" /\ at' = "mov ds"
  <2>1. 3 \in 1..11 /\ 4 \in 1..12 /\ 4 = 3 + 1
    OBVIOUS
  <2> QED BY <1>1, <2>1, Order
<1>5. Step("mov ds") => at = "mov ds" /\ at' = "mov es"
  <2>1. 4 \in 1..11 /\ 5 \in 1..12 /\ 5 = 4 + 1
    OBVIOUS
  <2> QED BY <1>1, <2>1, Order
<1>6. Step("mov es") => at = "mov es" /\ at' = "out master"
  <2>1. 5 \in 1..11 /\ 6 \in 1..12 /\ 6 = 5 + 1
    OBVIOUS
  <2> QED BY <1>1, <2>1, Order
<1>7. Step("out master") => at = "out master" /\ at' = "out slave"
  <2>1. 6 \in 1..11 /\ 7 \in 1..12 /\ 7 = 6 + 1
    OBVIOUS
  <2> QED BY <1>1, <2>1, Order
<1>8. Step("out slave") => at = "out slave" /\ at' = "pop es"
  <2>1. 7 \in 1..11 /\ 8 \in 1..12 /\ 8 = 7 + 1
    OBVIOUS
  <2> QED BY <1>1, <2>1, Order
<1>9. Step("pop es") => at = "pop es" /\ at' = "pop ds"
  <2>1. 8 \in 1..11 /\ 9 \in 1..12 /\ 9 = 8 + 1
    OBVIOUS
  <2> QED BY <1>1, <2>1, Order
<1>10. Step("pop ds") => at = "pop ds" /\ at' = "popa"
  <2>1. 9 \in 1..11 /\ 10 \in 1..12 /\ 10 = 9 + 1
    OBVIOUS
  <2> QED BY <1>1, <2>1, Order
<1>11. Step("popa") => at = "popa" /\ at' = "add esp"
  <2>1. 10 \in 1..11 /\ 11 \in 1..12 /\ 11 = 10 + 1
    OBVIOUS
  <2> QED BY <1>1, <2>1, Order
<1>12. Step("add esp") => at = "add esp" /\ at' = "iret"
  <2>1. 11 \in 1..11 /\ 12 \in 1..12 /\ 12 = 11 + 1
    OBVIOUS
  <2> QED BY <1>1, <2>1, Order
<1> QED BY <1>2, <1>3, <1>4, <1>5, <1>6, <1>7, <1>8, <1>9, <1>10, <1>11, <1>12

\* The places the processor can be at.
LEMMA PlacesInStub ==
    Range(Instructions) =
       {"pusha", "push ds", "push es", "mov ds", "mov es", "out master", "out slave",
        "pop es", "pop ds", "popa", "add esp", "iret"}
<1>1. Range(Instructions) = {Instructions[k] : k \in 1..12}
  BY Order DEF Range
<1>2. Range(Instructions) =
        {Instructions[1], Instructions[2], Instructions[3], Instructions[4], Instructions[5],
         Instructions[6], Instructions[7], Instructions[8], Instructions[9], Instructions[10],
         Instructions[11], Instructions[12]}
  <2> DEFINE f == Instructions
  <2> HIDE DEF f
  <2> QED BY <1>1 DEF f
<1> HIDE DEF Instructions
<1> QED BY ONLY <1>2, Order

-----------------------------------------------------------------------------
(* The invariant.                                                          *)

\* Before anything is raised or entered the code runs on its own stack.
LEMMA InitStub ==
    ASSUME Init
    PROVE  StubInvariant
<1>1. /\ master \in Chip /\ slave \in Chip
      /\ master.isr = {} /\ slave.isr = {} /\ master.irr = {}
  <2>1. 32 \in Byte /\ 40 \in Byte /\ 0 \in Byte
    BY DEF Byte
  <2>2. Initialised(32, 0) \in Chip /\ Initialised(40, 0) \in Chip
    BY ONLY <2>1, InitialisedChip
  <2>3. /\ Initialised(32, 0).isr = {} /\ Initialised(32, 0).irr = {}
        /\ Initialised(40, 0).isr = {}
    BY ONLY <2>1, InitialisedChip
  <2>4. master = Initialised(32, 0) /\ slave = Initialised(40, 0)
    BY DEF Init
  <2> QED BY <2>2, <2>3, <2>4
<1>2. TypeOK
  <2>1. Len(stack) \in 0..8
    <3>1. stack = << "client word" >>
      BY DEF Init
    <3>2. Len(<< "client word" >>) = 1
      OBVIOUS
    <3>3. Len(stack) = 1
      BY <3>1, <3>2
    <3> QED BY <3>3
  <2> QED BY <1>1, <2>1 DEF Init, TypeOK
<1>3. Entered /\ Stacked /\ Kept /\ Served
  BY DEF Init, Entered, Stacked, Kept, Served
<1>4. NothingLeftInService /\ Cascaded
  BY <1>1 DEF NothingLeftInService, Cascaded
<1> QED BY <1>2, <1>3, <1>4 DEF StubInvariant

\* The interrupted code touches none of the stub's state.
LEMMA RunKeeps ==
    ASSUME StubInvariant, Run
    PROVE  StubInvariant'
<1>1. /\ at = "code" /\ at' = at /\ eip' \in Places /\ regs' \in Places /\ iflag' \in BOOLEAN
      /\ cs' = cs /\ ds' = ds /\ es' = es /\ stack' = stack /\ errors' = errors
      /\ before' = before /\ master' = master /\ slave' = slave
  BY DEF Run, enable_interrupts, disable_interrupts, pics
<1>2. TypeOK' /\ Entered' /\ Stacked' /\ Kept' /\ Served' /\ Cascaded' /\ NothingLeftInService'
  BY <1>1 DEF StubInvariant, TypeOK, Entered, Stacked, Kept, Served, Cascaded, NothingLeftInService
<1> QED BY <1>2 DEF StubInvariant

\* Nor does a request.
LEMMA RaiseKeeps ==
    ASSUME StubInvariant, NEW irq \in IRQs, Raise(irq)
    PROVE  StubInvariant'
<1>1. /\ at' = at /\ eip' = eip /\ cs' = cs /\ iflag' = iflag /\ regs' = regs /\ ds' = ds
      /\ es' = es /\ stack' = stack /\ errors' = errors /\ before' = before
  BY DEF Raise, context
<1>2. /\ master' \in Chip /\ master'.isr = master.isr
      /\ slave' \in Chip /\ slave'.isr = slave.isr
      /\ 2 \in master'.irr => 2 \in master.irr
      /\ slave.irr \subseteq slave'.irr /\ slave'.imr = slave.imr
  <2>1. master \in Chip /\ slave \in Chip
    BY DEF StubInvariant, TypeOK
  <2>2. CASE irq < 8
    <3>1. irq \in Lines /\ irq # 2
      BY <2>2, StubAssumption DEF Lines
    <3> QED BY <2>1, <2>2, <3>1, LatchedChip DEF Raise
  <2>3. CASE ~(irq < 8)
    <3>1. irq - 8 \in Lines
      BY <2>3, StubAssumption DEF Lines
    <3> QED BY <2>1, <2>3, <3>1, LatchedChip DEF Raise
  <2> QED BY <2>2, <2>3
<1>3. TypeOK'
  BY <1>1, <1>2 DEF StubInvariant, TypeOK
<1>4. Entered' /\ Kept' /\ Served' /\ NothingLeftInService'
  BY <1>1, <1>2 DEF StubInvariant, Entered, Kept, Served, NothingLeftInService
<1>5. Stacked'
  <2>1. Interrupted' = Interrupted /\ Frame' = Frame
    BY <1>1 DEF Interrupted, Frame
  <2> HIDE DEF Interrupted, Frame
  <2> QED BY <1>1, <2>1 DEF StubInvariant, Stacked
<1>6. Cascaded'
  <2>1. Requests(slave) \subseteq Requests(slave')
    BY <1>2, RequestsGrow DEF StubInvariant, TypeOK
  <2>2. Requests(slave)' = Requests(slave')
    BY DEF Requests
  <2> QED BY <1>2, <2>1, <2>2 DEF StubInvariant, Cascaded
<1> QED BY <1>3, <1>4, <1>5, <1>6 DEF StubInvariant

\* An entry pushes the frame of what it interrupts.
LEMMA EnterKeeps ==
    ASSUME StubInvariant, NEW e \in BOOLEAN, Enter(e),
           master' \in Chip, slave' \in Chip,
           \A chip \in {master', slave'} : \A i, j \in chip.isr : i = j,
           Cascaded'
    PROVE  StubInvariant'
<1>1. /\ at = "code" /\ at' = "pusha" /\ iflag' = FALSE /\ errors' = e
      /\ eip' = eip /\ cs' = cs /\ regs' = regs /\ ds' = ds /\ es' = es
      /\ before' = << eip, cs, iflag, regs, ds, es, stack >>
      /\ stack' = stack \o << iflag, cs, eip >> \o (IF e THEN << "error code" >> ELSE << >>)
  BY DEF Enter, context
<1>2. /\ stack = << "client word" >> /\ regs \in Places /\ ds = DataSegment /\ es = DataSegment
      /\ eip \in Places /\ cs = CodeSegment /\ iflag \in BOOLEAN
  BY <1>1 DEF StubInvariant, TypeOK, Entered
<1>3. /\ before'[1] = eip /\ before'[2] = cs /\ before'[3] = iflag /\ before'[4] = regs
      /\ before'[5] = ds /\ before'[6] = es /\ before'[7] = stack
      /\ before' \in Context
  BY <1>1, <1>2 DEF Context
<1>4. Interrupted' = stack \o << iflag, cs, eip >>
  BY <1>3 DEF Interrupted
<1>5. Interrupted' \in Seq(Value) /\ Len(Interrupted') = 4
  BY <1>3, PushedByEntry DEF Interrupted
<1>6. stack' = Frame' /\ Len(stack') \in 0..8
  <2> DEFINE s == Interrupted'
  <2>1. CASE e
    <3> DEFINE w == "error code"
    <3>1. stack' = s \o << w >> /\ Frame' = Append(s, w)
      BY <1>1, <1>4, <2>1 DEF Frame
    <3>2. w \in Value
      BY DEF Value
    <3> HIDE DEF s, w
    <3>3. s \in Seq(Value) /\ Len(s) = 4
      BY <1>5 DEF s
    <3>4. Append(s, w) = s \o << w >> /\ Len(Append(s, w)) = 5
      <4>1. Append(s, w) = s \o << w >>
        BY <3>2, <3>3, AppendIsConcat
      <4>2. Len(Append(s, w)) = Len(s) + 1
        BY <3>2, <3>3, PushPop
      <4> QED BY <3>3, <4>1, <4>2
    <3> QED BY <3>1, <3>4
  <2>2. CASE ~e
    <3>1. stack' = s \o << >> /\ Frame' = s
      BY <1>1, <1>4, <2>2 DEF Frame
    <3> HIDE DEF s
    <3>2. s \in Seq(Value) /\ Len(s) = 4
      BY <1>5 DEF s
    <3>3. s \o << >> = s
      BY <3>2, ConcatEmptySeq
    <3> QED BY <3>1, <3>2, <3>3
  <2> QED BY <2>1, <2>2
<1>7. TypeOK'
  <2>1. at' \in Range(Instructions)
    BY <1>1, PlacesInStub
  <2> QED BY <1>1, <1>2, <1>6, <2>1 DEF TypeOK
<1>8. Entered' /\ Kept' /\ Served'
  BY <1>1, <1>2, <1>3 DEF Entered, Kept, Served, Context
<1>9. Stacked'
  BY <1>1, <1>6 DEF Stacked
<1>10. NothingLeftInService'
  BY <1>1 DEF NothingLeftInService
<1> QED BY <1>7, <1>8, <1>9, <1>10 DEF StubInvariant

\* An interrupt puts one line of a chip in service, and the code it
\* interrupts has none in service.
LEMMA InterruptKeeps ==
    ASSUME StubInvariant, Interrupt
    PROVE  StubInvariant'
<1>1. /\ master \in Chip /\ slave \in Chip /\ at = "code" /\ Enter(FALSE)
      /\ master.isr = {} /\ slave.isr = {}
  BY DEF StubInvariant, TypeOK, NothingLeftInService, Interrupt, Enter
<1>2. Cascade \in Chip /\ Cascade.isr = {} /\ Requests(Cascade) # {}
  <2>1. 2 \in Lines
    BY DEF Lines
  <2>2. Cascade \in Chip /\ Cascade.isr = {}
    BY <1>1, <2>1, LatchedChip DEF Cascade
  <2>3. Asserts(Cascade)
    BY DEF Interrupt
  <2> QED BY <2>2, <2>3, RequestsAre
<1>3. /\ master' \in Chip /\ \A i, j \in master'.isr : i = j
  <2>1. master' = Acknowledge(Cascade)
    BY DEF Interrupt
  <2> HIDE DEF Cascade
  <2>2. master'.isr = {} \cup {Min(Requests(Cascade))} /\ master' \in Chip
    BY <1>2, <2>1, AcknowledgedChip
  <2> QED BY <2>2
<1>4. /\ slave' \in Chip /\ \A i, j \in slave'.isr : i = j
  <2>1. CASE Min(Requests(Cascade)) = 2
    <3>1. slave' = Acknowledge(slave)
      BY <2>1 DEF Interrupt
    <3>2. Requests(slave) # {}
      <4>1. 2 \in Cascade.irr
        BY <1>2, <2>1, AcknowledgedChip DEF Requests
      <4>2. 2 \in Lines
        BY DEF Lines
      <4> QED BY <1>1, <4>1, <4>2, RequestsAre DEF StubInvariant, Cascaded, Cascade
    <3>3. slave'.isr = {} \cup {Min(Requests(slave))} /\ slave' \in Chip
      BY <1>1, <3>1, <3>2, AcknowledgedChip
    <3> QED BY <3>3
  <2>2. CASE Min(Requests(Cascade)) # 2
    BY <1>1, <2>2 DEF Interrupt
  <2> QED BY <2>1, <2>2
<1>5. Cascaded'
  <2> SUFFICES ASSUME 2 \in master'.irr PROVE Requests(slave) # {} /\ slave' = slave
    BY DEF Cascaded, Requests
  <2>1. master'.irr = Cascade.irr \ {Min(Requests(Cascade))}
    BY <1>2, AcknowledgedChip DEF Interrupt
  <2>2. 2 \in Cascade.irr /\ Min(Requests(Cascade)) # 2
    BY <2>1
  <2>3. 2 \in Lines
    BY DEF Lines
  <2>4. Requests(slave) # {}
    BY <1>1, <2>2, <2>3, RequestsAre DEF StubInvariant, Cascaded, Cascade
  <2> QED BY <2>2, <2>4 DEF Interrupt
<1> QED BY <1>1, <1>3, <1>4, <1>5, EnterKeeps

\* An exception asks nothing of the controllers.
LEMMA ExceptionKeeps ==
    ASSUME StubInvariant, Exception
    PROVE  StubInvariant'
<1>1. PICK e \in BOOLEAN : Enter(e)
  BY DEF Exception
<1>2. at = "code" /\ master' = master /\ slave' = slave
  BY <1>1 DEF Exception, Enter, pics
<1>3. /\ master' \in Chip /\ slave' \in Chip /\ Cascaded'
      /\ \A chip \in {master', slave'} : \A i, j \in chip.isr : i = j
  BY <1>2 DEF StubInvariant, TypeOK, NothingLeftInService, Cascaded, Requests
<1> QED BY <1>1, <1>3, EnterKeeps

-----------------------------------------------------------------------------
(* The stub's instructions.                                                *)

\* Within the stub the frame stays what it was.
LEMMA InTheStub ==
    ASSUME StubInvariant, at \in Range(Instructions)
    PROVE  /\ before \in Context /\ errors \in BOOLEAN
           /\ Interrupted \in Seq(Value) /\ Len(Interrupted) = 4
           /\ Frame \in Seq(Value) /\ Len(Frame) \in {4, 5}
           /\ before[4] \in Value /\ before[5] \in Value /\ before[6] \in Value
           /\ before[4] \in Places /\ before[5] = DataSegment /\ before[6] = DataSegment
<1>1. before \in Context /\ errors \in BOOLEAN
  BY PlacesInStub DEF StubInvariant, TypeOK, Entered, Context
<1> QED BY <1>1, FrameIs

\* An instruction that leaves pushed words, controllers and interrupts alone
\* keeps what it does not touch.
LEMMA Steps ==
    ASSUME StubInvariant, NEW i \in Range(Instructions), Step(i), i # "iret",
           regs' \in Places \cup {Scratch}, {ds', es'} \subseteq {DataSegment, StubSegment},
           Len(stack') \in 0..8, master' \in Chip, slave' \in Chip,
           at' \in Range(Instructions), Stacked', Kept', Served', Cascaded',
           NothingLeftInService'
    PROVE  StubInvariant'
<1>1. /\ at = i /\ eip' = eip /\ cs' = cs /\ iflag' = iflag
      /\ errors' = errors /\ before' = before
  BY DEF Step
<1>2. at # "code" /\ at # "lost" /\ at' # "code" /\ at' # "lost"
  BY <1>1, PlacesInStub
<1>3. TypeOK'
  BY <1>1 DEF StubInvariant, TypeOK
<1>4. Entered'
  BY <1>1, <1>2 DEF StubInvariant, Entered
<1> QED BY <1>3, <1>4 DEF StubInvariant

\* A push or a pop leaves the controllers alone.
LEMMA NotServed ==
    ASSUME StubInvariant, master' = master, slave' = slave, at' # "out slave",
           at \in {"code", "pop es", "pop ds", "popa", "add esp", "iret", "lost"} \/
           at' \notin {"code", "pop es", "pop ds", "popa", "add esp", "iret", "lost"}
    PROVE  master' \in Chip /\ slave' \in Chip /\ Served' /\ Cascaded' /\ NothingLeftInService'
BY DEF StubInvariant, TypeOK, Served, Cascaded, NothingLeftInService, Requests

\* The words of the frame and above it, in the order of the pushes.
LEMMA Pushes ==
    ASSUME StubInvariant, at \in Range(Instructions)
    PROVE  LET a == Append(Frame, before[4])
               b == Append(a, before[5])
               c == Append(b, before[6])
           IN  /\ a \in Seq(Value) /\ b \in Seq(Value) /\ c \in Seq(Value)
               /\ Len(Frame) \in 0..8 /\ Len(a) \in 0..8 /\ Len(b) \in 0..8 /\ Len(c) \in 0..8
               /\ Front(a) = Frame /\ Last(a) = before[4]
               /\ Front(b) = a /\ Last(b) = before[5]
               /\ Front(c) = b /\ Last(c) = before[6]
<1> DEFINE a == Append(Frame, before[4])
           b == Append(a, before[5])
           c == Append(b, before[6])
<1>1. /\ Frame \in Seq(Value) /\ Len(Frame) \in {4, 5}
      /\ before[4] \in Value /\ before[5] \in Value /\ before[6] \in Value
  BY InTheStub
<1>2. a \in Seq(Value) /\ Len(a) = Len(Frame) + 1 /\ Front(a) = Frame /\ Last(a) = before[4]
  BY <1>1, PushPop
<1> HIDE DEF a
<1>3. b \in Seq(Value) /\ Len(b) = Len(a) + 1 /\ Front(b) = a /\ Last(b) = before[5]
  BY <1>1, <1>2, PushPop
<1> HIDE DEF b
<1>4. c \in Seq(Value) /\ Len(c) = Len(b) + 1 /\ Front(c) = b /\ Last(c) = before[6]
  BY <1>1, <1>3, PushPop
<1> HIDE DEF c
<1>5. Len(Frame) \in 0..8 /\ Len(a) \in 0..8 /\ Len(b) \in 0..8 /\ Len(c) \in 0..8
  <2>1. PICK n \in 4..5 : Len(Frame) = n
    BY <1>1
  <2>2. Len(a) = n + 1 /\ Len(b) = n + 1 + 1 /\ Len(c) = n + 1 + 1 + 1
    BY <1>2, <1>3, <1>4, <2>1
  <2> QED BY <2>1, <2>2
<1> QED BY <1>2, <1>3, <1>4, <1>5 DEF a, b, c

\* The three pushes put the general and the segment registers on the frame.
LEMMA PushKeeps ==
    ASSUME StubInvariant, pusha \/ push_ds \/ push_es
    PROVE  StubInvariant'
<1> DEFINE a == Append(Frame, before[4])
           b == Append(a, before[5])
           c == Append(b, before[6])
<1>1. /\ regs' = regs /\ ds' = ds /\ es' = es /\ master' = master /\ slave' = slave
      /\ errors' = errors /\ before' = before
  BY DEF pusha, push_ds, push_es, pics, Step
<1>2. Frame' = Frame
  BY <1>1 DEF Frame, Interrupted
<1>3. at \in {"pusha", "push ds", "push es"} /\ at \in Range(Instructions)
  BY PlacesInStub DEF pusha, push_ds, push_es, Step
<1>4. /\ regs = before[4] /\ ds = before[5] /\ es = before[6]
      /\ regs \in Places \cup {Scratch} /\ {ds, es} \subseteq {DataSegment, StubSegment}
  BY <1>3 DEF StubInvariant, Kept, TypeOK
<1>5. Len(a) \in 0..8 /\ Len(b) \in 0..8 /\ Len(c) \in 0..8
  BY <1>3, Pushes
<1>6. \/ Step("pusha") /\ at = "pusha" /\ at' = "push ds" /\ stack' = a
      \/ Step("push ds") /\ at = "push ds" /\ at' = "push es" /\ stack' = b
      \/ Step("push es") /\ at = "push es" /\ at' = "mov ds" /\ stack' = c
  <2>1. CASE pusha
    <3>1. at = "pusha" /\ stack = Frame /\ stack' = Append(stack, regs)
      BY <2>1 DEF pusha, Step, Push, StubInvariant, Stacked
    <3> QED BY <1>4, <2>1, <3>1, NextInstruction DEF pusha
  <2>2. CASE push_ds
    <3>1. at = "push ds" /\ stack = a /\ stack' = Append(stack, ds)
      BY <2>2 DEF push_ds, Step, Push, StubInvariant, Stacked
    <3> QED BY <1>4, <2>2, <3>1, NextInstruction DEF push_ds
  <2>3. CASE push_es
    <3>1. at = "push es" /\ stack = b /\ stack' = Append(stack, es)
      BY <2>3 DEF push_es, Step, Push, StubInvariant, Stacked
    <3> QED BY <1>4, <2>3, <3>1, NextInstruction DEF push_es
  <2> QED BY <2>1, <2>2, <2>3
<1>7. Stacked'
  BY <1>1, <1>2, <1>6 DEF Stacked
<1>8. Kept'
  BY <1>1, <1>4, <1>6 DEF Kept
<1>9. master' \in Chip /\ slave' \in Chip /\ Served' /\ Cascaded' /\ NothingLeftInService'
  BY <1>1, <1>6, NotServed
<1>10. at' \in Range(Instructions) /\ Len(stack') \in 0..8 /\ Step(at) /\ at # "iret"
  BY <1>5, <1>6, PlacesInStub
<1> QED BY <1>1, <1>3, <1>4, <1>7, <1>8, <1>9, <1>10, Steps

\* The selector loads change no pushed word.
LEMMA MovKeeps ==
    ASSUME StubInvariant, mov_ds \/ mov_es
    PROVE  StubInvariant'
<1>1. /\ stack' = stack /\ master' = master /\ slave' = slave
      /\ errors' = errors /\ before' = before
  BY DEF mov_ds, mov_es, pics, Step
<1>2. Frame' = Frame
  BY <1>1 DEF Frame, Interrupted
<1>3. \/ Step("mov ds") /\ at = "mov ds" /\ at' = "mov es" /\ ds' = StubSegment
         /\ es' = es /\ regs' = Scratch
      \/ Step("mov es") /\ at = "mov es" /\ at' = "out master" /\ es' = StubSegment
         /\ ds' = ds /\ regs' = regs
  BY NextInstruction DEF mov_ds, mov_es
<1>4. /\ regs' \in Places \cup {Scratch} /\ {ds', es'} \subseteq {DataSegment, StubSegment}
      /\ Len(stack') \in 0..8
  BY <1>1, <1>3 DEF StubInvariant, TypeOK
<1>5. Stacked'
  <2>1. stack = Append(Append(Append(Frame, before[4]), before[5]), before[6])
    BY <1>3 DEF StubInvariant, Stacked
  <2> HIDE DEF Frame
  <2> QED BY <1>1, <1>2, <1>3, <2>1 DEF Stacked
<1>6. Kept'
  BY <1>1, <1>3 DEF StubInvariant, Kept
<1>7. master' \in Chip /\ slave' \in Chip /\ Served' /\ Cascaded' /\ NothingLeftInService'
  BY <1>1, <1>3, NotServed
<1>8. at \in Range(Instructions) /\ at' \in Range(Instructions) /\ Step(at) /\ at # "iret"
  BY <1>3, PlacesInStub
<1> QED BY <1>4, <1>5, <1>6, <1>7, <1>8, Steps

\* Each end of interrupt empties the service of its chip, which holds one
\* line at most.
LEMMA OutKeeps ==
    ASSUME StubInvariant, out_master \/ out_slave
    PROVE  StubInvariant'
<1>1. /\ stack' = stack /\ regs' = regs /\ ds' = ds /\ es' = es
      /\ errors' = errors /\ before' = before
  BY DEF out_master, out_slave, Step
<1>2. Frame' = Frame
  BY <1>1 DEF Frame, Interrupted
<1>3. \/ /\ Step("out master") /\ at = "out master" /\ at' = "out slave"
         /\ master' = WriteCommand(master, 32) /\ slave' = slave
      \/ /\ Step("out slave") /\ at = "out slave" /\ at' = "pop es"
         /\ slave' = WriteCommand(slave, 32) /\ master' = master
  BY NextInstruction DEF out_master, out_slave
<1>4. /\ master \in Chip /\ slave \in Chip
      /\ \A i, j \in master.isr : i = j
      /\ \A i, j \in slave.isr : i = j
      /\ at = "out slave" => master.isr = {}
  BY DEF StubInvariant, TypeOK, NothingLeftInService, Served
<1>5. /\ master' \in Chip /\ slave' \in Chip
      /\ master'.irr = master.irr /\ slave'.irr = slave.irr /\ slave'.imr = slave.imr
      /\ master'.isr = {}
      /\ \A i, j \in slave'.isr : i = j
      /\ at' = "pop es" => slave'.isr = {}
  <2> DEFINE m == WriteCommand(master, 32)
             v == WriteCommand(slave, 32)
  <2>1. m \in Chip /\ m.irr = master.irr /\ m.isr = {}
    BY <1>4, EndedChip
  <2>2. v \in Chip /\ v.irr = slave.irr /\ v.imr = slave.imr /\ v.isr = {}
    BY <1>4, EndedChip
  <2> HIDE DEF m, v
  <2>3. CASE at = "out master"
    <3>1. master' = m /\ slave' = slave /\ at' = "out slave"
      BY <1>3, <2>3 DEF m
    <3> QED BY <1>4, <2>1, <3>1
  <2>4. CASE at = "out slave"
    <3>1. slave' = v /\ master' = master /\ at' = "pop es"
      BY <1>3, <2>4 DEF v
    <3> QED BY <1>4, <2>2, <2>4, <3>1
  <2> QED BY <1>3, <2>3, <2>4
<1>6. /\ regs' \in Places \cup {Scratch} /\ {ds', es'} \subseteq {DataSegment, StubSegment}
      /\ Len(stack') \in 0..8
  BY <1>1 DEF StubInvariant, TypeOK
<1>7. Stacked'
  <2>1. stack = Append(Append(Append(Frame, before[4]), before[5]), before[6])
    BY <1>3 DEF StubInvariant, Stacked
  <2> HIDE DEF Frame
  <2> QED BY <1>1, <1>2, <1>3, <2>1 DEF Stacked
<1>8. Kept'
  BY <1>1, <1>3 DEF StubInvariant, Kept
<1>9. Served' /\ NothingLeftInService'
  BY <1>3, <1>5 DEF Served, NothingLeftInService
<1>10. Cascaded'
  <2>1. Requests(slave) \subseteq Requests(slave')
    BY <1>4, <1>5, RequestsGrow
  <2>2. Requests(slave)' = Requests(slave')
    BY DEF Requests
  <2> QED BY <1>5, <2>1, <2>2 DEF StubInvariant, Cascaded
<1>11. at \in Range(Instructions) /\ at' \in Range(Instructions) /\ Step(at) /\ at # "iret"
  BY <1>3, PlacesInStub
<1> QED BY <1>5, <1>6, <1>7, <1>8, <1>9, <1>10, <1>11, Steps

\* Each pop takes off what its push had put there, back into its register.
LEMMA PopKeeps ==
    ASSUME StubInvariant, pop_es \/ pop_ds \/ popa
    PROVE  StubInvariant'
<1> DEFINE a == Append(Frame, before[4])
           b == Append(a, before[5])
           c == Append(b, before[6])
<1>1. master' = master /\ slave' = slave /\ errors' = errors /\ before' = before
  BY DEF pop_es, pop_ds, popa, pics, Step
<1>2. Frame' = Frame
  BY <1>1 DEF Frame, Interrupted
<1>3. at \in {"pop es", "pop ds", "popa"} /\ at \in Range(Instructions)
  BY PlacesInStub DEF pop_es, pop_ds, popa, Step
<1>4. /\ Front(a) = Frame /\ Last(a) = before[4]
      /\ Front(b) = a /\ Last(b) = before[5]
      /\ Front(c) = b /\ Last(c) = before[6]
      /\ Len(Frame) \in 0..8 /\ Len(a) \in 0..8 /\ Len(b) \in 0..8
      /\ before[4] \in Places /\ before[5] = DataSegment /\ before[6] = DataSegment
  BY <1>3, Pushes, InTheStub
<1>5. /\ at = "pop es" => stack = c
      /\ at = "pop ds" => stack = b
      /\ at = "popa" => stack = a
  BY DEF StubInvariant, Stacked
<1> HIDE DEF a, b, c
<1>6. \/ /\ Step("pop es") /\ at = "pop es" /\ at' = "pop ds" /\ stack' = b
         /\ es' = before[6] /\ ds' = ds /\ regs' = regs
      \/ /\ Step("pop ds") /\ at = "pop ds" /\ at' = "popa" /\ stack' = a
         /\ ds' = before[5] /\ es' = es /\ regs' = regs
      \/ /\ Step("popa") /\ at = "popa" /\ at' = "add esp" /\ stack' = Frame
         /\ regs' = before[4] /\ ds' = ds /\ es' = es
  <2> HIDE DEF Frame
  <2>1. CASE pop_es
    <3>1. Step("pop es") /\ es' = Last(stack) /\ stack' = Front(stack) /\ UNCHANGED << regs, ds >>
      BY <2>1 DEF pop_es, Pop
    <3> QED BY <1>4, <1>5, <3>1, NextInstruction
  <2>2. CASE pop_ds
    <3>1. Step("pop ds") /\ ds' = Last(stack) /\ stack' = Front(stack) /\ UNCHANGED << regs, es >>
      BY <2>2 DEF pop_ds, Pop
    <3> QED BY <1>4, <1>5, <3>1, NextInstruction
  <2>3. CASE popa
    <3>1. Step("popa") /\ regs' = Last(stack) /\ stack' = Front(stack) /\ UNCHANGED << ds, es >>
      BY <2>3 DEF popa, Pop
    <3> QED BY <1>4, <1>5, <3>1, NextInstruction
  <2> QED BY <2>1, <2>2, <2>3
<1>7. /\ regs' \in Places \cup {Scratch} /\ {ds', es'} \subseteq {DataSegment, StubSegment}
      /\ Len(stack') \in 0..8
  BY <1>4, <1>6 DEF StubInvariant, TypeOK
<1>8. Stacked'
  <2> HIDE DEF Frame
  <2> QED BY <1>1, <1>2, <1>6 DEF Stacked, a, b
<1>9. Kept'
  BY <1>1, <1>6 DEF StubInvariant, Kept
<1>10. master' \in Chip /\ slave' \in Chip /\ Served' /\ Cascaded' /\ NothingLeftInService'
  BY <1>1, <1>3, <1>6, NotServed
<1>11. at' \in Range(Instructions) /\ Step(at) /\ at # "iret"
  BY <1>6, PlacesInStub
<1> QED BY <1>3, <1>7, <1>8, <1>9, <1>10, <1>11, Steps

\* The stub skips the top word whether or not it is an error code.
LEMMA AddEspKeeps ==
    ASSUME StubInvariant, add_esp
    PROVE  StubInvariant'
<1>1. /\ Step("add esp") /\ at = "add esp" /\ at' = "iret" /\ stack' = Front(stack)
      /\ master' = master /\ slave' = slave /\ errors' = errors /\ before' = before
      /\ regs' = regs /\ ds' = ds /\ es' = es
  BY NextInstruction DEF add_esp, pics, Step, Pop
<1>2. Interrupted' = Interrupted
  BY <1>1 DEF Interrupted
<1>3. at \in Range(Instructions)
  BY <1>1, PlacesInStub
<1>4. stack = Frame
  BY <1>1 DEF StubInvariant, Stacked
<1>5. /\ Interrupted \in Seq(Value) /\ Len(Interrupted) = 4
      /\ errors => Front(Frame) = Interrupted
      /\ ~errors => Frame = Interrupted
  BY <1>3, InTheStub, FrameIs
<1>6. stack' = IF errors THEN Interrupted ELSE Front(Interrupted)
  <2> HIDE DEF Frame, Interrupted
  <2> QED BY <1>1, <1>4, <1>5
<1>7. Len(stack') \in 0..8
  <2> HIDE DEF Interrupted
  <2>1. Len(Front(Interrupted)) = 3
    BY <1>5, Popped
  <2> QED BY <1>5, <1>6, <2>1
<1>8. Stacked'
  <2> HIDE DEF Frame, Interrupted
  <2> QED BY <1>1, <1>2, <1>6 DEF Stacked
<1>9. Kept'
  BY <1>1 DEF StubInvariant, Kept
<1>10. master' \in Chip /\ slave' \in Chip /\ Served' /\ Cascaded' /\ NothingLeftInService'
  BY <1>1, NotServed
<1>11. /\ regs' \in Places \cup {Scratch} /\ {ds', es'} \subseteq {DataSegment, StubSegment}
       /\ at' \in Range(Instructions)
  BY <1>1, PlacesInStub DEF StubInvariant, TypeOK
<1> QED BY <1>1, <1>3, <1>7, <1>8, <1>9, <1>10, <1>11, Steps

\* What iret pops, by whether the vector had an error code.  With one, the
\* three words of the entry; without, add esp has already taken eip, and the
\* flags word stands where the code selector should.
LEMMA Return ==
    ASSUME StubInvariant, iret
    PROVE  /\ regs' = regs /\ ds' = ds /\ es' = es /\ errors' = errors /\ before' = before
           /\ master' = master /\ slave' = slave
           /\ at = "iret" /\ before \in Context /\ errors \in BOOLEAN
           /\ errors =>
                 /\ stack = Interrupted
                 /\ at' = "code" /\ eip' = before[1] /\ cs' = CodeSegment /\ iflag' = before[3]
                 /\ stack' = << "client word" >>
           /\ ~errors =>
                 at' = "lost" /\ eip' = eip /\ cs' = cs /\ iflag' = iflag /\ stack' = stack
<1>1. /\ regs' = regs /\ ds' = ds /\ es' = es /\ errors' = errors /\ before' = before
      /\ master' = master /\ slave' = slave /\ at = "iret"
  BY DEF iret, pics
<1>2. before \in Context /\ errors \in BOOLEAN
  BY <1>1, PlacesInStub, InTheStub
<1>3. /\ Interrupted \in Seq(Value) /\ Len(Interrupted) = 4
      /\ Interrupted[2] = before[3] /\ Interrupted[3] = CodeSegment
      /\ Interrupted[4] = before[1] /\ before[3] \in BOOLEAN
  BY <1>2, FrameIs
<1>4. stack = IF errors THEN Interrupted ELSE Front(Interrupted)
  BY <1>1 DEF StubInvariant, Stacked
<1>5. CASE errors
  <2>1. stack = Interrupted
    BY <1>4, <1>5
  <2> HIDE DEF Interrupted
  <2>2. Len(stack) = 4 /\ stack[4 - 1] = CodeSegment /\ stack[4] = before[1]
        /\ stack[4 - 2] = before[3]
    BY <1>3, <2>1
  <2>3. /\ eip' = stack[4] /\ cs' = stack[4 - 1] /\ iflag' = stack[4 - 2]
        /\ stack' = SubSeq(stack, 1, 4 - 3) /\ at' = "code"
    BY ONLY <2>2, iret DEF iret
  <2>4. SubSeq(Interrupted, 1, 1) = << "client word" >>
    BY <1>2, ClientStack
  <2>5. SubSeq(stack, 1, 4 - 3) = << "client word" >>
    <3>1. 4 - 3 = 1
      OBVIOUS
    <3> QED BY ONLY <2>1, <2>4, <3>1
  <2> QED BY <1>1, <1>2, <1>5, <2>1, <2>2, <2>3, <2>5
<1>6. CASE ~errors
  <2>1. stack = Front(Interrupted)
    BY <1>4, <1>6
  <2> HIDE DEF Interrupted
  <2>2. Len(stack) = 3 /\ stack[3 - 1] = before[3]
    BY <1>3, <2>1, Popped
  <2>3. stack[3 - 1] # CodeSegment
    BY <1>3, <2>2, StubAssumption
  <2>4. at' = "lost" /\ UNCHANGED << eip, cs, iflag, stack >>
    BY ONLY <2>2, <2>3, iret DEF iret
  <2> QED BY <1>1, <1>2, <1>6, <2>4
<1> QED BY <1>5, <1>6, <1>2

\* Where iret goes, the controllers are served and the code runs as before or
\* no more.
LEMMA IretKeeps ==
    ASSUME StubInvariant, iret
    PROVE  StubInvariant'
<1>1. /\ regs' = regs /\ ds' = ds /\ es' = es /\ errors' = errors /\ before' = before
      /\ master' = master /\ slave' = slave
      /\ at = "iret" /\ before \in Context /\ errors \in BOOLEAN
      /\ errors =>
            /\ at' = "code" /\ eip' = before[1] /\ cs' = CodeSegment /\ iflag' = before[3]
            /\ stack' = << "client word" >>
      /\ ~errors =>
            at' = "lost" /\ eip' = eip /\ cs' = cs /\ iflag' = iflag /\ stack' = stack
  BY Return
<1>2. at' \in {"code", "lost"}
  BY <1>1
<1>3. /\ before[1] \in Places /\ before[3] \in BOOLEAN /\ before[4] \in Places
      /\ before[5] = DataSegment /\ before[6] = DataSegment
      /\ regs = before[4] /\ ds = before[5] /\ es = before[6]
  BY <1>1, FrameIs DEF StubInvariant, Kept
<1>4. TypeOK'
  <2>1. Len(stack') \in 0..8
    <3>1. Len(<< "client word" >>) = 1
      OBVIOUS
    <3>2. CASE errors
      <4>1. Len(stack') = 1
        BY <1>1, <3>1, <3>2
      <4> QED BY <4>1
    <3>3. CASE ~errors
      BY <1>1, <3>3 DEF StubInvariant, TypeOK
    <3> QED BY <1>1, <3>2, <3>3
  <2> QED BY <1>1, <1>2, <1>3, <2>1 DEF StubInvariant, TypeOK
<1>5. Entered'
  BY <1>1, <1>2, <1>3 DEF Entered
<1>6. Stacked' /\ Kept' /\ Served'
  BY <1>2 DEF Stacked, Kept, Served
<1>7. Cascaded' /\ NothingLeftInService'
  BY <1>1, <1>2 DEF StubInvariant, Cascaded, NothingLeftInService, Requests
<1> QED BY <1>4, <1>5, <1>6, <1>7 DEF StubInvariant

-----------------------------------------------------------------------------
(* The theorems.                                                           *)

\* Every step of the machine keeps the invariant.
LEMMA NextKeeps ==
    ASSUME StubInvariant, [Next]_vars
    PROVE  StubInvariant'
<1>1. CASE Run
  BY <1>1, RunKeeps
<1>2. CASE \E irq \in IRQs : Raise(irq)
  BY <1>2, RaiseKeeps
<1>3. CASE Interrupt
  BY <1>3, InterruptKeeps
<1>4. CASE Exception
  BY <1>4, ExceptionKeeps
<1>5. CASE isr_common_stub
  BY <1>5, PushKeeps, MovKeeps, OutKeeps, PopKeeps, AddEspKeeps, IretKeeps DEF isr_common_stub
<1>6. CASE UNCHANGED vars
  <2>1. /\ at' = at /\ eip' = eip /\ cs' = cs /\ iflag' = iflag /\ regs' = regs /\ ds' = ds
        /\ es' = es /\ stack' = stack /\ errors' = errors /\ before' = before
        /\ master' = master /\ slave' = slave
    BY <1>6 DEF vars, context, pics
  <2>2. TypeOK' /\ Entered' /\ Kept' /\ Served' /\ NothingLeftInService'
    <3>1. TypeOK'
      BY <2>1 DEF StubInvariant, TypeOK
    <3>2. Entered'
      BY <2>1 DEF StubInvariant, Entered
    <3>3. Kept'
      BY <2>1 DEF StubInvariant, Kept
    <3>4. Served' /\ NothingLeftInService'
      BY <2>1 DEF StubInvariant, Served, NothingLeftInService
    <3> QED BY <3>1, <3>2, <3>3, <3>4
  <2>3. Stacked'
    BY <2>1 DEF StubInvariant, Stacked, Frame, Interrupted
  <2>4. Cascaded'
    BY <2>1 DEF StubInvariant, Cascaded, Requests
  <2> QED BY <2>2, <2>3, <2>4 DEF StubInvariant
<1> QED BY <1>1, <1>2, <1>3, <1>4, <1>5, <1>6 DEF Next

\* At every instruction of isr_common_stub the stack is the entry's frame and
\* what has been pushed on it, every register that is not pushed yet or is
\* popped already is the interrupted code's, and the controllers' lines are
\* served as far as the stub has come.
THEOREM StubIsInvariant == Spec => []StubInvariant
<1>1. Init => StubInvariant
  BY InitStub
<1>2. StubInvariant /\ [Next]_vars => StubInvariant'
  BY NextKeeps
<1> QED BY <1>1, <1>2, PTL DEF Spec

\* The variables keep their kinds; the stack never holds more than the frame,
\* the error code and the three pushes.
THEOREM TypeCorrect == Spec => []TypeOK
<1>1. StubInvariant => TypeOK
  BY DEF StubInvariant
<1> QED BY <1>1, StubIsInvariant, PTL

\* Both end-of-interrupt writes leave no line in service when the interrupted
\* code runs again, whichever lines the devices raise meanwhile.
THEOREM ServiceEnds == Spec => []NothingLeftInService
<1>1. StubInvariant => NothingLeftInService
  BY DEF StubInvariant
<1> QED BY <1>1, StubIsInvariant, PTL

\* Before the iret of a vector with an error code, stack and registers are
\* what the entry made of the interrupted context.
THEOREM ErrorCodeRestores == Spec => []ErrorCodeReturns
<1>1. StubInvariant => ErrorCodeReturns
  BY DEF StubInvariant, ErrorCodeReturns, Stacked, Kept, Interrupted
<1> QED BY <1>1, StubIsInvariant, PTL

\* The iret of a vector with an error code resumes exactly the context that
\* was interrupted.
THEOREM ReturnsWithErrorCode == Spec => [][iret /\ errors => context' = before]_vars
<1>1. ASSUME StubInvariant, iret, errors
      PROVE  context' = before
  <2>1. /\ regs' = regs /\ ds' = ds /\ es' = es /\ before \in Context /\ at = "iret"
        /\ eip' = before[1] /\ cs' = CodeSegment /\ iflag' = before[3]
        /\ stack' = << "client word" >>
    BY <1>1, Return
  <2>2. regs = before[4] /\ ds = before[5] /\ es = before[6]
    BY <1>1, <2>1 DEF StubInvariant, Kept
  <2>3. /\ before[2] = CodeSegment /\ before[7] = << "client word" >>
        /\ before = << before[1], before[2], before[3], before[4], before[5], before[6],
                       before[7] >>
    BY <2>1, SevenParts DEF Context
  <2>4. context' = << eip', cs', iflag', regs', ds', es', stack' >>
    BY DEF context
  <2> QED BY <2>1, <2>2, <2>3, <2>4
<1> QED BY <1>1, StubIsInvariant, PTL

\* After a vector without an error code, every device interrupt among them,
\* iret never returns: add esp has skipped the word iret needs, and it pops
\* flags for a code selector.
THEOREM LostWithoutErrorCode == Spec => [][iret /\ ~errors => at' = "lost"]_vars
<1>1. StubInvariant /\ iret /\ ~errors => at' = "lost"
  BY Return
<1> QED BY <1>1, StubIsInvariant, PTL
=============================================================================
