--------------------------- MODULE Pic8259Proofs ---------------------------
(***************************************************************************)
(* Facts about one interrupt controller that the proofs of the stub and of *)
(* kernel_main rest on: what each command, mask, request and               *)
(* acknowledgement leaves in the chip.                                     *)
(***************************************************************************)
EXTENDS Pic8259, TLAPS

\* Of the lines in a set that is not empty, one comes first.
LEMMA FirstLine ==
    ASSUME NEW S \in SUBSET Lines, S # {}
    PROVE  Min(S) \in S /\ \A j \in S : Min(S) <= j
<1>1. \E x \in S : \A y \in S : x <= y
  <2>1. S \subseteq {0, 1, 2, 3, 4, 5, 6, 7}
    BY DEF Lines
  <2>2. CASE 0 \in S
    BY <2>1, <2>2
  <2>3. CASE 0 \notin S /\ 1 \in S
    BY <2>1, <2>3
  <2>4. CASE S \cap {0, 1} = {} /\ 2 \in S
    BY <2>1, <2>4
  <2>5. CASE S \cap {0, 1, 2} = {} /\ 3 \in S
    BY <2>1, <2>5
  <2>6. CASE S \cap {0, 1, 2, 3} = {} /\ 4 \in S
    BY <2>1, <2>6
  <2>7. CASE S \cap {0, 1, 2, 3, 4} = {} /\ 5 \in S
    BY <2>1, <2>7
  <2>8. CASE S \cap {0, 1, 2, 3, 4, 5} = {} /\ 6 \in S
    BY <2>1, <2>8
  <2>9. CASE S \cap {0, 1, 2, 3, 4, 5, 6} = {}
    <3>1. S = {7}
      BY <2>1, <2>9
    <3> QED BY <3>1
  <2> QED BY <2>2, <2>3, <2>4, <2>5, <2>6, <2>7, <2>8, <2>9
<1> QED BY <1>1 DEF Min

\* The requests of a chip are lines that are raised and open.
LEMMA RequestsAre ==
    ASSUME NEW chip \in Chip
    PROVE  /\ Requests(chip) \in SUBSET Lines
           /\ Requests(chip) \cap Bits(chip.imr) = {}
           /\ Asserts(chip) => Requests(chip) # {}
BY DEF Requests, Asserts, Chip

\* More requests, with the same mask, stay requests.
LEMMA RequestsGrow ==
    ASSUME NEW a \in Chip, NEW b \in Chip, a.irr \subseteq b.irr, b.imr = a.imr
    PROVE  Requests(a) \subseteq Requests(b)
BY DEF Requests

\* An initialised chip is one, with no line in service.
LEMMA InitialisedChip ==
    ASSUME NEW base \in Byte, NEW mask \in Byte
    PROVE  /\ Initialised(base, mask) \in Chip
           /\ Initialised(base, mask).isr = {} /\ Initialised(base, mask).irr = {}
           /\ Initialised(base, mask).imr = mask
           /\ Initialised(base, mask).base = base /\ Initialised(base, mask).next = "mask"
BY DEF Initialised, Chip

\* A request changes nothing else in the chip.
LEMMA LatchedChip ==
    ASSUME NEW chip \in Chip, NEW line \in Lines
    PROVE  /\ Latch(chip, line) \in Chip
           /\ Latch(chip, line).irr = chip.irr \cup {line}
           /\ Latch(chip, line).imr = chip.imr /\ Latch(chip, line).isr = chip.isr
           /\ Latch(chip, line).base = chip.base /\ Latch(chip, line).next = chip.next
           /\ Latch(chip, line).icw4 = chip.icw4
BY DEF Latch, Chip

\* An acknowledgement puts the first request in service.
LEMMA AcknowledgedChip ==
    ASSUME NEW chip \in Chip, Requests(chip) # {}
    PROVE  /\ Min(Requests(chip)) \in Lines
           /\ Min(Requests(chip)) \in Requests(chip)
           /\ Acknowledge(chip) \in Chip
           /\ Acknowledge(chip).irr = chip.irr \ {Min(Requests(chip))}
           /\ Acknowledge(chip).isr = chip.isr \cup {Min(Requests(chip))}
           /\ Acknowledge(chip).imr = chip.imr /\ Acknowledge(chip).base = chip.base
           /\ Acknowledge(chip).next = chip.next /\ Acknowledge(chip).icw4 = chip.icw4
<1> DEFINE line == Min(Requests(chip))
<1>1. line \in Requests(chip) /\ line \in Lines
  BY RequestsAre, FirstLine
<1>2. Acknowledge(chip) = [chip EXCEPT !.irr = @ \ {line}, !.isr = @ \cup {line}]
  BY DEF Acknowledge
<1> HIDE DEF line
<1>3. chip.irr \ {line} \in SUBSET Lines /\ chip.isr \cup {line} \in SUBSET Lines
  BY <1>1 DEF Chip
<1>4. /\ Acknowledge(chip) \in Chip
      /\ Acknowledge(chip).irr = chip.irr \ {line}
      /\ Acknowledge(chip).isr = chip.isr \cup {line}
      /\ Acknowledge(chip).imr = chip.imr /\ Acknowledge(chip).base = chip.base
      /\ Acknowledge(chip).next = chip.next /\ Acknowledge(chip).icw4 = chip.icw4
  BY <1>2, <1>3 DEF Chip
<1> QED BY <1>1, <1>4 DEF line

\* The end of interrupt 0x20 takes the first line in service out of it, and
\* with it every line if there is at most one.
LEMMA EndedChip ==
    ASSUME NEW chip \in Chip
    PROVE  /\ WriteCommand(chip, 32) \in Chip
           /\ WriteCommand(chip, 32).isr \subseteq chip.isr
           /\ WriteCommand(chip, 32).irr = chip.irr /\ WriteCommand(chip, 32).imr = chip.imr
           /\ (\A i, j \in chip.isr : i = j) => WriteCommand(chip, 32).isr = {}
<1>1. WriteCommand(chip, 32) = EndOfInterrupt(chip)
  <2>1. (32 \div 2^4) % 2 = 0 /\ (32 \div 2^5) % 2 = 1
    OBVIOUS
  <2> QED BY <2>1 DEF WriteCommand, Bits, Lines
<1>2. CASE chip.isr = {}
  BY <1>1, <1>2 DEF EndOfInterrupt
<1>3. CASE chip.isr # {}
  <2> DEFINE first == Min(chip.isr)
  <2>1. chip.isr \in SUBSET Lines
    BY DEF Chip
  <2>2. first \in chip.isr
    BY <1>3, <2>1, FirstLine
  <2>3. EndOfInterrupt(chip) = [chip EXCEPT !.isr = @ \ {first}]
    BY <1>3 DEF EndOfInterrupt
  <2> HIDE DEF first
  <2>4. /\ EndOfInterrupt(chip) \in Chip /\ EndOfInterrupt(chip).isr = chip.isr \ {first}
        /\ EndOfInterrupt(chip).irr = chip.irr /\ EndOfInterrupt(chip).imr = chip.imr
    BY <2>3 DEF Chip
  <2> QED BY <1>1, <2>2, <2>4
<1> QED BY <1>2, <1>3

\* The first initialisation word 0x11 begins the sequence and forgets the rest.
LEMMA RestartedChip ==
    ASSUME NEW chip
    PROVE  /\ WriteCommand(chip, 17) \in Chip
           /\ WriteCommand(chip, 17) = [imr |-> 0, irr |-> {}, isr |-> {}, base |-> 0,
                                        next |-> "icw2", icw4 |-> TRUE]
<1>1. (17 \div 2^4) % 2 = 1 /\ (17 \div 2^0) % 2 = 1
  OBVIOUS
<1>2. 4 \in Bits(17) /\ 0 \in Bits(17)
  BY <1>1 DEF Bits, Lines
<1>3. WriteCommand(chip, 17) = [imr |-> 0, irr |-> {}, isr |-> {}, base |-> 0,
                                next |-> "icw2", icw4 |-> TRUE]
  BY <1>2 DEF WriteCommand, ICW1
<1>4. {} \in SUBSET Lines /\ 0 \in Byte
  BY DEF Byte
<1>5. [imr |-> 0, irr |-> {}, isr |-> {}, base |-> 0, next |-> "icw2", icw4 |-> TRUE] \in Chip
  BY <1>4 DEF Chip
<1> QED BY <1>3, <1>5

\* What a byte written to the data port does, by what it is taken for.
LEMMA WrittenChip ==
    ASSUME NEW chip \in Chip, NEW v \in Byte
    PROVE  /\ WriteData(chip, v) \in Chip
           /\ WriteData(chip, v).irr = chip.irr /\ WriteData(chip, v).isr = chip.isr
           /\ WriteData(chip, v).icw4 = chip.icw4
           /\ chip.next = "mask" => /\ WriteData(chip, v).imr = v
                                    /\ WriteData(chip, v).next = "mask"
           /\ chip.next # "mask" => WriteData(chip, v).imr = chip.imr
           /\ chip.next = "icw2" => /\ WriteData(chip, v).base = v - (v % 8)
                                    /\ WriteData(chip, v).next = "icw3"
           /\ chip.next # "icw2" => WriteData(chip, v).base = chip.base
           /\ chip.next = "icw3" => WriteData(chip, v).next = IF chip.icw4 THEN "icw4" ELSE "mask"
           /\ chip.next = "icw4" => WriteData(chip, v).next = "mask"
<1>1. v - (v % 8) \in Byte
  BY DEF Byte
<1>2. chip.next \in {"mask", "icw2", "icw3", "icw4"}
  BY DEF Chip
<1>3. CASE chip.next = "mask"
  BY <1>3 DEF WriteData, Chip
<1>4. CASE chip.next = "icw2"
  <2> DEFINE b == v - (v % 8)
  <2>1. WriteData(chip, v) = [chip EXCEPT !.base = b, !.next = "icw3"]
    BY <1>4 DEF WriteData
  <2>2. b \in Byte
    BY <1>1
  <2> HIDE DEF b
  <2>3. /\ WriteData(chip, v) \in Chip /\ WriteData(chip, v).base = b
        /\ WriteData(chip, v).next = "icw3" /\ WriteData(chip, v).imr = chip.imr
        /\ WriteData(chip, v).isr = chip.isr /\ WriteData(chip, v).icw4 = chip.icw4
        /\ WriteData(chip, v).irr = chip.irr
    BY <2>1, <2>2 DEF Chip
  <2> QED BY <1>4, <2>3 DEF b
<1>5. CASE chip.next = "icw3"
  BY <1>5 DEF WriteData, Chip
<1>6. CASE chip.next = "icw4"
  BY <1>6 DEF WriteData, Chip
<1> QED BY <1>2, <1>3, <1>4, <1>5, <1>6
=============================================================================
