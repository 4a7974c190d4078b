------------------------------ MODULE Pic8259 ------------------------------
(***************************************************************************)
(* The 8259 interrupt controller that drivers/x64/Interrupt/pic.c          *)
(* programs, as far as that code uses it: the initialisation words 1 to 4, *)
(* the mask register and the non-specific end of interrupt.  The device is *)
(* external; it behaves here as in QEMU, which scripts/run.sh boots: edge  *)
(* triggered, and able to request an interrupt between two initialisation  *)
(* words.  Spurious interrupts are left out.                               *)
(*                                                                         *)
(* A chip is a record: imr, the mask byte; irr and isr, the lines that     *)
(* request and that are in service; base, the vector of line 0; next, what *)
(* the next byte written to the data port is taken for; icw4, whether      *)
(* initialisation has a fourth word.                                       *)
(***************************************************************************)
EXTENDS Integers, FiniteSetsExt

Lines == 0..7

Byte == 0..255

Bits(v) == {i \in Lines : (v \div 2^i) % 2 = 1}

Chip == [imr : Byte, irr : SUBSET Lines, isr : SUBSET Lines, base : Byte,
         next : {"mask", "icw2", "icw3", "icw4"}, icw4 : BOOLEAN]

\* As the firmware leaves a chip: initialised, with a mask of its own.
Initialised(base, mask) ==
    [imr |-> mask, irr |-> {}, isr |-> {}, base |-> base,
     next |-> "mask", icw4 |-> TRUE]

\* The first initialisation word forgets mask, requests and vector base.
ICW1(v) ==
    [imr |-> 0, irr |-> {}, isr |-> {}, base |-> 0,
     next |-> "icw2", icw4 |-> 0 \in Bits(v)]

EndOfInterrupt(chip) ==
    IF chip.isr = {} THEN chip ELSE [chip EXCEPT !.isr = @ \ {Min(@)}]

WriteCommand(chip, v) ==
    IF 4 \in Bits(v) THEN ICW1(v)
    ELSE IF 5 \in Bits(v) THEN EndOfInterrupt(chip)
    ELSE chip

WriteData(chip, v) ==
    CASE chip.next = "mask" -> [chip EXCEPT !.imr = v]
      [] chip.next = "icw2" -> [chip EXCEPT !.base = v - (v % 8), !.next = "icw3"]
      [] chip.next = "icw3" -> [chip EXCEPT !.next = IF chip.icw4 THEN "icw4" ELSE "mask"]
      [] chip.next = "icw4" -> [chip EXCEPT !.next = "mask"]

\* A rising edge on a line is latched whatever the mask.
Latch(chip, line) == [chip EXCEPT !.irr = @ \cup {line}]

Requests(chip) == chip.irr \ Bits(chip.imr)

\* The chip asserts its output for a request above all that is in service.
Asserts(chip) ==
    \E i \in Requests(chip) : \A j \in chip.isr : i < j

Acknowledge(chip) ==
    LET line == Min(Requests(chip))
    IN  [chip EXCEPT !.irr = @ \ {line}, !.isr = @ \cup {line}]
=============================================================================
