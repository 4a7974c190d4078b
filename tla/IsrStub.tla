------------------------------ MODULE IsrStub ------------------------------
(***************************************************************************)
(* drivers/x64/Interrupt/isr_stubs.S: the common stub, one instruction at  *)
(* a time, on a machine whose descriptor table sends every vector to it    *)
(* through interrupt gates, as isr_stub_table is laid out for.  (Nothing   *)
(* in the kernel loads a table yet: module Kernel is the machine without   *)
(* one.)                                                                   *)
(*                                                                         *)
(* The stack is the sequence of what was pushed, top last.  pusha and popa *)
(* move the eight general registers, which are never taken apart, as one   *)
(* value.  A client word that stands for what the interrupted code had on  *)
(* its stack lies below.                                                   *)
(* Definitions F_Something are F with a plausible mistake, as in Scheduler.*)
(***************************************************************************)
EXTENDS Integers, Sequences, SequencesExt, Pic8259

CONSTANTS
    IRQs,          \* the interrupt lines devices raise
    Places,        \* addresses of the interrupted code
    CodeSegment,   \* its code selector
    DataSegment,   \* its data selector
    StubSegment,   \* the selector the stub loads into ds and es, 0x10
    Scratch        \* the registers once the stub has used eax

ASSUME StubAssumption ==
    /\ IRQs \subseteq (0..15) \ {2}
    /\ Places \cap {CodeSegment, Scratch} = {}
    /\ CodeSegment \notin BOOLEAN   \* no flags word is the code selector

VARIABLES
    at,       \* the stub's next instruction, or "code", or "lost"
    eip, cs, iflag,
    regs, ds, es,
    stack,
    errors,   \* whether the stub was entered with an error code
    before,   \* the context that was interrupted last
    master, slave

context == << eip, cs, iflag, regs, ds, es, stack >>
pics    == << master, slave >>
vars    == << at, context, errors, before, pics >>

Instructions_PopaFirst ==
    << "pusha", "push ds", "push es", "mov ds", "mov es", "out master", "out slave",
       "popa", "pop es", "pop ds", "add esp", "iret" >>
Instructions_NoSlaveEoi ==
    << "pusha", "push ds", "push es", "mov ds", "mov es", "out master",
       "pop es", "pop ds", "popa", "add esp", "iret" >>
Instructions_NoSkip ==
    << "pusha", "push ds", "push es", "mov ds", "mov es", "out master", "out slave",
       "pop es", "pop ds", "popa", "iret" >>
Instructions ==
    << "pusha", "push ds", "push es", "mov ds", "mov es", "out master", "out slave",
       "pop es", "pop ds", "popa", "add esp", "iret" >>

Init ==
    /\ at = "code"
    /\ eip \in Places /\ cs = CodeSegment /\ iflag = TRUE
    /\ regs \in Places /\ ds = DataSegment /\ es = DataSegment
    /\ stack = << "client word" >>
    /\ errors = FALSE
    /\ before = context
    /\ master = Initialised(32, 0) /\ slave = Initialised(40, 0)

-----------------------------------------------------------------------------
(* The interrupted code, the devices and the processor.                    *)

enable_interrupts == iflag' = TRUE
disable_interrupts == iflag' = FALSE

\* The code moves on, changing its registers, and may turn interrupts off or on.
Run ==
    /\ at = "code"
    /\ eip' \in Places
    /\ regs' \in Places
    /\ enable_interrupts \/ disable_interrupts
    /\ UNCHANGED << at, cs, ds, es, stack, errors, before, pics >>

Raise(irq) ==
    /\ at # "lost"
    /\ IF irq < 8
         THEN master' = Latch(master, irq) /\ UNCHANGED slave
         ELSE slave' = Latch(slave, irq - 8) /\ UNCHANGED master
    /\ UNCHANGED << at, context, errors, before >>

\* An interrupt gate: flags, cs and eip are pushed, an error code if the
\* vector has one, and interrupts go off.
Enter(withError) ==
    /\ at = "code"
    /\ at' = "pusha"
    /\ stack' = stack \o << iflag, cs, eip >> \o (IF withError THEN << "error code" >> ELSE << >>)
    /\ iflag' = FALSE
    /\ errors' = withError
    /\ before' = context
    /\ UNCHANGED << eip, cs, regs, ds, es >>

Cascade == IF Asserts(slave) THEN Latch(master, 2) ELSE master

Interrupt ==
    /\ iflag
    /\ Asserts(Cascade)
    /\ master' = Acknowledge(Cascade)
    /\ slave' = IF Min(Requests(Cascade)) = 2 THEN Acknowledge(slave) ELSE slave
    /\ Enter(FALSE)

\* An exception of the interrupted code; some vectors push an error code.
Exception ==
    /\ \E withError \in BOOLEAN : Enter(withError)
    /\ UNCHANGED pics

-----------------------------------------------------------------------------
(* isr_common_stub                                                         *)

Step(instruction) ==
    /\ at = instruction
    /\ at' = Instructions[1 + CHOOSE k \in 1..Len(Instructions) : Instructions[k] = instruction]
    /\ UNCHANGED << eip, cs, iflag, errors, before >>

Push(v) == stack' = Append(stack, v)

Pop == stack' = Front(stack)

pusha   == Step("pusha") /\ Push(regs) /\ UNCHANGED << regs, ds, es, pics >>
push_ds == Step("push ds") /\ Push(ds) /\ UNCHANGED << regs, ds, es, pics >>
push_es == Step("push es") /\ Push(es) /\ UNCHANGED << regs, ds, es, pics >>

\* The selector and the end-of-interrupt code go through eax.
mov_ds == /\ Step("mov ds")
          /\ ds' = StubSegment /\ regs' = Scratch
          /\ UNCHANGED << es, stack, pics >>
mov_es == /\ Step("mov es")
          /\ es' = StubSegment
          /\ UNCHANGED << regs, ds, stack, pics >>

out_master == /\ Step("out master")
              /\ master' = WriteCommand(master, 32)
              /\ UNCHANGED << regs, ds, es, stack, slave >>
out_slave  == /\ Step("out slave")
              /\ slave' = WriteCommand(slave, 32)
              /\ UNCHANGED << regs, ds, es, stack, master >>

pop_es == Step("pop es") /\ es' = Last(stack) /\ Pop /\ UNCHANGED << regs, ds, pics >>
pop_ds == Step("pop ds") /\ ds' = Last(stack) /\ Pop /\ UNCHANGED << regs, es, pics >>
popa   == Step("popa") /\ regs' = Last(stack) /\ Pop /\ UNCHANGED << ds, es, pics >>

add_esp == Step("add esp") /\ Pop /\ UNCHANGED << regs, ds, es, pics >>

\* The word on top becomes eip, the next cs.  If that is no code selector the
\* processor faults in the stub, and what follows is left out.
iret ==
    LET n == Len(stack)
    IN  /\ at = "iret"
        /\ \/ /\ stack[n - 1] = CodeSegment
              /\ eip' = stack[n]
              /\ cs' = stack[n - 1]
              /\ iflag' = stack[n - 2]
              /\ stack' = SubSeq(stack, 1, n - 3)
              /\ at' = "code"
           \/ /\ stack[n - 1] # CodeSegment
              /\ at' = "lost"
              /\ UNCHANGED << eip, cs, iflag, stack >>
        /\ UNCHANGED << regs, ds, es, errors, before, pics >>

isr_common_stub ==
    \/ pusha \/ push_ds \/ push_es
    \/ mov_ds \/ mov_es
    \/ out_master \/ out_slave
    \/ pop_es \/ pop_ds \/ popa
    \/ add_esp \/ iret

Next ==
    \/ Run
    \/ \E irq \in IRQs : Raise(irq)
    \/ Interrupt
    \/ Exception
    \/ isr_common_stub

Spec == Init /\ [][Next]_vars

-----------------------------------------------------------------------------
(* Properties                                                              *)

\* Every variable holds a value of its kind; in particular each segment
\* register and the general registers get a value of their own kind back.
TypeOK ==
    /\ at \in Range(Instructions) \cup {"code", "lost"}
    /\ eip \in Places /\ cs = CodeSegment /\ iflag \in BOOLEAN
    /\ regs \in Places \cup {Scratch}
    /\ {ds, es} \subseteq {DataSegment, StubSegment}
    /\ Len(stack) \in 0..8
    /\ errors \in BOOLEAN
    /\ master \in Chip /\ slave \in Chip

\* The end of interrupt the stub sends to both controllers leaves none of
\* their lines in service once the interrupted code runs again, so that no
\* later request is held back; and at most one line of each is ever in service.
NothingLeftInService ==
    /\ at \in {"code", "pop es", "pop ds", "popa", "add esp", "iret", "lost"} =>
          master.isr = {} /\ slave.isr = {}
    /\ \A chip \in {master, slave} : \A i, j \in chip.isr : i = j

\* After a vector with an error code the interrupted code resumes with every
\* register, its flag and its stack as they were.
ErrorCodeReturns ==
    (at = "iret" /\ errors) =>
        /\ stack = before[7] \o << before[3], before[2], before[1] >>
        /\ << regs, ds, es >> = << before[4], before[5], before[6] >>

\* iret returns from the interrupt: the interrupted code resumes where and as
\* it was.
ReturnsFromInterrupt ==
    [][iret => context' = before]_vars

-----------------------------------------------------------------------------
(* Why the properties hold: what the stub has pushed, moved and served at  *)
(* each instruction.                                                       *)

\* What the processor pushed, with and without the error code.
Interrupted == before[7] \o << before[3], before[2], before[1] >>
Frame       == IF errors THEN Append(Interrupted, "error code") ELSE Interrupted

\* What was interrupted is the code, with its own segments and stack.
Entered ==
    /\ at = "code" =>
          stack = << "client word" >> /\ regs \in Places /\ ds = DataSegment /\ es = DataSegment
    /\ at \notin {"code", "lost"} =>
          /\ before \in Places \X {CodeSegment} \X BOOLEAN \X Places \X {DataSegment}
                        \X {DataSegment} \X {<< "client word" >>}
          /\ eip = before[1]

Stacked ==
    /\ at \in {"pusha", "add esp"} => stack = Frame
    /\ at \in {"push ds", "popa"}  => stack = Append(Frame, before[4])
    /\ at \in {"push es", "pop ds"} => stack = Append(Append(Frame, before[4]), before[5])
    /\ at \in {"mov ds", "mov es", "out master", "out slave", "pop es"} =>
          stack = Append(Append(Append(Frame, before[4]), before[5]), before[6])
    /\ at = "iret" => stack = IF errors THEN Interrupted ELSE Front(Interrupted)

Kept ==
    /\ at \in {"pusha", "push ds", "push es", "mov ds", "add esp", "iret"} => regs = before[4]
    /\ at \in {"pusha", "push ds", "push es", "mov ds", "popa", "add esp", "iret"} =>
          ds = before[5]
    /\ at \in {"pusha", "push ds", "push es", "mov ds", "mov es", "pop ds", "popa", "add esp",
               "iret"} => es = before[6]

Served == at = "out slave" => master.isr = {}

\* The master's line 2 requests for the slave alone, which still does.
Cascaded == 2 \in master.irr => Requests(slave) # {}

StubInvariant ==
    TypeOK /\ Entered /\ Stacked /\ Kept /\ Served /\ Cascaded /\ NothingLeftInService
=============================================================================
