------------------------------- MODULE Kernel -------------------------------
(***************************************************************************)
(* kernel_main (kernel/x64/main.c) as the processor executes it: the three *)
(* remaps of the interrupt controllers (pic.c, interrupts.c), one port     *)
(* access at a time, between which devices request interrupts and the      *)
(* processor accepts them, and then the scheduler (module Scheduler).      *)
(*                                                                         *)
(* Nothing in the kernel loads an interrupt descriptor table, so an        *)
(* interrupt the processor accepts cannot be delivered: it faults, faults  *)
(* on the fault, and shuts down, and the machine boots again (qemu.log:    *)
(* "Triple fault", then "CPU Reset").                                      *)
(*                                                                         *)
(* Left out: vga_init, which touches no variable of this module, and       *)
(* register_interrupt_handler, which keeps nothing.  A processor that      *)
(* jumped to address 0 executes whatever is there; no claim is made of it. *)
(* A shutdown ends the boot; the next one starts from Init.                *)
(* Definitions F_Something are F with a plausible mistake, as in Scheduler.*)
(***************************************************************************)
EXTENDS Integers, Sequences, Pic8259

CONSTANTS
    MAX_TASKS, Boot, NULL,             \* of Scheduler
    Main, Entry, Stale, KernelLocals,  \* of Scheduler
    task1, task2,                      \* the tasks kernel_main creates
    IRQs,           \* the interrupt lines devices raise
    Timer,          \* the line of the periodic timer, on the master
    FirmwareMasks   \* the mask bytes, master's and slave's, a firmware may leave

ASSUME KernelAssumption ==
    /\ Timer \in IRQs \cap Lines
    /\ IRQs \subseteq (0..15) \ {2}
    /\ FirmwareMasks \subseteq Byte \X Byte
    /\ MAX_TASKS \in Nat /\ MAX_TASKS >= 2   \* room for both tasks, as in scheduler.c
    /\ KernelLocals \in Nat
    /\ Boot \notin {task1, task2}            \* as Scheduler assumes, of these tasks
    /\ NULL \notin {task1, task2, Boot} \X (0..3)
    /\ NULL \notin {Main, task1, task2} \X {Main, task1, task2, Entry}
    /\ NULL \notin Int

VARIABLES
    tasks, current, total, pid, mem, esp, ebp, eip, fault, startExit, kept,
    pc,        \* the next instruction of kernel_main
    cpu,       \* "running", "halted" or, without a descriptor table, "shutdown"
    iflag,     \* the interrupt flag
    master, slave,
    firmware,  \* the masks the firmware left, master's and slave's
    locals,    \* the masks pic_remap saved
    vector     \* the vector of the interrupt accepted last, or NULL

\* The client is kernel_main alone, whose calls are named by the task each
\* creates and, scheduler_start's, by Main; all its data lie below height 0.
S == INSTANCE Scheduler WITH
        Tasks     <- {task1, task2},
        Functions <- {Main},
        Sites     <- {task1, task2, Main},
        Locals    <- [f \in {Main, task1, task2} |-> 0],
        Values    <- {},
        MaxStack  <- 0

svars  == << tasks, current, total, pid, mem, esp, ebp, eip, fault, startExit, kept >>
pics   == << master, slave >>
kvars  == << pc, cpu, iflag, pics, firmware, locals, vector >>
vars   == << svars, kvars >>

-----------------------------------------------------------------------------
(* The program.                                                            *)

In(chip)         == [op |-> "inb", chip |-> chip]
Command(chip, v) == [op |-> "command", chip |-> chip, val |-> v]
Data(chip, v)    == [op |-> "data", chip |-> chip, val |-> v]
Restore(chip)    == [op |-> "restore", chip |-> chip]

pic_remap_LateRead(o1, o2) ==
    << Command(1, 17), Command(2, 17),
       In(1), In(2),
       Data(1, o1), Data(2, o2), Data(1, 4), Data(2, 2), Data(1, 1), Data(2, 1),
       Restore(1), Restore(2) >>
pic_remap_Swapped(o1, o2) ==
    << In(1), In(2), Command(1, 17), Command(2, 17),
       Data(1, o2), Data(2, o1), Data(1, 4), Data(2, 2), Data(1, 1), Data(2, 1),
       Restore(1), Restore(2) >>
pic_remap_AllMasked(o1, o2) ==
    << In(1), In(2), Command(1, 17), Command(2, 17),
       Data(1, o1), Data(2, o2), Data(1, 4), Data(2, 2), Data(1, 1), Data(2, 1),
       Data(1, 255), Data(2, 255) >>
pic_remap(o1, o2) ==
    << In(1), In(2),
       Command(1, 17), Command(2, 17),
       Data(1, o1), Data(2, o2),
       Data(1, 4), Data(2, 2),
       Data(1, 1), Data(2, 1),
       Restore(1), Restore(2) >>

enable_interrupts == << [op |-> "sti"] >>

init_interrupts == pic_remap(32, 40) \o enable_interrupts

scheduler_start == init_interrupts \o << [op |-> "schedule"] >>

kernel_main_EarlyEnable ==
    enable_interrupts \o pic_remap(32, 40) \o init_interrupts
    \o << [op |-> "create", task |-> task1], [op |-> "create", task |-> task2] >>
    \o scheduler_start
    \o << [op |-> "hlt"] >>
kernel_main ==
    pic_remap(32, 40) \o init_interrupts \o enable_interrupts
    \o << [op |-> "create", task |-> task1], [op |-> "create", task |-> task2] >>
    \o scheduler_start
    \o << [op |-> "hlt"] >>

Now == kernel_main[pc]

-----------------------------------------------------------------------------
(* One action per instruction.                                             *)

\* The boot loader enters the kernel with interrupts off.
Init ==
    /\ S!Init
    /\ pc = 1
    /\ cpu = "running"
    /\ iflag = FALSE
    /\ firmware \in FirmwareMasks
    /\ master = Initialised(8, firmware[1])
    /\ slave = Initialised(112, firmware[2])
    /\ locals = << 0, 0 >>
    /\ vector = NULL

\* The processor is at an instruction of kernel_main of the given kind.
At(op) ==
    /\ cpu = "running"
    /\ S!Running
    /\ Now.op = op

Advance == pc' = pc + 1

\* An access to the port of one chip; the other chip keeps its state.
Access(Result(_)) ==
    /\ master' = IF Now.chip = 1 THEN Result(master) ELSE master
    /\ slave' = IF Now.chip = 2 THEN Result(slave) ELSE slave
    /\ Advance
    /\ UNCHANGED << svars, cpu, iflag, firmware, vector >>

inb ==
    /\ At("inb")
    /\ locals' = [locals EXCEPT ![Now.chip] = IF Now.chip = 1 THEN master.imr ELSE slave.imr]
    /\ Access(LAMBDA chip : chip)

outb_command ==
    /\ At("command")
    /\ Access(LAMBDA chip : WriteCommand(chip, Now.val))
    /\ UNCHANGED locals

outb_data ==
    /\ At("data")
    /\ Access(LAMBDA chip : WriteData(chip, Now.val))
    /\ UNCHANGED locals

outb_restore ==
    /\ At("restore")
    /\ Access(LAMBDA chip : WriteData(chip, locals[Now.chip]))
    /\ UNCHANGED locals

sti ==
    /\ At("sti")
    /\ iflag' = TRUE
    /\ Advance
    /\ UNCHANGED << svars, cpu, pics, firmware, locals, vector >>

create ==
    /\ At("create")
    /\ S!scheduler_create_task(Now.task, Now.task)
    /\ Advance
    /\ UNCHANGED << cpu, iflag, pics, firmware, locals, vector >>

schedule ==
    /\ At("schedule")
    /\ S!scheduler_start(Main)
    /\ Advance
    /\ UNCHANGED << cpu, iflag, pics, firmware, locals, vector >>

hlt_Once ==
    /\ At("hlt")
    /\ cpu' = "halted"
    /\ Advance
    /\ UNCHANGED << svars, iflag, pics, firmware, locals, vector >>
hlt ==
    /\ At("hlt")
    /\ cpu' = "halted"
    /\ UNCHANGED << svars, pc, iflag, pics, firmware, locals, vector >>

-----------------------------------------------------------------------------
(* Devices and the processor's interrupt input.                            *)

\* A device raises its line.
Raise(irq) ==
    /\ cpu # "shutdown"
    /\ IF irq < 8
         THEN master' = Latch(master, irq) /\ UNCHANGED slave
         ELSE slave' = Latch(slave, irq - 8) /\ UNCHANGED master
    /\ UNCHANGED << svars, pc, cpu, iflag, firmware, locals, vector >>

\* The slave's output is the master's line 2.
Cascade == IF Asserts(slave) THEN Latch(master, 2) ELSE master

\* The processor accepts the request of highest priority and, with no table
\* to find a handler in, shuts down.
Interrupt ==
    LET line == Min(Requests(Cascade))
    IN  /\ iflag
        /\ cpu # "shutdown"
        /\ fault = "none"
        /\ eip # NULL
        /\ Asserts(Cascade)
        /\ master' = Acknowledge(Cascade)
        /\ IF line = 2
             THEN /\ slave' = Acknowledge(slave)
                  /\ vector' = slave.base + Min(Requests(slave))
             ELSE /\ UNCHANGED slave
                  /\ vector' = master.base + line
        /\ cpu' = "shutdown"
        /\ UNCHANGED << svars, pc, iflag, firmware, locals >>

Execute ==
    inb \/ outb_command \/ outb_data \/ outb_restore \/ sti \/ create \/ schedule \/ hlt

Next ==
    \/ Execute
    \/ \E irq \in IRQs : Raise(irq)
    \/ Interrupt

\* The processor keeps executing, accepts a request that stays pending, and
\* the timer keeps ticking.
Spec == Init /\ [][Next]_vars /\ WF_vars(Execute) /\ WF_vars(Interrupt) /\ WF_vars(Raise(Timer))

-----------------------------------------------------------------------------
(* Properties                                                              *)

\* Every variable holds a value of its kind; pc stays in kernel_main, which
\* never returns to boot.asm.
TypeOK ==
    /\ S!TypeOK
    /\ pc \in 1..Len(kernel_main)
    /\ cpu \in {"running", "halted", "shutdown"}
    /\ iflag \in BOOLEAN
    /\ master \in Chip /\ slave \in Chip
    /\ firmware \in FirmwareMasks
    /\ locals \in Byte \X Byte
    /\ vector \in Byte \cup {NULL}

\* pic_remap has written its first word and not yet its last.
Remapping ==
    \E k \in 1..Len(kernel_main) :
        /\ kernel_main[k] = In(1)
        /\ pc \in (k + 3)..(k + 11)

\* However often kernel_main remaps the controllers, and whatever requests
\* arrive meanwhile, between two remaps both are out of their initialisation
\* sequence and mask exactly the lines the firmware masked.
MasksSurviveRemaps ==
    ~Remapping =>
        /\ master.next = "mask" /\ slave.next = "mask"
        /\ master.imr = firmware[1] /\ slave.imr = firmware[2]

\* Interrupts are only ever on when the vectors are those of the remap or a
\* remap is going on again: the enable comes after the first two remaps.
EnabledAfterRemap ==
    iflag => Remapping \/ (master.base = 32 /\ slave.base = 40)

\* An interrupt accepted while no remap is going on comes from a line the
\* firmware left open, on the vector the remap gave that line.
AcceptedAsProgrammed ==
    [][(Interrupt /\ ~Remapping) =>
          \E irq \in IRQs :
             /\ vector' = 32 + irq
             /\ irq < 8 => irq \notin Bits(firmware[1])
             /\ irq >= 8 => irq - 8 \notin Bits(firmware[2]) /\ 2 \notin Bits(firmware[1])]_vars

\* A kernel that comes to rest at hlt shuts down at the next tick if the
\* firmware left the timer's line open.
TickEndsHalt ==
    (cpu = "halted" /\ Timer \notin Bits(firmware[1])) ~> (cpu = "shutdown")

\* Every interrupt the processor accepts has a vector of the remap, 32 to 47.
VectorsRemapped == vector # NULL => vector \in 32..47

-----------------------------------------------------------------------------
(* Why the properties hold: how far the chips are in the remap at pc.      *)

\* The accesses of the remap that are done; none outside a remap.
Stage == IF pc \in 1..24 THEN (pc - 1) % 12
         ELSE IF pc \in 29..40 THEN pc - 29
         ELSE 0

\* A chip n accesses into a remap, the third of which is its first word, at
\* place p; from place 13 on it has been remapped before.
InSequence(chip, n, p, mask, base) ==
    /\ n \notin 3..10 => chip.next = "mask" /\ chip.imr = mask
    /\ n \in 3..4 => chip.next = "icw2"
    /\ n \in 5..6 => chip.next = "icw3"
    /\ n \in 7..8 => chip.next = "icw4"
    /\ n \in 9..10 => chip.next = "mask"
    /\ n \in 3..8 => chip.icw4
    /\ n >= 5 \/ (p > 12 /\ n < 3) => chip.base = base
    /\ chip.base <= 112

Saved ==
    /\ Stage >= 1 => locals[1] = firmware[1]
    /\ Stage >= 2 => locals[2] = firmware[2]

Requested ==
    cpu # "shutdown" =>
        /\ \A i \in master.irr : i \in IRQs
        /\ \A i \in slave.irr : i + 8 \in IRQs

KernelInvariant ==
    /\ TypeOK
    /\ InSequence(master, Stage, pc, firmware[1], 32)
    /\ InSequence(slave, Stage - 1, pc, firmware[2], 40)
    /\ Saved
    /\ Requested
    /\ iflag => pc > 25
=============================================================================
