-------------------------------- MODULE Nvme --------------------------------
(***************************************************************************)
(* drivers/x64/Storage/NVME/nvme.c: the command slot and the completion    *)
(* entry that nvme_read shares with the controller (external).  A driver   *)
(* poll is a step that waits.                                              *)
(*                                                                         *)
(* nvme_regs points to 32-bit words, so nvme_regs + NVME_REG_SQ0TDBL is    *)
(* not the byte offset the constant gives.  If nvme_init found no          *)
(* controller the pointers stay NULL: the queue and the completion entry   *)
(* are then the same memory at address 0, and the status word lies in the  *)
(* zeros of prp2.                                                          *)
(***************************************************************************)
EXTENDS Integers, Sequences

CONSTANTS
    Reads,      \* the [lba, count, buffer] that clients ask for
    Leftovers   \* what a fresh page may hold where the status word is, of 0..65535

VARIABLES
    at,         \* "boot", "code" or "poll"
    present,    \* the machine has a controller
    slot,       \* admin_sq[0]
    status,     \* admin_cq[0].status
    doorbell,   \* the tail of the admin submission queue, as the controller has it
    fetched,    \* how far the controller has read the queue
    executing,  \* the commands it has read and not completed
    command,    \* history: the command of the last nvme_read
    completed,  \* history: it is completed
    answer      \* what the last nvme_read returned

vars == << at, present, slot, status, doorbell, fetched, executing, command, completed, answer >>

\* count and the low half of lba fill cmd_specific; the high half has no place.
NoCommand == [prp1 |-> "none", prp2 |-> 0, cmd_specific |-> << 0, 0 >>]

NVME_REG_SQ0TDBL == 4096

\* The controller's register at a byte offset, and where the driver writes.
Byte(word) == 4 * word

Init ==
    /\ at = "boot"
    /\ present \in BOOLEAN
    /\ slot = NoCommand /\ status = 0
    /\ doorbell = 0 /\ fetched = 0 /\ executing = {}
    /\ command = NoCommand /\ completed = FALSE /\ answer = FALSE

mmio_write32(word, value) ==
    doorbell' = IF present /\ Byte(word) = NVME_REG_SQ0TDBL THEN value ELSE doorbell

\* No controller: the pointers stay as they are.  Otherwise two pages are
\* allocated, whose contents nobody sets.
nvme_init ==
    /\ at = "boot"
    /\ at' = "code"
    /\ IF present
         THEN status' \in Leftovers /\ mmio_write32(NVME_REG_SQ0TDBL, 0)
         ELSE UNCHANGED << status, doorbell >>
    /\ UNCHANGED << present, slot, fetched, executing, command, completed, answer >>

nvme_read(r) ==
    LET cmd == [prp1 |-> r.buffer, prp2 |-> 0, cmd_specific |-> << r.count, r.lba >>]
    IN  /\ at = "code"
        /\ at' = "poll"
        /\ slot' = cmd
        /\ status' = IF present THEN status ELSE cmd.prp2
        /\ mmio_write32(NVME_REG_SQ0TDBL, 1)
        /\ command' = cmd /\ completed' = FALSE
        /\ UNCHANGED << present, fetched, executing, answer >>

read_returns ==
    /\ at = "poll" /\ status # 65535
    /\ at' = "code"
    /\ answer' = (status % 2 = 0)
    /\ UNCHANGED << present, slot, status, doorbell, fetched, executing, command, completed >>

\* The controller reads the queue up to the doorbell and completes what it
\* read, with the phase bit of the first pass in bit 0 of the status word.
Fetch ==
    /\ present /\ fetched # doorbell
    /\ fetched' = doorbell
    /\ executing' = executing \cup {slot}
    /\ UNCHANGED << at, present, slot, status, doorbell, command, completed, answer >>

Complete(cmd) ==
    /\ cmd \in executing
    /\ executing' = executing \ {cmd}
    /\ \E error \in {0, 2} : status' = 1 + 2 * error
    /\ completed' = (completed \/ cmd = command)
    /\ UNCHANGED << at, present, slot, doorbell, fetched, command, answer >>

Next ==
    \/ nvme_init
    \/ \E r \in Reads : nvme_read(r)
    \/ read_returns
    \/ Fetch
    \/ \E cmd \in executing : Complete(cmd)

Spec == Init /\ [][Next]_vars

\* With a controller, nvme_read does not return before its command is completed.
ReturnsCompleted == present /\ at = "code" /\ command # NoCommand => completed
=============================================================================
