# FractionsOS in TLA+

FractionsOS is a small 32-bit x86 kernel.  `kernel_main` sets up the text
screen and the interrupt controllers, creates two tasks, starts a
round-robin scheduler and halts.  Drivers for ATA and NVMe disks, FAT32,
VBE graphics and `printk` stand beside it; `scripts/compile.sh` builds none
of them (most include headers the repository does not have), and nothing
calls them.  They are modelled from their own source, driven by any client.

Paths below are relative to `src/`.  There are no tests and no design
documents; what the code is meant to do is taken from its comments, its
constants and its own callers.

## Inventory

| component | source | state | operations | what makes it correct |
|---|---|---|---|---|
| scheduler | `drivers/x64/Interrupt/scheduler.c` | `tasks`, `current`, `total`; the stacks it switches between | `scheduler_create_task`, `scheduler_start`, `scheduler_yield`, `schedule` | a switch loads only a stack pointer that was stored; a context whose frame was left alone resumes where it stopped; slots take turns; a new task is entered |
| interrupt controllers | `pic.c`, `io.c`, `interrupts.c` | the two 8259s: masks, requests, vector base, initialisation step | `pic_remap`, `init_interrupts`, `enable_interrupts`, `disable_interrupts`, `pic_send_eoi`, `register_interrupt_handler` | masks survive a remap; no interrupt arrives on a wrong vector; interrupts are enabled after the vectors are set |
| `kernel_main` | `kernel/x64/main.c`, `boot.asm` | the program counter, the interrupt flag | one boot | reaches its idle loop, and what a tick does to it there |
| interrupt stub | `isr_stubs.S` | registers, segments, the interrupt stack | `isr_common_stub` | the interrupted code resumes as it was; no line stays in service |
| text console | `Video/vga/vga.c` | `vga_row`, `vga_column`, `vga_color`, text memory | `vga_init`, `vga_set_color`, `vga_write_string` | the text shown is the text written |
| `printk` | `Video/vga/printk.c` | `fmt`, `args`, `buffer`, `i` | `printk` | what reaches the console is what the format stands for |
| VBE graphics | `Video/vbe/vbe.c` | `vbe_mode_info`, the back buffer, the display registers | mode, pixel, bitmap, text, clear, scroll, font, swap | each loop touches exactly the pixels its geometry says |
| ATA driver | `Storage/ATA/ata.c` | the drive's command and transfer, words moved | `ata_identify`, `ata_read_sectors`, `ata_write_sectors` | data read and written are those asked for; calls return |
| NVMe driver | `Storage/NVME/nvme.c` | submission and completion queue, doorbell | `nvme_init`, `nvme_read` | a read waits for its own completion |
| FAT32 | `Storage/FS/fat32.c` | `bs`, the geometry, `current_drive` | `fat32_init`, `cluster_to_lba`, a truncated `fat32_open` | boot sector, geometry and drive are those of one volume; clusters lie in its data area |
| image converter | `encode.py` | none | a build tool | |

Interactions.  `kernel_main` calls everything in the build.  `scheduler_start`
calls `register_interrupt_handler` and `init_interrupts`, which remaps the
controllers again, with interrupts on by then.  Devices raise lines at any
time; the controllers and the processor's flag decide when one gets through.
Tasks call `vga_write_string` and `scheduler_yield`.  `printk` ends in
`vga_write_string`.  `fat32_init` reads through `ata_read_sectors`, from disks that other
clients write; the ATA driver shares the bus registers with drives that work on their own.

Hard behaviours: a stack switch in the middle of a C function; interrupts
between any two port accesses; controllers that forget requests and masks
while they are initialised; polling against a drive that gets on meanwhile;
calls that leave a transfer unfinished for the next call; `uint32_t`
arithmetic that wraps.  `PROJECT.json` lists the hazards line by line, with
the properties that would catch them, or the reason none does.

## Modules

| module | models | composed of |
|---|---|---|
| `RoundRobin` | the abstract promise of the scheduler: ids in a line | |
| `Scheduler` | `scheduler.c`, with the stacks and the calling convention | implements `RoundRobin` |
| `SchedulerProofs` | theorems about `Scheduler` | extends `Scheduler` |
| `Pic8259` | an 8259 as `pic.c` uses it (external) | |
| `Pic8259Proofs` | lemmas about `Pic8259` | extends `Pic8259` |
| `Kernel` | `kernel_main`, `pic.c`, `interrupts.c`, `io.c` | `Pic8259` twice, an instance of `Scheduler` |
| `KernelProofs` | theorems about `Kernel` | extends `Kernel`, with `SchedulerProofs` and `Pic8259Proofs` |
| `IsrStub` | `isr_stubs.S` | `Pic8259` twice |
| `IsrStubProofs` | theorems about `IsrStub` | extends `IsrStub`, with `Pic8259Proofs` |
| `VgaText` | `vga.c`: its state and operations | |
| `Printk` | `printk.c` and the other clients of the console | extends `VgaText` |
| `PrintkProofs` | theorems about `Printk` and `VgaText` | extends `Printk` |
| `Vbe` | `vbe.c` | |
| `VbeProofs` | theorems about `Vbe` | extends `Vbe` |
| `Disk` | the abstract promise of the ATA calls | |
| `Ata` | `ata.c`, and the drives (external) | implements `Disk` |
| `AtaProofs` | theorems about `Ata` | extends `Ata` |
| `Fat32` | `fat32.c` as far as it goes, and other clients of the disk | an instance of `Disk` |
| `Fat32Proofs` | theorems about `Fat32` | extends `Fat32` |
| `Nvme` | `nvme.c`, and the controller (external) | |

`MC<module>` and its `.cfg` files give the constants values.  In a module, a
definition `F_Something` just before `F` is `F` with a plausible mistake;
replacing `F` by it makes a run fail, as the `mutants` of `PROJECT.json` say.

### Scheduler

A context is the boot code or a task; each has a stack of words
`mem[s][n]`, and a pointer into it is `<<s, n>>`, stack `s` after `n` pushes.
Client code is a set of functions, each with a frame of its own size
(`Locals`: locals, arguments it passes on, alignment) and several calls in it;
`<<f, s>>` is the return address behind call `s` of `f`.  A call pushes that
address and `ebp` and takes the room for the rest, which holds any of the client's
`Values` or what lay there before.

`scheduler_create_task` writes the three words of the source, `schedule`
saves the address of its frame in the slot of `current`, advances `current`
and loads `esp` of the next slot.  The address is raw, as in the code: by the
time it is loaded, a longer frame may lie across it, and the switch then
takes for `ebp` and return address whatever is there.  If that is not code, the
model stops (no claim is made of garbage that executes); if it is, code
runs with a stack that is not its own.  `schedule` with no task created
divides by zero (`fault`).

`kept` is a history variable: per slot the context saved last (the return
address, `ebp` and `esp` of the call of `scheduler_yield` or `scheduler_start`), until
some call is made from below its frame and may write over it.

What a function does after `schedule` changed `esp` is not defined by C.
The model takes the two builds gcc makes of it: with `-O2`, as
`scripts/compile.sh` asks, `scheduler_yield` leaves through `pop %ebp; ret`
from the new stack, `scheduler_start` through `leave; ret`, which takes
`esp` back from `ebp`; without inlining both leave through the former.
`startExit` chooses at the start.

Left out: `timer_handler`, registered with a function that keeps nothing, and
`scheduler_set_priority`, whose value is never read.

### Kernel

`kernel_main` is a sequence of instructions, `pic_remap` written out
port by port; `pc` walks it, and `Raise` (a device) and `Interrupt` (the
processor) interleave with every step.  The scheduler calls are actions of the
`Scheduler` instance, with `kernel_main` as the only function.  No code loads an interrupt descriptor table, so an
accepted interrupt faults three times over and the machine resets; `qemu.log`
shows just that.  `cpu = "shutdown"` ends a behaviour: it is one boot.
Spurious interrupts are left out.

### IsrStub

One action per instruction of `isr_common_stub`, on a machine whose descriptor
table leads every vector to it through interrupt gates.  (The kernel has the
stub and no table; module `Kernel` is the machine as it is.)  The eight
registers of `pusha` are one value.

### VgaText

The loop of `vga_write_string` is the recursive function `Written`, one `PutChar` a character.  A character from 128
up is negative as a `char`, and its sign fills the attribute.  `since` and `text`
are history variables, used by properties alone: `text` is what was asked for, each character with the colour
set at the time.  Text memory has no end in the code;
`MaxRows` is how far the runs follow it.  The module has no specification of its own: `Printk`'s
is that of the whole console.

### Printk

One action per iteration; `Finish` hands the buffer to `VgaText`'s `vga_write_string`.  Between
calls other clients write, set the colour and clear the screen; one processor runs them
all, so none does during a call.  A `%s` that copies past the buffer, or asks for an argument
that was not passed, puts the model in `"lost"`: nothing after it is claimed.
A `%` at the very end of a format steps over its terminator; `Beyond` is what
may follow there.

### Vbe

A buffer is a function from pixel number to colour, a colour its alpha and one
channel, a glyph row the set of its lit columns.  A loop of the code is a recursive function:
`Loops` is the pair of loops that bitmaps and characters share, over a picture's pixels, and
`Step` what the loop of `vbe_draw_string` does with one character.  Coordinates are added modulo
`Modulus`, the display's registers hold values modulo `Modulus16`.
`vbe_init` takes the depth its client asks for (`Depths`) and programs it like the resolution; the display
is one that takes both only while disabled, and reads its memory in rows of `xres` pixels of `bpp` bits, in whole bytes (`Scan`).
The back buffer has four bytes a pixel at every depth.  `pitch` and `framebuffer` are stored and never read.
`vbe_swap_buffers` writes memory that the driver never reads; it is an operator on what that
memory held, not an action.
Assumed (`VbeAssumption`): screens, bitmaps and texts whose sizes in bytes or pixels fit 32 bits, as any
that fit the memory of this machine do, and fonts no larger than the default
glyph, beyond which `vbe_draw_char` reads outside it.

### Ata

A status poll is a step that waits for what it polls; register writes up to the
command are one step, since the driver reads nothing between them.  `insw` and
`outsw` are one step per word, and the drive works in between: `Offer`,
`Commit`, `Flush` and `Fail`.  Assumed of drives: BSY shows at once, a command
given while busy is ignored, and a new command ends an unfinished transfer.
`fast` drives are never seen busy between words.  Addresses stay below 2^28,
where `lba` is not cut.

### Disk

Sectors, one call at a time, and `good`: for how many of its first sectors a call is
answerable.  `Ata` maps its memory of sectors, its call and the words it read to them;
`good` is all of a call's sectors on a fast drive, one on a slow drive, in either case those before
the first bad one.

### Fat32

`fat32_init` is two steps, the call of `ata_read_sectors` and its return; between them the drive
is already the new one.  A sector that cannot be read never arrives.  Reading 512 bytes
into the 90 of `bs` overwrites what lies behind it; the source does not say what does, so
`behind` is any set of the module's other variables, chosen at the start, and they get
`code`, what the boot code of the sector reads as.  Of a boot sector the model keeps what
`fat32.c` reads, and `total_sectors32`, by which a volume's end is known.  Other clients write sector
0 between calls.  `volume` is a history variable: what the last successful mount accepted.

### Nvme

The slot `admin_sq[0]`, the status word of `admin_cq[0]`, the doorbell, and a controller that fetches up to the
doorbell and completes with the phase bit in bit 0.  `nvme_regs + NVME_REG_SQ0TDBL` counts words, so `Byte`
multiplies by 4; in the code as it is the controller's actions are therefore never enabled, and are there
to show what it waits for.  `present` chooses a machine with or without a controller; `Leftovers` is what a page from
`AllocateAligned` (external) may hold.

## Runs

| run | question | bounds | result |
|---|---|---|---|
| `scheduler` | does any client keep `IInv`, do slots take turns, and do frames left alone resume? | 4 tasks, 3 slots, 3 functions with frames of two sizes, 2 calls in each, stacks of 4 words and a frame | holds |
| `scheduler_own_slot` | is what a switch saves the context its slot belongs to? | 4 tasks, 5 slots, no nesting | violated |
| `scheduler_entry` | does the first switch to a task enter its function? | same | violated |
| `kernel` | masks, order of enabling, vectors, what ends a boot; is `KernelInvariant` true? | 3 devices, 4 masks | holds |
| `kernel_vectors` | is every interrupt on a remapped vector? | same | violated |
| `isr_stub` | what the stub ends, saves and restores | 3 devices, 2 places of code | holds |
| `isr_return` | does every interrupt return? | same | violated |
| `console` | does printk write what its format stands for, and is text memory what was written? | 2 rows of 3 columns, 5 rows of memory; formats to 4 characters, buffer of 5 | holds |
| `vbe` | do the drawing loops match the geometry? | 2x2 and 1x2 pixels of 16 and 32 bits, coordinates 0, 1 and the largest, scrolls that wrap | holds |
| `ata` | is the right data moved, does each call return, and is it a `Disk`, and is `BusInvariant` true? | 4 sectors of 2 words, one bad; counts 0, 1, 3 | holds |
| `fat32` | do boot sector, geometry and drive stay together, and clusters in their volume? | 2 drives, 4 sectors, numbers modulo 32, all 16 layouts | holds |
| `nvme_waits` | does a read wait for its completion? | 2 reads, 3 leftovers | violated |

### What they show

* *Scheduler.*  The table is sound (`SlotTable`), and slots take turns (`TakesTurns`).  But created tasks
  never run (`NothingRunsOnTaskStack`).  `scheduler_create_task` leaves the task's
  function on top of `[0][arg]`, the epilogue pops it into `ebp` and returns to 0
  (`scheduler_entry`).  Before that, `scheduler_start` has saved the boot
  context in slot 0, over the first task's stack pointer, so that this task is lost
  even with the entry repaired (`scheduler_own_slot`).  What does resume is boot code.  A slot whose frame no
  call was made from below resumes the very call that saved it, with its `ebp` and stack
  (`ResumesKeptContext`), whatever was saved and switched to above it.  Of any other slot nothing holds: all contexts
  share one stack, a frame released by a return is overwritten by the next call, and a switch to its slot
  pops a local for a return address; the run goes through such switches.
* *Kernel.*  Masks survive three remaps, whatever arrives
  (`MasksSurviveRemaps`), and interrupts go on only after the vectors are set
  (`EnabledAfterRemap`).  The third remap, in `scheduler_start`, runs with interrupts
  on: between its first word and the second the base is 0 and nothing is masked, and an
  interrupt arrives on an exception's vector (`kernel_vectors`).  A kernel that reaches
  `hlt` with the timer open is shut down by the next tick (`TickEndsHalt`).
* *Interrupt stub.*  Both end-of-interrupts are sent to both controllers without leaving a line in
  service; registers and stack are restored exactly for vectors with an error code
  (`ErrorCodeReturns`).  For all others, every device's among them, `add esp, 4`
  drops the return address (`isr_return`).
* *Console.*  No text is lost or overwritten at the end of a row (`ShowsText`,
  `BlankAhead`), including after `vga_init`, which leaves the cursor where it was.  An ASCII character keeps the colour
  it was written in; one from 128 up is white on white whatever colour is set, since its sign fills the attribute (`Seen`).
  Nothing scrolls: writing goes on below the last displayed row.
* *printk.*  Up to the limit of its buffer, output is exactly what the format stands for
  (`WritesTheText`, `LosesNothing`), against a definition by positions rather than
  by a scan.  The limit is tested per iteration, so a long `%s` passes it; a
  trailing `%` reads past the format.
  Both hold for the two together: what a format stands for is what text memory then shows.
* *VBE.*  After any number of mode settings the display has the size and depth of the last one.  At 32 bits a
  pixel it shows each pixel of the back buffer where it was drawn; at any other depth the driver still copies four bytes a
  pixel, and every pixel but the first is looked for elsewhere (`ScreenShowsBuffer`).  Bitmaps and text that start left of or above the screen wrap to the right
  place (`BitmapPlaced`, `TextPlaced`); a scroll keeps each row that has a place to go, and moves
  by the remainder only if the product of lines and font height passes 32 bits (`RowsMoveUp`).
* *ATA.*  One sector is read and written correctly on any drive, whatever the call before
  left unfinished (`ReadsRight`, `WritesLand`).  Several are on a fast drive only: the
  driver waits once for all of them.  A slow drive gives garbage for later sectors of a
  read and, from three sectors up, may store one sector's words in another's place (the
  reason the promise of `Disk` ends at `good`).  With that, the calls are those of an abstract disk
  (`ImplementsDisk`), whatever was cut short before.  A call on a missing drive
  or one that refuses the command waits for ever for DRQ, and never anywhere else
  (`CallsReturn`).

* *FAT32.*  A mount that succeeds leaves boot sector and geometry of one volume, and its drive unless that lies behind
  `bs`: then it is a byte of boot code, and nothing sets it again (`MountedTogether`).  A later mount that fails replaces `bs`
  and the drive (`DriveAskedFor`) beside the geometry of the volume before, of which it destroys exactly what lies behind `bs`
  (`KeepsAccepted`).  Clusters of a valid volume lie in
  its data area, disjoint, for all the arithmetic that wraps (`ClustersInVolume`).
* *NVMe.*  `nvme_read` returns before its command is completed, indeed before it is fetched
  (`nvme_waits`): the completion entry never gets the 0xFFFF the loop waits to see change, and the
  doorbell is written at byte 0x4000 instead of 0x1000.  Without a controller each read
  returns true.

### Why the bounds are enough

`scheduler`: with three slots and four tasks the table fills, wraps and refuses; a function with
a local and one without, two calls in each, and room for two frames below the running one are the least with which a saved frame
is resumed, lies untouched below others, is overwritten by the frame of another call site, and lies across a local of another.
No task and no call site is told from another, which makes their symmetry sound.  The theorems below remove this
bound.  `kernel`: a timer, a keyboard and a clock, on the master and through the
cascade; masks with each of them open and closed; one boot is finite.  `isr_stub`: interrupted code
is the same at each place, two tell a kept register from a lost one.  `console`: rows of
three columns are filled exactly, overrun and cut short by strings of the run and by printk; on a fresh
screen every format of three characters, which holds `%%s` and a cut-off directive, and
`%s%s`, `a%%a`, `aaaa`; the buffer of five is filled by a letter and an argument, by two arguments and
exactly.  `Common` bounds the formats used after other writing to a directive and a line end, since
`printk` does not look at the screen.  `vbe`: two rows and columns
tell a row's stride from its width, the largest coordinate is one pixel left of or above the
screen; of the scrolls two products reach the modulus, one with the remainder 0.  `ata`: three sectors of two words are the least with which a slow drive
misses words and completes a sector with a later one's.
`fat32`: two volumes of different geometry, one whose FATs wrap and a foreign sector are what a mount can
tell apart; a volume that ends just below the modulus shows the wrap of the cluster address.

### Fairness

`Kernel`: the processor keeps executing and takes a request that stays pending while its
flag allows, and the timer is periodic hardware: `WF` of `Execute`, `Interrupt`,
`Raise(Timer)`.  `Printk`: the processor runs the loop.  `Ata`: the processor runs the driver, which
polls without a timeout, and a drive is not busy for ever; a drive that stays so would hang it.  The
other modules state no liveness, and clients are never assumed to call anything.

`CHECK_DEADLOCK FALSE` is set throughout: a jump to 0, a fault, a shutdown or `"lost"` ends
a behaviour, `MaxRows` stops the console, and clients may stop calling.

## Proofs

### Scheduler

`SchedulerProofs` proves, for every table size, set of tasks, set of functions with frames of any sizes and any data in
them, and size of the stacks:

| theorem | statement |
|---|---|
| `Invariant` | `Spec => []IInv` |
| `TypeCorrect`, `SlotTableSafe`, `NothingRunsOnTaskStacks` | the invariants the runs check, from `IInv` |
| `ResumesKept` | `Spec => ResumesKeptContext` |
| `RefinesRoundRobin` | `Spec => TakesTurns`: the table implements `RoundRobin` |

Assumed: `ConstantsAssumption`, that the table has a slot, that frames have sizes, that data are words, that the boot code is not
a task and that address 0 is no address of code or stack.

The argument.  That nothing runs on a task's stack depends on the words a creation left there: `SlotStacks` adds that every slot
in use either still points at a task's own stack as it was prepared (`EntryWordsIntact`, in particular the 0 the switch returns to)
or into the boot stack.  Nothing more can be said of the latter in general, and nothing more is needed: whatever such a switch pops, it
stays on the boot stack (`SavedContext`, `ScheduleKeeps`).  `KeptFrames` says more of frames no call was made from below: return address
and `ebp` are those of the context that was saved.  `PushedSetsUp` is what a call writes, and `StillKeptFrames` that it leaves every
frame at or below the running `esp` alone; the cases in which `kept` forgets a slot are exactly the others.
One lemma per action follows (`CallKeeps`, `ReturnKeeps`, `CreateKeeps`, `RefusedKeeps`, `ScheduleKeeps`).
`ResumesKept` follows from `KeptFrames` in the state after the save.

The refinement maps the table to the line that starts at `current` and wraps at
`total`.  `NextSlotWraps` replaces the `%` of the source by the wrap; `CreateAdmits`
shows that a creation admits the next id behind the last one, wherever `current` stands, and
`ScheduleSwitches` that a switch rotates the line.  All other steps stutter.

### FAT32

`Fat32Proofs` proves, for any drives, any boot sectors with numbers of 32 bits and any layout of the variables
behind `bs`:

| theorem | statement |
|---|---|
| `MountInvariant` | `Spec => []Mount` |
| `KeepsAcceptedSafe`, `MountedTogetherSafe`, `DriveSafe` | the invariants of the mount, from `Mount` |
| `TypeCorrect` | `Spec => []TypeOK` |
| `ClustersSafe` | `Spec => []ClustersInVolume` |

Assumed: `Fat32Assumption`, that sector numbers wrap at some positive `Modulus`, that drives are
bytes and that the numbers of a boot sector fit below `Modulus`.

The argument.  `MountedTogether` is not inductive: between the two steps of a mount nothing in it says that
`current_drive` is still the drive the request names, nor that an earlier success is no longer reported.  `Pending` says
both; `Mount` is the conjunction with the three invariants.  They are unconditional: of a variable behind `bs` they say
that it holds the boot code, and when.  Requests of other clients keep it because the disk takes one request at a
time (`WritesKeep`).  `ClustersSafe` also needs `Sectors`, that whatever sector 0 holds or is about to hold
is a boot sector with numbers below `Modulus`.  The FATs of a valid volume then end before `Modulus`, so the sum in
`fat32_init` does not wrap (for volumes that are not valid it may, and `MountedTogether` says so);
`Quotient` bounds the last cluster by the division that counts them, and `Multiples` orders the products of two
clusters, so that neither the address wraps (`Placement`) nor two ranges meet.

`TypeCorrect` follows from `Widths`, which is inductive together with `Sectors`: the kinds of `bs`, of the geometry and of the
drive, that a success names a drive, and that a request answers with one sector at most.  What a read lays over other variables comes from a boot sector
and leaves each a number of its width.

### Interrupts

`KernelProofs` proves, for any devices, any masks of the firmware and interrupts between any two
instructions:

| theorem | statement |
|---|---|
| `KernelIsInvariant` | `Spec => [](S!IInv /\ KernelInvariant)` |
| `KernelIsAClient` | `Spec => S!Spec`: `kernel_main` drives the scheduler as a client may |
| `TypeCorrect`, `MasksSurvive`, `EnabledOnlyRemapped` | the invariants the runs check |
| `AcceptsAsProgrammed` | `Spec => AcceptedAsProgrammed` |

`IsrStubProofs` proves, for any devices and any interrupted code:

| theorem | statement |
|---|---|
| `StubIsInvariant` | `Spec => []StubInvariant` |
| `TypeCorrect`, `ServiceEnds`, `ErrorCodeRestores` | the invariants the runs check |
| `ReturnsWithErrorCode`, `LostWithoutErrorCode` | with an error code `iret` resumes what was interrupted; without one it never returns |

Assumed: `KernelAssumption`, that no device sits on the cascade, that masks are bytes and that the table has room for
both tasks, with what `Scheduler` assumes of its constants; `StubAssumption`, likewise, and that no flags word is the code selector
(`0x08`: bit 1 of the flags is always set).

The argument.  The kernel's properties speak of the moments when no remap is going on.  `InSequence` says for every access
within one how far each chip has come (`Stage`): which word it expects next, whether its base is new, and that its mask is the
firmware's or saved in a local.  Its statement is the same for both chips, the slave one access behind, so that each lemma
is proved once; `Program` and `NextStage` read the accesses off `kernel_main`.  `Raise` and `Interrupt` disturb no more than requests
and service, as `Pic8259Proofs` says of the operations of a chip (`LatchedChip`, `AcknowledgedChip`), in whatever state of its initialisation.
For `IsrStub` the invariant is the stack at each instruction, word by word (`Stacked`), which registers are still the interrupted code's
(`Kept`), and that the line in service goes with the two end-of-interrupts (`Served`).  `Cascaded`, that the master's line 2 requests
only for a slave that still does, is needed to know that an acknowledge finds a line on the slave; it is why both controllers appear.
`LostWithoutErrorCode` makes of the trace of `isr_return` a fact about every interrupt.

### ATA

`AtaProofs` proves, for sectors of any size, any addresses, counts and bad sectors, and any pair of drives:

| theorem | statement |
|---|---|
| `BusIsInvariant` | `Spec => []BusInvariant` |
| `TypeCorrect`, `ReadsAreRight`, `WritesAreStored`, `IdentifyIsRight` | the invariants the runs check |
| `BusImplementsDisk` | `Spec => ImplementsDisk`: driver and drives implement `Disk` |

Assumed: `AtaAssumption`, that sectors have words, that `ata_identify_t` is no longer than a sector and that a count is below
`MaxCount`, which 0 stands for.

The argument.  Driver and drive each keep a place in the transfer, the words moved and the sectors left, and only while they agree are the data right.
`Reading` and `Writing` relate the two, at each of the driver's steps: the sound sectors behind the place are done, the current one is as far as
the words moved, and a sector that is offered or committed in between is the one the words belong to.  On a slow drive they hold for the first
sector only (`Sound`), after which the driver moves words the drive is not ready for.  `Flushing` is the end of a write: a flush that a busy drive ignored leaves
one sector to commit, which the last wait of the driver waits for.  `Working` and `Called` bound what a drive may be at on its own and while a call runs, so that a
new command always finds it ready or its transfer given up.  One lemma per action follows (`WordIsRead`, `ReadingGoesOn`, `WritingGoesOn`, `CommitKeeps`, ...).
The refinement needs the same facts: a commit is `Disk`'s write of one sector at its own place (`CommitStores`), a return is
its answer (`ReturnAnswers`), all other steps stutter (`QuietInCall`, `QuietOutside`).

### VBE

`VbeProofs` proves, for any modes, depths, coordinates, bitmaps, fonts and texts that fit 32 bits, and scrolls by any number of
lines, whether or not the product with the font's height fits:

| theorem | statement |
|---|---|
| `VbeIsInvariant` | `Spec => []VbeInvariant` |
| `TypeCorrect`, `RowsMove`, `ScreenShows`, `BlendsBetween` | the invariants the runs check |
| `BitmapIsPlaced`, `TextIsPlaced` | the loops of `vbe_draw_bitmap`, `vbe_draw_char` and `vbe_draw_string` against the geometry |

The argument.  A loop is a recursive function, and what it computes is proved by induction on its passes.  `Iterates` shows that a function with the
recursion's equation exists, so that the loop has a value after every pass; `SetInduction`, from the well-foundedness of the natural
numbers, is induction over a set of them.  (The library's induction theorems take an operator and cannot be used; a set can be given by comprehension.)
For the loops over a picture the invariant is that of pass `k`: the places of the first `k` pixels are drawn, each once, the others as they were
(`PassAt`).  `RowAndColumn` and `OnePlace` turn passes into rows and columns; `Wraps` turns a sum that wraps into the distance `Offset`,
the step where bitmaps left of the screen come out right.  For text, `CursorWalks` shows that the cursor stands at the column and row `TextColumn` and `TextRow` give by position
(`ColumnOf`, `RowOf`: the count of line ends, the distance to the last), and `OneCell` that no two characters have the same cell,
so that each place is drawn at most once; `CharAt` is a character's cell, taken from the loops over its glyph.  `Average` is the arithmetic of a blend with its rounding.

### The console and printk

`PrintkProofs` proves, for screens of any size, any strings, formats and arguments and any size of the buffer:

| theorem | statement |
|---|---|
| `Inductive` | `Spec => []PrintkInvariant` |
| `TypeCorrect` | `Spec => []TypeOK`, with the bound on the buffer |
| `NothingAhead`, `TextShown` | what `vga_write_string` and `vga_init` leave in text memory, the attribute of each code included |
| `TextWritten`, `NothingLost` | what `printk` makes of a format |

Assumed: `VgaAssumption`, that the screen has rows and columns, that colours are 0 to 15 and that strings hold no 0;
`PrintkAssumption`, likewise for formats and arguments, that the buffer has a place and that `%` and `s` are different.
A client that passes fewer arguments than a format has `%s`, or starts a call where the buffer does not fit the rest of the `MaxRows` rows,
is outside the model (the guard of `Call`); `MaxRows` may be any number.

The argument.  `PrintkInvariant` has three parts.  `ConsoleInvariant` is kept by every call of the console as a whole.  Within
`vga_write_string` it holds after each character with the visible characters so far in place of the string (`Shown`): `PutReads` shows that one
character changes the word at the cursor and nothing else, that what follows stays blank, and, by `WithoutOneMore`, that text memory then reads with that character
at its end; a line end only moves the cursor on.  `Kinds` gives the rows a call may need and the bound on the buffer: the test
before an iteration leaves a place for a character, and an argument that goes further ends in `"lost"`.  `Progress` says
that a running call is between two directives: some `p` characters of the format are read, `fmt` and `args` are what is
left behind them, and the buffer is the text of the first `p`.  `TextWritten` alone is not inductive, since it says
nothing of what is left.  `Directive`, the parity of a run of `%`, obeys the recursion the loop follows
(`DirectiveIs`, from the one run that ends at a place); `StringsAre` counts the arguments asked for, `FlattenOneMore` puts one part of the text
behind the others.  A format cut off in the middle of a directive is excluded by both properties, as in the run.

### What is only model-checked

Liveness (`TickEndsHalt`, `Returns`, `CallsReturn`), since the prover handles neither fairness nor `ENABLED`.
Every invariant and every other action property of the passing runs is a theorem.  The runs that find violations show
behaviours, which need no proof.

## Not modelled

* `pic_send_eoi`, `ata_init`, `ata_delay`, `timer_handler`, `scheduler_set_priority`:
  never called or without effect on any state modelled.
* `vbe_swap_buffers` as an action: what an earlier swap left in display memory is not remembered.
* `fat32_open`: the file ends in the middle of it.  `fat32_read`, `fat32_close`, `nvme_identify`, `nvme_write`
  are declared and never defined.
* Boot header, linker script, build and packaging scripts, images, `encode.py`: no state
  at run time.

## Plan

The invariants and action properties of every passing run are proved.  What would add to them:

1. A theorem behind each violation, as `LostWithoutErrorCode` is behind `isr_return`: that the frame of the boot code always replaces
   the first task's entry, that a created task is always entered at address 0, that no command of `nvme_read` is ever fetched.
2. Facts of `vbe.c` that no run states: `vbe_draw_pixel` outside the screen changes nothing, clearing is one colour in every mode.
