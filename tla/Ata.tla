-------------------------------- MODULE Ata --------------------------------
(***************************************************************************)
(* drivers/x64/Storage/ATA/ata.c: the polled commands, status read by      *)
(* status read and word by word, against the drives of the bus, which work *)
(* in between.  A loop that polls is a step that waits for what it polls.  *)
(*                                                                         *)
(* The drives are external: they show BSY at once when given a command,    *)
(* ignore one given while busy, give up a transfer for a new command, and  *)
(* are busy between the sectors of a transfer for as long as they like, or *)
(* never so long that the host sees it (fast).  A sector of 256 words has  *)
(* Words of them here; a count of 0 stands for MaxCount, 256, sectors.     *)
(*                                                                         *)
(* Definitions F_Something are F with a plausible mistake.                 *)
(***************************************************************************)
EXTENDS Integers, Sequences, FiniteSets

CONSTANTS
    Words,
    IdentifyWords,   \* sizeof(ata_identify_t)/2, fewer than Words
    MaxCount,
    Sectors,         \* the addresses of each disk
    Bad,             \* those it cannot read or write
    Counts,          \* the counts clients ask for, 0 among them or not
    Kinds            \* what each of drives 0 and 1 may be

ASSUME AtaAssumption ==
    /\ Words \in Nat \ {0} /\ IdentifyWords \in 1..Words
    /\ MaxCount \in Nat \ {0}
    /\ Sectors \subseteq Nat /\ Bad \subseteq Sectors
    /\ Counts \subseteq 0..(MaxCount - 1)
    /\ Kinds \subseteq [0..1 -> {"disk", "packet", "none"}]

VARIABLES
    at,         \* the driver's next step, "code" when none runs
    op,         \* the call: [kind, drive, lba, count, answer]
    moved,      \* words moved
    buffer,     \* the words read
    selected,   \* the drive the bus registers belong to
    drive,      \* [status, error, command, lba, left, sector] of each drive
    disk,       \* drive and address -> words
    kind, fast  \* the hardware of this run

host  == << op, moved, buffer, selected >>
fixed == << kind, fast >>
vars  == << at, host, drive, disk, fixed >>

Old(d, l) == [w \in 1..Words |-> << "old", d, l, w >>]
New(l)    == [w \in 1..Words |-> << "new", l, w >>]
Identity  == [w \in 1..Words |-> << "identity", w >>]
Garbage   == << "garbage" >>

\* ata_identify_t holds the first words of what the drive tells.
Identified == SubSeq(Identity, 1, IdentifyWords)

Drives == 0..1

Idle == [status |-> "ready", error |-> "none", command |-> "none",
         lba |-> 0, left |-> 0, sector |-> << >>]

Init ==
    /\ at = "code"
    /\ op = [kind |-> "none", drive |-> 0, lba |-> 0, count |-> 0, answer |-> FALSE]
    /\ moved = 0 /\ buffer = << >>
    /\ selected = 0
    /\ drive = [d \in Drives |-> Idle]
    /\ disk = [p \in Drives \X Sectors |-> Old(p[1], p[2])]
    /\ kind \in Kinds
    /\ fast \in BOOLEAN

-----------------------------------------------------------------------------
(* The drives.                                                             *)

Here == drive[selected]

Present == kind[selected] # "none"

BSY == Present /\ Here.status = "busy"
DRQ == Present /\ Here.status = "data"

\* What a drive is after the command register is written.
Accept(d, command, lba, count) ==
    IF d.status = "busy" THEN d
    ELSE [status |-> "busy", error |-> "none", command |-> command, lba |-> lba,
          left |-> IF command = "identify" THEN 1 ELSE IF count = 0 THEN MaxCount ELSE count, sector |-> << >>]

Issue(d, command, lba, count) ==
    drive' = IF kind[d] = "none" THEN drive
             ELSE [drive EXCEPT ![d] = Accept(@, command, lba, count)]

\* A sector is through: the next one, if the command asks for it.
NextSector(d, on) ==
    [d EXCEPT !.status = IF d.left = 1 THEN "ready" ELSE on,
              !.lba = @ + 1, !.left = @ - 1, !.sector = << >>]

\* A busy drive gets on with its command.
Fails(d) ==
    LET c == drive[d].command
    IN  \/ kind[d] = "packet" /\ c # "flush"
        \/ /\ c = "read" \/ (c = "write" /\ drive[d].sector # << >>)
           /\ drive[d].lba \notin Sectors \ Bad

Fail(d) ==
    /\ drive[d].status = "busy" /\ Fails(d)
    /\ \E e \in {"mark", "abort"} :
          drive' = [drive EXCEPT ![d].status = "error", ![d].error = e]
    /\ UNCHANGED << at, host, disk, fixed >>

Offer(d) ==
    /\ drive[d].status = "busy" /\ ~Fails(d)
    /\ drive[d].command # "flush" /\ drive[d].sector = << >>
    /\ drive' = [drive EXCEPT ![d].status = "data",
                              ![d].sector = CASE drive[d].command = "read"     -> disk[<< d, drive[d].lba >>]
                                              [] drive[d].command = "identify" -> Identity
                                              [] OTHER                          -> << >>]
    /\ UNCHANGED << at, host, disk, fixed >>

Commit(d) ==
    /\ drive[d].status = "busy" /\ ~Fails(d)
    /\ drive[d].command = "write" /\ drive[d].sector # << >>
    /\ disk' = [disk EXCEPT ![<< d, drive[d].lba >>] = drive[d].sector]
    /\ drive' = [drive EXCEPT ![d] = NextSector(@, "data")]
    /\ UNCHANGED << at, host, fixed >>

Flush(d) ==
    /\ drive[d].status = "busy" /\ drive[d].command = "flush"
    /\ drive' = [drive EXCEPT ![d].status = "ready"]
    /\ UNCHANGED << at, host, disk, fixed >>

Work(d) == Fail(d) \/ Offer(d) \/ Commit(d) \/ Flush(d)

\* One word of the data register, read or written.
WordOut == DRQ /\ Here.command \in {"read", "identify"}

ReadWord ==
    /\ buffer' = Append(buffer, IF WordOut THEN Head(Here.sector) ELSE Garbage)
    /\ drive' = IF ~WordOut THEN drive
                ELSE [drive EXCEPT ![selected] =
                        IF Len(Here.sector) = 1 THEN NextSector(Here, "busy")
                        ELSE [Here EXCEPT !.sector = Tail(Here.sector)]]

WriteWord(word) ==
    /\ drive' = IF ~(DRQ /\ Here.command = "write") THEN drive
                ELSE [drive EXCEPT ![selected].sector = Append(@, word),
                                   ![selected].status = IF Len(Here.sector) = Words - 1
                                                        THEN "busy" ELSE "data"]
    /\ UNCHANGED buffer

-----------------------------------------------------------------------------
(* The driver.                                                             *)

Call(k, d, l, n) ==
    /\ at = "code"
    /\ at' = "free"
    /\ op' = [kind |-> k, drive |-> d, lba |-> l, count |-> n, answer |-> FALSE]
    /\ moved' = 0 /\ buffer' = << >>
    /\ UNCHANGED << selected, drive, disk, fixed >>

ata_identify == Call("identify", 0, 0, 0) \/ Call("identify", 1, 0, 0)

ata_read_sectors(d, l, n) == Call("read", d, l, n)

ata_write_sectors(d, l, n) == Call("write", d, l, n)

\* ata_wait_bsy before the command: of the drive selected so far.
FirstWait_None == TRUE
FirstWait == ~BSY

Target_Selected == selected
Target == op.drive

\* The drive is selected, the registers and the command are written.
Command ==
    /\ at = "free" /\ FirstWait
    /\ selected' = Target
    /\ Issue(Target, op.kind, op.lba, op.count)
    /\ at' = IF op.kind = "identify" THEN "answer" ELSE "bsy"
    /\ UNCHANGED << op, moved, buffer, disk, fixed >>

Return(answer) ==
    /\ at' = "code"
    /\ op' = [op EXCEPT !.answer = answer]

\* if(inb(ATA_STATUS) == 0) return false
Answer ==
    /\ at = "answer"
    /\ IF Present THEN at' = "bsy" /\ UNCHANGED op ELSE Return(FALSE)
    /\ UNCHANGED << moved, buffer, selected, drive, disk, fixed >>

\* ata_wait_bsy, and in ata_identify a look at bit 0 of the error register.
WaitBsy ==
    /\ at = "bsy" /\ ~BSY
    /\ IF op.kind = "identify" /\ Here.error = "mark" THEN Return(FALSE)
       ELSE at' = "drq" /\ UNCHANGED op
    /\ UNCHANGED << moved, buffer, selected, drive, disk, fixed >>

WaitDrq ==
    /\ at = "drq" /\ DRQ
    /\ at' = "data"
    /\ UNCHANGED << host, drive, disk, fixed >>

\* The words insw or outsw moves, the drive's status notwithstanding.
Length == IF op.kind = "identify" THEN IdentifyWords ELSE Words * op.count

More_Last == moved <= Length
More == moved < Length

Source_SameSector(n) == New(op.lba)[(n % Words) + 1]
Source(n) == New(op.lba + (n \div Words))[(n % Words) + 1]

Move ==
    /\ at = "data" /\ More
    /\ fast => ~BSY
    /\ IF op.kind = "write" THEN WriteWord(Source(moved)) ELSE ReadWord
    /\ moved' = moved + 1
    /\ UNCHANGED << at, op, selected, disk, fixed >>

\* After the last word a write asks for a flush.
Moved ==
    /\ at = "data" /\ moved >= Length
    /\ IF op.kind = "write"
         THEN Issue(selected, "flush", 0, 1) /\ at' = "flush" /\ UNCHANGED op
         ELSE Return(TRUE) /\ UNCHANGED drive
    /\ UNCHANGED << moved, buffer, selected, disk, fixed >>

LastWait_None == TRUE
LastWait_Drq == DRQ
LastWait == ~BSY

Flushed ==
    /\ at = "flush" /\ LastWait
    /\ Return(TRUE)
    /\ UNCHANGED << moved, buffer, selected, drive, disk, fixed >>

Driver == Command \/ Answer \/ WaitBsy \/ WaitDrq \/ Move \/ Moved \/ Flushed

Next ==
    \/ ata_identify
    \/ \E d \in Drives, l \in Sectors, n \in Counts :
          ata_read_sectors(d, l, n) \/ ata_write_sectors(d, l, n)
    \/ Driver
    \/ \E d \in Drives : Work(d)

\* The processor runs the driver, and no drive is busy for ever.
Spec == Init /\ [][Next]_vars /\ WF_vars(Driver) /\ \A d \in Drives : WF_vars(Work(d))

-----------------------------------------------------------------------------
(* Properties.                                                             *)

\* Every variable holds a value of its kind; a drive holds no more than a
\* sector, and the host has moved no more than it was asked to.
TypeOK ==
    /\ at \in {"code", "free", "answer", "bsy", "drq", "data", "flush"}
    /\ selected \in Drives
    /\ \A d \in Drives :
          /\ drive[d].status \in {"ready", "busy", "data", "error"}
          /\ Len(drive[d].sector) <= Words
          /\ drive[d].left \in 0..MaxCount
    /\ at = "data" => moved <= Length
    /\ Len(buffer) = IF op.kind = "write" THEN 0 ELSE moved

Finished(k) == at = "code" /\ op.kind = k

\* The sectors of a call the code can answer for: all on a fast drive, the
\* first on a slow one, in either case before the first bad one.
Sound ==
    {k \in 0..((IF fast THEN op.count ELSE 1) - 1) :
        k < op.count /\ \A j \in 0..k : op.lba + j \in Sectors \ Bad}

\* A read that returns has read them, whatever the calls before it left
\* behind: unread words, an unfinished or refused command, another drive.
ReadsRight ==
    Finished("read") => \A k \in Sound :
        SubSeq(buffer, k * Words + 1, (k + 1) * Words) = disk[<< op.drive, op.lba + k >>]

\* A write that returns has written them, the flush the drive may have
\* ignored notwithstanding.
WritesLand ==
    Finished("write") /\ kind[op.drive] = "disk" => \A k \in Sound :
        disk[<< op.drive, op.lba + k >>] = New(op.lba + k)

\* ata_identify tells a disk from an empty place.
IdentifyTells ==
    Finished("identify") =>
        /\ kind[op.drive] = "none" => ~op.answer
        /\ kind[op.drive] = "disk" => op.answer
        /\ op.answer => buffer = Identified

\* The calls keep the promise of an abstract disk: a read returns what the
\* sectors hold, a write stores each sector it answers for at its own place
\* and changes no other place, and between calls nothing changes at all,
\* whatever commands were cut short before and whatever words were missed.
Request == [kind |-> op.kind, drive |-> op.drive, lba |-> op.lba, count |-> op.count,
            data |-> [k \in 1..op.count |-> New(op.lba + k - 1)]]

Chunk(k) == SubSeq(buffer, (k - 1) * Words + 1, k * Words)
Reply    == IF Finished("read") THEN [k \in 1..op.count |-> Chunk(k)] ELSE << >>

D == INSTANCE Disk WITH
       contents <- disk,
       busy     <- at # "code",
       request  <- Request,
       good     <- Cardinality(Sound),
       reply    <- Reply

ImplementsDisk == D!Spec

\* A call returns, unless its drive is missing or has refused the command:
\* there is no deadlock between a driver and a drive that each wait.
CallsReturn ==
    at # "code" ~> \/ at = "code"
                   \/ at = "drq" /\ (~Present \/ Here.status = "error")

-----------------------------------------------------------------------------
(* Why the properties hold: the invariant of the bus.                      *)

Word ==
    ({"old"} \X Drives \X Sectors \X (1..Words)) \cup ({"new"} \X Nat \X (1..Words))
    \cup ({"identity"} \X (1..Words)) \cup {Garbage}

Typed ==
    /\ op \in [kind : {"none", "identify", "read", "write"}, drive : Drives, lba : Nat,
               count : 0..(MaxCount - 1), answer : BOOLEAN]
    /\ moved \in Nat /\ buffer \in Seq(Word)
    /\ drive \in [Drives -> [status : {"ready", "busy", "data", "error"},
                             error : {"none", "mark", "abort"},
                             command : {"none", "identify", "read", "write", "flush"},
                             lba : Nat, left : 0..MaxCount, sector : Seq(Word)]]
    /\ disk \in [Drives \X Sectors -> [1..Words -> Word]]
    /\ kind \in Kinds /\ fast \in BOOLEAN

\* Only the selected drive works, only a disk has data, and a write is busy
\* either before its first word or with a whole sector.
Working ==
    \A d \in Drives :
        /\ kind[d] = "none" => drive[d] = Idle
        /\ drive[d].status = "busy" => d = selected /\ drive[d].left > 0
        /\ drive[d].status = "busy" =>
              \/ drive[d].sector = << >> /\ drive[d].command # "none"
              \/ Len(drive[d].sector) = Words /\ drive[d].command = "write"
        /\ drive[d].status = "data" =>
              /\ kind[d] = "disk" /\ drive[d].left > 0
              /\ \/ drive[d].command = "write" /\ Len(drive[d].sector) < Words
                 \/ drive[d].command \in {"read", "identify"} /\ drive[d].sector # << >>

\* Between calls no write goes on; during one the drive it is for is selected
\* and has the call's command.
Called ==
    /\ at \in {"code", "free"} => ~(BSY /\ Here.command = "write")
    /\ at \notin {"code", "free"} =>
          /\ selected = op.drive
          /\ Present /\ at # "flush" => Here.command = op.kind
    /\ at # "code" => op.kind # "none"
    /\ at = "answer" => op.kind = "identify"
    /\ at \in {"bsy", "drq", "data"} /\ op.kind = "identify" => Present
    /\ at \in {"data", "flush"} => kind[selected] = "disk"
    /\ at = "flush" => op.kind = "write" /\ moved >= Length
    /\ at \in {"free", "answer", "bsy", "drq"} => moved = 0

\* What a drive still has to do, and how far it is.
Asked == IF op.kind = "identify" THEN 1 ELSE IF op.count = 0 THEN MaxCount ELSE op.count
Index == Here.lba - op.lba

\* The command is accepted and no word is moved: the drive is at the first
\* sector, and refuses it only for a reason.
Begun ==
    at \in {"answer", "bsy", "drq"} /\ Present =>
        /\ Here.lba = op.lba /\ Here.left = Asked
        /\ Here.status \in {"busy", "data", "error"}
        /\ Here.status # "error" => Here.error = "none"
        /\ Here.status = "busy" => Here.sector = << >>
        /\ Here.status = "error" =>
              kind[selected] = "packet" \/ (op.kind = "read" /\ op.lba \notin Sectors \ Bad)
        /\ Here.status = "data" =>
              /\ op.kind = "read" => op.lba \in Sectors \ Bad /\ Here.sector = disk[<< selected, op.lba >>]
              /\ op.kind = "write" => Here.sector = << >>
              /\ op.kind = "identify" => Here.sector = Identity

\* The words of an identification come in order, from a drive that never
\* leaves its one sector before the host does.
Identifying ==
    at = "data" /\ op.kind = "identify" =>
        /\ buffer = SubSeq(Identity, 1, moved)
        /\ moved < Words => Here.status = "data" /\ Here.sector = SubSeq(Identity, moved + 1, Words)

\* A read that has come to sector Index: sound sectors before it are in the
\* buffer, and host and drive agree on the place within it.
Start(k) == k * Words

Got(k) ==
    \A w \in 1..Words :
        Start(k) + w <= moved => buffer[Start(k) + w] = disk[<< op.drive, op.lba + k >>][w]

Reading ==
    at = "data" /\ op.kind = "read" =>
        /\ op.count > 0 => 0 \in Sound
        /\ Index \in 0..Asked /\ Here.left = Asked - Index
        /\ \A k \in Sound :
              /\ Got(k)
              /\ \/ Start(k + 1) <= moved
                 \/ k >= Index /\ Here.status \in {"busy", "data"}
        /\ Index \in Sound =>
              /\ Here.status = "busy" => fast /\ moved = Start(Index)
              /\ Here.status = "data" =>
                    /\ moved + Len(Here.sector) = Start(Index + 1)
                    /\ Here.sector = SubSeq(disk[<< op.drive, Here.lba >>],
                                            Words + 1 - Len(Here.sector), Words)

\* A write that has come to sector Index: sound sectors before it are stored,
\* and host and drive agree on the place within it; a drive that is slow may
\* miss words behind the first sector.
Stored(k) == disk[<< op.drive, op.lba + k >>] = New(op.lba + k)

Writing ==
    at \in {"data", "flush"} /\ op.kind = "write" /\ Here.command = "write" =>
        /\ Index \in 0..Asked /\ Here.left = Asked - Index
        /\ op.count = 0 => Here.sector = << >>
        /\ Here.status = "busy" => Here.sector # << >>
        /\ \A k \in Sound :
              Stored(k) \/ (k >= Index /\ Here.status \in {"busy", "data"})
        /\ Index \in Sound =>
              /\ Here.sector = SubSeq(New(Here.lba), 1, Len(Here.sector))
              /\ Here.status = "data" => moved = Start(Index) + Len(Here.sector)
              /\ Here.status = "busy" /\ fast => moved = Start(Index + 1)

\* A flush that was not ignored follows the last sector.
Flushing ==
    at = "flush" =>
        /\ Here.command \in {"write", "flush"}
        /\ Here.command = "flush" => \A k \in Sound : Stored(k)
        /\ Here.command = "write" => Here.status = "busy" \/ \A k \in Sound : Stored(k)
        /\ Here.command = "write" /\ Here.status = "busy" =>
              \A k \in Sound : Stored(k) \/ k = Index

BusInvariant ==
    /\ TypeOK /\ Typed /\ Working /\ Called /\ Begun
    /\ Identifying /\ Reading /\ Writing /\ Flushing
    /\ ReadsRight /\ WritesLand /\ IdentifyTells
=============================================================================
