------------------------------- MODULE Fat32 -------------------------------
(***************************************************************************)
(* drivers/x64/Storage/FS/fat32.c: mounting a volume and finding its       *)
(* clusters, on the abstract disk of module Disk, whose sectors others     *)
(* write between the calls.                                                *)
(*                                                                         *)
(* fat32_init reads a sector of 512 bytes into bs, a structure of 90.  The *)
(* bytes after them land on whatever lies behind bs: the linker decides    *)
(* which of the module's own variables do (behind, chosen by Init); what   *)
(* they get is the boot code of the sector.                                *)
(*                                                                         *)
(* The file ends in the middle of fat32_open.                              *)
(* Definitions F_Something are F with a plausible mistake.                 *)
(***************************************************************************)
EXTENDS Integers, Sequences

CONSTANTS
    Modulus,       \* 2^32
    Drives,
    BootSectors    \* the sectors that may be sector 0 of a drive

\* Of a boot sector: whether fs_type says "FAT32   ", the fields fat32.c reads,
\* total_sectors32, and what the bytes after the structure read as.
BootSector ==
    [fat32 : BOOLEAN, sectors_per_cluster : Nat, reserved_sectors : Nat,
     fat_count : Nat, sectors_per_fat : Nat, total_sectors : Nat, code : Nat]

ASSUME Fat32Assumption ==
    /\ Modulus \in Nat \ {0}
    /\ Drives \subseteq 0..255
    /\ BootSectors \subseteq BootSector
    /\ \A s \in BootSectors : \A field \in DOMAIN s \ {"fat32"} : s[field] < Modulus

VARIABLES
    bs, fat_begin_lba, data_begin_lba, sectors_per_cluster, current_drive,
    behind,       \* the variables that lie behind bs in memory
    answer,       \* what the last fat32_init returned, FALSE while one runs
    volume,       \* history: [drive, sector] of the last volume accepted
    contents, busy, request, good, reply    \* the disk

geometry == << fat_begin_lba, data_begin_lba, sectors_per_cluster >>
disk     == << contents, busy, request, good, reply >>
vars     == << bs, geometry, current_drive, behind, answer, volume, disk >>

D == INSTANCE Disk

\* Statics are zero when the program starts.
Zero == [fat32 |-> FALSE, sectors_per_cluster |-> 0, reserved_sectors |-> 0,
         fat_count |-> 0, sectors_per_fat |-> 0, total_sectors |-> 0, code |-> 0]

Nothing == [drive |-> -1, sector |-> Zero]

Init ==
    /\ bs = Zero
    /\ fat_begin_lba = 0 /\ data_begin_lba = 0 /\ sectors_per_cluster = 0
    /\ current_drive = 0
    /\ behind \in SUBSET {"fat_begin_lba", "data_begin_lba", "sectors_per_cluster", "current_drive"}
    /\ answer = FALSE
    /\ volume = Nothing
    /\ contents \in [Drives \X {0} -> BootSectors]
    /\ request = [kind |-> "none", drive |-> 0, lba |-> 0, count |-> 0, data |-> << >>]
    /\ good = 0
    /\ D!Init

-----------------------------------------------------------------------------
(* fat32.c                                                                 *)

cluster_to_lba_FromZero(cluster) ==
    (data_begin_lba + cluster * sectors_per_cluster) % Modulus
cluster_to_lba(cluster) ==
    (data_begin_lba + (cluster - 2) * sectors_per_cluster) % Modulus

\* fat32_init selects the drive and asks for its first sector, which a
\* missing or failing drive never gives.
fat32_init_KeepsMounted(drive) ==
    /\ current_drive' = IF answer THEN current_drive ELSE drive
    /\ request' = [kind |-> "read", drive |-> drive, lba |-> 0, count |-> 1, data |-> << >>]
    /\ D!Ask
    /\ answer' = FALSE
    /\ UNCHANGED << bs, geometry, behind, volume >>
fat32_init(drive) ==
    /\ current_drive' = drive
    /\ request' = [kind |-> "read", drive |-> drive, lba |-> 0, count |-> 1, data |-> << >>]
    /\ D!Ask
    /\ answer' = FALSE
    /\ UNCHANGED << bs, geometry, behind, volume >>

\* A variable once the sector is in memory.
Overwritten(name, value, sector) == IF name \in behind THEN sector.code ELSE value

DataBegin_NoWrap(sector) ==
    sector.reserved_sectors + sector.fat_count * sector.sectors_per_fat
DataBegin(sector) ==
    (sector.reserved_sectors + sector.fat_count * sector.sectors_per_fat) % Modulus

\* The sector is a FAT32 boot sector: the geometry is taken from it.
Accept(sector) ==
    /\ sectors_per_cluster' = sector.sectors_per_cluster
    /\ fat_begin_lba' = sector.reserved_sectors
    /\ data_begin_lba' = DataBegin(sector)
    /\ answer' = TRUE
    /\ volume' = [drive |-> request.drive, sector |-> sector]

\* It is not: nothing is put back.
Reject(sector) ==
    /\ sectors_per_cluster' = Overwritten("sectors_per_cluster", sectors_per_cluster, sector)
    /\ fat_begin_lba' = Overwritten("fat_begin_lba", fat_begin_lba, sector)
    /\ data_begin_lba' = Overwritten("data_begin_lba", data_begin_lba, sector)
    /\ UNCHANGED << answer, volume >>

Arrives_GeometryFirst(sector) ==
    /\ bs' = sector
    /\ current_drive' = Overwritten("current_drive", current_drive, sector) % 256
    /\ sectors_per_cluster' = sector.sectors_per_cluster
    /\ fat_begin_lba' = sector.reserved_sectors
    /\ data_begin_lba' = DataBegin(sector)
    /\ answer' = sector.fat32
    /\ volume' = IF sector.fat32 THEN [drive |-> request.drive, sector |-> sector] ELSE volume
Arrives(sector) ==
    /\ bs' = sector
    /\ current_drive' = Overwritten("current_drive", current_drive, sector) % 256
    /\ IF sector.fat32 THEN Accept(sector) ELSE Reject(sector)

init_returns ==
    /\ busy /\ request.kind = "read" /\ good = 1
    /\ reply' = << contents[D!Place(1)] >>
    /\ D!Answer
    /\ Arrives(reply'[1])
    /\ UNCHANGED behind

-----------------------------------------------------------------------------
(* Other clients of the disk write its boot sectors.                       *)

ata_write_sectors(drive, sector) ==
    /\ request' = [kind |-> "write", drive |-> drive, lba |-> 0, count |-> 1, data |-> << sector >>]
    /\ D!Ask /\ good' = 1
    /\ UNCHANGED << bs, geometry, current_drive, behind, answer, volume >>

write_stores ==
    /\ request.kind = "write"
    /\ contents' = [contents EXCEPT ![D!Place(1)] = request.data[1]]
    /\ D!Store
    /\ UNCHANGED << bs, geometry, current_drive, behind, answer, volume >>

write_returns ==
    /\ request.kind = "write"
    /\ reply' = << >>
    /\ D!Answer
    /\ UNCHANGED << bs, geometry, current_drive, behind, answer, volume >>

Next ==
    \/ \E d \in Drives : fat32_init(d)
    \/ init_returns
    \/ \E d \in Drives, s \in BootSectors : ata_write_sectors(d, s)
    \/ write_stores
    \/ write_returns

Spec == Init /\ [][Next]_vars

-----------------------------------------------------------------------------
(* Properties.                                                             *)

\* Every variable holds a value of its kind, wrapped to its width.
TypeOK ==
    /\ bs \in BootSectors \cup {Zero}
    /\ \A n \in {fat_begin_lba, data_begin_lba, sectors_per_cluster} : n \in 0..(Modulus - 1)
    /\ current_drive \in 0..255
    /\ answer => volume.drive \in Drives
    /\ \A p \in DOMAIN contents : contents[p] \in BootSectors
    /\ Len(reply) <= 1

\* A number of the geometry that was mounted as value: lost, to the boot code of
\* the refused sector that bs holds, exactly if it lies behind bs.
Left(name, value) == IF name \in behind /\ ~bs.fat32 THEN bs.code ELSE value

\* Through any number of later mounts that fail or never return, and writes
\* of boot sectors by others, bs is the last sector that arrived and the
\* geometry is that of the volume accepted last, except what a refused sector
\* was read over; the next volume accepted puts all of it right.
KeepsAccepted ==
    /\ bs.fat32 => bs = volume.sector
    /\ fat_begin_lba = Left("fat_begin_lba", volume.sector.reserved_sectors)
    /\ data_begin_lba = Left("data_begin_lba", DataBegin(volume.sector))
    /\ sectors_per_cluster = Left("sectors_per_cluster", volume.sector.sectors_per_cluster)

\* Until the next fat32_init, one that succeeded leaves the boot sector and the
\* geometry of one volume, though the sector was read over them, and the drive
\* it was asked for.  A drive that lies behind bs is the exception: nothing sets
\* it again, and it is a byte of the boot code.
MountedTogether ==
    answer =>
        /\ bs = volume.sector
        /\ fat_begin_lba = bs.reserved_sectors
        /\ data_begin_lba = DataBegin(bs)
        /\ sectors_per_cluster = bs.sectors_per_cluster
        /\ current_drive = IF "current_drive" \in behind THEN bs.code % 256 ELSE volume.drive

\* A mount changes the drive before it has read anything: while it waits, for
\* ever if the drive gives no sector, and after a refused sector too, the drive
\* is the one asked for, beside a boot sector and a geometry that may be of
\* another.  Behind bs it is, once a sector came, a byte of that sector.
DriveAskedFor ==
    request.kind = "read" =>
        current_drive = IF ~busy /\ "current_drive" \in behind
                          THEN bs.code % 256 ELSE request.drive

\* What FAT32 asks of a boot sector, and the clusters it then has.
FatsEnd(s) == s.reserved_sectors + s.fat_count * s.sectors_per_fat

Valid(s) ==
    /\ s.fat32 /\ s.sectors_per_cluster > 0
    /\ FatsEnd(s) <= s.total_sectors

Clusters(s) == 2..(1 + (s.total_sectors - FatsEnd(s)) \div s.sectors_per_cluster)

\* On a mounted volume, the clusters of a file never lie in the reserved
\* sectors or the FATs, nor past the end of the volume, and no two share a
\* sector, the subtraction of 2 and the wrap of uint32_t notwithstanding.
ClustersInVolume ==
    answer /\ Valid(bs) =>
        LET at(c) == cluster_to_lba(c)..(cluster_to_lba(c) + bs.sectors_per_cluster - 1)
        IN  \A c \in Clusters(bs) :
              /\ at(c) \subseteq FatsEnd(bs)..(bs.total_sectors - 1)
              /\ \A d \in Clusters(bs) \ {c} : at(c) \cap at(d) = {}
=============================================================================
