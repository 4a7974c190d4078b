---------------------------- MODULE Fat32Proofs ----------------------------
(***************************************************************************)
(* Theorems about Fat32, for any drives, boot sectors and layout of the    *)
(* variables: what a mount leaves is of one volume and stays so, and its   *)
(* clusters lie where the volume has room for them.                        *)
(***************************************************************************)
EXTENDS Fat32, TLAPS

\* While a mount waits for its sector, the drive is the one it asked for and
\* no earlier success is still reported.
Pending ==
    (busy /\ request.kind = "read") =>
        current_drive = request.drive /\ current_drive \in 0..255 /\ answer = FALSE

\* The inductive invariant of the mount.
Mount ==
    /\ behind \subseteq {"fat_begin_lba", "data_begin_lba", "sectors_per_cluster", "current_drive"}
    /\ Pending
    /\ KeepsAccepted
    /\ MountedTogether
    /\ DriveAskedFor

\* Before the first mount the geometry is that of a sector of zeros.
LEMMA ZeroGeometry == DataBegin(Zero) = 0
<1>1. Modulus \in Nat \ {0}
  BY Fat32Assumption DEF Fat32Assumption
<1>2. DataBegin(Zero) = (0 + 0 * 0) % Modulus
  BY DEF DataBegin, Zero
<1>3. 0 % Modulus = 0
  BY <1>1
<1> QED BY <1>2, <1>3

\* Nothing is accepted yet and no mount waits.
LEMMA InitMount == Init => Mount
<1> SUFFICES ASSUME Init PROVE Mount
  OBVIOUS
<1>1. /\ bs = Zero /\ volume.sector = Zero /\ answer = FALSE /\ busy = FALSE
      /\ request.kind = "none"
      /\ fat_begin_lba = 0 /\ data_begin_lba = 0 /\ sectors_per_cluster = 0
      /\ behind \subseteq {"fat_begin_lba", "data_begin_lba", "sectors_per_cluster", "current_drive"}
  BY DEF Init, D!Init, Nothing
<1>2. Zero.reserved_sectors = 0 /\ Zero.sectors_per_cluster = 0 /\ Zero.code = 0
  BY DEF Zero
<1>3. KeepsAccepted
  BY <1>1, <1>2, ZeroGeometry DEF KeepsAccepted, Left
<1> QED BY <1>1, <1>3 DEF Mount, Pending, MountedTogether, DriveAskedFor

\* A mount begins: nothing is taken from the disk yet.
LEMMA InitKeeps ==
    ASSUME Mount, NEW drive \in Drives, fat32_init(drive)
    PROVE  Mount'
<1>1. /\ current_drive' = drive /\ answer' = FALSE /\ request'.drive = drive /\ busy'
      /\ UNCHANGED << bs, fat_begin_lba, data_begin_lba, sectors_per_cluster, behind, volume >>
  BY DEF fat32_init, geometry, D!Ask
<1>2. drive \in 0..255
  BY Fat32Assumption DEF Fat32Assumption
<1>3. Pending'
  BY <1>1, <1>2 DEF Pending
<1>4. KeepsAccepted'
  BY <1>1 DEF Mount, KeepsAccepted, Left, DataBegin
<1>5. MountedTogether'
  BY <1>1 DEF MountedTogether
<1>6. DriveAskedFor'
  BY <1>1 DEF DriveAskedFor
<1> QED BY <1>1, <1>3, <1>4, <1>5, <1>6 DEF Mount

\* The sector arrives and is accepted or refused.
LEMMA ArrivalKeeps ==
    ASSUME Mount, init_returns
    PROVE  Mount'
<1> DEFINE sector == reply'[1]
<1>1. /\ busy' = FALSE /\ behind' = behind /\ request' = request
      /\ current_drive = request.drive /\ current_drive \in 0..255 /\ answer = FALSE
      /\ Arrives(sector)
  BY DEF init_returns, D!Answer, Mount, Pending
<1>2. Pending'
  BY <1>1 DEF Pending
<1>3. /\ bs' = sector
      /\ current_drive' = Overwritten("current_drive", current_drive, sector) % 256
  BY <1>1 DEF Arrives
<1>4. current_drive' = IF "current_drive" \in behind THEN sector.code % 256 ELSE request.drive
  <2>1. "current_drive" \in behind => current_drive' = sector.code % 256
    BY <1>3 DEF Overwritten
  <2>2. "current_drive" \notin behind => current_drive' = current_drive % 256
    BY <1>3 DEF Overwritten
  <2>3. current_drive % 256 = current_drive
    BY <1>1
  <2> HIDE DEF sector
  <2> QED BY <1>1, <2>1, <2>2, <2>3
<1>5. DriveAskedFor'
  <2> HIDE DEF sector
  <2> QED BY <1>1, <1>3, <1>4 DEF DriveAskedFor
<1>6. CASE sector.fat32
  <2>1. Accept(sector)
    BY <1>1, <1>6, Zenon DEF Arrives
  <2>2. /\ fat_begin_lba' = sector.reserved_sectors
        /\ sectors_per_cluster' = sector.sectors_per_cluster
        /\ data_begin_lba' = DataBegin(sector)
        /\ volume'.sector = sector /\ volume'.drive = request.drive
    BY <2>1 DEF Accept
  <2>3. DataBegin(volume'.sector) = DataBegin(sector) /\ DataBegin(bs') = DataBegin(sector)
    BY <1>3, <2>2
  <2>4. KeepsAccepted'
    BY <1>3, <1>6, <2>2, <2>3 DEF KeepsAccepted, Left, DataBegin
  <2>5. MountedTogether'
    BY <1>1, <1>3, <1>4, <2>2, <2>3 DEF MountedTogether, DataBegin
  <2> QED BY <1>1, <1>2, <1>5, <2>4, <2>5 DEF Mount
<1>7. CASE ~sector.fat32
  <2>1. Reject(sector)
    BY <1>1, <1>7, Zenon DEF Arrives
  <2>2. /\ fat_begin_lba'
             = IF "fat_begin_lba" \in behind THEN sector.code ELSE fat_begin_lba
        /\ data_begin_lba'
             = IF "data_begin_lba" \in behind THEN sector.code ELSE data_begin_lba
        /\ sectors_per_cluster'
             = IF "sectors_per_cluster" \in behind THEN sector.code ELSE sectors_per_cluster
        /\ answer' = FALSE /\ volume' = volume
    BY <1>1, <2>1 DEF Reject, Overwritten
  <2>3. KeepsAccepted'
    <3> HIDE DEF sector
    <3> QED BY <1>1, <1>3, <1>7, <2>2 DEF Mount, KeepsAccepted, Left, DataBegin
  <2>4. MountedTogether'
    BY <2>2 DEF MountedTogether
  <2> QED BY <1>1, <1>2, <1>5, <2>3, <2>4 DEF Mount
<1> QED BY <1>6, <1>7

\* Writes of other clients touch nothing a mount keeps.
LEMMA WritesKeep ==
    ASSUME Mount,
           \/ \E d \in Drives, s \in BootSectors : ata_write_sectors(d, s)
           \/ write_stores
           \/ write_returns
    PROVE  Mount'
<1>1. UNCHANGED << bs, fat_begin_lba, data_begin_lba, sectors_per_cluster,
                   current_drive, behind, answer, volume >>
  BY DEF ata_write_sectors, write_stores, write_returns, geometry
<1>2. request'.kind = "write"
  BY DEF ata_write_sectors, write_stores, write_returns, D!Store, D!Answer
<1>3. Pending'
  BY <1>2 DEF Pending
<1>4. KeepsAccepted' /\ MountedTogether'
  BY <1>1 DEF Mount, KeepsAccepted, Left, MountedTogether, DataBegin
<1>5. DriveAskedFor'
  BY <1>2 DEF DriveAskedFor
<1> QED BY <1>1, <1>3, <1>4, <1>5 DEF Mount

\* The invariant holds whatever mounts fail and whatever others write.
THEOREM MountInvariant == Spec => []Mount
<1>1. Mount /\ [Next]_vars => Mount'
  <2> SUFFICES ASSUME Mount, [Next]_vars PROVE Mount'
    OBVIOUS
  <2>1. CASE \E d \in Drives : fat32_init(d)
    BY <2>1, InitKeeps
  <2>2. CASE init_returns
    BY <2>2, ArrivalKeeps
  <2>3. CASE \/ \E d \in Drives, s \in BootSectors : ata_write_sectors(d, s)
             \/ write_stores
             \/ write_returns
    BY <2>3, WritesKeep
  <2>4. CASE UNCHANGED vars
    BY <2>4 DEF vars, geometry, disk, Mount, Pending, KeepsAccepted, Left, MountedTogether,
               DriveAskedFor, DataBegin
  <2> QED BY <2>1, <2>2, <2>3, <2>4 DEF Next
<1> QED BY <1>1, InitMount, PTL DEF Spec

\* Failed mounts leave the geometry of the volume accepted last, but for what
\* lies behind bs, which holds the boot code of the refused sector until a volume
\* is accepted again.
THEOREM KeepsAcceptedSafe == Spec => []KeepsAccepted
<1>1. Mount => KeepsAccepted
  BY DEF Mount
<1> QED BY <1>1, MountInvariant, PTL

\* A mount that succeeded leaves boot sector and geometry of one volume, and the
\* drive it was asked for unless that lies behind bs: then a byte of boot code.
THEOREM MountedTogetherSafe == Spec => []MountedTogether
<1>1. Mount => MountedTogether
  BY DEF Mount
<1> QED BY <1>1, MountInvariant, PTL

\* The drive is the one asked for from the first moment of a mount on, whether
\* its sector comes, is refused or never comes.
THEOREM DriveSafe == Spec => []DriveAskedFor
<1>1. Mount => DriveAskedFor
  BY DEF Mount
<1> QED BY <1>1, MountInvariant, PTL

-----------------------------------------------------------------------------
(* Sectors.                                                                *)

\* Sector 0 of every drive is one of the boot sectors, and so is what a write
\* is about to store and what was accepted last.
Sectors ==
    /\ DOMAIN contents = Drives \X {0}
    /\ \A p \in DOMAIN contents : contents[p] \in BootSectors
    /\ busy => request.drive \in Drives /\ request.lba = 0
    /\ request.kind = "write" => request.data[1] \in BootSectors
    /\ answer => volume.sector \in BootSectors

\* Only boot sectors are ever written, so only boot sectors are read.
LEMMA SectorsInvariant == Spec => []Sectors
<1>1. Init => Sectors
  <2> SUFFICES ASSUME Init PROVE Sectors
    OBVIOUS
  <2>1. /\ contents \in [Drives \X {0} -> BootSectors]
        /\ busy = FALSE /\ answer = FALSE /\ request.kind = "none"
    BY DEF Init, D!Init
  <2> QED BY <2>1 DEF Sectors
<1>2. Sectors /\ [Next]_vars => Sectors'
  <2> SUFFICES ASSUME Sectors, [Next]_vars PROVE Sectors'
    OBVIOUS
  <2>1. ASSUME NEW d \in Drives, fat32_init(d) PROVE Sectors'
    BY <2>1 DEF fat32_init, D!Ask, Sectors
  <2>2. CASE init_returns
    <3> DEFINE sector == contents[<< request.drive, 0 >>]
    <3>1. /\ busy /\ request' = request /\ contents' = contents /\ busy' = FALSE
          /\ reply'[1] = sector /\ Arrives(reply'[1]) /\ request.kind = "read"
      BY <2>2 DEF init_returns, D!Answer, D!Place, Sectors
    <3>2. sector \in BootSectors
      BY <3>1 DEF Sectors
    <3>3. answer' => volume'.sector \in BootSectors
      <4>1. CASE reply'[1].fat32
        <5>1. Accept(reply'[1])
          BY <3>1, <4>1, Zenon DEF Arrives
        <5> QED BY <3>1, <3>2, <5>1 DEF Accept
      <4>2. CASE ~reply'[1].fat32
        <5>1. Reject(reply'[1])
          BY <3>1, <4>2, Zenon DEF Arrives
        <5> QED BY <5>1 DEF Reject, Sectors
      <4> QED BY <4>1, <4>2
    <3> QED BY <3>1, <3>3 DEF Sectors
  <2>3. ASSUME NEW d \in Drives, NEW s \in BootSectors, ata_write_sectors(d, s) PROVE Sectors'
    BY <2>3 DEF ata_write_sectors, D!Ask, Sectors
  <2>4. CASE write_stores
    <3>1. /\ contents' = [contents EXCEPT ![D!Place(1)] = request.data[1]]
          /\ request.data[1] \in BootSectors
          /\ request' = request /\ busy' = busy /\ answer' = answer /\ volume' = volume
      BY <2>4 DEF write_stores, D!Store, Sectors
    <3> QED BY <3>1 DEF Sectors
  <2>5. CASE write_returns
    BY <2>5 DEF write_returns, D!Answer, Sectors
  <2>6. CASE UNCHANGED vars
    BY <2>6 DEF vars, disk, Sectors
  <2> QED BY <2>1, <2>2, <2>3, <2>4, <2>5, <2>6 DEF Next
<1> QED BY <1>1, <1>2, PTL DEF Spec

\* What memory behind bs and the wraps of the code leave in each variable.
Widths ==
    /\ bs \in BootSectors \cup {Zero}
    /\ fat_begin_lba \in 0..(Modulus - 1)
    /\ data_begin_lba \in 0..(Modulus - 1)
    /\ sectors_per_cluster \in 0..(Modulus - 1)
    /\ current_drive \in 0..255
    /\ answer => volume.drive \in Drives
    /\ Len(reply) <= 1

\* The numbers of a boot sector fit 32 bits.
LEMMA NumbersFit ==
    ASSUME NEW s \in BootSectors
    PROVE  /\ s.reserved_sectors \in 0..(Modulus - 1)
           /\ s.sectors_per_cluster \in 0..(Modulus - 1)
           /\ s.code \in 0..(Modulus - 1)
           /\ DataBegin(s) \in 0..(Modulus - 1)
<1>1. s \in BootSector /\ Modulus \in Nat \ {0}
  BY Fat32Assumption
<1>2. DOMAIN s = {"fat32", "sectors_per_cluster", "reserved_sectors", "fat_count",
                  "sectors_per_fat", "total_sectors", "code"}
  BY <1>1 DEF BootSector
<1>3. s.reserved_sectors < Modulus /\ s.sectors_per_cluster < Modulus /\ s.code < Modulus
  BY <1>2, Fat32Assumption
<1>4. /\ s.reserved_sectors \in Nat /\ s.sectors_per_cluster \in Nat /\ s.code \in Nat
      /\ s.fat_count \in Nat /\ s.sectors_per_fat \in Nat
  BY <1>1 DEF BootSector
<1>5. DataBegin(s) \in 0..(Modulus - 1)
  <2>1. s.reserved_sectors + s.fat_count * s.sectors_per_fat \in Nat
    <3>1. s.fat_count * s.sectors_per_fat \in Nat
      BY <1>4
    <3> QED BY <1>4, <3>1
  <2> QED BY <1>1, <2>1 DEF DataBegin
<1> QED BY <1>1, <1>3, <1>4, <1>5

\* At the start every variable is zero.
LEMMA InitWidths == Init => Widths
<1> SUFFICES ASSUME Init PROVE Widths
  OBVIOUS
<1>1. Modulus \in Nat \ {0}
  BY Fat32Assumption
<1> QED BY <1>1 DEF Init, D!Init, Widths

\* The sector that arrives leaves a number of its own in every variable it
\* changes, and a mount answers for the drive it asked.
LEMMA ArrivalWidths ==
    ASSUME Widths, Sectors, init_returns
    PROVE  Widths'
<1> DEFINE sector == contents[<< request.drive, 0 >>]
<1>1. /\ busy /\ reply' = << sector >> /\ Arrives(sector)
      /\ request.drive \in Drives /\ sector \in BootSectors
  BY DEF init_returns, D!Answer, D!Place, Sectors
<1>2. /\ bs' = sector
      /\ current_drive' = Overwritten("current_drive", current_drive, sector) % 256
  BY <1>1 DEF Arrives
<1> HIDE DEF sector
<1>3. /\ sector.reserved_sectors \in 0..(Modulus - 1)
      /\ sector.sectors_per_cluster \in 0..(Modulus - 1)
      /\ sector.code \in 0..(Modulus - 1)
      /\ DataBegin(sector) \in 0..(Modulus - 1)
  BY <1>1, NumbersFit
<1>4. Modulus \in Nat \ {0}
  BY Fat32Assumption
<1>5. current_drive' \in 0..255
  <2>1. Overwritten("current_drive", current_drive, sector) \in Nat
    <3>1. sector.code \in Nat /\ current_drive \in Nat
      BY <1>3, <1>4 DEF Widths
    <3> QED BY <3>1 DEF Overwritten
  <2> QED BY <1>2, <2>1
<1>6. /\ fat_begin_lba' \in 0..(Modulus - 1)
      /\ data_begin_lba' \in 0..(Modulus - 1)
      /\ sectors_per_cluster' \in 0..(Modulus - 1)
      /\ answer' => volume'.drive \in Drives
  <2>1. CASE sector.fat32
    <3>1. Accept(sector)
      BY <1>1, <2>1, Zenon DEF Arrives
    <3> QED BY <1>1, <1>3, <3>1 DEF Accept
  <2>2. CASE ~sector.fat32
    <3>1. Reject(sector)
      BY <1>1, <2>2, Zenon DEF Arrives
    <3> QED BY <1>3, <3>1 DEF Reject, Overwritten, Widths
  <2> QED BY <2>1, <2>2
<1>7. Len(reply') <= 1
  BY <1>1
<1> QED BY <1>1, <1>2, <1>5, <1>6, <1>7 DEF Widths

\* Every variable holds a value of its kind, wrapped to its width, also when a
\* sector was read over it.
THEOREM TypeCorrect == Spec => []TypeOK
<1>1. Widths /\ Sectors => TypeOK
  BY DEF Widths, Sectors, TypeOK
<1>2. Widths /\ Sectors /\ [Next]_vars => Widths'
  <2> SUFFICES ASSUME Widths, Sectors, [Next]_vars PROVE Widths'
    OBVIOUS
  <2>1. ASSUME NEW d \in Drives, fat32_init(d) PROVE Widths'
    BY <2>1, Fat32Assumption DEF fat32_init, D!Ask, geometry, Widths
  <2>2. CASE init_returns
    BY <2>2, ArrivalWidths
  <2>3. ASSUME NEW d \in Drives, NEW s \in BootSectors, ata_write_sectors(d, s) PROVE Widths'
    BY <2>3 DEF ata_write_sectors, D!Ask, geometry, Widths
  <2>4. CASE write_stores
    BY <2>4 DEF write_stores, D!Store, geometry, Widths
  <2>5. CASE write_returns
    BY <2>5 DEF write_returns, D!Answer, geometry, Widths
  <2>6. CASE UNCHANGED vars
    BY <2>6 DEF vars, geometry, disk, Widths
  <2> QED BY <2>1, <2>2, <2>3, <2>4, <2>5, <2>6 DEF Next
<1> QED BY <1>1, <1>2, InitWidths, SectorsInvariant, PTL DEF Spec

-----------------------------------------------------------------------------
(* Arithmetic of clusters.                                                 *)

\* A product grows with its factor, and a quotient's product does not pass
\* what was divided.
LEMMA Multiples ==
    ASSUME NEW a \in Nat, NEW b \in Nat, NEW k \in Nat, a <= b
    PROVE  a * k <= b * k /\ a * k \in Nat /\ b * k \in Nat
<1>1. PICK e \in Nat : b = a + e
  <2>1. b - a \in Nat /\ b = a + (b - a)
    OBVIOUS
  <2> QED BY <2>1
<1>2. b * k = a * k + e * k
  BY <1>1
<1>3. e * k \in Nat /\ a * k \in Nat
  BY <1>1
<1> QED BY <1>2, <1>3

\* The same, for a quotient.
LEMMA Quotient ==
    ASSUME NEW x \in Nat, NEW k \in Nat \ {0}
    PROVE  x \div k \in Nat /\ (x \div k) * k <= x
OBVIOUS

\* The clusters of a valid volume whose numbers fit 32 bits, from the sector
\* at which the first begins.
LEMMA Placement ==
    ASSUME NEW E \in Nat, NEW T \in Nat, NEW k \in Nat \ {0}, NEW M \in Nat \ {0},
           E <= T, T < M, NEW c \in 2..(1 + (T - E) \div k)
    PROVE  /\ c - 2 \in Nat
           /\ (c - 2) * k \in Nat
           /\ E + (c - 2) * k + k <= T
           /\ (E + (c - 2) * k) % M = E + (c - 2) * k
<1> DEFINE q == (T - E) \div k
<1>1. T - E \in Nat
  OBVIOUS
<1>2. q \in Nat /\ q * k <= T - E
  BY <1>1, Quotient
<1>3. c \in Int /\ 2 <= c /\ c - 1 <= q
  BY <1>2
<1>4. c - 2 \in Nat /\ c - 1 \in Nat
  BY <1>3
<1>5. (c - 1) * k <= q * k
  <2> HIDE DEF q
  <2> QED BY <1>2, <1>3, <1>4, Multiples
<1>6. (c - 2) * k \in Nat
  <2>1. c - 2 <= c - 1
    BY <1>3
  <2> QED BY <2>1, <1>4, Multiples
<1>7. (c - 1) * k = (c - 2) * k + k
  BY <1>3
<1> DEFINE o == (c - 2) * k
           p == (c - 1) * k
           r == q * k
<1>8. o \in Nat /\ r \in Nat /\ p = o + k /\ p <= r /\ r <= T - E
  BY <1>2, <1>5, <1>6, <1>7
<1> HIDE DEF o, p, r
<1>9. E + o + k <= T
  BY <1>8
<1>10. (E + o) % M = E + o
  <2>1. E + o \in 0..(M - 1)
    BY <1>8, <1>9
  <2> QED BY <2>1
<1> QED BY <1>4, <1>6, <1>9, <1>10 DEF o

\* On a mounted volume clusters lie behind the FATs, end with the volume and
\* do not overlap, whatever the numbers in its boot sector.
THEOREM ClustersSafe == Spec => []ClustersInVolume
<1>1. Mount /\ Sectors => ClustersInVolume
  <2> DEFINE at(x) == cluster_to_lba(x)..(cluster_to_lba(x) + bs.sectors_per_cluster - 1)
  <2> SUFFICES ASSUME Mount, Sectors, answer, Valid(bs), NEW c \in Clusters(bs)
               PROVE  /\ at(c) \subseteq FatsEnd(bs)..(bs.total_sectors - 1)
                      /\ \A d \in Clusters(bs) \ {c} : at(c) \cap at(d) = {}
    BY Zenon DEF ClustersInVolume
  <2> DEFINE E == FatsEnd(bs)
             T == bs.total_sectors
             k == bs.sectors_per_cluster
             Lba(x) == E + (x - 2) * k
  <2>1. bs \in BootSectors /\ bs = volume.sector
    BY DEF Mount, MountedTogether, Sectors
  <2>2. /\ bs.reserved_sectors \in Nat /\ bs.fat_count \in Nat
        /\ bs.sectors_per_fat \in Nat /\ T \in Nat /\ k \in Nat
        /\ T < Modulus
    BY <2>1, Fat32Assumption DEF BootSector
  <2>3. k \in Nat \ {0} /\ E <= T
    BY <2>2 DEF Valid
  <2>4. E \in Nat
    BY <2>2 DEF FatsEnd
  <2>5. /\ data_begin_lba = E % Modulus
        /\ sectors_per_cluster = k
    BY DEF Mount, MountedTogether, DataBegin, FatsEnd
  <2>6. Modulus \in Nat \ {0}
    BY Fat32Assumption
  <2>7. data_begin_lba = E
    <3> HIDE DEF E, T
    <3> QED BY <2>2, <2>3, <2>4, <2>5, <2>6
  <2>8. ASSUME NEW x \in Clusters(bs)
        PROVE  /\ x \in Int /\ x - 2 \in Nat /\ (x - 2) * k \in Nat
               /\ Lba(x) + k <= T
               /\ cluster_to_lba(x) = Lba(x)
    <3>1. x \in 2..(1 + (T - E) \div k)
      BY <2>8 DEF Clusters
    <3>2. cluster_to_lba(x) = Lba(x) % Modulus
      BY <2>5, <2>7 DEF cluster_to_lba
    <3>3. x \in Int
      <4>1. (T - E) \div k \in Int
        <5> HIDE DEF E, T, k
        <5> QED BY <2>2, <2>3, <2>4
      <4> QED BY <3>1, <4>1
    <3> HIDE DEF E, T, k
    <3> QED BY <2>2, <2>3, <2>4, <2>6, <3>1, <3>2, <3>3, Placement
  <2>9. ASSUME NEW x \in Clusters(bs), NEW y \in Clusters(bs), x < y
        PROVE  Lba(x) + k <= Lba(y)
    <3>1. /\ x \in Int /\ y \in Int /\ x - 2 \in Nat /\ y - 2 \in Nat
          /\ x - 1 \in Nat /\ x - 1 <= y - 2
      BY <2>8, <2>9
    <3> HIDE DEF E, T, k
    <3>2. (x - 1) * k <= (y - 2) * k
      BY <2>3, <3>1, Multiples
    <3>3. (x - 1) * k = (x - 2) * k + k
      BY <2>3, <3>1
    <3>4. (x - 2) * k \in Nat /\ (y - 2) * k \in Nat /\ k \in Nat
      BY <2>3, <2>8
    <3> QED BY <2>4, <3>2, <3>3, <3>4
  <2>10. /\ cluster_to_lba(c) = Lba(c) /\ Lba(c) \in Nat
         /\ E <= Lba(c) /\ Lba(c) + k <= T
    BY <2>4, <2>8
  <2>11. at(c) \subseteq E..(T - 1)
    <3> HIDE DEF E, T, Lba
    <3> QED BY <2>2, <2>3, <2>4, <2>10
  <2>12. ASSUME NEW d \in Clusters(bs) \ {c} PROVE at(c) \cap at(d) = {}
    <3>1. d \in Clusters(bs) /\ c \in Int /\ d \in Int /\ (c < d \/ d < c)
      BY <2>8
    <3>2. Lba(c) + k <= Lba(d) \/ Lba(d) + k <= Lba(c)
      BY <2>9, <3>1
    <3>3. cluster_to_lba(d) = Lba(d) /\ Lba(d) \in Nat
      BY <2>4, <2>8, <3>1
    <3> HIDE DEF E, T, Lba
    <3> QED BY <2>3, <2>10, <3>2, <3>3
  <2> QED BY <2>11, <2>12
<1> QED BY <1>1, MountInvariant, SectorsInvariant, PTL
=============================================================================
