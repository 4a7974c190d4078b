------------------------------ MODULE MCFat32 ------------------------------
(* Two drives; a volume of clusters of one sector, one of clusters of three  *)
(* that ends with the numbers of a sector and has sectors left over, one     *)
(* whose FATs wrap, and a sector that is no FAT32 boot sector but has a      *)
(* geometry.                                                                 *)
EXTENDS Fat32

Sector(fat32, cluster, reserved, fats, fat, total, code) ==
    [fat32 |-> fat32, sectors_per_cluster |-> cluster, reserved_sectors |-> reserved,
     fat_count |-> fats, sectors_per_fat |-> fat, total_sectors |-> total, code |-> code]

MCBootSectors ==
    { Sector(TRUE, 1, 2, 2, 3, 13, 9), Sector(TRUE, 3, 1, 1, 2, 31, 0),
      Sector(TRUE, 1, 1, 2, 17, 20, 5), Sector(FALSE, 2, 4, 1, 1, 7, 21) }
=============================================================================
