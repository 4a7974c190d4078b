------------------------------- MODULE MCAta -------------------------------
(* Drive 0 is a disk of four sectors, the last one bad; drive 1 is missing   *)
(* or a packet device.  Sectors of two words, of which identify reads one;   *)
(* calls of no, one and three sectors, enough for a slow drive to miss words *)
(* and take a later sector's in their place.                                 *)
EXTENDS Ata, TLC

MCKinds == { (0 :> "disk") @@ (1 :> k) : k \in {"none", "packet"} }
=============================================================================
