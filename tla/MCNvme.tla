------------------------------- MODULE MCNvme -------------------------------
(* Reads of two addresses; a fresh page may hold zeros, ones, or the status  *)
(* word of a completion.                                                     *)
EXTENDS Nvme

MCReads == { [lba |-> l, count |-> 1, buffer |-> "b"] : l \in {0, 1} }
=============================================================================
