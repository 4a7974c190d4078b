-------------------------------- MODULE Disk --------------------------------
(***************************************************************************)
(* What the calls of drivers/x64/Storage/ATA/ata.c promise their clients,  *)
(* without the bus, the drives' states and the words: sectors at addresses *)
(* <<drive, lba>>, and one call at a time that asks and is answered.       *)
(*                                                                         *)
(* The promise of a call covers its first "good" sectors: with a drive     *)
(* that is slow, or has a bad sector, fewer than it asked for.             *)
(***************************************************************************)
EXTENDS Integers, Sequences

VARIABLES
    contents,   \* address -> sector
    busy,       \* a call runs
    request,    \* the last call: [kind, drive, lba, count, data]
    good,       \* how many of its first sectors it is answerable for
    reply       \* the sectors a read returned, << >> otherwise

Init == busy = FALSE /\ reply = << >>

Ask ==
    /\ ~busy /\ busy' = TRUE
    /\ good' \in 0..request'.count
    /\ reply' = << >>
    /\ UNCHANGED contents

\* The k-th sector of the call.
Place(k) == << request.drive, request.lba + k - 1 >>

\* A running write stores sectors, each at its own place those it is
\* answerable for, and touches no place it was not asked to write.
Store ==
    /\ busy /\ request.kind = "write"
    /\ DOMAIN contents' = DOMAIN contents
    /\ \A p \in DOMAIN contents : contents'[p] # contents[p] =>
          \E k \in 1..request.count :
              p = Place(k) /\ (k <= good => contents'[p] = request.data[k])
    /\ UNCHANGED << busy, request, good, reply >>

\* A read returns what the sectors hold, a write after they are stored; a
\* read of sectors it is answerable for none of does not return.
Answer ==
    /\ busy /\ busy' = FALSE
    /\ request.kind = "read" =>
          /\ request.count > 0 => good > 0
          /\ Len(reply') = request.count
          /\ \A k \in 1..good : reply'[k] = contents[Place(k)]
    /\ request.kind # "read" => reply' = << >>
    /\ request.kind = "write" =>
          \A k \in 1..good : contents[Place(k)] = request.data[k]
    /\ UNCHANGED << contents, request, good >>

Next == Ask \/ Store \/ Answer

Spec == Init /\ [][Next]_<< contents, busy, request, good, reply >>
=============================================================================
