---------------------------- MODULE MCScheduler ----------------------------
(* Scheduler with a table of three slots and four tasks, so that the table *)
(* fills up and refuses, and a client whose functions have frames of       *)
(* different sizes, so that a slot left behind on the stack may come to    *)
(* lie among the locals of another function.                               *)
EXTENDS Scheduler, TLC

CONSTANTS t1, t2, t3, t4, f, g, a, b

MCLocals == [h \in Functions \cup Tasks |-> IF h = g THEN 1 ELSE 0]

MCValues == { NULL }

\* No task and no call site is told from another.
Symmetric == Permutations(Tasks) \cup Permutations(Sites)
=============================================================================
