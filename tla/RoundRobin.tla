----------------------------- MODULE RoundRobin -----------------------------
(***************************************************************************)
(* What a scheduler of the kind of drivers/x64/Interrupt/scheduler.c       *)
(* promises about turns, with none of its tables: the task ids stand in a  *)
(* line whose head has the processor.  A switch sends the head to the      *)
(* back.  An admitted task gets the next id and stands right after the     *)
(* task admitted before it, so ids keep coming round in ascending order.   *)
(***************************************************************************)
EXTENDS Integers, Sequences

VARIABLE line

Init == line = << >>

\* The place of the id admitted last: the largest one stands just before 0.
AfterLast == CHOOSE k \in 1..Len(line) : line[k] = Len(line) - 1

Admit ==
    line' = IF line = << >>
              THEN << 0 >>
              ELSE [k \in 1..(Len(line) + 1) |->
                      IF k <= AfterLast THEN line[k]
                      ELSE IF k = AfterLast + 1 THEN Len(line)
                      ELSE line[k - 1]]

Switch ==
    /\ line # << >>
    /\ line' = Append(Tail(line), Head(line))

Next == Admit \/ Switch

Spec == Init /\ [][Next]_line
=============================================================================
