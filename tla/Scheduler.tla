------------------------------ MODULE Scheduler ------------------------------
(***************************************************************************)
(* drivers/x64/Interrupt/scheduler.c: the task table, the round-robin      *)
(* switch and the stacks it moves between, driven by any client code that  *)
(* calls scheduler_create_task, scheduler_start and scheduler_yield.       *)
(*                                                                         *)
(* Memory is what the switch reads and writes: the boot code and each task *)
(* have a stack of words; << s, n >> is the address of stack s after n     *)
(* pushes.  Client code is made of functions, each with a frame of its own *)
(* size; << f, s >> is the code of f after its call s, << f, Entry >> the  *)
(* start of f.  A call pushes the return address, the callee saves ebp and *)
(* takes room for its locals and the arguments it passes on, which may     *)
(* hold any data, addresses of code included, or what lay there before.    *)
(* Nothing below esp survives a call, and nothing tells the processor what *)
(* a word it pops was: schedule() trusts the address it saved.             *)
(*                                                                         *)
(* The inline assembly of schedule() changes esp behind the compiler's     *)
(* back, which C leaves undefined.  gcc -m32 -O2 (scripts/compile.sh)      *)
(* inlines it: scheduler_yield then leaves by "pop %ebp; ret", from the    *)
(* new esp, and scheduler_start, which has a frame to release, by          *)
(* "leave; ret", which takes esp back from ebp and undoes the switch.      *)
(* Init chooses between that build and one in which scheduler_start leaves *)
(* as scheduler_yield does.                                                *)
(*                                                                         *)
(* scheduler_start's calls of register_interrupt_handler (which keeps      *)
(* nothing) and init_interrupts only use the stack.  No interrupt handler  *)
(* runs on it: nothing loads a descriptor table (module Kernel).           *)
(*                                                                         *)
(* A definition F_Something, before F, is F with a plausible mistake; runs *)
(* with F replaced by it violate the property PROJECT.json names.          *)
(***************************************************************************)
EXTENDS Integers

CONSTANTS
    MAX_TASKS,   \* the capacity of the task table
    Tasks,       \* the tasks clients may create, each with its own stack
    Boot,        \* the context kernel_main runs in
    Functions,   \* the functions of the client code
    Main,        \* kernel_main, the one the boot code calls
    Sites,       \* the calls a function makes
    Entry,       \* no call: the start of a function
    Locals,      \* words of each function's frame besides return address and ebp
    KernelLocals, \* the same of scheduler_create_task and scheduler_start
    Values,      \* words that clients put in their locals
    Stale,       \* locals that were never written
    NULL,        \* address 0
    MaxStack     \* bound: the words client code keeps on a stack

Stacks  == Tasks \cup {Boot}
Height  == MaxStack + 3
Address == Stacks \X (0..Height)
Code    == (Functions \cup Tasks) \X (Sites \cup {Entry})
Word    == Address \cup Code \cup {NULL}

ASSUME ConstantsAssumption ==
    /\ MAX_TASKS \in Nat \ {0}
    /\ MaxStack \in Nat /\ KernelLocals \in Nat
    /\ Main \in Functions
    /\ Locals \in [Functions \cup Tasks -> Nat]
    /\ Values \subseteq Word
    /\ Boot \notin Tasks
    /\ NULL \notin Address \cup Code
    /\ NULL \notin Int

VARIABLES
    tasks,     \* the TCBs: the stack pointer each slot was left with
    current,
    total,
    pid,       \* what scheduler_create_task returned to the client, or NULL
    mem,       \* the words of every stack
    esp, ebp, eip,
    fault,     \* what stopped the processor, if anything did
    startExit, \* the register scheduler_start's epilogue takes esp from
    kept       \* history: the context saved in a slot whose frame nothing
               \* was written over since, or NULL

table    == << tasks, current, total, pid >>
machine  == << mem, esp, ebp, eip, fault >>
vars     == << table, machine, startExit, kept >>

Slots   == 0..(MAX_TASKS - 1)
Context == [eip : Word, ebp : Word, esp : Address]

-----------------------------------------------------------------------------
(* The processor and the calling convention.                               *)

\* The processor executes client code; wherever it jumped to otherwise, no
\* claim is made of what it does.
Running ==
    /\ fault = "none"
    /\ eip \in Code

\* The frame of a function called now.
Frame_OneLocalTooFar == << esp[1], esp[2] + 3 >>
Frame == << esp[1], esp[2] + 2 >>

\* Memory once call s has pushed its return address and the callee has saved
\* ebp and put w in its n other words.
Pushed(s, n, w) ==
    [mem EXCEPT ![esp[1]] =
        [k \in 1..Height |->
            IF k = esp[2] + 1 THEN << eip[1], s >>
            ELSE IF k = esp[2] + 2 THEN ebp
            ELSE IF k \in (esp[2] + 3)..(esp[2] + 2 + n) /\ w # Stale THEN w
            ELSE mem[esp[1]][k]]]

\* The slots whose frames lie clear of what a call now writes.
StillKept == [i \in Slots |-> IF tasks[i] # NULL /\ tasks[i][2] <= esp[2]
                                 THEN kept[i] ELSE NULL]

\* "pop %ebp; ret" with esp = sp.
PopAndReturn_KeepsWord(sp, memory) ==
    /\ ebp' = memory[sp[1]][sp[2]]
    /\ eip' = memory[sp[1]][sp[2] - 1]
    /\ esp' = << sp[1], sp[2] - 1 >>
PopAndReturn(sp, memory) ==
    /\ ebp' = memory[sp[1]][sp[2]]
    /\ eip' = memory[sp[1]][sp[2] - 1]
    /\ esp' = << sp[1], sp[2] - 2 >>

\* Client code calls f, one of its own functions.
Call(f, s) ==
    /\ Running
    /\ esp[2] + 2 + Locals[f] <= MaxStack
    /\ \E w \in Values \cup {Stale} : mem' = Pushed(s, Locals[f], w)
    /\ kept' = StillKept
    /\ ebp' = Frame
    /\ esp' = << esp[1], esp[2] + 2 + Locals[f] >>
    /\ eip' = << f, Entry >>
    /\ UNCHANGED << table, fault, startExit >>

\* A client function releases its locals and returns.  kernel_main never
\* does; what lies below the bottom of a stack is not modelled.
Return ==
    /\ Running
    /\ eip[1] # Main
    /\ esp[2] - Locals[eip[1]] >= 2
    /\ PopAndReturn(<< esp[1], esp[2] - Locals[eip[1]] >>, mem)
    /\ UNCHANGED << table, mem, fault, startExit, kept >>

-----------------------------------------------------------------------------
(* scheduler.c                                                             *)

\* The boot code has called kernel_main, whose frame is the bottom of its
\* stack; the stacks are cleared memory.
Init ==
    /\ tasks = [i \in Slots |-> NULL]
    /\ current = 0
    /\ total = 0
    /\ pid = [t \in Tasks |-> NULL]
    /\ mem = [s \in Stacks |-> [n \in 1..Height |-> NULL]]
    /\ esp = << Boot, 0 >>
    /\ ebp = NULL
    /\ eip = << Main, Entry >>
    /\ fault = "none"
    /\ startExit \in {"ebp", "esp"}
    /\ kept = [i \in Slots |-> NULL]

\* The three words pushed on a new stack: arg (main.c passes NULL), 0, f.
EntryWords_ReturnLast(t) == << NULL, << t, Entry >>, NULL >>
EntryWords(t) == << NULL, NULL, << t, Entry >> >>

EntryFrame(t) == << t, 3 >>

TableFull_OneTooMany == total > MAX_TASKS
TableFull == total >= MAX_TASKS

\* tasks[total++]: the slot a new task gets.
NewSlot_PreIncrement == total + 1
NewSlot == total

\* The client goes on behind call s.
ReturnsTo(s) == eip' = << eip[1], s >> /\ UNCHANGED << esp, ebp >>

scheduler_create_task(t, s) ==
    LET called == Pushed(s, KernelLocals, NULL)
    IN  /\ Running
        /\ pid[t] = NULL
        /\ ~TableFull
        /\ mem' = [called EXCEPT ![t] = [n \in 1..Height |->
                       IF n <= 3 THEN EntryWords(t)[n] ELSE called[t][n]]]
        /\ tasks' = [tasks EXCEPT ![NewSlot] = EntryFrame(t)]
        /\ total' = total + 1
        /\ pid' = [pid EXCEPT ![t] = total]
        /\ kept' = StillKept
        /\ ReturnsTo(s)
        /\ UNCHANGED << current, fault, startExit >>

\* The table is full: (uint32_t)-1 and nothing else.
create_task_refused(t, s) ==
    /\ Running
    /\ pid[t] = NULL
    /\ TableFull
    /\ pid' = [pid EXCEPT ![t] = -1]
    /\ mem' = Pushed(s, KernelLocals, NULL)
    /\ kept' = StillKept
    /\ ReturnsTo(s)
    /\ UNCHANGED << tasks, current, total, fault, startExit >>

NextSlot_Backwards == (current + total - 1) % total
NextSlot == (current + 1) % total

\* schedule(), inlined in a function with n words of locals that call s
\* entered and whose epilogue takes esp from the named register.
schedule(s, n, exit) ==
    LET saved  == [tasks EXCEPT ![current] = Frame]
        called == Pushed(s, n, NULL)
    IN  /\ tasks' = saved
        /\ mem' = called
        /\ kept' = [StillKept EXCEPT ![current] =
                       [eip |-> << eip[1], s >>, ebp |-> ebp, esp |-> esp]]
        /\ \/ /\ total = 0
              /\ fault' = "divide error"
              /\ UNCHANGED << current, esp, ebp, eip >>
           \/ /\ total > 0
              /\ current' = NextSlot
              /\ \/ /\ exit = "esp"
                    /\ PopAndReturn(saved[NextSlot], called)
                 \/ /\ exit = "ebp"
                    /\ ReturnsTo(s)
              /\ UNCHANGED fault
        /\ UNCHANGED << total, pid, startExit >>

scheduler_yield(s) == Running /\ schedule(s, 0, "esp")

scheduler_start(s) == Running /\ schedule(s, KernelLocals, startExit)

Next ==
    \/ Return
    \/ \E s \in Sites :
          \/ \E f \in Functions \ {Main} : Call(f, s)
          \/ \E t \in Tasks : scheduler_create_task(t, s) \/ create_task_refused(t, s)
          \/ scheduler_start(s)
          \/ scheduler_yield(s)

Spec == Init /\ [][Next]_vars

-----------------------------------------------------------------------------
(* Properties                                                              *)

\* Every variable holds a value of its kind.
TypeOK ==
    /\ tasks \in [Slots -> (Stacks \X (2..Height)) \cup {NULL}]
    /\ current \in Slots
    /\ total \in 0..MAX_TASKS
    /\ pid \in [Tasks -> {NULL, -1} \cup Slots]
    /\ mem \in [Stacks -> [1..Height -> Word]]
    /\ esp \in Address /\ esp[2] <= MaxStack + 1
    /\ ebp \in Word
    /\ eip \in Word
    /\ fault \in {"none", "divide error"}
    /\ startExit \in {"ebp", "esp"}
    /\ kept \in [Slots -> Context \cup {NULL}]

\* Unless schedule() was called before any task existed, the slots in use are
\* exactly those below total and the current one is among them, so the switch
\* never loads a stack pointer nobody stored.
SlotTable ==
    fault = "none" =>
        /\ current < total \/ (current = 0 /\ total = 0)
        /\ \A i \in Slots : tasks[i] # NULL <=> i < total

\* The words scheduler_create_task left on a task's stack are all there.
EntryWordsIntact(t) == \A n \in 1..3 : mem[t][n] = EntryWords(t)[n]

\* Every slot in use points to the stack of the task whose pid it is, as it
\* was prepared, or into the boot stack: nobody writes a task's stack, and no
\* slot gets that of another task.
SlotStacks ==
    fault = "none" =>
        \A i \in Slots : i < total =>
            \/ \E t \in Tasks :
                  pid[t] = i /\ tasks[i] = EntryFrame(t) /\ EntryWordsIntact(t)
            \/ tasks[i][1] = Boot

\* No code ever executes on a created task's stack: whatever clients do, and
\* whatever code a stale slot makes them resume, the processor gets to such a
\* stack only by the first switch to the task of the current slot, which takes the
\* task's function for ebp and jumps to address 0.
NothingRunsOnTaskStack ==
    esp[1] # Boot =>
        /\ eip = NULL
        /\ \E t \in Tasks :
              pid[t] = current /\ tasks[current] = EntryFrame(t) /\ ebp = << t, Entry >>

\* A frame schedule() saved is on the boot stack and still holds the return
\* address and the ebp of the context it was saved for, as long as no call
\* was made from below it.
KeptFrames ==
    \A i \in Slots : kept[i] # NULL =>
        /\ kept[i].esp[1] = Boot
        /\ tasks[i] = << Boot, kept[i].esp[2] + 2 >>
        /\ mem[Boot][kept[i].esp[2] + 1] = kept[i].eip
        /\ mem[Boot][kept[i].esp[2] + 2] = kept[i].ebp

\* The inductive invariant.
IInv ==
    /\ TypeOK
    /\ SlotTable
    /\ SlotStacks
    /\ NothingRunsOnTaskStack
    /\ KeptFrames

\* The slots take turns as RoundRobin promises.  The line starts at the
\* current slot and wraps from total - 1 to 0.
Line == [k \in 1..total |-> IF current + k - 1 < total
                              THEN current + k - 1
                              ELSE current + k - 1 - total]

RR == INSTANCE RoundRobin WITH line <- Line

TakesTurns == RR!Spec

\* What schedule() saves in a slot is the context of the task the slot was
\* created for, so that no created task loses its place in the table.
SavesOwnSlot ==
    [][\A t \in Tasks, s \in Sites :
          (pid[t] = current /\ (scheduler_start(s) \/ scheduler_yield(s))) => esp[1] = t]_vars

\* Switching to a task that never ran enters its function, the address
\* scheduler_create_task stored last on the new stack.
FirstSwitchEnters ==
    [][\A t \in Tasks :
          (esp' # esp /\ tasks'[current'] = EntryFrame(t)) => eip' = << t, Entry >>]_vars

\* A switch to a slot whose frame no call was made from below since it was
\* saved goes on behind the very call that saved it, with the stack and the
\* ebp that call was made with, whatever was called, returned from and saved
\* above that frame meanwhile.  With one slot in use that is the yield itself.
ResumesKeptContext ==
    [][\A s \in Sites :
          (/\ scheduler_yield(s) \/ (scheduler_start(s) /\ startExit = "esp")
           /\ fault' = "none"
           /\ kept'[current'] # NULL)
          => /\ eip' = kept'[current'].eip
             /\ ebp' = kept'[current'].ebp
             /\ esp' = kept'[current'].esp]_vars
=============================================================================
