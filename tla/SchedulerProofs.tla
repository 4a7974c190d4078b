--------------------------- MODULE SchedulerProofs ---------------------------
(***************************************************************************)
(* The inductive invariant of Scheduler, for every table size, every set   *)
(* of tasks, and every client: functions with frames of any size, making   *)
(* any number of calls nested to any depth.                                *)
(***************************************************************************)
EXTENDS Scheduler, Sequences, TLAPS

USE DEF Slots, Stacks, Height, Address, Word, Code, Context

\* The successor of a slot in use is a slot in use: with (current+1)%total
\* the index wraps exactly at the last one.
LEMMA NextSlotWraps ==
    ASSUME total \in Nat, total > 0, current \in 0..(total - 1)
    PROVE  NextSlot = IF current + 1 < total THEN current + 1 ELSE 0
<1>1. CASE current + 1 < total
  BY <1>1 DEF NextSlot
<1>2. CASE current + 1 = total
  BY <1>2 DEF NextSlot
<1> QED BY <1>1, <1>2

\* What memory is once call s of the running code has set up a frame: its
\* two words lie right above esp, and below esp and on the stacks of the
\* tasks nothing has changed.
FrameSetUp(memory, s) ==
    /\ memory \in [Stacks -> [1..Height -> Word]]
    /\ memory[Boot][esp[2] + 1] = << eip[1], s >>
    /\ memory[Boot][esp[2] + 2] = ebp
    /\ \A k \in 1..esp[2] : memory[Boot][k] = mem[Boot][k]
    /\ \A t \in Tasks : memory[t] = mem[t]

\* Code only ever runs on the boot stack, with room for a frame.
LEMMA RunningInBoot ==
    ASSUME IInv, Running
    PROVE  /\ eip \in Code /\ eip # NULL /\ fault = "none"
           /\ esp[2] \in 0..(MaxStack + 1) /\ esp = << Boot, esp[2] >>
           /\ Frame = << Boot, esp[2] + 2 >>
           /\ Frame \in Stacks \X (2..Height) /\ Frame # NULL
<1> USE ConstantsAssumption
<1>1. eip \in Code /\ eip # NULL /\ fault = "none"
  BY DEF Running
<1>2. esp[1] = Boot
  BY <1>1 DEF IInv, NothingRunsOnTaskStack
<1>3. esp \in Stacks \X (0..Height) /\ esp[2] <= MaxStack + 1
  BY DEF IInv, TypeOK
<1>4. esp[2] \in 0..(MaxStack + 1) /\ esp = << Boot, esp[2] >>
  BY <1>2, <1>3
<1>5. Frame = << Boot, esp[2] + 2 >>
  BY <1>2 DEF Frame
<1>6. << Boot, esp[2] + 2 >> \in Stacks \X (2..Height)
  BY <1>4
<1>7. << Boot, esp[2] + 2 >> \in Address
  BY <1>4
<1> QED BY <1>1, <1>4, <1>5, <1>6, <1>7

\* A call sets up the frame of its callee and touches no other stack.
LEMMA PushedSetsUp ==
    ASSUME IInv, Running, NEW s \in Sites, NEW n \in Nat, NEW w \in Word \cup {Stale}
    PROVE  FrameSetUp(Pushed(s, n, w), s)
<1> USE ConstantsAssumption
<1>1. /\ eip \in Code /\ esp[2] \in 0..(MaxStack + 1) /\ esp[1] = Boot
  BY RunningInBoot
<1>2. /\ mem \in [Stacks -> [1..Height -> Word]] /\ ebp \in Word
  BY DEF IInv, TypeOK
<1>3. << eip[1], s >> \in Word
  BY <1>1
<1> DEFINE At(k) == IF k = esp[2] + 1 THEN << eip[1], s >>
                    ELSE IF k = esp[2] + 2 THEN ebp
                    ELSE IF k \in (esp[2] + 3)..(esp[2] + 2 + n) /\ w # Stale THEN w
                    ELSE mem[Boot][k]
           stack == [k \in 1..Height |-> At(k)]
<1>4. Pushed(s, n, w) = [mem EXCEPT ![Boot] = stack]
  BY <1>1 DEF Pushed
<1>5. stack \in [1..Height -> Word]
  <2>1. ASSUME NEW k \in 1..Height PROVE At(k) \in Word
    <3>1. mem[Boot][k] \in Word
      BY <1>2
    <3> HIDE DEF Word
    <3>2. w # Stale => w \in Word
      OBVIOUS
    <3> QED BY <3>1, <3>2, <1>2, <1>3
  <2> HIDE DEF At
  <2> QED BY <2>1
<1>6. /\ stack[esp[2] + 1] = << eip[1], s >>
      /\ stack[esp[2] + 2] = ebp
      /\ \A k \in 1..esp[2] : stack[k] = mem[Boot][k]
  <2>1. /\ esp[2] + 1 \in 1..Height /\ esp[2] + 2 \in 1..Height
        /\ esp[2] + 2 # esp[2] + 1
        /\ \A k \in 1..esp[2] : k \in 1..Height /\ k # esp[2] + 1 /\ k # esp[2] + 2
                               /\ k \notin (esp[2] + 3)..(esp[2] + 2 + n)
    BY <1>1
  <2> QED BY ONLY <2>1
<1>7. /\ Pushed(s, n, w) \in [Stacks -> [1..Height -> Word]]
      /\ Pushed(s, n, w)[Boot] = stack
      /\ \A t \in Tasks : Pushed(s, n, w)[t] = mem[t]
  <2> HIDE DEF stack
  <2> QED BY <1>2, <1>4, <1>5
<1> QED BY <1>6, <1>7 DEF FrameSetUp

\* A call leaves alone the frames below it, which are those it leaves kept.
LEMMA StillKeptFrames ==
    ASSUME IInv, Running, NEW memory, NEW s \in Sites, FrameSetUp(memory, s)
    PROVE  /\ StillKept \in [Slots -> Context \cup {NULL}]
           /\ \A i \in Slots : StillKept[i] # NULL =>
                 /\ StillKept[i].esp[1] = Boot
                 /\ tasks[i] = << Boot, StillKept[i].esp[2] + 2 >>
                 /\ memory[Boot][StillKept[i].esp[2] + 1] = StillKept[i].eip
                 /\ memory[Boot][StillKept[i].esp[2] + 2] = StillKept[i].ebp
<1>1. kept \in [Slots -> Context \cup {NULL}]
  BY DEF IInv, TypeOK
<1>2. StillKept \in [Slots -> Context \cup {NULL}]
  BY <1>1 DEF StillKept
<1>3. ASSUME NEW i \in Slots, StillKept[i] # NULL
      PROVE  /\ StillKept[i].esp[1] = Boot
             /\ tasks[i] = << Boot, StillKept[i].esp[2] + 2 >>
             /\ memory[Boot][StillKept[i].esp[2] + 1] = StillKept[i].eip
             /\ memory[Boot][StillKept[i].esp[2] + 2] = StillKept[i].ebp
  <2>1. StillKept[i] = kept[i] /\ kept[i] # NULL /\ tasks[i][2] <= esp[2]
    BY <1>3 DEF StillKept
  <2>2. /\ kept[i].esp[1] = Boot
        /\ tasks[i] = << Boot, kept[i].esp[2] + 2 >>
        /\ mem[Boot][kept[i].esp[2] + 1] = kept[i].eip
        /\ mem[Boot][kept[i].esp[2] + 2] = kept[i].ebp
    BY <2>1 DEF IInv, KeptFrames
  <2>3. kept[i].esp[2] \in Nat
    <3>1. kept[i] \in Context
      BY <1>1, <2>1
    <3>2. kept[i].esp \in Stacks \X (0..Height)
      BY <3>1
    <3> QED BY <3>2, ConstantsAssumption
  <2>4. esp[2] \in Nat
    BY RunningInBoot, ConstantsAssumption
  <2>5. kept[i].esp[2] + 1 \in 1..esp[2] /\ kept[i].esp[2] + 2 \in 1..esp[2]
    <3>1. tasks[i][2] = kept[i].esp[2] + 2
      BY <2>2
    <3> QED BY <2>1, <2>3, <2>4, <3>1
  <2>6. \A k \in 1..esp[2] : memory[Boot][k] = mem[Boot][k]
    BY DEF FrameSetUp
  <2> QED BY <2>1, <2>2, <2>5, <2>6
<1> QED BY <1>2, <1>3

\* What a call that stores no stack pointer leaves of the invariant.
LEMMA CallKeepsSlots ==
    ASSUME IInv, Running, NEW s \in Sites, FrameSetUp(mem', s),
           kept' = StillKept, UNCHANGED << tasks, total, fault >>,
           \A t \in Tasks, i \in Slots : pid[t] = i => pid'[t] = i
    PROVE  /\ mem' \in [Stacks -> [1..Height -> Word]]
           /\ kept' \in [Slots -> Context \cup {NULL}]
           /\ SlotStacks' /\ KeptFrames'
<1>1. mem' \in [Stacks -> [1..Height -> Word]] /\ \A t \in Tasks : mem'[t] = mem[t]
  BY DEF FrameSetUp
<1>2. kept' \in [Slots -> Context \cup {NULL}] /\ KeptFrames'
  BY StillKeptFrames DEF KeptFrames
<1>3. SlotStacks'
  <2>1. \A t \in Tasks : EntryWordsIntact(t) => EntryWordsIntact(t)'
    BY <1>1 DEF EntryWordsIntact, EntryWords
  <2>2. SlotStacks
    BY DEF IInv
  <2> QED BY <2>1, <2>2 DEF SlotStacks, EntryFrame
<1> QED BY <1>1, <1>2, <1>3

-----------------------------------------------------------------------------
(* The initial states, and one lemma per action.                           *)

\* With no task, an empty table and clean stacks the invariant holds.
LEMMA InitHolds == Init => IInv
<1> USE ConstantsAssumption
<1> SUFFICES ASSUME Init PROVE IInv
  OBVIOUS
<1>1. TypeOK
  <2>1. << Boot, 0 >> \in Address /\ << Main, Entry >> \in Word /\ NULL \in Word
    OBVIOUS
  <2>2. mem \in [Stacks -> [1..Height -> Word]]
    BY <2>1 DEF Init
  <2> QED BY <2>1, <2>2 DEF Init, TypeOK
<1>2. SlotTable /\ SlotStacks
  BY DEF Init, SlotTable, SlotStacks
<1>3. NothingRunsOnTaskStack /\ KeptFrames
  BY DEF Init, NothingRunsOnTaskStack, KeptFrames
<1> QED BY <1>1, <1>2, <1>3 DEF IInv

\* A client call pushes one frame of any size on the boot stack.
LEMMA CallKeeps ==
    ASSUME IInv, NEW f \in Functions, NEW s \in Sites, Call(f, s)
    PROVE  IInv'
<1> USE ConstantsAssumption
<1>1. /\ Running
      /\ esp[2] + 2 + Locals[f] <= MaxStack
      /\ kept' = StillKept
      /\ ebp' = Frame
      /\ esp' = << esp[1], esp[2] + 2 + Locals[f] >>
      /\ eip' = << f, Entry >>
      /\ UNCHANGED << tasks, current, total, pid, fault, startExit >>
  BY DEF Call, table
<1>2. Locals[f] \in Nat
  OBVIOUS
<1>3. FrameSetUp(mem', s)
  <2>1. PICK w \in Values \cup {Stale} : mem' = Pushed(s, Locals[f], w)
    BY DEF Call
  <2>2. w \in Word \cup {Stale}
    BY DEF Word
  <2> QED BY <1>1, <1>2, <2>1, <2>2, PushedSetsUp
<1>4. esp = << Boot, esp[2] >> /\ esp[2] \in 0..(MaxStack + 1) /\ Frame \in Word
  BY <1>1, RunningInBoot
<1>5. esp' \in Address /\ esp'[2] <= MaxStack + 1 /\ esp'[1] = Boot
  BY <1>1, <1>2, <1>4
<1>6. /\ mem' \in [Stacks -> [1..Height -> Word]]
      /\ kept' \in [Slots -> Context \cup {NULL}]
      /\ SlotStacks' /\ KeptFrames'
  BY <1>1, <1>3, CallKeepsSlots
<1>7. eip' \in Word
  BY <1>1
<1>8. TypeOK'
  BY <1>1, <1>4, <1>5, <1>6, <1>7 DEF IInv, TypeOK
<1>9. SlotTable' /\ NothingRunsOnTaskStack'
  BY <1>1, <1>5 DEF IInv, SlotTable, NothingRunsOnTaskStack
<1> QED BY <1>6, <1>8, <1>9 DEF IInv

\* A client return pops whatever lies there and writes nothing.
LEMMA ReturnKeeps == IInv /\ Return => IInv'
<1> USE ConstantsAssumption
<1> SUFFICES ASSUME IInv, Return PROVE IInv'
  OBVIOUS
<1>1. /\ Running
      /\ esp[2] - Locals[eip[1]] >= 2
      /\ PopAndReturn(<< esp[1], esp[2] - Locals[eip[1]] >>, mem)
      /\ UNCHANGED << tasks, current, total, pid, mem, fault, startExit, kept >>
  BY DEF Return, table
<1>2. esp = << Boot, esp[2] >> /\ esp[2] \in 0..(MaxStack + 1) /\ eip \in Code
  BY <1>1, RunningInBoot
<1> DEFINE top == esp[2] - Locals[eip[1]]
<1>3. top \in 2..(MaxStack + 1)
  <2>1. eip[1] \in Functions \cup Tasks
    BY <1>2
  <2>2. Locals[eip[1]] \in Nat
    BY <2>1
  <2> QED BY <1>1, <1>2, <2>2
<1>4. PopAndReturn(<< Boot, top >>, mem)
  BY <1>1, <1>2
<1> HIDE DEF top
<1>5. mem \in [Stacks -> [1..Height -> Word]]
  BY DEF IInv, TypeOK
<1>6. mem[Boot][top] \in Word /\ mem[Boot][top - 1] \in Word
  BY <1>3, <1>5
<1>7. ebp' \in Word /\ eip' \in Word /\ esp' = << Boot, top - 2 >>
  BY <1>4, <1>6 DEF PopAndReturn
<1>8. esp' \in Address /\ esp'[2] <= MaxStack + 1 /\ esp'[1] = Boot
  BY <1>3, <1>7
<1>9. TypeOK'
  BY <1>1, <1>7, <1>8 DEF IInv, TypeOK
<1>10. SlotTable' /\ SlotStacks' /\ KeptFrames'
  <2>1. SlotTable'
    BY <1>1 DEF IInv, SlotTable
  <2>2. SlotStacks'
    BY <1>1 DEF IInv, SlotStacks, EntryWordsIntact, EntryWords, EntryFrame
  <2>3. KeptFrames'
    BY <1>1 DEF IInv, KeptFrames
  <2> QED BY <2>1, <2>2, <2>3
<1>11. NothingRunsOnTaskStack'
  BY <1>8 DEF NothingRunsOnTaskStack
<1> QED BY <1>9, <1>10, <1>11 DEF IInv

\* scheduler_create_task fills the first free slot and the stack of a task
\* no slot refers to yet.
LEMMA CreateKeeps ==
    ASSUME IInv, NEW t \in Tasks, NEW s \in Sites, scheduler_create_task(t, s)
    PROVE  IInv'
<1> USE ConstantsAssumption
<1> DEFINE called == Pushed(s, KernelLocals, NULL)
           words == [n \in 1..Height |-> IF n <= 3 THEN EntryWords(t)[n] ELSE called[t][n]]
<1>1. /\ Running /\ pid[t] = NULL /\ ~TableFull
      /\ mem' = [called EXCEPT ![t] = words]
      /\ tasks' = [tasks EXCEPT ![total] = EntryFrame(t)]
      /\ total' = total + 1
      /\ pid' = [pid EXCEPT ![t] = total]
      /\ kept' = StillKept
      /\ eip' = << eip[1], s >>
      /\ UNCHANGED << current, esp, ebp, fault, startExit >>
  BY DEF scheduler_create_task, NewSlot, ReturnsTo
<1>2. /\ total \in Slots /\ current \in Slots
      /\ tasks \in [Slots -> (Stacks \X (2..Height)) \cup {NULL}]
      /\ pid \in [Tasks -> {NULL, -1} \cup Slots]
  <2>1. TypeOK
    BY DEF IInv
  <2>2. total \in 0..MAX_TASKS /\ MAX_TASKS \in Nat
    BY <2>1 DEF TypeOK
  <2>3. total < MAX_TASKS
    BY <1>1, <2>2 DEF TableFull
  <2>4. total \in Slots
    BY ONLY <2>2, <2>3
  <2> QED BY <2>1, <2>4 DEF TypeOK
<1>3. /\ fault = "none" /\ eip \in Code /\ esp = << Boot, esp[2] >>
      /\ current < total \/ (current = 0 /\ total = 0)
      /\ \A i \in Slots : tasks[i] # NULL <=> i < total
  BY <1>1, RunningInBoot DEF IInv, SlotTable
<1>4. EntryFrame(t) \in Stacks \X (2..Height) /\ EntryFrame(t) # NULL
  <2>1. << t, 3 >> \in Address
    OBVIOUS
  <2> QED BY <2>1 DEF EntryFrame
<1>5. FrameSetUp(called, s)
  <2>1. NULL \in Word \cup {Stale} /\ KernelLocals \in Nat
    OBVIOUS
  <2> QED BY <1>1, <2>1, PushedSetsUp
<1>6. called \in [Stacks -> [1..Height -> Word]] /\ \A u \in Tasks : called[u] = mem[u]
  BY <1>5 DEF FrameSetUp
<1> HIDE DEF called
<1>7. words \in [1..Height -> Word]
  <2>1. /\ EntryWords(t)[1] \in Word /\ EntryWords(t)[2] \in Word
        /\ EntryWords(t)[3] \in Word
    BY DEF EntryWords
  <2>2. called[t] \in [1..Height -> Word]
    BY <1>6
  <2>3. ASSUME NEW n \in 1..Height
        PROVE  (IF n <= 3 THEN EntryWords(t)[n] ELSE called[t][n]) \in Word
    <3>1. CASE n <= 3
      <4>1. n = 1 \/ n = 2 \/ n = 3
        BY <3>1
      <4> QED BY <3>1, <4>1, <2>1
    <3>2. CASE ~(n <= 3)
      BY <3>2, <2>2
    <3> QED BY <3>1, <3>2
  <2> QED BY <2>3
<1>8. \A n \in 1..3 : words[n] = EntryWords(t)[n]
  OBVIOUS
<1> HIDE DEF words
<1>9. /\ mem' \in [Stacks -> [1..Height -> Word]] /\ mem'[t] = words
      /\ \A u \in Tasks : u # t => mem'[u] = mem[u]
      /\ mem'[Boot] = called[Boot]
  BY <1>1, <1>6, <1>7
<1>10. FrameSetUp(called, s) /\ mem'[Boot] = called[Boot]
  BY <1>5, <1>9
<1>11. /\ kept' \in [Slots -> Context \cup {NULL}]
       /\ \A i \in Slots : kept'[i] # NULL =>
             /\ kept'[i].esp[1] = Boot
             /\ tasks[i] = << Boot, kept'[i].esp[2] + 2 >>
             /\ mem'[Boot][kept'[i].esp[2] + 1] = kept'[i].eip
             /\ mem'[Boot][kept'[i].esp[2] + 2] = kept'[i].ebp
  BY <1>1, <1>10, StillKeptFrames
<1>12. KeptFrames'
  <2>1. StillKept[total] = NULL
    BY <1>2, <1>3 DEF StillKept
  <2>2. \A i \in Slots : kept'[i] # NULL => tasks'[i] = tasks[i]
    BY <1>1, <1>2, <2>1
  <2> QED BY <1>11, <2>2 DEF KeptFrames
<1>13. TypeOK'
  <2>1. tasks' \in [Slots -> (Stacks \X (2..Height)) \cup {NULL}]
    BY <1>1, <1>2, <1>4
  <2>2. pid' \in [Tasks -> {NULL, -1} \cup Slots]
    BY <1>1, <1>2
  <2>3. total' \in 0..MAX_TASKS
    BY <1>1, <1>2
  <2>4. eip' \in Word
    BY <1>1, <1>3
  <2> QED BY <1>1, <1>9, <1>11, <2>1, <2>2, <2>3, <2>4 DEF IInv, TypeOK
<1>14. SlotTable'
  BY <1>1, <1>2, <1>3, <1>4 DEF SlotTable
<1>15. SlotStacks'
  <2>1. EntryWordsIntact(t)'
    BY <1>8, <1>9 DEF EntryWordsIntact, EntryWords
  <2>2. ASSUME NEW u \in Tasks, u # t, EntryWordsIntact(u)
        PROVE  EntryWordsIntact(u)'
    BY <2>2, <1>9 DEF EntryWordsIntact, EntryWords
  <2>3. ASSUME NEW i \in Slots, i < total'
        PROVE  \/ \E u \in Tasks : pid'[u] = i /\ tasks'[i] = EntryFrame(u)
                                   /\ EntryWordsIntact(u)'
               \/ tasks'[i][1] = Boot
    <3>1. CASE i = total
      BY <3>1, <1>1, <1>2, <2>1
    <3>2. CASE i # total
      <4>1. i < total /\ tasks'[i] = tasks[i]
        BY <3>2, <2>3, <1>1, <1>2
      <4>2. \/ \E u \in Tasks : pid[u] = i /\ tasks[i] = EntryFrame(u) /\ EntryWordsIntact(u)
            \/ tasks[i][1] = Boot
        BY <4>1, <1>3 DEF IInv, SlotStacks
      <4>3. CASE tasks[i][1] = Boot
        BY <4>1, <4>3
      <4>4. ASSUME NEW u \in Tasks, pid[u] = i, tasks[i] = EntryFrame(u), EntryWordsIntact(u)
            PROVE  pid'[u] = i /\ tasks'[i] = EntryFrame(u) /\ EntryWordsIntact(u)'
        <5>1. u # t
          BY <4>4, <1>1
        <5> QED BY <4>1, <4>4, <5>1, <2>2, <1>1, <1>2
      <4> QED BY <4>2, <4>3, <4>4
    <3> QED BY <3>1, <3>2
  <2> QED BY <2>3 DEF SlotStacks, EntryFrame
<1>16. NothingRunsOnTaskStack'
  BY <1>1, <1>3 DEF NothingRunsOnTaskStack
<1> QED BY <1>12, <1>13, <1>14, <1>15, <1>16 DEF IInv

\* A refusal hands out the pid -1, which is no slot.
LEMMA RefusedKeeps ==
    ASSUME IInv, NEW t \in Tasks, NEW s \in Sites, create_task_refused(t, s)
    PROVE  IInv'
<1> USE ConstantsAssumption
<1>1. /\ Running /\ pid[t] = NULL
      /\ pid' = [pid EXCEPT ![t] = -1]
      /\ mem' = Pushed(s, KernelLocals, NULL)
      /\ kept' = StillKept
      /\ eip' = << eip[1], s >>
      /\ UNCHANGED << tasks, current, total, esp, ebp, fault, startExit >>
  BY DEF create_task_refused, ReturnsTo
<1>2. FrameSetUp(mem', s)
  <2>1. NULL \in Word \cup {Stale} /\ KernelLocals \in Nat
    OBVIOUS
  <2> QED BY <1>1, <2>1, PushedSetsUp
<1>3. pid \in [Tasks -> {NULL, -1} \cup Slots]
  BY DEF IInv, TypeOK
<1>4. \A u \in Tasks, i \in Slots : pid[u] = i => pid'[u] = i
  BY <1>1, <1>3
<1>5. /\ mem' \in [Stacks -> [1..Height -> Word]]
      /\ kept' \in [Slots -> Context \cup {NULL}]
      /\ SlotStacks' /\ KeptFrames'
  BY <1>1, <1>2, <1>4, CallKeepsSlots
<1>6. eip \in Code /\ esp = << Boot, esp[2] >>
  BY <1>1, RunningInBoot
<1>7. TypeOK'
  <2>1. pid' \in [Tasks -> {NULL, -1} \cup Slots]
    BY <1>1, <1>3
  <2>2. eip' \in Word
    BY <1>1, <1>6
  <2> QED BY <1>1, <1>5, <2>1, <2>2 DEF IInv, TypeOK
<1>8. SlotTable' /\ NothingRunsOnTaskStack'
  BY <1>1, <1>6 DEF IInv, SlotTable, NothingRunsOnTaskStack
<1> QED BY <1>5, <1>7, <1>8 DEF IInv

\* What schedule() stores, whether or not it gets to switch: the frame of the
\* caller in the slot of current, and the words it takes to come back.
LEMMA SavedContext ==
    ASSUME IInv, Running, NEW s \in Sites, NEW n \in Nat,
           tasks' = [tasks EXCEPT ![current] = Frame],
           mem' = Pushed(s, n, NULL),
           kept' = [StillKept EXCEPT ![current] =
                      [eip |-> << eip[1], s >>, ebp |-> ebp, esp |-> esp]]
    PROVE  /\ tasks' \in [Slots -> (Stacks \X (2..Height)) \cup {NULL}]
           /\ mem' \in [Stacks -> [1..Height -> Word]]
           /\ \A t \in Tasks : mem'[t] = mem[t]
           /\ kept' \in [Slots -> Context \cup {NULL}]
           /\ KeptFrames'
<1> USE ConstantsAssumption
<1>1. /\ eip \in Code /\ esp[2] \in 0..(MaxStack + 1) /\ esp = << Boot, esp[2] >>
      /\ Frame = << Boot, esp[2] + 2 >> /\ Frame \in Stacks \X (2..Height)
  BY RunningInBoot
<1>2. /\ tasks \in [Slots -> (Stacks \X (2..Height)) \cup {NULL}]
      /\ current \in Slots /\ ebp \in Word /\ esp \in Address
  BY DEF IInv, TypeOK
<1>3. FrameSetUp(mem', s)
  <2>1. NULL \in Word \cup {Stale}
    OBVIOUS
  <2> QED BY <2>1, PushedSetsUp
<1>4. /\ StillKept \in [Slots -> Context \cup {NULL}]
      /\ \A i \in Slots : StillKept[i] # NULL =>
            /\ StillKept[i].esp[1] = Boot
            /\ tasks[i] = << Boot, StillKept[i].esp[2] + 2 >>
            /\ mem'[Boot][StillKept[i].esp[2] + 1] = StillKept[i].eip
            /\ mem'[Boot][StillKept[i].esp[2] + 2] = StillKept[i].ebp
  BY <1>3, StillKeptFrames
<1> DEFINE context == [eip |-> << eip[1], s >>, ebp |-> ebp, esp |-> esp]
<1>5. context \in Context
  <2>1. << eip[1], s >> \in Word
    BY <1>1
  <2> QED BY <1>2, <2>1
<1>6. context.eip = << eip[1], s >> /\ context.ebp = ebp /\ context.esp = esp
  OBVIOUS
<1>7. kept' = [StillKept EXCEPT ![current] = context]
  OBVIOUS
<1> HIDE DEF context
<1>8. kept' \in [Slots -> Context \cup {NULL}]
  <2> DEFINE C == Context \cup {NULL}
  <2>1. StillKept \in [Slots -> C] /\ context \in C
    BY <1>4, <1>5
  <2> HIDE DEF C
  <2>2. kept' \in [Slots -> C]
    BY <2>1, <1>7
  <2> QED BY <2>2 DEF C
<1>9. ASSUME NEW i \in Slots, kept'[i] # NULL
      PROVE  /\ kept'[i].esp[1] = Boot
             /\ tasks'[i] = << Boot, kept'[i].esp[2] + 2 >>
             /\ mem'[Boot][kept'[i].esp[2] + 1] = kept'[i].eip
             /\ mem'[Boot][kept'[i].esp[2] + 2] = kept'[i].ebp
  <2>1. CASE i = current
    <3>1. kept'[i] = context /\ tasks'[i] = Frame
      BY <2>1, <1>2, <1>4, <1>7
    <3>2. /\ mem'[Boot][esp[2] + 1] = << eip[1], s >>
          /\ mem'[Boot][esp[2] + 2] = ebp
      BY <1>3 DEF FrameSetUp
    <3>3. esp[1] = Boot
      BY <1>1
    <3> QED BY <3>1, <3>2, <3>3, <1>1, <1>6
  <2>2. CASE i # current
    <3>1. kept'[i] = StillKept[i] /\ tasks'[i] = tasks[i]
      BY <2>2, <1>2, <1>4, <1>7
    <3> QED BY <3>1, <1>4, <1>9
  <2> QED BY <2>1, <2>2
<1>10. KeptFrames'
  BY <1>9 DEF KeptFrames
<1>11. tasks' \in [Slots -> (Stacks \X (2..Height)) \cup {NULL}]
  BY <1>1, <1>2
<1> QED BY <1>3, <1>8, <1>10, <1>11 DEF FrameSetUp

\* schedule(), in either build: the frame it saves is on the boot stack, and
\* the frame it pops is one of that stack or the three words of a new task,
\* whose second word sends the processor to address 0.
LEMMA ScheduleKeeps ==
    ASSUME IInv, Running, NEW s \in Sites, NEW n \in Nat, NEW exit \in {"ebp", "esp"},
           schedule(s, n, exit)
    PROVE  IInv'
<1> USE ConstantsAssumption
<1>1. /\ tasks' = [tasks EXCEPT ![current] = Frame]
      /\ mem' = Pushed(s, n, NULL)
      /\ kept' = [StillKept EXCEPT ![current] =
                    [eip |-> << eip[1], s >>, ebp |-> ebp, esp |-> esp]]
      /\ UNCHANGED << total, pid, startExit >>
  BY DEF schedule
<1>2. /\ tasks' \in [Slots -> (Stacks \X (2..Height)) \cup {NULL}]
      /\ mem' \in [Stacks -> [1..Height -> Word]]
      /\ \A t \in Tasks : mem'[t] = mem[t]
      /\ kept' \in [Slots -> Context \cup {NULL}]
      /\ KeptFrames'
  BY <1>1, SavedContext
<1>3. /\ eip \in Code /\ fault = "none" /\ esp = << Boot, esp[2] >>
      /\ Frame = << Boot, esp[2] + 2 >> /\ Frame # NULL
  BY RunningInBoot
<1>4. /\ total \in Nat /\ current \in Nat /\ current \in Slots /\ total <= MAX_TASKS
      /\ tasks \in [Slots -> (Stacks \X (2..Height)) \cup {NULL}]
      /\ current < total \/ (current = 0 /\ total = 0)
      /\ \A i \in Slots : tasks[i] # NULL <=> i < total
  BY <1>3 DEF IInv, TypeOK, SlotTable
<1>5. CASE total = 0
  <2>1. fault' = "divide error" /\ UNCHANGED << current, esp, ebp, eip >>
    <3>1. ~(total > 0)
      BY <1>5
    <3> QED BY <3>1, Zenon DEF schedule
  <2>2. TypeOK'
    BY <1>1, <1>2, <2>1 DEF IInv, TypeOK
  <2>3. SlotTable' /\ SlotStacks'
    BY <2>1 DEF SlotTable, SlotStacks
  <2>4. NothingRunsOnTaskStack'
    <3>1. esp[1] = Boot
      BY <1>3
    <3>2. esp' = esp
      BY ONLY <2>1
    <3>3. esp'[1] = Boot
      BY ONLY <3>1, <3>2
    <3> QED BY <3>3 DEF NothingRunsOnTaskStack
  <2> QED BY <1>2, <2>2, <2>3, <2>4 DEF IInv
<1>6. CASE total > 0
  <2>1. /\ current' = NextSlot /\ fault' = fault
        /\ \/ exit = "esp" /\ PopAndReturn(tasks'[NextSlot], mem')
           \/ exit = "ebp" /\ ReturnsTo(s)
    <3>1. total # 0
      BY <1>6
    <3> QED BY <3>1, <1>1, Zenon DEF schedule
  <2>2. NextSlot \in Slots /\ NextSlot < total
    <3>1. current \in 0..(total - 1)
      BY ONLY <1>4, <1>6
    <3>2. NextSlot = IF current + 1 < total THEN current + 1 ELSE 0
      BY <1>4, <1>6, <3>1, NextSlotWraps
    <3> QED BY ONLY <1>4, <1>6, <3>1, <3>2, ConstantsAssumption DEF Slots
  <2>3. SlotTable'
    <3>1. \A i \in Slots : tasks'[i] # NULL <=> i < total
      BY <1>1, <1>3, <1>4, <1>6
    <3> QED BY <3>1, <1>1, <2>1, <2>2 DEF SlotTable
  <2>4. \A i \in Slots : i < total =>
            \/ \E t \in Tasks : pid'[t] = i /\ tasks'[i] = EntryFrame(t) /\ EntryWordsIntact(t)'
            \/ tasks'[i][1] = Boot
    <3>1. \A t \in Tasks : EntryWordsIntact(t) => EntryWordsIntact(t)'
      BY <1>2 DEF EntryWordsIntact, EntryWords
    <3>2. ASSUME NEW i \in Slots, i < total
          PROVE  \/ \E t \in Tasks : pid'[t] = i /\ tasks'[i] = EntryFrame(t)
                                     /\ EntryWordsIntact(t)'
                 \/ tasks'[i][1] = Boot
      <4>1. CASE i = current
        BY <4>1, <1>1, <1>3, <1>4
      <4>2. CASE i # current
        <5>1. tasks'[i] = tasks[i]
          BY <4>2, <1>1, <1>4
        <5>2. \/ \E t \in Tasks : pid[t] = i /\ tasks[i] = EntryFrame(t) /\ EntryWordsIntact(t)
              \/ tasks[i][1] = Boot
          BY <3>2, <1>3 DEF IInv, SlotStacks
        <5> QED BY <5>1, <5>2, <3>1, <1>1
      <4> QED BY <4>1, <4>2
    <3> QED BY <3>2
  <2>5. SlotStacks'
    BY <2>4, <1>1 DEF SlotStacks, EntryFrame
  <2>6. ASSUME ebp' \in Word, eip' \in Word, esp' \in Address, esp'[2] <= MaxStack + 1,
               NothingRunsOnTaskStack'
        PROVE  IInv'
    <3>1. TypeOK'
      BY <2>6, <1>1, <1>2, <2>1, <2>2 DEF IInv, TypeOK
    <3> QED BY <3>1, <2>6, <1>2, <2>3, <2>5 DEF IInv
  <2>7. CASE ReturnsTo(s)
    <3>1. eip' = << eip[1], s >> /\ UNCHANGED << esp, ebp >>
      BY <2>7 DEF ReturnsTo
    <3>2. << eip[1], s >> \in Word
      BY <1>3
    <3>3. ebp' \in Word /\ esp' \in Address /\ esp'[2] <= MaxStack + 1
      BY <3>1 DEF IInv, TypeOK
    <3>4. NothingRunsOnTaskStack'
      BY <3>1, <1>3 DEF NothingRunsOnTaskStack
    <3> QED BY <2>6, <3>1, <3>2, <3>3, <3>4
  <2>8. CASE PopAndReturn(tasks'[NextSlot], mem')
    <3>1. CASE tasks'[NextSlot][1] = Boot
      <4> DEFINE top == tasks'[NextSlot][2]
      <4>1. tasks'[NextSlot] = << Boot, top >> /\ top \in 2..Height
        <5>1. tasks'[NextSlot] # NULL
          BY <2>2, <2>3, <1>1, <1>3, <2>1 DEF SlotTable
        <5>2. tasks'[NextSlot] \in Stacks \X (2..Height)
          BY <5>1, <1>2, <2>2
        <5> QED BY <5>2, <3>1
      <4>2. PopAndReturn(<< Boot, top >>, mem')
        BY <2>8, <4>1
      <4> HIDE DEF top
      <4>3. mem'[Boot][top] \in Word /\ mem'[Boot][top - 1] \in Word
        BY <4>1, <1>2
      <4>4. ebp' \in Word /\ eip' \in Word /\ esp' = << Boot, top - 2 >>
        BY <4>2, <4>3 DEF PopAndReturn
      <4>5. esp' \in Address /\ esp'[2] <= MaxStack + 1 /\ esp'[1] = Boot
        BY <4>1, <4>4
      <4>6. NothingRunsOnTaskStack'
        BY <4>5 DEF NothingRunsOnTaskStack
      <4> QED BY <2>6, <4>4, <4>5, <4>6
    <3>2. CASE \E t \in Tasks : pid'[t] = NextSlot /\ tasks'[NextSlot] = EntryFrame(t)
                                /\ EntryWordsIntact(t)'
      <4>1. PICK t \in Tasks : pid'[t] = NextSlot /\ tasks'[NextSlot] = EntryFrame(t)
                               /\ EntryWordsIntact(t)'
        BY <3>2
      <4>2. mem'[t][3] = << t, Entry >> /\ mem'[t][2] = NULL
        <5>1. \A k \in 1..3 : mem'[t][k] = EntryWords(t)[k]
          BY <4>1 DEF EntryWordsIntact, EntryWords
        <5> QED BY <5>1 DEF EntryWords
      <4>3. eip' = NULL /\ ebp' = << t, Entry >> /\ esp' = << t, 1 >>
        BY <4>1, <4>2, <2>8 DEF PopAndReturn, EntryFrame
      <4>4. eip' \in Word /\ ebp' \in Word /\ esp' \in Address /\ esp'[2] <= MaxStack + 1
        BY <4>3
      <4>5. NothingRunsOnTaskStack'
        BY <4>1, <4>3, <2>1 DEF NothingRunsOnTaskStack, EntryFrame
      <4> QED BY <2>6, <4>4, <4>5
    <3> QED BY <2>2, <2>4, <3>1, <3>2, Zenon
  <2> QED BY <2>1, <2>7, <2>8
<1> QED BY <1>4, <1>5, <1>6

\* The invariant is inductive: no operation, in any order the client calls
\* them, leaves it.
LEMMA NextKeeps == IInv /\ [Next]_vars => IInv'
<1> USE ConstantsAssumption
<1> SUFFICES ASSUME IInv, [Next]_vars PROVE IInv'
  OBVIOUS
<1>1. CASE Return
  BY <1>1, ReturnKeeps
<1>2. ASSUME NEW s \in Sites, NEW f \in Functions, Call(f, s) PROVE IInv'
  BY <1>2, CallKeeps
<1>3. ASSUME NEW s \in Sites, NEW t \in Tasks,
             scheduler_create_task(t, s) \/ create_task_refused(t, s)
      PROVE  IInv'
  BY <1>3, CreateKeeps, RefusedKeeps
<1>4. ASSUME NEW s \in Sites, scheduler_start(s) PROVE IInv'
  <2>1. startExit \in {"ebp", "esp"} /\ KernelLocals \in Nat
    BY DEF IInv, TypeOK
  <2> QED BY <1>4, <2>1, ScheduleKeeps DEF scheduler_start
<1>5. ASSUME NEW s \in Sites, scheduler_yield(s) PROVE IInv'
  BY <1>5, ScheduleKeeps DEF scheduler_yield
<1>6. CASE UNCHANGED vars
  <2>1. UNCHANGED << tasks, current, total, pid, mem, esp, ebp, eip, fault, startExit, kept >>
    BY <1>6 DEF vars, table, machine
  <2>2. TypeOK' /\ SlotTable'
    BY <2>1 DEF IInv, TypeOK, SlotTable
  <2>3. SlotStacks'
    <3>1. SlotStacks
      BY DEF IInv
    <3>2. \A t \in Tasks : EntryWordsIntact(t) => EntryWordsIntact(t)'
      BY <2>1 DEF EntryWordsIntact, EntryWords
    <3> QED BY <2>1, <3>1, <3>2 DEF SlotStacks, EntryFrame
  <2>4. NothingRunsOnTaskStack' /\ KeptFrames'
    BY <2>1 DEF IInv, NothingRunsOnTaskStack, EntryFrame, KeptFrames
  <2> QED BY <2>2, <2>3, <2>4 DEF IInv
<1> QED BY <1>1, <1>2, <1>3, <1>4, <1>5, <1>6 DEF Next

-----------------------------------------------------------------------------
(* The theorems: each part of the invariant that a reader cares about.     *)

\* The conjunction every other theorem follows from.
THEOREM Invariant == Spec => []IInv
<1> QED BY InitHolds, NextKeeps, PTL DEF Spec

\* Types: in particular current and the pids index the table, and no stack
\* pointer leaves the stacks the clients supplied.
THEOREM TypeCorrect == Spec => []TypeOK
<1>1. IInv => TypeOK
  BY DEF IInv
<1> QED BY <1>1, Invariant, PTL

\* The slots in use are those below total, and current is one of them once a
\* task exists: schedule() loads no stack pointer that nobody stored.
THEOREM SlotTableSafe == Spec => []SlotTable
<1>1. IInv => SlotTable
  BY DEF IInv
<1> QED BY <1>1, Invariant, PTL

\* Whatever clients do, and whatever their frames hold, nothing executes on a
\* created task's stack but the jump to address 0 of its first switch.
THEOREM NothingRunsOnTaskStacks == Spec => []NothingRunsOnTaskStack
<1>1. IInv => NothingRunsOnTaskStack
  BY DEF IInv
<1> QED BY <1>1, Invariant, PTL

\* A switch to a frame no call was made from below resumes the very context
\* that was saved there, whatever the sizes of the frames above it.
THEOREM ResumesKept == Spec => ResumesKeptContext
<1> USE ConstantsAssumption
<1>1. ASSUME IInv, IInv', NEW s \in Sites,
             scheduler_yield(s) \/ (scheduler_start(s) /\ startExit = "esp"),
             fault' = "none", kept'[current'] # NULL
      PROVE  /\ eip' = kept'[current'].eip
             /\ ebp' = kept'[current'].ebp
             /\ esp' = kept'[current'].esp
  <2>1. Running /\ \E n \in Nat : schedule(s, n, "esp")
    BY <1>1 DEF scheduler_yield, scheduler_start
  <2>2. PICK n \in Nat : schedule(s, n, "esp")
    BY <2>1
  <2>3. current' = NextSlot /\ PopAndReturn(tasks'[NextSlot], mem')
    BY <1>1, <2>2, Zenon DEF schedule
  <2>4. current' \in Slots /\ kept' \in [Slots -> Context \cup {NULL}]
    BY <1>1 DEF IInv, TypeOK
  <2>5. kept'[current'] \in Context
    BY <1>1, <2>4
  <2>6. /\ kept'[current'].esp[1] = Boot
        /\ tasks'[current'] = << Boot, kept'[current'].esp[2] + 2 >>
        /\ mem'[Boot][kept'[current'].esp[2] + 1] = kept'[current'].eip
        /\ mem'[Boot][kept'[current'].esp[2] + 2] = kept'[current'].ebp
    BY <1>1, <2>4 DEF IInv, KeptFrames
  <2> DEFINE saved == kept'[current']
             h == saved.esp[2]
  <2>7. saved.esp = << Boot, h >> /\ h \in Nat
    <3>1. saved.esp \in Stacks \X (0..Height)
      BY <2>5
    <3> QED BY <3>1, <2>6
  <2>8. /\ mem'[Boot][h + 1] = saved.eip /\ mem'[Boot][h + 2] = saved.ebp
        /\ PopAndReturn(<< Boot, h + 2 >>, mem')
    BY <2>3, <2>6
  <2> HIDE DEF saved, h
  <2>9. h + 2 - 1 = h + 1 /\ h + 2 - 2 = h
    BY ONLY <2>7
  <2>10. eip' = saved.eip /\ ebp' = saved.ebp /\ esp' = saved.esp
    BY <2>7, <2>8, <2>9 DEF PopAndReturn
  <2> QED BY <2>10 DEF saved
<1>2. IInv /\ IInv' =>
        [\A s \in Sites :
            (/\ scheduler_yield(s) \/ (scheduler_start(s) /\ startExit = "esp")
             /\ fault' = "none"
             /\ kept'[current'] # NULL)
            => /\ eip' = kept'[current'].eip
               /\ ebp' = kept'[current'].ebp
               /\ esp' = kept'[current'].esp]_vars
  BY <1>1
<1> QED BY <1>2, Invariant, PTL DEF ResumesKeptContext

-----------------------------------------------------------------------------
(* Scheduler implements RoundRobin.                                        *)

\* The line has one place per slot in use.
LEMMA LineLength ==
    ASSUME total \in Nat, current \in Nat
    PROVE  Line \in Seq(Int) /\ Len(Line) = total
<1>1. Line \in [1..total -> Int]
  BY DEF Line
<1> QED BY <1>1 DEF Line

\* Creating a task puts its slot behind the last one admitted.
LEMMA CreateAdmits ==
    ASSUME IInv, NEW t \in Tasks, NEW s \in Sites, scheduler_create_task(t, s)
    PROVE  RR!Admit
<1> USE ConstantsAssumption
<1>1. total' = total + 1 /\ current' = current
  BY DEF scheduler_create_task
<1>2. /\ total \in Nat /\ current \in Nat
      /\ current < total \/ (current = 0 /\ total = 0)
  <2>1. TypeOK /\ SlotTable /\ fault = "none"
    BY DEF IInv, scheduler_create_task, Running
  <2> QED BY <2>1 DEF TypeOK, SlotTable
<1>3. Len(Line) = total
  BY <1>2, LineLength
<1>4. CASE total = 0
  <2>1. Line = << >>
    BY <1>4 DEF Line
  <2>2. Line' = << 0 >>
    BY ONLY <1>1, <1>2, <1>4 DEF Line
  <2> QED BY <2>1, <2>2 DEF RR!Admit
<1>5. CASE total > 0
  <2>1. current < total
    BY ONLY <1>2, <1>5
  <2>2. Line # << >>
    BY <1>3, <1>5
  <2>3. total - current \in 1..total
    BY ONLY <1>2, <2>1
  <2>4. \A k \in 1..total : Line[k] = total - 1 <=> k = total - current
    BY ONLY <1>2, <2>1 DEF Line
  <2>5. RR!AfterLast = total - current
    BY <1>3, <2>3, <2>4, Zenon DEF RR!AfterLast
  <2>6. Line' = [k \in 1..(total + 1) |->
                   IF k <= total - current THEN Line[k]
                   ELSE IF k = total - current + 1 THEN total
                   ELSE Line[k - 1]]
    <3>1. Line' = [k \in 1..(total + 1) |->
                     IF current + k - 1 < total + 1
                       THEN current + k - 1
                       ELSE current + k - 1 - (total + 1)]
      BY <1>1 DEF Line
    <3>2. ASSUME NEW k \in 1..(total + 1)
          PROVE  (IF current + k - 1 < total + 1
                    THEN current + k - 1
                    ELSE current + k - 1 - (total + 1))
                 = (IF k <= total - current THEN Line[k]
                    ELSE IF k = total - current + 1 THEN total
                    ELSE Line[k - 1])
      <4>1. CASE k <= total - current
        BY ONLY <1>2, <2>1, <4>1, k \in 1..(total + 1) DEF Line
      <4>2. CASE k = total - current + 1
        BY ONLY <1>2, <2>1, <4>2
      <4>3. CASE k > total - current + 1
        BY ONLY <1>2, <2>1, <4>3, k \in 1..(total + 1) DEF Line
      <4> QED BY ONLY <1>2, <4>1, <4>2, <4>3, k \in 1..(total + 1)
    <3> QED BY ONLY <3>1, <3>2
  <2> QED BY <1>3, <2>2, <2>5, <2>6 DEF RR!Admit
<1> QED BY ONLY <1>2, <1>4, <1>5

\* schedule() moves the head of the line to its back, with either epilogue.
LEMMA ScheduleSwitches ==
    ASSUME IInv, Running, NEW s \in Sites, NEW n, NEW exit \in {"ebp", "esp"},
           schedule(s, n, exit)
    PROVE  RR!Switch \/ Line' = Line
<1> USE ConstantsAssumption
<1>1. /\ total \in Nat /\ current \in Nat
      /\ current < total \/ (current = 0 /\ total = 0)
      /\ total' = total
  <2>1. TypeOK /\ SlotTable /\ fault = "none"
    BY DEF IInv, Running
  <2>2. total' = total
    BY DEF schedule
  <2> QED BY <2>1, <2>2 DEF TypeOK, SlotTable
<1>2. CASE total = 0
  <2>1. Line = << >> /\ Line' = << >>
    BY ONLY <1>1, <1>2 DEF Line
  <2> QED BY <2>1
<1>3. CASE total > 0
  <2>1. total # 0
    BY <1>3
  <2>2. current' = NextSlot
    BY <2>1, Zenon DEF schedule
  <2>3. current \in 0..(total - 1)
    BY ONLY <1>1, <1>3
  <2>4. NextSlot = IF current + 1 < total THEN current + 1 ELSE 0
    BY ONLY <1>1, <1>3, <2>3, NextSlotWraps
  <2>5. Line \in Seq(Int) /\ Len(Line) = total
    BY <1>1, LineLength
  <2>6. Line # << >>
    BY <2>5, <1>3
  <2>7. Line' = [k \in 1..total |-> IF k < total THEN Line[k + 1] ELSE Line[1]]
    <3>1. Line' = [k \in 1..total |-> IF NextSlot + k - 1 < total
                                       THEN NextSlot + k - 1
                                       ELSE NextSlot + k - 1 - total]
      BY <1>1, <2>2 DEF Line
    <3>2. ASSUME NEW k \in 1..total
          PROVE  (IF NextSlot + k - 1 < total
                    THEN NextSlot + k - 1 ELSE NextSlot + k - 1 - total)
                 = (IF k < total THEN Line[k + 1] ELSE Line[1])
      <4>1. /\ k < total => Line[k + 1] = IF current + k < total
                                            THEN current + k
                                            ELSE current + k - total
            /\ Line[1] = current
        BY ONLY <1>1, <1>3, <2>3, k \in 1..total DEF Line
      <4>2. CASE current + 1 < total
        BY ONLY <1>1, <1>3, <2>3, <2>4, <4>1, <4>2, k \in 1..total
      <4>3. CASE current + 1 = total
        BY ONLY <1>1, <1>3, <2>3, <2>4, <4>1, <4>3, k \in 1..total
      <4> QED BY ONLY <1>1, <2>3, <4>2, <4>3
    <3> QED BY ONLY <3>1, <3>2
  <2>8. Append(Tail(Line), Head(Line))
          = [k \in 1..total |-> IF k < total THEN Line[k + 1] ELSE Line[1]]
    <3>1. /\ Tail(Line) \in Seq(Int) /\ Len(Tail(Line)) = total - 1
          /\ \A k \in 1..(total - 1) : Tail(Line)[k] = Line[k + 1]
      BY <2>5, <2>6
    <3>2. Head(Line) = Line[1] /\ Line[1] \in Int
      BY <2>5, <2>6, <1>3
    <3> DEFINE moved == Append(Tail(Line), Head(Line))
    <3>3. /\ moved \in Seq(Int) /\ Len(moved) = total
          /\ \A k \in 1..(total - 1) : moved[k] = Tail(Line)[k]
          /\ moved[total] = Head(Line)
      BY ONLY <3>1, <3>2, <1>1, <1>3
    <3>4. moved \in [1..total -> Int]
      <4> HIDE DEF moved
      <4> QED BY <3>3
    <3>5. moved = [k \in 1..total |-> moved[k]]
      <4> HIDE DEF moved
      <4> QED BY ONLY <3>4
    <3>6. \A k \in 1..total : moved[k] = IF k < total THEN Line[k + 1] ELSE Line[1]
      BY ONLY <3>1, <3>2, <3>3, <1>1, <1>3
    <3> QED BY <3>5, <3>6
  <2> QED BY <2>6, <2>7, <2>8 DEF RR!Switch
<1> QED BY ONLY <1>1, <1>2, <1>3

\* The slots take turns exactly as RoundRobin says, in any order of creations,
\* starts and yields.
THEOREM RefinesRoundRobin == Spec => TakesTurns
<1> USE ConstantsAssumption
<1>1. Init => RR!Init
  BY DEF Init, RR!Init, Line
<1>2. IInv /\ [Next]_vars => [RR!Next]_Line
  <2> SUFFICES ASSUME IInv, [Next]_vars PROVE RR!Next \/ Line' = Line
    OBVIOUS
  <2>1. ASSUME UNCHANGED << current, total >> PROVE Line' = Line
    BY <2>1 DEF Line
  <2>2. ASSUME NEW f \in Functions, NEW s \in Sites, Call(f, s) PROVE Line' = Line
    BY <2>2, <2>1 DEF Call, table
  <2>3. CASE Return
    BY <2>3, <2>1 DEF Return, table
  <2>4. ASSUME NEW t \in Tasks, NEW s \in Sites, scheduler_create_task(t, s) PROVE RR!Next
    BY <2>4, CreateAdmits DEF RR!Next
  <2>5. ASSUME NEW t \in Tasks, NEW s \in Sites, create_task_refused(t, s) PROVE Line' = Line
    BY <2>5, <2>1 DEF create_task_refused
  <2>6. ASSUME NEW s \in Sites, scheduler_start(s) PROVE RR!Next \/ Line' = Line
    <3>1. startExit \in {"ebp", "esp"}
      BY DEF IInv, TypeOK
    <3> QED BY <2>6, <3>1, ScheduleSwitches DEF scheduler_start, RR!Next
  <2>7. ASSUME NEW s \in Sites, scheduler_yield(s) PROVE RR!Next \/ Line' = Line
    BY <2>7, ScheduleSwitches DEF scheduler_yield, RR!Next
  <2>8. CASE UNCHANGED vars
    BY <2>8, <2>1 DEF vars, table
  <2> QED BY <2>2, <2>3, <2>4, <2>5, <2>6, <2>7, <2>8 DEF Next
<1> QED BY <1>1, <1>2, Invariant, PTL DEF Spec, TakesTurns, RR!Spec
=============================================================================
