----------------------------- MODULE AtaProofs -----------------------------
(***************************************************************************)
(* Theorems about Ata, for sectors of any size, any addresses, counts and  *)
(* bad sectors, and any drives: the bus invariant, what the calls return,  *)
(* and that they keep the promise of module Disk.                          *)
(***************************************************************************)
EXTENDS Ata, FiniteSetTheorems, SequenceTheorems, TLAPS

-----------------------------------------------------------------------------
(* Words and sectors.                                                      *)

Sector == [1..Words -> Word]

\* Every sector the model speaks of is one of words.
LEMMA SectorsAre ==
    /\ \A d \in Drives, l \in Sectors : Old(d, l) \in Sector
    /\ \A l \in Nat : New(l) \in Sector
    /\ Identity \in Sector
    /\ Garbage \in Word
<1>1. \A d \in Drives, l \in Sectors : Old(d, l) \in Sector
  BY DEF Old, Sector, Word
<1>2. \A l \in Nat : New(l) \in Sector
  BY DEF New, Sector, Word
<1>3. Identity \in Sector
  BY DEF Identity, Sector, Word
<1> QED BY <1>1, <1>2, <1>3 DEF Word

\* A sector is a sequence of Words words.
LEMMA SectorIsSeq ==
    ASSUME NEW s \in Sector
    PROVE  s \in Seq(Word) /\ Len(s) = Words /\ DOMAIN s = 1..Words
BY AtaAssumption DEF Sector

\* The rest of a sector from its n-th word: its first word and what follows.
LEMMA RestOfSector ==
    ASSUME NEW s \in Sector, NEW n \in 1..Words
    PROVE  /\ SubSeq(s, n, Words) \in Seq(Word)
           /\ SubSeq(s, n, Words) # << >>
           /\ Len(SubSeq(s, n, Words)) = Words + 1 - n
           /\ Head(SubSeq(s, n, Words)) = s[n]
           /\ Tail(SubSeq(s, n, Words)) = SubSeq(s, n + 1, Words)
<1>1. /\ s \in Seq(Word) /\ Len(s) = Words /\ Words \in Nat
      /\ n \in Int /\ 1 <= n /\ n <= Words
  BY SectorIsSeq, AtaAssumption
<1>2. n \in 1..Len(s) /\ Words \in n..Len(s)
  BY <1>1
<1>3. /\ Head(SubSeq(s, n, Words)) = s[n]
      /\ Tail(SubSeq(s, n, Words)) = SubSeq(s, n + 1, Words)
  BY <1>1, <1>2, HeadTailOfSubSeq
<1>4. \A i \in n..Words : s[i] \in Word
  BY <1>1
<1>5. /\ SubSeq(s, n, Words) \in Seq(Word)
      /\ Len(SubSeq(s, n, Words)) = Words + 1 - n
  BY <1>1, <1>4, SubSeqProperties
<1> QED BY <1>1, <1>3, <1>5

\* The first n words of a sector and the next.
LEMMA NextOfSector ==
    ASSUME NEW s \in Sector, NEW n \in 0..(Words - 1)
    PROVE  /\ SubSeq(s, 1, n) \in Seq(Word) /\ Len(SubSeq(s, 1, n)) = n
           /\ Append(SubSeq(s, 1, n), s[n + 1]) = SubSeq(s, 1, n + 1)
<1>1. s \in Seq(Word) /\ Len(s) = Words /\ Words \in Nat \ {0}
  BY SectorIsSeq, AtaAssumption
<1>2. /\ SubSeq(s, 1, n) \in Seq(Word) /\ Len(SubSeq(s, 1, n)) = n
      /\ \A i \in 1..n : SubSeq(s, 1, n)[i] = s[i]
  BY <1>1, SubSeqProperties
<1>3. /\ SubSeq(s, 1, n + 1) \in Seq(Word) /\ Len(SubSeq(s, 1, n + 1)) = n + 1
      /\ \A i \in 1..(n + 1) : SubSeq(s, 1, n + 1)[i] = s[i]
  BY <1>1, SubSeqProperties
<1>4. s[n + 1] \in Word
  BY <1>1
<1> DEFINE t == Append(SubSeq(s, 1, n), s[n + 1])
<1>5. /\ t \in Seq(Word) /\ Len(t) = n + 1
      /\ \A i \in 1..n : t[i] = s[i]
      /\ t[n + 1] = s[n + 1]
  BY <1>2, <1>4, AppendProperties
<1>6. \A i \in 1..(n + 1) : t[i] = SubSeq(s, 1, n + 1)[i]
  BY <1>3, <1>5
<1>7. t = SubSeq(s, 1, n + 1)
  <2> HIDE DEF t
  <2> QED BY <1>3, <1>5, <1>6, SeqEqual
<1> QED BY <1>2, <1>7

\* All words of a sector are the sector.
LEMMA WholeSector ==
    ASSUME NEW s \in Sector
    PROVE  SubSeq(s, 1, Words) = s
BY SectorIsSeq, SubSeqFull

-----------------------------------------------------------------------------
(* Sectors in a row of words.                                              *)

\* Sectors start one after the other, Words apart.
LEMMA Starts ==
    ASSUME NEW k \in Nat
    PROVE  /\ Start(k) \in Nat
           /\ Start(k + 1) = Start(k) + Words
           /\ \A j \in Nat : k < j => Start(k + 1) <= Start(j)
<1>1. Words \in Nat \ {0}
  BY AtaAssumption
<1>2. Start(k) \in Nat /\ Start(k + 1) = Start(k) + Words
  BY <1>1 DEF Start
<1>3. ASSUME NEW j \in Nat, k < j PROVE Start(k + 1) <= Start(j)
  <2>1. PICK e \in Nat : j = (k + 1) + e
    <3>1. j - (k + 1) \in Nat /\ j = (k + 1) + (j - (k + 1))
      BY <1>3
    <3> QED BY <3>1
  <2>2. j * Words = (k + 1) * Words + e * Words
    BY <1>1, <2>1
  <2>3. e * Words \in Nat /\ (k + 1) * Words \in Nat
    BY <1>1, <2>1
  <2> QED BY <2>2, <2>3 DEF Start
<1> QED BY <1>2, <1>3

\* The words of the first sector start at the first word.
LEMMA StartZero == Start(0) = 0
BY AtaAssumption DEF Start

\* The sector and the place in it of the n-th word.
LEMMA WordAt ==
    ASSUME NEW k \in Nat, NEW r \in 0..(Words - 1)
    PROVE  (Start(k) + r) \div Words = k /\ (Start(k) + r) % Words = r
<1>1. Words \in Nat \ {0} /\ r \in Nat /\ r < Words
  BY AtaAssumption
<1> DEFINE n == Start(k) + r
           q == n \div Words
<1>2. n \in Nat /\ q \in Nat /\ n % Words \in 0..(Words - 1)
  <2>1. n \in Nat
    BY <1>1, Starts
  <2> HIDE DEF n
  <2> QED BY <1>1, <2>1
<1>3. n = Start(q) + (n % Words)
  <2>1. n = Words * (n \div Words) + (n % Words)
    <3> HIDE DEF n
    <3> QED BY <1>1, <1>2
  <2> QED BY <1>1, <1>2, <2>1 DEF Start
<1> HIDE DEF q
<1>4. ~(q < k)
  <2> SUFFICES ASSUME q < k PROVE FALSE
    OBVIOUS
  <2>1. Start(q) + Words <= Start(k) /\ Start(q) \in Nat /\ Start(k) \in Nat
    BY <1>2, Starts
  <2> QED BY <1>1, <1>2, <1>3, <2>1
<1>5. ~(k < q)
  <2> SUFFICES ASSUME k < q PROVE FALSE
    OBVIOUS
  <2>1. Start(k) + Words <= Start(q) /\ Start(q) \in Nat /\ Start(k) \in Nat
    BY <1>2, Starts
  <2> QED BY <1>1, <1>2, <1>3, <2>1
<1>6. q = k
  BY <1>2, <1>4, <1>5
<1>7. n % Words = r
  BY <1>1, <1>2, <1>3, <1>6, Starts
<1> QED BY <1>6, <1>7 DEF q

-----------------------------------------------------------------------------
(* What a call can answer for.                                             *)

\* Sound sectors come first, without a gap, on good addresses; on a slow drive
\* there is at most one.
LEMMA SoundSectors ==
    ASSUME Typed
    PROVE  /\ Sound \subseteq 0..(op.count - 1)
           /\ \A k \in Sound : k \in Nat /\ k < op.count /\ op.lba + k \in Sectors \ Bad
           /\ \A k \in Sound : k > 0 => fast
           /\ \A k \in Sound, j \in Nat : j < k => j \in Sound
<1>1. op.count \in Nat /\ op.lba \in Nat /\ fast \in BOOLEAN
  BY DEF Typed
<1> QED BY <1>1 DEF Sound

\* There are n numbers below n.
LEMMA UpTo ==
    ASSUME NEW n \in Nat
    PROVE  IsFiniteSet(0..(n - 1)) /\ Cardinality(0..(n - 1)) = n
<1> DEFINE m == n - 1
<1>1. 0 \in Int /\ m \in Int
  OBVIOUS
<1>2. IsFiniteSet(0..m) /\ Cardinality(0..m) = IF 0 > m THEN 0 ELSE m - 0 + 1
  <2> HIDE DEF m
  <2> QED BY <1>1, FS_Interval, Zenon
<1> QED BY <1>2

\* A count of the sound sectors tells which they are.
LEMMA CountOfSound ==
    ASSUME Typed
    PROVE  /\ Cardinality(Sound) \in 0..op.count
           /\ \A k \in 1..Cardinality(Sound) : k - 1 \in Sound
<1>1. op.count \in Nat
  BY DEF Typed
<1>2. IsFiniteSet(0..(op.count - 1)) /\ Cardinality(0..(op.count - 1)) = op.count
  BY <1>1, UpTo
<1>3. Sound \in SUBSET (0..(op.count - 1))
  BY SoundSectors
<1>4. IsFiniteSet(Sound) /\ Cardinality(Sound) <= op.count
  BY <1>2, <1>3, FS_Subset
<1>5. Cardinality(Sound) \in 0..op.count
  BY <1>1, <1>4, FS_CardinalityType
<1>6. ASSUME NEW k \in 1..Cardinality(Sound), k - 1 \notin Sound PROVE FALSE
  <2>1. k \in Int /\ 1 <= k /\ k <= Cardinality(Sound) /\ Cardinality(Sound) \in Nat
    BY <1>5
  <2>2. ASSUME NEW j \in Sound PROVE j \in 0..(k - 2)
    <3>1. j \in Nat /\ ~(k - 1 < j) /\ j # k - 1
      BY <1>6, <2>1, SoundSectors
    <3> QED BY <2>1, <3>1
  <2>3. Sound \in SUBSET (0..(k - 2))
    BY <2>2
  <2>4. IsFiniteSet(0..(k - 2)) /\ Cardinality(0..(k - 2)) = k - 1
    <3>1. k - 1 \in Nat /\ (k - 1) - 1 = k - 2
      BY <2>1
    <3> QED BY <3>1, UpTo
  <2>5. Cardinality(Sound) <= k - 1
    BY <2>3, <2>4, FS_Subset
  <2> QED BY <2>1, <2>5
<1> QED BY <1>5, <1>6

\* A call moves its sectors whole.
LEMMA WordsToMove ==
    ASSUME Typed
    PROVE  /\ Length \in Nat
           /\ op.kind # "identify" => Length = Start(op.count)
<1>1. op.count \in Nat /\ Words \in Nat /\ IdentifyWords \in Nat
  BY AtaAssumption DEF Typed
<1> QED BY <1>1 DEF Length, Start

\* The drive at the bus and what it holds.
LEMMA AtTheBus ==
    ASSUME Typed, TypeOK
    PROVE  /\ selected \in Drives /\ Here = drive[selected]
           /\ Here \in [status : {"ready", "busy", "data", "error"},
                       error : {"none", "mark", "abort"},
                       command : {"none", "identify", "read", "write", "flush"},
                       lba : Nat, left : 0..MaxCount, sector : Seq(Word)]
           /\ \A p \in Drives \X Sectors : disk[p] \in Sector
           /\ Asked \in Nat \ {0}
BY AtaAssumption DEF Typed, TypeOK, Here, Sector, Asked

-----------------------------------------------------------------------------
(* The driver's steps that leave drives and words alone.                   *)

\* At the start no call runs and the drives are idle.
LEMMA InitBus == Init => BusInvariant
<1> SUFFICES ASSUME Init PROVE BusInvariant
  OBVIOUS
<1> USE AtaAssumption DEF Init, Drives
<1>1. Typed
  <2>1. disk \in [Drives \X Sectors -> [1..Words -> Word]]
    BY SectorsAre DEF Sector
  <2>2. drive \in [Drives -> [status : {"ready", "busy", "data", "error"},
                             error : {"none", "mark", "abort"},
                             command : {"none", "identify", "read", "write", "flush"},
                             lba : Nat, left : 0..MaxCount, sector : Seq(Word)]]
    BY DEF Idle
  <2>3. op \in [kind : {"none", "identify", "read", "write"}, drive : Drives, lba : Nat,
               count : 0..(MaxCount - 1), answer : BOOLEAN]
    OBVIOUS
  <2>4. moved \in Nat /\ buffer \in Seq(Word) /\ kind \in Kinds /\ fast \in BOOLEAN
    BY EmptySeq
  <2> QED BY <2>1, <2>2, <2>3, <2>4 DEF Typed
<1>2. Working
  BY DEF Working, Idle
<1>3. Called /\ Begun /\ Identifying /\ Reading /\ Writing /\ Flushing
  BY DEF Called, Begun, Identifying, Reading, Writing, Flushing, BSY, Present, Here, Idle
<1>4. TypeOK
  BY DEF TypeOK, Idle
<1>5. ReadsRight /\ WritesLand /\ IdentifyTells
  BY DEF ReadsRight, WritesLand, IdentifyTells, Finished
<1> QED BY <1>1, <1>2, <1>3, <1>4, <1>5 DEF BusInvariant

\* A call begins: its operands are kept, nothing is moved yet.
LEMMA CallKeeps ==
    ASSUME BusInvariant,
           NEW k \in {"identify", "read", "write"}, NEW d \in Drives, NEW l \in Nat,
           NEW n \in 0..(MaxCount - 1), Call(k, d, l, n)
    PROVE  BusInvariant'
<1> USE DEF Call, BusInvariant, host, fixed
<1>1. Typed'
  BY EmptySeq DEF Typed
<1>2. Working'
  BY DEF Working
<1>3. Called' /\ Begun' /\ Identifying' /\ Reading' /\ Writing' /\ Flushing'
  BY DEF Called, Begun, Identifying, Reading, Writing, Flushing, BSY, Present, Here
<1>4. TypeOK'
  BY DEF TypeOK
<1>5. ReadsRight' /\ WritesLand' /\ IdentifyTells'
  BY DEF ReadsRight, WritesLand, IdentifyTells, Finished
<1> QED BY <1>1, <1>2, <1>3, <1>4, <1>5

\* ata_identify looks whether a drive is there.
LEMMA AnswerKeeps ==
    ASSUME BusInvariant, Answer
    PROVE  BusInvariant'
<1> USE DEF Answer, Return, BusInvariant, host, fixed
<1>1. Typed'
  BY DEF Typed
<1>2. Working'
  BY DEF Working
<1>3. Called' /\ Begun' /\ Identifying' /\ Reading' /\ Writing' /\ Flushing'
  BY DEF Called, Begun, Identifying, Reading, Writing, Flushing, BSY, Present, Here, Asked
<1>4. TypeOK'
  BY DEF TypeOK, Called
<1>5. ReadsRight' /\ WritesLand' /\ IdentifyTells'
  BY DEF ReadsRight, WritesLand, IdentifyTells, Finished, Called, Typed, Present
<1> QED BY <1>1, <1>2, <1>3, <1>4, <1>5

\* The wait for BSY ends when the drive has failed or offers data.
LEMMA WaitBsyKeeps ==
    ASSUME BusInvariant, WaitBsy
    PROVE  BusInvariant'
<1> USE DEF WaitBsy, Return, BusInvariant, host, fixed
<1>1. Typed'
  BY DEF Typed
<1>2. Working'
  BY DEF Working
<1>3. Called' /\ Begun' /\ Identifying' /\ Reading' /\ Writing' /\ Flushing'
  BY DEF Called, Begun, Identifying, Reading, Writing, Flushing, BSY, Present, Here, Asked
<1>4. TypeOK'
  BY DEF TypeOK, Called
<1>5. ReadsRight' /\ WritesLand'
  BY DEF ReadsRight, WritesLand, Finished, Called, Typed
<1>6. IdentifyTells'
  BY DEF IdentifyTells, Finished, Called, Begun, Typed, Present, Here
<1> QED BY <1>1, <1>2, <1>3, <1>4, <1>5, <1>6

\* The wait for DRQ ends only when the drive offers data.
LEMMA WaitDrqKeeps ==
    ASSUME BusInvariant, WaitDrq
    PROVE  BusInvariant'
<1> USE DEF WaitDrq, BusInvariant, host, fixed
<1>1. Typed'
  BY DEF Typed
<1>2. Working'
  BY DEF Working
<1>3. Called' /\ Begun' /\ Flushing'
  BY DEF Called, Begun, Flushing, BSY, DRQ, Present, Here, Working, TypeOK
<1>4. TypeOK'
  BY WordsToMove DEF TypeOK, Called, Length
<1>5. ReadsRight' /\ WritesLand' /\ IdentifyTells'
  BY DEF ReadsRight, WritesLand, IdentifyTells, Finished
<1>6. /\ Present /\ Here.status = "data" /\ moved = 0 /\ moved' = 0 /\ Here' = Here
      /\ op' = op /\ Index' = Index /\ Asked' = Asked /\ Sound' = Sound /\ disk' = disk
  BY DEF Called, DRQ, Present, Here, Index, Asked, Sound
<1>7. Here.lba = op.lba /\ Here.left = Asked /\ Index = 0
  BY <1>6, AtTheBus DEF Begun, Index
<1>8. Identifying'
  <2> SUFFICES ASSUME op.kind = "identify" PROVE Identifying'
    BY <1>6 DEF Identifying
  <2>1. Here.sector = Identity /\ buffer = << >>
    BY <1>6 DEF Begun, TypeOK, Typed
  <2>2. SubSeq(Identity, 1, 0) = << >> /\ SubSeq(Identity, 1, Words) = Identity
    BY SectorsAre, WholeSector, SubSeqEmpty
  <2> QED BY <1>6, <2>1, <2>2 DEF Identifying
<1>9. Reading'
  <2> SUFFICES ASSUME op.kind = "read" PROVE Reading'
    BY <1>6 DEF Reading
  <2>1. op.lba \in Sectors \ Bad /\ Here.sector = disk[<< op.drive, op.lba >>]
    BY <1>6 DEF Begun, Called
  <2>2. op.count > 0 => 0 \in Sound
    BY <2>1 DEF Sound, Typed
  <2>3. \A k \in Sound : Got(k)'
    <3>1. ASSUME NEW k \in Sound, NEW w \in 1..Words PROVE ~(Start(k) + w <= 0)
      BY Starts, SoundSectors, AtaAssumption
    <3> QED BY <1>6, <3>1 DEF Got
  <2>4. Here.sector \in Sector /\ op.drive \in Drives
    BY <2>1, AtTheBus DEF Typed
  <2>5. /\ Len(Here.sector) = Words
        /\ Here.sector = SubSeq(disk[<< op.drive, Here.lba >>], Words + 1 - Words, Words)
    BY <1>7, <2>1, <2>4, SectorIsSeq, WholeSector, AtaAssumption
  <2>6. Start(0 + 1) = Words
    BY Starts, StartZero, AtaAssumption
  <2>7. \A k \in Sound : k >= 0
    BY SoundSectors
  <2> QED BY <1>6, <1>7, <2>2, <2>3, <2>5, <2>6, <2>7, AtTheBus, AtaAssumption DEF Reading
<1>10. Writing'
  <2> SUFFICES ASSUME op.kind = "write" PROVE Writing'
    BY <1>6 DEF Writing
  <2>1. Here.sector = << >>
    BY <1>6 DEF Begun
  <2>2. SubSeq(New(Here.lba), 1, 0) = << >>
    BY SubSeqEmpty
  <2>3. \A k \in Sound : k >= 0
    BY SoundSectors
  <2> QED BY <1>6, <1>7, <2>1, <2>2, <2>3, AtTheBus, StartZero DEF Writing
<1> QED BY <1>1, <1>2, <1>3, <1>4, <1>5, <1>8, <1>9, <1>10

\* The wait after the flush ends, and with it a write.
LEMMA FlushedKeeps ==
    ASSUME BusInvariant, Flushed
    PROVE  BusInvariant'
<1> USE DEF Flushed, LastWait, Return, BusInvariant, host, fixed
<1>1. Typed'
  BY DEF Typed
<1>2. Working'
  BY DEF Working
<1>3. Called' /\ Begun' /\ Identifying' /\ Reading' /\ Writing' /\ Flushing'
  BY DEF Called, Begun, Identifying, Reading, Writing, Flushing, BSY, Present, Here
<1>4. TypeOK'
  BY DEF TypeOK, Typed
<1>5. op' = [op EXCEPT !.answer = TRUE] /\ op.kind = "write" /\ Sound' = Sound
  BY DEF Called, Sound, Typed
<1>6. WritesLand'
  <2> SUFFICES ASSUME kind[op.drive] = "disk" PROVE \A k \in Sound : Stored(k)
    BY <1>5 DEF WritesLand, Finished, Stored, Typed
  <2>1. Present /\ Here.status # "busy"
    BY DEF Called, BSY, Present
  <2> QED BY <2>1 DEF Flushing
<1>7. ReadsRight' /\ IdentifyTells'
  BY <1>5 DEF ReadsRight, IdentifyTells, Finished, Typed
<1> QED BY <1>1, <1>2, <1>3, <1>4, <1>6, <1>7

-----------------------------------------------------------------------------
(* Commands.                                                               *)

\* A drive that is present and not busy takes the command given to it.
LEMMA Accepted ==
    ASSUME Typed, NEW d \in Drives, drive[d].status # "busy",
           NEW c \in {"identify", "read", "write", "flush"}, NEW l \in Nat,
           NEW n \in 0..MaxCount, Issue(d, c, l, n)
    PROVE  /\ kind[d] = "none" => drive' = drive
           /\ kind[d] # "none" =>
                drive'[d] = [status |-> "busy", error |-> "none", command |-> c, lba |-> l,
                             left |-> IF c = "identify" THEN 1 ELSE IF n = 0 THEN MaxCount ELSE n,
                             sector |-> << >>]
           /\ \A e \in Drives : e # d => drive'[e] = drive[e]
           /\ drive' \in [Drives -> [status : {"ready", "busy", "data", "error"},
                             error : {"none", "mark", "abort"},
                             command : {"none", "identify", "read", "write", "flush"},
                             lba : Nat, left : 0..MaxCount, sector : Seq(Word)]]
<1>1. CASE kind[d] = "none"
  BY <1>1 DEF Issue, Typed
<1>2. CASE kind[d] # "none"
  <2> DEFINE v == [status |-> "busy", error |-> "none", command |-> c, lba |-> l,
                   left |-> IF c = "identify" THEN 1 ELSE IF n = 0 THEN MaxCount ELSE n,
                   sector |-> << >>]
  <2>1. drive' = [drive EXCEPT ![d] = v]
    BY <1>2 DEF Issue, Accept
  <2>2. v \in [status : {"ready", "busy", "data", "error"},
               error : {"none", "mark", "abort"},
               command : {"none", "identify", "read", "write", "flush"},
               lba : Nat, left : 0..MaxCount, sector : Seq(Word)]
    BY AtaAssumption, EmptySeq
  <2> HIDE DEF v
  <2>3. /\ drive'[d] = v
        /\ \A e \in Drives : e # d => drive'[e] = drive[e]
        /\ drive' \in [Drives -> [status : {"ready", "busy", "data", "error"},
                             error : {"none", "mark", "abort"},
                             command : {"none", "identify", "read", "write", "flush"},
                             lba : Nat, left : 0..MaxCount, sector : Seq(Word)]]
    BY <2>1, <2>2 DEF Typed
  <2> QED BY <1>2, <2>3 DEF v
<1> QED BY <1>1, <1>2

\* The registers are written and the drive accepts the command.
LEMMA CommandKeeps ==
    ASSUME BusInvariant, Command
    PROVE  BusInvariant'
<1> USE DEF Command, Target, FirstWait, BusInvariant
<1>1. /\ op.drive \in Drives /\ op.kind \in {"identify", "read", "write"}
      /\ op.lba \in Nat /\ op.count \in 0..(MaxCount - 1)
      /\ selected' = op.drive /\ op' = op /\ moved = 0 /\ moved' = 0
      /\ buffer' = buffer /\ disk' = disk /\ kind' = kind /\ fast' = fast
      /\ at' \in {"answer", "bsy"} /\ (at' = "answer" <=> op.kind = "identify")
  BY DEF Typed, Called, fixed
<1>2. drive[op.drive].status # "busy"
  BY <1>1 DEF BSY, Present, Here, Working, Idle
<1>3. /\ kind[op.drive] = "none" => drive' = drive
      /\ kind[op.drive] # "none" =>
           drive'[op.drive] = [status |-> "busy", error |-> "none", command |-> op.kind,
                               lba |-> op.lba, left |-> Asked, sector |-> << >>]
      /\ \A e \in Drives : e # op.drive => drive'[e] = drive[e]
      /\ drive' \in [Drives -> [status : {"ready", "busy", "data", "error"},
                             error : {"none", "mark", "abort"},
                             command : {"none", "identify", "read", "write", "flush"},
                             lba : Nat, left : 0..MaxCount, sector : Seq(Word)]]
  <2>1. op.count \in 0..MaxCount
    BY <1>1, AtaAssumption
  <2>2. /\ Issue(op.drive, op.kind, op.lba, op.count) /\ Typed
        /\ op.kind \in {"identify", "read", "write", "flush"}
    BY <1>1
  <2> QED BY ONLY <1>1, <1>2, <2>1, <2>2, Accepted DEF Asked
<1>4. Asked' = Asked /\ Asked \in 1..MaxCount
  BY <1>1, AtaAssumption DEF Asked
<1>5. Typed'
  BY <1>1, <1>3 DEF Typed
<1>6. \A e \in Drives : e # op.drive => drive[e].status # "busy"
  BY <1>1 DEF BSY, Present, Here, Working, Idle
<1>7. Working'
  BY <1>1, <1>3, <1>4, <1>6 DEF Working
<1>8. Called' /\ Begun'
  BY <1>1, <1>3, <1>4 DEF Called, Begun, Present, Here
<1>9. Identifying' /\ Reading' /\ Writing' /\ Flushing' /\ ReadsRight' /\ WritesLand' /\ IdentifyTells'
  BY <1>1 DEF Identifying, Reading, Writing, Flushing, ReadsRight, WritesLand, IdentifyTells, Finished
<1>10. TypeOK'
  BY <1>1, <1>3, <1>4, EmptySeq, AtaAssumption, SMTT(30) DEF TypeOK
<1> QED BY <1>5, <1>7, <1>8, <1>9, <1>10

-----------------------------------------------------------------------------
(* The end of a transfer.                                                  *)

\* All words of a sound sector have been moved when all words have.
LEMMA AllMoved ==
    ASSUME Typed, op.kind # "identify", moved >= Length
    PROVE  \A k \in Sound : Start(k) \in Nat /\ Start(k + 1) = Start(k) + Words
                            /\ Start(k + 1) <= moved
<1> SUFFICES ASSUME NEW k \in Sound
             PROVE  Start(k) \in Nat /\ Start(k + 1) = Start(k) + Words /\ Start(k + 1) <= moved
  OBVIOUS
<1>1. k \in Nat /\ k < op.count /\ op.count \in Nat
  BY SoundSectors DEF Typed
<1>2. Start(k) \in Nat /\ Start(k + 1) = Start(k) + Words /\ Start(k + 1) <= Start(op.count)
  BY <1>1, Starts
<1>3. Length = Start(op.count) /\ Length \in Nat /\ moved \in Nat
  BY WordsToMove DEF Typed
<1> QED BY <1>2, <1>3, AtaAssumption

\* A read that has moved all words has all sound sectors in its buffer.
LEMMA ReadDone ==
    ASSUME BusInvariant, at = "data", op.kind = "read", moved >= Length
    PROVE  \A k \in Sound :
              SubSeq(buffer, k * Words + 1, (k + 1) * Words) = disk[<< op.drive, op.lba + k >>]
<1> SUFFICES ASSUME NEW k \in Sound
             PROVE  SubSeq(buffer, k * Words + 1, (k + 1) * Words) = disk[<< op.drive, op.lba + k >>]
  OBVIOUS
<1> DEFINE s == disk[<< op.drive, op.lba + k >>]
           m == Start(k) + 1
           n == Start(k + 1)
           c == SubSeq(buffer, m, n)
<1>1. /\ Start(k) \in Nat /\ n = Start(k) + Words /\ n <= moved
      /\ Words \in Nat \ {0} /\ moved \in Nat
  BY AllMoved, AtaAssumption DEF BusInvariant, Typed
<1>2. s \in Sector
  BY SoundSectors, AtTheBus DEF BusInvariant, Typed
<1>3. buffer \in Seq(Word) /\ Len(buffer) = moved
  BY DEF BusInvariant, Typed, TypeOK
<1>4. Got(k)
  BY DEF BusInvariant, Reading
<1>5. /\ c \in Seq(Word) /\ Len(c) = Words
      /\ \A i \in 1..Words : c[i] = buffer[Start(k) + i]
  <2>1. m \in Int /\ n \in Int /\ m <= n /\ n - m + 1 = Words
    BY <1>1
  <2>2. \A i \in m..n : buffer[i] \in Word
    BY <1>1, <1>3
  <2>3. \A i \in 1..Words : m + i - 1 = Start(k) + i
    BY <1>1
  <2> HIDE DEF m, n
  <2>4. /\ c \in Seq(Word) /\ Len(c) = n - m + 1
        /\ \A i \in 1..(n - m + 1) : c[i] = buffer[m + i - 1]
    BY <2>1, <2>2, SubSeqProperties
  <2> QED BY <2>1, <2>3, <2>4
<1>6. \A i \in 1..Words : Start(k) + i <= moved
  BY <1>1
<1>7. \A i \in 1..Words : c[i] = s[i]
  <2> HIDE DEF c, n, m
  <2> QED BY <1>4, <1>5, <1>6 DEF Got
<1>8. s \in Seq(Word) /\ Len(s) = Words
  BY <1>2, SectorIsSeq
<1>9. c = s
  <2> HIDE DEF c, s
  <2> QED BY <1>5, <1>7, <1>8, SeqEqual
<1> QED BY <1>9 DEF Start

\* A write that has moved all words has all sound sectors stored, or the last
\* of them is in a drive that is storing it.
LEMMA WriteDone ==
    ASSUME BusInvariant, at = "data", op.kind = "write", moved >= Length
    PROVE  \A k \in Sound : Stored(k) \/ (Here.status = "busy" /\ k = Index)
<1> SUFFICES ASSUME NEW k \in Sound, ~Stored(k)
             PROVE  Here.status = "busy" /\ k = Index
  OBVIOUS
<1>1. Present /\ Here.command = "write"
  BY DEF BusInvariant, Called, Present
<1>2. k >= Index /\ Here.status \in {"busy", "data"} /\ Index \in Nat
  BY <1>1, AtTheBus DEF BusInvariant, Writing
<1>3. k \in Nat /\ Index \in Sound
  BY <1>2, SoundSectors DEF BusInvariant
<1>4. /\ Start(Index) \in Nat /\ Start(Index + 1) = Start(Index) + Words
      /\ Start(Index + 1) <= moved /\ Words \in Nat
  BY <1>3, AllMoved, AtaAssumption DEF BusInvariant
<1>5. Here.status # "data"
  <2> SUFFICES ASSUME Here.status = "data" PROVE FALSE
    OBVIOUS
  <2>1. moved = Start(Index) + Len(Here.sector)
    BY <1>1, <1>3 DEF BusInvariant, Writing
  <2>2. Len(Here.sector) < Words /\ Len(Here.sector) \in Nat
    BY <1>1, AtTheBus DEF BusInvariant, Working
  <2> QED BY <1>4, <2>1, <2>2
<1>6. k = Index
  <2> SUFFICES ASSUME k # Index PROVE FALSE
    BY <1>2, <1>3
  <2>1. fast
    <3>1. k > 0 /\ k > Index
      BY <1>2, <1>3
    <3> QED BY <3>1, SoundSectors DEF BusInvariant
  <2>2. moved = Start(Index + 1)
    BY <1>1, <1>2, <1>3, <1>5, <2>1 DEF BusInvariant, Writing
  <2>3. Start(k) < Start(k + 1) /\ Start(k + 1) <= moved
        /\ Start(k) \in Nat /\ Start(k + 1) \in Nat
    BY AllMoved, AtaAssumption DEF BusInvariant
  <2>4. Start(Index + 1) <= Start(k)
    BY <1>2, <1>3, Starts
  <2> QED BY <1>4, <2>2, <2>3, <2>4
<1> QED BY <1>2, <1>5, <1>6

\* All words of the call are moved: a read returns, a write flushes.
LEMMA MovedKeeps ==
    ASSUME BusInvariant, Moved
    PROVE  BusInvariant'
<1>1. /\ at = "data" /\ moved >= Length /\ kind[selected] = "disk" /\ Present
      /\ moved' = moved /\ buffer' = buffer /\ selected' = selected /\ disk' = disk
      /\ kind' = kind /\ fast' = fast /\ selected = op.drive /\ selected \in Drives
      /\ op.kind # "none" /\ Here.command = op.kind
  BY DEF Moved, BusInvariant, Called, TypeOK, fixed, Present
<1>2. CASE op.kind = "write"
  <2>1. Issue(selected, "flush", 0, 1) /\ at' = "flush" /\ op' = op
    BY <1>2 DEF Moved
  <2>2. \A k \in Sound : Stored(k) \/ (Here.status = "busy" /\ k = Index)
    BY <1>1, <1>2, WriteDone
  <2>3. /\ ReadsRight' /\ WritesLand' /\ IdentifyTells'
        /\ Begun' /\ Identifying' /\ Reading'
    BY <2>1 DEF ReadsRight, WritesLand, IdentifyTells, Finished, Begun, Identifying, Reading
  <2>4. Sound' = Sound /\ \A k \in Sound : Stored(k)' <=> Stored(k)
    BY <1>1, <2>1 DEF Sound, Stored
  <2>5. Called'
    BY <1>1, <1>2, <2>1 DEF Called, Length
  <2>6. CASE Here.status = "busy"
    <3>1. drive' = drive
      BY <1>1, <2>1, <2>6 DEF Issue, Accept, Here, BusInvariant, Typed
    <3>2. Typed' /\ Working' /\ TypeOK'
      BY <1>1, <1>2, <2>1, <3>1 DEF BusInvariant, Typed, Working, TypeOK
    <3>3. Here' = Here /\ Index' = Index /\ Asked' = Asked
      BY <1>1, <2>1, <3>1 DEF Here, Index, Asked
    <3>4. Writing'
      BY <1>1, <1>2, <2>1, <2>4, <3>3 DEF BusInvariant, Writing
    <3>5. Flushing'
      BY <1>1, <1>2, <2>1, <2>2, <2>4, <2>6, <3>3 DEF Flushing
    <3> QED BY <2>3, <2>5, <3>2, <3>4, <3>5 DEF BusInvariant
  <2>7. CASE Here.status # "busy"
    <3>1. drive[selected].status # "busy" /\ 1 \in 0..MaxCount /\ 0 \in Nat /\ Typed
      BY <2>7, AtaAssumption DEF Here, BusInvariant
    <3>2. /\ drive'[selected] = [status |-> "busy", error |-> "none", command |-> "flush",
                                 lba |-> 0, left |-> 1, sector |-> << >>]
          /\ \A e \in Drives : e # selected => drive'[e] = drive[e]
          /\ drive' \in [Drives -> [status : {"ready", "busy", "data", "error"},
                             error : {"none", "mark", "abort"},
                             command : {"none", "identify", "read", "write", "flush"},
                             lba : Nat, left : 0..MaxCount, sector : Seq(Word)]]
      BY <1>1, <2>1, <3>1, Accepted
    <3>3. Typed'
      BY <1>1, <2>1, <3>2 DEF BusInvariant, Typed
    <3>4. Working'
      BY <1>1, <3>2 DEF BusInvariant, Working
    <3>5. Writing'
      BY <1>1, <2>1, <3>2 DEF Writing, Here
    <3>6. Flushing'
      BY <1>1, <2>1, <2>2, <2>4, <2>7, <3>2 DEF Flushing, Here
    <3>7. TypeOK'
      BY <1>1, <1>2, <2>1, <3>2, EmptySeq, AtaAssumption, SMTT(30) DEF BusInvariant, TypeOK
    <3> QED BY <2>3, <2>5, <3>3, <3>4, <3>5, <3>6, <3>7 DEF BusInvariant
  <2> QED BY <2>6, <2>7
<1>3. CASE op.kind # "write"
  <2>1. at' = "code" /\ op' = [op EXCEPT !.answer = TRUE] /\ drive' = drive
    BY <1>3 DEF Moved, Return
  <2>2. /\ op'.kind = op.kind /\ op'.drive = op.drive /\ op'.lba = op.lba
        /\ op'.count = op.count /\ op'.answer = TRUE /\ Sound' = Sound
    BY <1>1, <2>1 DEF BusInvariant, Typed, Sound
  <2>3. Typed' /\ Working' /\ TypeOK'
    BY <1>1, <1>3, <2>1, <2>2 DEF BusInvariant, Typed, Working, TypeOK
  <2>4. Called' /\ Begun' /\ Identifying' /\ Reading' /\ Writing' /\ Flushing'
    BY <1>1, <1>3, <2>1, <2>2 DEF Called, Begun, Identifying, Reading, Writing, Flushing, Here
  <2>5. ReadsRight'
    BY <1>1, <2>1, <2>2, ReadDone DEF ReadsRight, Finished
  <2>6. WritesLand'
    BY <1>3, <2>2 DEF WritesLand, Finished
  <2>7. IdentifyTells'
    <3> SUFFICES ASSUME op.kind = "identify" PROVE buffer = Identified
      BY <1>1, <2>2 DEF IdentifyTells, Finished
    <3>1. moved = IdentifyWords
      BY <1>1, AtaAssumption DEF BusInvariant, TypeOK, Typed, Length
    <3> QED BY <1>1, <3>1 DEF BusInvariant, Identifying, Identified
  <2> QED BY <2>3, <2>4, <2>5, <2>6, <2>7 DEF BusInvariant
<1> QED BY <1>2, <1>3

-----------------------------------------------------------------------------
(* The drives' own steps.                                                  *)

\* Only the selected drive takes a step.
LEMMA WorksSelected ==
    ASSUME Working, NEW d \in Drives, drive[d].status = "busy"
    PROVE  d = selected /\ Present /\ BSY /\ Here.left > 0
BY DEF Working, Idle, Present, BSY, Here

\* A command that fails at a sector has come to one that is not sound.
LEMMA FailsForReason ==
    ASSUME BusInvariant, at = "data" \/ at = "flush", BSY, Fails(selected)
    PROVE  Index \notin Sound
<1>1. Present /\ selected = op.drive
  BY DEF BSY, BusInvariant, Called
<1>2. SUFFICES ASSUME Index \in Sound PROVE FALSE
  OBVIOUS
<1>3. Here.lba \in Sectors \ Bad
  <2>1. op.lba + Index = Here.lba
    BY AtTheBus DEF Index, BusInvariant, Typed
  <2> QED BY <1>2, <2>1, SoundSectors DEF BusInvariant
<1>4. kind[selected] = "disk"
  BY DEF BusInvariant, Called
<1> QED BY <1>3, <1>4 DEF Fails, Here

\* A call that has come to a sector which is not sound is past all that are.
LEMMA PastSound ==
    ASSUME Typed, Index \in Nat, Index \notin Sound
    PROVE  \A k \in Sound : ~(k >= Index)
<1> SUFFICES ASSUME NEW k \in Sound, k >= Index PROVE FALSE
  OBVIOUS
<1>1. k \in Nat /\ k # Index
  BY SoundSectors
<1>2. Index < k
  BY <1>1
<1> QED BY <1>2, SoundSectors

\* The drive gives up a command.
LEMMA FailKeeps ==
    ASSUME BusInvariant, NEW d \in Drives, Fail(d)
    PROVE  BusInvariant'
<1>1. PICK e \in {"mark", "abort"} :
         drive' = [drive EXCEPT ![d].status = "error", ![d].error = e]
  BY DEF Fail
<1>2. /\ d = selected /\ d \in Drives /\ Fails(selected) /\ Present /\ BSY
      /\ at' = at /\ op' = op /\ moved' = moved /\ buffer' = buffer
      /\ selected' = selected /\ disk' = disk /\ kind' = kind /\ fast' = fast
  BY WorksSelected DEF Fail, host, fixed, BusInvariant
<1>3. /\ drive'[d].status = "error" /\ drive'[d].lba = drive[d].lba /\ drive'[d].left = drive[d].left
      /\ drive'[d].command = drive[d].command /\ drive'[d].sector = drive[d].sector
      /\ \A c \in Drives : c # d => drive'[c] = drive[c]
      /\ drive' \in [Drives -> [status : {"ready", "busy", "data", "error"},
                         error : {"none", "mark", "abort"},
                         command : {"none", "identify", "read", "write", "flush"},
                         lba : Nat, left : 0..MaxCount, sector : Seq(Word)]]
  <2> DEFINE R == [status : {"ready", "busy", "data", "error"},
                   error : {"none", "mark", "abort"},
                   command : {"none", "identify", "read", "write", "flush"},
                   lba : Nat, left : 0..MaxCount, sector : Seq(Word)]
             v == [drive[d] EXCEPT !.status = "error", !.error = e]
  <2>1. drive \in [Drives -> R] /\ drive[d] \in R
    BY DEF BusInvariant, Typed
  <2>2. /\ v \in R
        /\ v.status = "error" /\ v.lba = drive[d].lba /\ v.left = drive[d].left
        /\ v.command = drive[d].command /\ v.sector = drive[d].sector
    BY <2>1
  <2>3. drive' = [drive EXCEPT ![d] = v]
    BY <1>1, <2>1
  <2> HIDE DEF v, R
  <2>4. drive'[d] = v /\ drive' \in [Drives -> R] /\ \A c \in Drives : c # d => drive'[c] = drive[c]
    BY <2>1, <2>2, <2>3
  <2> QED BY <2>2, <2>4 DEF R
<1>4. /\ Here'.status = "error" /\ Here'.lba = Here.lba /\ Here'.left = Here.left
      /\ Here'.command = Here.command /\ Here'.sector = Here.sector
  BY <1>2, <1>3, AtTheBus DEF Here, BusInvariant
<1>5. Sound' = Sound /\ Asked' = Asked /\ Index' = Index /\ Length' = Length
  BY <1>2, <1>4 DEF Sound, Asked, Index, Length
<1>6. Typed'
  BY <1>2, <1>3 DEF BusInvariant, Typed
<1>7. Working'
  BY <1>2, <1>3 DEF BusInvariant, Working, Present
<1>8. Called'
  BY <1>2, <1>4, <1>5 DEF BusInvariant, Called, BSY, Present
<1>9. Begun'
  <2>1. at \in {"answer", "bsy", "drq"} =>
           kind[selected] = "packet" \/ (op.kind = "read" /\ op.lba \notin Sectors \ Bad)
    <3> SUFFICES ASSUME at \in {"answer", "bsy", "drq"}, kind[selected] # "packet"
                 PROVE  op.kind = "read" /\ op.lba \notin Sectors \ Bad
      OBVIOUS
    <3>1. Here.command = op.kind /\ Here.lba = op.lba /\ Here.sector = << >>
      BY <1>2 DEF BusInvariant, Called, Begun, BSY
    <3> QED BY <1>2, <3>1 DEF Fails, Here
  <2> QED BY <1>2, <1>4, <1>5, <2>1 DEF BusInvariant, Begun, Present
<1>10. Identifying'
  <2>1. ~(at = "data" /\ op.kind = "identify" /\ Here.status = "busy" /\ moved < Words)
    BY DEF BusInvariant, Identifying
  <2> QED BY <1>2, <1>4, <2>1 DEF BusInvariant, Identifying, BSY
<1>11. (at = "data" \/ at = "flush") => Index \notin Sound
  BY <1>2, FailsForReason
<1>12. Reading'
  <2> SUFFICES ASSUME at = "data", op.kind = "read" PROVE Reading'
    BY <1>2 DEF Reading
  <2>1. Index \in Nat /\ \A k \in Sound : ~(k >= Index)
    BY <1>11, PastSound, AtTheBus DEF BusInvariant, Reading
  <2>2. \A k \in Sound : Got(k)' <=> Got(k)
    BY <1>2 DEF Got
  <2> QED BY <1>2, <1>4, <1>5, <1>11, <2>1, <2>2 DEF BusInvariant, Reading
<1>13. Writing' /\ Flushing'
  <2> SUFFICES ASSUME at \in {"data", "flush"}, op.kind = "write", Here.command = "write"
               PROVE  Writing' /\ Flushing'
    BY <1>2, <1>4, <1>5 DEF BusInvariant, Writing, Flushing, Fails, Stored, Called
  <2>1. Index \in Nat /\ \A k \in Sound : ~(k >= Index)
    BY <1>11, PastSound, AtTheBus DEF BusInvariant, Writing
  <2>2. \A k \in Sound : Stored(k)
    BY <2>1 DEF BusInvariant, Writing
  <2>3. \A k \in Sound : Stored(k)'
    BY <1>2, <2>2 DEF Stored
  <2> QED BY <1>2, <1>4, <1>5, <1>11, <2>3 DEF BusInvariant, Writing, Flushing
<1>14. TypeOK'
  BY <1>2, <1>3, <1>5 DEF BusInvariant, TypeOK
<1>15. ReadsRight' /\ WritesLand' /\ IdentifyTells'
  BY <1>2, <1>5 DEF BusInvariant, ReadsRight, WritesLand, IdentifyTells, Finished
<1> QED BY <1>6, <1>7, <1>8, <1>9, <1>10, <1>12, <1>13, <1>14, <1>15 DEF BusInvariant

\* What an offered sector is.
Offered(d) ==
    CASE drive[d].command = "read"     -> disk[<< d, drive[d].lba >>]
      [] drive[d].command = "identify" -> Identity
      [] OTHER                         -> << >>

\* The drive has a sector to read, or room for one to write.
LEMMA OfferKeeps ==
    ASSUME BusInvariant, NEW d \in Drives, Offer(d)
    PROVE  BusInvariant'
<1>1. /\ d = selected /\ d \in Drives /\ ~Fails(selected) /\ Present /\ BSY /\ Here = drive[d]
      /\ at' = at /\ op' = op /\ moved' = moved /\ buffer' = buffer
      /\ selected' = selected /\ disk' = disk /\ kind' = kind /\ fast' = fast
      /\ Here.command # "flush" /\ Here.sector = << >> /\ Here.left > 0
  BY WorksSelected DEF Offer, host, fixed, BusInvariant, Here
<1>2. /\ kind[selected] = "disk" /\ Here.status = "busy"
      /\ Here.command \in {"identify", "read", "write"}
      /\ Here.command = "read" => Here.lba \in Sectors \ Bad
  <2>1. kind[selected] \in {"disk", "packet", "none"}
    BY <1>1, AtaAssumption DEF BusInvariant, Typed, Drives
  <2>2. kind[selected] = "disk" /\ Here.status = "busy"
    <3>1. Here.status = "busy" /\ kind[selected] # "none"
      BY <1>1 DEF BSY, Present
    <3>2. kind[selected] # "packet"
      BY <1>1 DEF Fails
    <3> QED BY <1>1, <2>1, <3>1, <3>2
  <2>3. Here.command # "none"
    <3>1. Len(Here.sector) = Words => FALSE
      BY <1>1, AtaAssumption
    <3> QED BY <1>1, <2>2, <3>1 DEF BusInvariant, Working
  <2>4. Here.command \in {"none", "identify", "read", "write", "flush"}
    BY AtTheBus DEF BusInvariant
  <2>5. Here.command = "read" => Here.lba \in Sectors \ Bad
    BY <1>1, <2>2 DEF Fails, Here
  <2> QED BY <1>1, <2>2, <2>3, <2>4, <2>5
<1>3. Offered(d) \in Seq(Word) /\ (Here.command # "write" => Offered(d) \in Sector)
  <2>1. CASE Here.command = "read"
    BY <1>1, <1>2, <2>1, AtTheBus, SectorIsSeq DEF Offered, BusInvariant
  <2>2. CASE Here.command = "identify"
    BY <1>1, <2>2, SectorsAre, SectorIsSeq DEF Offered
  <2>3. CASE Here.command = "write"
    BY <1>1, <2>3, EmptySeq DEF Offered
  <2> QED BY <1>2, <2>1, <2>2, <2>3
<1>4. /\ drive'[d].status = "data" /\ drive'[d].lba = drive[d].lba /\ drive'[d].left = drive[d].left
      /\ drive'[d].command = drive[d].command /\ drive'[d].sector = Offered(d)
      /\ drive'[d].error = drive[d].error
      /\ \A c \in Drives : c # d => drive'[c] = drive[c]
      /\ drive' \in [Drives -> [status : {"ready", "busy", "data", "error"},
                         error : {"none", "mark", "abort"},
                         command : {"none", "identify", "read", "write", "flush"},
                         lba : Nat, left : 0..MaxCount, sector : Seq(Word)]]
  <2> DEFINE R == [status : {"ready", "busy", "data", "error"},
                   error : {"none", "mark", "abort"},
                   command : {"none", "identify", "read", "write", "flush"},
                   lba : Nat, left : 0..MaxCount, sector : Seq(Word)]
             o == Offered(d)
             v == [drive[d] EXCEPT !.status = "data", !.sector = o]
  <2>1. drive \in [Drives -> R] /\ drive[d] \in R
    BY DEF BusInvariant, Typed
  <2>2. o \in Seq(Word)
    BY <1>3
  <2>3. drive' = [drive EXCEPT ![d].status = "data", ![d].sector = o]
    BY DEF Offer, Offered
  <2> HIDE DEF o
  <2>4. /\ v \in R
        /\ v.status = "data" /\ v.lba = drive[d].lba /\ v.left = drive[d].left
        /\ v.command = drive[d].command /\ v.sector = o /\ v.error = drive[d].error
    BY <2>1, <2>2
  <2>5. drive' = [drive EXCEPT ![d] = v]
    BY <2>1, <2>3
  <2> HIDE DEF v, R
  <2>6. drive'[d] = v /\ drive' \in [Drives -> R] /\ \A c \in Drives : c # d => drive'[c] = drive[c]
    BY <2>1, <2>4, <2>5
  <2> QED BY <2>4, <2>6 DEF R, o
<1>5. /\ Here'.status = "data" /\ Here'.lba = Here.lba /\ Here'.left = Here.left
      /\ Here'.command = Here.command /\ Here'.sector = Offered(d) /\ Here'.error = Here.error
  BY <1>1, <1>4 DEF Here
<1>6. Sound' = Sound /\ Asked' = Asked /\ Index' = Index /\ Length' = Length
  BY <1>1, <1>5 DEF Sound, Asked, Index, Length
<1>7. Typed'
  BY <1>1, <1>4 DEF BusInvariant, Typed
<1>8. IF Here.command = "write" THEN Offered(d) = << >>
      ELSE Len(Offered(d)) = Words /\ Offered(d) # << >>
  BY <1>1, <1>2, <1>3, SectorIsSeq, AtaAssumption DEF Offered
<1>9. Working'
  <2>1. Len(<< >>) < Words
    BY AtaAssumption
  <2>2. /\ kind'[d] = "disk" /\ drive'[d].left > 0 /\ drive'[d].status = "data"
        /\ \/ drive'[d].command = "write" /\ Len(drive'[d].sector) < Words
           \/ drive'[d].command \in {"read", "identify"} /\ drive'[d].sector # << >>
    BY <1>1, <1>2, <1>4, <1>8, <2>1
  <2> QED BY <1>1, <1>4, <2>2 DEF BusInvariant, Working
<1>10. Called'
  BY <1>1, <1>5, <1>6 DEF BusInvariant, Called, BSY, Present
<1>11. Begun'
  <2> SUFFICES ASSUME at \in {"answer", "bsy", "drq"} PROVE Begun'
    BY <1>1 DEF Begun
  <2>1. Here.command = op.kind /\ Here.lba = op.lba /\ Here.left = Asked /\ Here.error = "none"
    BY <1>1, <1>2 DEF BusInvariant, Called, Begun
  <2> QED BY <1>1, <1>2, <1>5, <1>6, <2>1 DEF Begun, Offered, Present
<1>12. Identifying'
  BY <1>1, <1>2 DEF BusInvariant, Identifying
<1>13. Reading'
  <2> SUFFICES ASSUME at = "data", op.kind = "read" PROVE Reading'
    BY <1>1 DEF Reading
  <2>1. \A k \in Sound : Got(k)' <=> Got(k)
    BY <1>1 DEF Got
  <2>2. Here.command = "read" /\ selected = op.drive
    BY <1>1 DEF BusInvariant, Called
  <2>3. Offered(d) = disk[<< op.drive, Here.lba >>] /\ Offered(d) \in Sector /\ Len(Offered(d)) = Words
    BY <1>1, <1>3, <1>8, <2>2 DEF Offered
  <2>4. SubSeq(Offered(d), Words + 1 - Words, Words) = Offered(d)
    BY <2>3, WholeSector, AtaAssumption
  <2>5. Index \in Sound => moved + Words = Start(Index + 1)
    BY <1>2, Starts, SoundSectors DEF BusInvariant, Reading
  <2> QED BY <1>1, <1>2, <1>5, <1>6, <2>1, <2>3, <2>4, <2>5 DEF BusInvariant, Reading
<1>14. Writing' /\ Flushing'
  <2>1. Here.command = "write" => at \notin {"data", "flush"} \/ op.kind # "write"
    BY <1>1, <1>2 DEF BusInvariant, Writing
  <2> QED BY <1>1, <1>2, <1>5, <2>1 DEF BusInvariant, Writing, Flushing, Called
<1>15. TypeOK'
  <2>1. Len(Offered(d)) <= Words
    BY <1>8, AtaAssumption
  <2> QED BY <1>1, <1>4, <1>6, <2>1 DEF BusInvariant, TypeOK
<1>16. ReadsRight' /\ WritesLand' /\ IdentifyTells'
  BY <1>1, <1>6 DEF BusInvariant, ReadsRight, WritesLand, IdentifyTells, Finished
<1> QED BY <1>7, <1>9, <1>10, <1>11, <1>12, <1>13, <1>14, <1>15, <1>16 DEF BusInvariant

\* What a drive is when a sector is through.
LEMMA Through ==
    ASSUME Typed, NEW d \in Drives, drive[d].left > 0, NEW on \in {"busy", "data"}
    PROVE  /\ NextSector(drive[d], on) \in
                [status : {"ready", "busy", "data", "error"},
                 error : {"none", "mark", "abort"},
                 command : {"none", "identify", "read", "write", "flush"},
                 lba : Nat, left : 0..MaxCount, sector : Seq(Word)]
           /\ NextSector(drive[d], on).status = IF drive[d].left = 1 THEN "ready" ELSE on
           /\ NextSector(drive[d], on).error = drive[d].error
           /\ NextSector(drive[d], on).command = drive[d].command
           /\ NextSector(drive[d], on).lba = drive[d].lba + 1
           /\ NextSector(drive[d], on).left = drive[d].left - 1
           /\ NextSector(drive[d], on).sector = << >>
<1> DEFINE R == [status : {"ready", "busy", "data", "error"},
                 error : {"none", "mark", "abort"},
                 command : {"none", "identify", "read", "write", "flush"},
                 lba : Nat, left : 0..MaxCount, sector : Seq(Word)]
           v == NextSector(drive[d], on)
<1>1. drive[d] \in R
  BY DEF Typed
<1>2. << >> \in Seq(Word) /\ MaxCount \in Nat
  BY EmptySeq, AtaAssumption
<1> DEFINE x == drive[d]
<1>3. /\ x.error \in {"none", "mark", "abort"} /\ x.lba \in Nat /\ x.left \in 1..MaxCount
      /\ x.command \in {"none", "identify", "read", "write", "flush"}
      /\ x = [status |-> x.status, error |-> x.error, command |-> x.command,
              lba |-> x.lba, left |-> x.left, sector |-> x.sector]
  BY <1>1, <1>2
<1>4. v = [status |-> IF x.left = 1 THEN "ready" ELSE on, error |-> x.error,
           command |-> x.command, lba |-> x.lba + 1, left |-> x.left - 1, sector |-> << >>]
  <2>1. v = [x EXCEPT !.status = IF x.left = 1 THEN "ready" ELSE on,
                      !.lba = x.lba + 1, !.left = x.left - 1, !.sector = << >>]
    BY DEF NextSector
  <2> HIDE DEF v, x
  <2> QED BY <1>3, <2>1
<1> HIDE DEF v, x
<1>5. x.left - 1 \in 0..MaxCount /\ x.lba + 1 \in Nat
  BY <1>2, <1>3
<1>6. v \in R
  BY <1>2, <1>3, <1>4, <1>5
<1> QED BY <1>4, <1>6 DEF v, x

\* A drive stores a whole sector, and only for a write that runs; if the call
\* answers for the sector, it is the one the call gave.
LEMMA Committed ==
    ASSUME BusInvariant, NEW d \in Drives, Commit(d)
    PROVE  /\ d = selected /\ d \in Drives /\ ~Fails(selected) /\ Present /\ BSY /\ Here = drive[d]
           /\ at' = at /\ op' = op /\ moved' = moved /\ buffer' = buffer
           /\ selected' = selected /\ kind' = kind /\ fast' = fast
           /\ disk' = [disk EXCEPT ![<< d, Here.lba >>] = Here.sector]
           /\ Here.command = "write" /\ Here.sector # << >> /\ Here.left > 0
           /\ Here.status = "busy" /\ Here.lba \in Sectors \ Bad
           /\ Len(Here.sector) = Words /\ Here.sector \in Sector
           /\ at \in {"data", "flush"} /\ op.kind = "write" /\ selected = op.drive
           /\ kind[selected] = "disk"
           /\ Index \in Sound => Here.sector = New(Here.lba)
<1>1. /\ d = selected /\ d \in Drives /\ ~Fails(selected) /\ Present /\ BSY /\ Here = drive[d]
      /\ at' = at /\ op' = op /\ moved' = moved /\ buffer' = buffer
      /\ selected' = selected /\ kind' = kind /\ fast' = fast
      /\ disk' = [disk EXCEPT ![<< d, Here.lba >>] = Here.sector]
      /\ Here.command = "write" /\ Here.sector # << >> /\ Here.left > 0
  BY WorksSelected DEF Commit, host, fixed, BusInvariant, Here
<1>2. /\ Here.status = "busy" /\ Here.lba \in Sectors \ Bad
      /\ Len(Here.sector) = Words /\ Here.sector \in Sector
  <2>1. Here.status = "busy"
    BY <1>1 DEF BSY
  <2>2. kind[selected] \in {"disk", "packet"}
    BY <1>1, AtaAssumption DEF BusInvariant, Typed, Drives, Present
  <2>3. Here.lba \in Sectors \ Bad
    BY <1>1, <2>2 DEF Fails
  <2>4. Len(Here.sector) = Words
    BY <1>1, <2>1 DEF BusInvariant, Working
  <2>5. Here.sector \in Seq(Word)
    BY AtTheBus DEF BusInvariant
  <2>6. Here.sector \in Sector
    BY <2>4, <2>5 DEF Sector
  <2> QED BY <2>1, <2>3, <2>4, <2>6
<1>3. /\ at \in {"data", "flush"} /\ op.kind = "write" /\ selected = op.drive
      /\ kind[selected] = "disk"
  <2>1. at \notin {"code", "free"}
    BY <1>1 DEF BusInvariant, Called
  <2>2. at \notin {"answer", "bsy", "drq"}
    BY <1>1, <1>2 DEF BusInvariant, Begun
  <2>3. at \in {"data", "flush"}
    BY <2>1, <2>2 DEF BusInvariant, TypeOK
  <2> QED BY <1>1, <2>3 DEF BusInvariant, Called
<1>4. Index \in Sound => Here.sector = New(Here.lba)
  <2> SUFFICES ASSUME Index \in Sound PROVE Here.sector = New(Here.lba)
    OBVIOUS
  <2>1. Here.sector = SubSeq(New(Here.lba), 1, Words)
    BY <1>1, <1>2, <1>3 DEF BusInvariant, Writing
  <2>2. New(Here.lba) \in Sector
    BY <1>2, AtaAssumption, SectorsAre
  <2> QED BY <2>1, <2>2, WholeSector
<1> QED BY <1>1, <1>2, <1>3, <1>4

\* The drive stores the sector it was given.
LEMMA CommitKeeps ==
    ASSUME BusInvariant, NEW d \in Drives, Commit(d)
    PROVE  BusInvariant'
<1>1. /\ d = selected /\ d \in Drives /\ ~Fails(selected) /\ Present /\ BSY /\ Here = drive[d]
      /\ at' = at /\ op' = op /\ moved' = moved /\ buffer' = buffer
      /\ selected' = selected /\ kind' = kind /\ fast' = fast
      /\ disk' = [disk EXCEPT ![<< d, Here.lba >>] = Here.sector]
      /\ Here.command = "write" /\ Here.sector # << >> /\ Here.left > 0
  BY Committed
<1>2. /\ Here.status = "busy" /\ Here.lba \in Sectors \ Bad
      /\ Len(Here.sector) = Words /\ Here.sector \in Sector
  BY Committed
<1>3. /\ at \in {"data", "flush"} /\ op.kind = "write" /\ selected = op.drive
      /\ kind[selected] = "disk"
  BY Committed
<1>4. /\ drive'[d].status = (IF Here.left = 1 THEN "ready" ELSE "data")
      /\ drive'[d].error = Here.error
      /\ drive'[d].command = "write"
      /\ drive'[d].lba = Here.lba + 1
      /\ drive'[d].left = Here.left - 1
      /\ drive'[d].sector = << >>
      /\ \A c \in Drives : c # d => drive'[c] = drive[c]
      /\ drive' \in [Drives -> [status : {"ready", "busy", "data", "error"},
                         error : {"none", "mark", "abort"},
                         command : {"none", "identify", "read", "write", "flush"},
                         lba : Nat, left : 0..MaxCount, sector : Seq(Word)]]
  <2> DEFINE R == [status : {"ready", "busy", "data", "error"},
                   error : {"none", "mark", "abort"},
                   command : {"none", "identify", "read", "write", "flush"},
                   lba : Nat, left : 0..MaxCount, sector : Seq(Word)]
             v == NextSector(drive[d], "data")
  <2>1. /\ v \in R
        /\ v.status = (IF Here.left = 1 THEN "ready" ELSE "data")
        /\ v.error = Here.error /\ v.command = "write" /\ v.lba = Here.lba + 1
        /\ v.left = Here.left - 1 /\ v.sector = << >>
    BY <1>1, Through DEF BusInvariant
  <2>2. drive' = [drive EXCEPT ![d] = v] /\ drive \in [Drives -> R]
    BY DEF Commit, BusInvariant, Typed
  <2> HIDE DEF v, R
  <2>3. drive'[d] = v /\ drive' \in [Drives -> R] /\ \A c \in Drives : c # d => drive'[c] = drive[c]
    BY <2>1, <2>2
  <2> QED BY <2>1, <2>3 DEF R
<1>5. /\ Here'.status = (IF Here.left = 1 THEN "ready" ELSE "data")
      /\ Here'.lba = Here.lba + 1 /\ Here'.left = Here.left - 1
      /\ Here'.command = "write" /\ Here'.sector = << >> /\ Here'.error = Here.error
  BY <1>1, <1>4 DEF Here
<1>6. /\ Sound' = Sound /\ Asked' = Asked /\ Length' = Length /\ Asked \in Nat
      /\ Index \in 0..Asked /\ Here.left = Asked - Index /\ Index' = Index + 1
  <2>1. Index \in 0..Asked /\ Here.left = Asked - Index
    BY <1>1, <1>3 DEF BusInvariant, Writing
  <2>2. Index' = Index + 1
    BY <1>1, <1>5, AtTheBus DEF Index, BusInvariant, Typed
  <2>3. Asked \in Nat
    BY AtTheBus DEF BusInvariant
  <2> QED BY <1>1, <2>1, <2>2, <2>3 DEF Sound, Asked, Length
<1>7. /\ disk'[<< d, Here.lba >>] = Here.sector
      /\ \A p \in Drives \X Sectors : p # << d, Here.lba >> => disk'[p] = disk[p]
      /\ disk' \in [Drives \X Sectors -> [1..Words -> Word]]
  <2>1. << d, Here.lba >> \in Drives \X Sectors
    BY <1>2
  <2>2. disk \in [Drives \X Sectors -> [1..Words -> Word]] /\ Here.sector \in [1..Words -> Word]
    BY <1>2 DEF BusInvariant, Typed, Sector
  <2> QED BY <1>1, <2>1, <2>2
<1>8. Typed'
  BY <1>1, <1>4, <1>7 DEF BusInvariant, Typed
<1>9. Working'
  <2>1. Len(<< >>) < Words
    BY AtaAssumption
  <2>2. drive'[d].status = "data" => drive'[d].left > 0
    BY <1>4, AtTheBus, <1>1 DEF BusInvariant
  <2>3. ASSUME NEW c \in Drives, c # d
        PROVE  drive'[c] = drive[c] /\ kind'[c] = kind[c] /\ drive[c].status # "busy"
    BY <1>1, <1>4, <2>3 DEF BusInvariant, Working
  <2>4. /\ kind'[d] # "none" /\ drive'[d].status # "busy"
        /\ drive'[d].status = "data" =>
              /\ kind'[d] = "disk" /\ drive'[d].left > 0
              /\ drive'[d].command = "write" /\ Len(drive'[d].sector) < Words
    BY <1>1, <1>3, <1>4, <2>1, <2>2
  <2> QED BY <2>3, <2>4 DEF BusInvariant, Working
<1>10. Called'
  BY <1>1, <1>3, <1>5, <1>6 DEF BusInvariant, Called, BSY, Present
<1>11. Begun' /\ Identifying' /\ Reading' /\ ReadsRight' /\ WritesLand' /\ IdentifyTells'
  BY <1>1, <1>3 DEF Begun, Identifying, Reading, ReadsRight, WritesLand, IdentifyTells, Finished
<1>12. Index \in Sound => Here.sector = New(Here.lba)
  BY Committed
<1>13. \A k \in Sound : /\ Stored(k) => Stored(k)'
                        /\ k = Index => Stored(k)'
  <2> SUFFICES ASSUME NEW k \in Sound PROVE (Stored(k) => Stored(k)') /\ (k = Index => Stored(k)')
    OBVIOUS
  <2>1. << op.drive, op.lba + k >> \in Drives \X Sectors
    BY SoundSectors DEF BusInvariant, Typed
  <2>2. CASE op.lba + k = Here.lba
    <3>1. k = Index
      BY <2>2, SoundSectors DEF Index, BusInvariant, Typed
    <3> QED BY <1>1, <1>3, <1>7, <1>12, <2>2, <3>1 DEF Stored
  <2>3. CASE op.lba + k # Here.lba
    <3>1. k # Index
      BY <2>3, AtTheBus DEF Index, BusInvariant, Typed
    <3> QED BY <1>1, <1>7, <2>1, <2>3, <3>1 DEF Stored
  <2> QED BY <2>2, <2>3
<1>14. \A k \in Sound : Stored(k)' \/ (k >= Index + 1 /\ Here'.status = "data")
  <2> SUFFICES ASSUME NEW k \in Sound, ~Stored(k)'
               PROVE  k >= Index + 1 /\ Here'.status = "data"
    OBVIOUS
  <2>1. k >= Index /\ k # Index
    BY <1>1, <1>3, <1>13 DEF BusInvariant, Writing
  <2>2. k \in Nat /\ Index \in Nat /\ k < op.count /\ op.count \in Nat
    BY <1>6, SoundSectors DEF BusInvariant, Typed
  <2>3. Asked = op.count
    BY <1>3, <2>2 DEF Asked
  <2>4. Here.left # 1
    BY <1>6, <2>1, <2>2, <2>3
  <2> QED BY <1>5, <2>1, <2>2, <2>4
<1>15. Writing'
  <2>1. Index + 1 \in 0..Asked /\ Here.left - 1 = Asked - (Index + 1)
    BY <1>1, <1>6
  <2>2. SubSeq(New(Here.lba + 1), 1, 0) = << >>
    BY SubSeqEmpty
  <2>3. Index + 1 \in Sound => moved = Start(Index + 1)
    <3> SUFFICES ASSUME Index + 1 \in Sound PROVE moved = Start(Index + 1)
      OBVIOUS
    <3>1. Index \in Nat /\ Index < Index + 1 /\ Index + 1 > 0
      BY <1>6
    <3>2. fast /\ Index \in Sound
      BY <3>1, SoundSectors DEF BusInvariant
    <3> QED BY <1>1, <1>2, <1>3, <3>2 DEF BusInvariant, Writing
  <2>4. Start(Index + 1) + 0 = Start(Index + 1)
    BY <1>6, Starts
  <2>5. /\ Index' \in 0..Asked' /\ Here'.left = Asked' - Index'
        /\ Here'.sector = << >> /\ Here'.status # "busy"
    BY <1>5, <1>6, <2>1
  <2>6. \A k \in Sound' : Stored(k)' \/ (k >= Index' /\ Here'.status = "data")
    BY <1>6, <1>14
  <2>7. Index' \in Sound' =>
           /\ Here'.sector = SubSeq(New(Here'.lba), 1, Len(Here'.sector))
           /\ moved' = Start(Index') + Len(Here'.sector)
    BY <1>1, <1>5, <1>6, <2>2, <2>3, <2>4
  <2> HIDE DEF Stored
  <2> QED BY <2>5, <2>6, <2>7 DEF Writing, Stored, Start, New
<1>16. Flushing'
  BY <1>1, <1>5, <1>6, <1>13 DEF BusInvariant, Flushing
<1>17. TypeOK'
  <2>1. Len(<< >>) <= Words
    BY AtaAssumption
  <2> QED BY <1>1, <1>4, <1>6, <2>1 DEF BusInvariant, TypeOK
<1> QED BY <1>8, <1>9, <1>10, <1>11, <1>15, <1>16, <1>17 DEF BusInvariant

\* A flush changes no sector and ends no write.
LEMMA FlushKeeps ==
    ASSUME BusInvariant, NEW d \in Drives, Flush(d)
    PROVE  BusInvariant'
<1>1. /\ d = selected /\ d \in Drives /\ Present /\ BSY /\ Here = drive[d]
      /\ at' = at /\ op' = op /\ moved' = moved /\ buffer' = buffer
      /\ selected' = selected /\ disk' = disk /\ kind' = kind /\ fast' = fast
      /\ Here.command = "flush"
  BY WorksSelected DEF Flush, host, fixed, BusInvariant, Here
<1>2. at \in {"code", "free", "flush"}
  <2>1. op.kind # "flush"
    BY DEF BusInvariant, Typed
  <2> QED BY <1>1, <2>1 DEF BusInvariant, TypeOK, Called
<1>3. /\ drive'[d].status = "ready" /\ drive'[d].command = "flush"
      /\ drive'[d].left = drive[d].left /\ drive'[d].sector = drive[d].sector
      /\ \A c \in Drives : c # d => drive'[c] = drive[c]
      /\ drive' \in [Drives -> [status : {"ready", "busy", "data", "error"},
                         error : {"none", "mark", "abort"},
                         command : {"none", "identify", "read", "write", "flush"},
                         lba : Nat, left : 0..MaxCount, sector : Seq(Word)]]
  <2> DEFINE R == [status : {"ready", "busy", "data", "error"},
                   error : {"none", "mark", "abort"},
                   command : {"none", "identify", "read", "write", "flush"},
                   lba : Nat, left : 0..MaxCount, sector : Seq(Word)]
             v == [drive[d] EXCEPT !.status = "ready"]
  <2>1. drive \in [Drives -> R] /\ drive[d] \in R
    BY DEF BusInvariant, Typed
  <2>2. /\ v \in R /\ v.status = "ready" /\ v.command = "flush"
        /\ v.left = drive[d].left /\ v.sector = drive[d].sector
    BY <1>1, <2>1
  <2>3. drive' = [drive EXCEPT ![d] = v]
    BY <2>1 DEF Flush
  <2> HIDE DEF v, R
  <2>4. drive'[d] = v /\ drive' \in [Drives -> R] /\ \A c \in Drives : c # d => drive'[c] = drive[c]
    BY <2>1, <2>2, <2>3
  <2> QED BY <2>2, <2>4 DEF R
<1>4. Here'.status = "ready" /\ Here'.command = "flush"
  BY <1>1, <1>3 DEF Here
<1>5. Sound' = Sound /\ Length' = Length
  BY <1>1 DEF Sound, Length
<1>6. Typed'
  BY <1>1, <1>3 DEF BusInvariant, Typed
<1>7. Working'
  BY <1>1, <1>3 DEF BusInvariant, Working, Present
<1>8. Called'
  BY <1>1, <1>2, <1>4, <1>5 DEF BusInvariant, Called, BSY, Present
<1>9. Begun' /\ Identifying' /\ Reading' /\ Writing'
  BY <1>1, <1>2, <1>4 DEF Begun, Identifying, Reading, Writing
<1>10. Flushing'
  BY <1>1, <1>4, <1>5 DEF BusInvariant, Flushing, Stored
<1>11. TypeOK'
  BY <1>1, <1>3, <1>5 DEF BusInvariant, TypeOK
<1>12. ReadsRight' /\ WritesLand' /\ IdentifyTells'
  BY <1>1, <1>5 DEF BusInvariant, ReadsRight, WritesLand, IdentifyTells, Finished
<1> QED BY <1>6, <1>7, <1>8, <1>9, <1>10, <1>11, <1>12 DEF BusInvariant

-----------------------------------------------------------------------------
(* Words.                                                                  *)

\* The host moves a word from or to the drive the call is for.
LEMMA WordMoves ==
    ASSUME BusInvariant, Move
    PROVE  /\ at = "data" /\ at' = at /\ op' = op /\ moved' = moved + 1 /\ moved < Length
           /\ selected' = selected /\ disk' = disk /\ kind' = kind /\ fast' = fast
           /\ selected = op.drive /\ selected \in Drives /\ kind[selected] = "disk" /\ Present
           /\ Here.command = op.kind /\ op.kind \in {"identify", "read", "write"}
           /\ fast => Here.status # "busy"
           /\ moved \in Nat /\ Length \in Nat
           /\ Sound' = Sound /\ Asked' = Asked /\ Length' = Length
<1>1. /\ at = "data" /\ at' = at /\ op' = op /\ moved' = moved + 1 /\ moved < Length
      /\ selected' = selected /\ disk' = disk /\ kind' = kind /\ fast' = fast
      /\ fast => ~BSY
  BY DEF Move, More, fixed
<1>2. /\ selected = op.drive /\ selected \in Drives /\ kind[selected] = "disk" /\ Present
      /\ Here.command = op.kind /\ op.kind \in {"identify", "read", "write"}
  BY <1>1 DEF BusInvariant, Called, TypeOK, Typed, Present
<1>3. moved \in Nat /\ Length \in Nat
  BY WordsToMove DEF BusInvariant, Typed
<1> QED BY <1>1, <1>2, <1>3 DEF BSY, Sound, Asked, Length

\* A word read comes from the drive's sector if it has one to give, and the
\* last word of a sector turns the drive to the next.
LEMMA WordIsRead ==
    ASSUME BusInvariant, Move, op.kind # "write"
    PROVE  /\ Here.status # "data" => drive' = drive /\ buffer' = Append(buffer, Garbage)
           /\ Here.status = "data" =>
                /\ Len(Here.sector) \in 1..Words /\ Head(Here.sector) \in Word
                /\ buffer' = Append(buffer, Head(Here.sector))
                /\ Here'.command = Here.command
                /\ Here.left \in 1..MaxCount
                /\ Len(Here.sector) = 1 =>
                      /\ Here'.status = IF Here.left = 1 THEN "ready" ELSE "busy"
                      /\ Here'.lba = Here.lba + 1 /\ Here'.left = Here.left - 1
                      /\ Here'.sector = << >>
                /\ Len(Here.sector) # 1 =>
                      /\ Here'.status = "data"
                      /\ Here'.lba = Here.lba /\ Here'.left = Here.left
                      /\ Here'.sector = Tail(Here.sector)
                      /\ Here'.sector \in Seq(Word)
                      /\ Len(Here'.sector) = Len(Here.sector) - 1
           /\ \A c \in Drives : c # selected => drive'[c] = drive[c]
           /\ drive' \in [Drives -> [status : {"ready", "busy", "data", "error"},
                         error : {"none", "mark", "abort"},
                         command : {"none", "identify", "read", "write", "flush"},
                         lba : Nat, left : 0..MaxCount, sector : Seq(Word)]]
<1> DEFINE R == [status : {"ready", "busy", "data", "error"},
                 error : {"none", "mark", "abort"},
                 command : {"none", "identify", "read", "write", "flush"},
                 lba : Nat, left : 0..MaxCount, sector : Seq(Word)]
<1>1. /\ Here.command \in {"identify", "read"} /\ Present /\ selected \in Drives
      /\ selected' = selected /\ ReadWord
  BY WordMoves DEF Move
<1>2. drive \in [Drives -> R] /\ Here \in R /\ Here = drive[selected]
  BY AtTheBus DEF BusInvariant, Typed
<1>3. WordOut <=> Here.status = "data"
  BY <1>1 DEF WordOut, DRQ
<1>4. CASE Here.status # "data"
  BY <1>1, <1>2, <1>3, <1>4 DEF ReadWord
<1>5. CASE Here.status = "data"
  <2> DEFINE x == Here.sector
  <2>1. x \in Seq(Word) /\ x # << >> /\ Len(x) <= Words /\ Here.left > 0 /\ Here.left \in 0..MaxCount
    BY <1>1, <1>2, <1>5 DEF BusInvariant, Working, TypeOK
  <2>2. /\ Len(x) \in 1..Words /\ Head(x) \in Word /\ Tail(x) \in Seq(Word)
        /\ Len(Tail(x)) = Len(x) - 1 /\ Here.left \in 1..MaxCount
    <3> HIDE DEF x
    <3>1. Words \in Nat /\ MaxCount \in Nat
      BY AtaAssumption
    <3>2. Len(x) \in Nat \ {0} /\ Head(x) \in Word /\ Tail(x) \in Seq(Word) /\ Len(Tail(x)) = Len(x) - 1
      BY <2>1
    <3> QED BY <2>1, <3>1, <3>2
  <2>3. /\ buffer' = Append(buffer, Head(x))
        /\ drive' = [drive EXCEPT ![selected] =
                        IF Len(x) = 1 THEN NextSector(Here, "busy")
                        ELSE [Here EXCEPT !.sector = Tail(x)]]
    BY <1>1, <1>3, <1>5 DEF ReadWord
  <2> DEFINE v == IF Len(x) = 1 THEN NextSector(Here, "busy") ELSE [Here EXCEPT !.sector = Tail(x)]
  <2>4. drive' = [drive EXCEPT ![selected] = v]
    BY <2>3
  <2>5. /\ v \in R /\ v.command = Here.command
        /\ Len(x) = 1 => /\ v.status = IF Here.left = 1 THEN "ready" ELSE "busy"
                         /\ v.lba = Here.lba + 1 /\ v.left = Here.left - 1
                         /\ v.sector = << >>
        /\ Len(x) # 1 => /\ v.status = "data" /\ v.lba = Here.lba /\ v.left = Here.left
                         /\ v.sector = Tail(x)
    <3>1. CASE Len(x) = 1
      <4>1. v = NextSector(drive[selected], "busy") /\ drive[selected].left > 0 /\ Typed
        BY <1>2, <2>1, <3>1 DEF BusInvariant
      <4> HIDE DEF v
      <4> QED BY <1>1, <1>2, <3>1, <4>1, Through
    <3>2. CASE Len(x) # 1
      <4>1. v = [Here EXCEPT !.sector = Tail(x)] /\ Tail(x) \in Seq(Word)
        BY <2>2, <3>2
      <4> HIDE DEF v, x
      <4> QED BY <1>2, <1>5, <3>2, <4>1
    <3> QED BY <3>1, <3>2
  <2> HIDE DEF v, R
  <2>6. /\ drive'[selected] = v /\ drive' \in [Drives -> R] /\ Here' = v
        /\ \A c \in Drives : c # selected => drive'[c] = drive[c]
    BY <1>1, <1>2, <2>4, <2>5 DEF Here
  <2> QED BY <1>5, <2>2, <2>3, <2>5, <2>6 DEF R
<1> QED BY <1>4, <1>5

\* A read word that belongs to a sound sector is the word the sector holds.
LEMMA WordOfSector ==
    ASSUME BusInvariant, Move, op.kind = "read", NEW k \in Sound, NEW w \in 1..Words,
           Start(k) + w = moved + 1
    PROVE  /\ k = Index /\ Here.status = "data"
           /\ Head(Here.sector) = disk[<< op.drive, op.lba + k >>][w]
<1>1. /\ at = "data" /\ selected = op.drive /\ moved \in Nat
      /\ fast => Here.status # "busy"
  BY WordMoves
<1>2. k \in Nat /\ Start(k) \in Nat /\ Start(k + 1) = Start(k) + Words /\ Words \in Nat \ {0}
  BY SoundSectors, Starts, AtaAssumption DEF BusInvariant
<1>3. ~(Start(k + 1) <= moved)
  BY <1>1, <1>2
<1>4. k >= Index /\ Here.status \in {"busy", "data"} /\ Index \in Nat
  BY <1>1, <1>3, AtTheBus DEF BusInvariant, Reading
<1>5. Index \in Sound
  <2>1. k = Index \/ Index < k
    BY <1>2, <1>4
  <2> QED BY <1>4, <2>1, SoundSectors DEF BusInvariant
<1>6. Here.status = "data"
  BY <1>1, <1>4, <1>5 DEF BusInvariant, Reading
<1> DEFINE n == Len(Here.sector)
           s == disk[<< op.drive, Here.lba >>]
<1>7. moved + n = Start(Index + 1) /\ Here.sector = SubSeq(s, Words + 1 - n, Words)
  BY <1>1, <1>5, <1>6 DEF BusInvariant, Reading
<1>8. n \in 1..Words
  BY <1>6, WordIsRead
<1>9. Start(Index) \in Nat /\ Start(Index + 1) = Start(Index) + Words
  BY <1>4, Starts
<1>10. k = Index
  <2> SUFFICES ASSUME Index < k PROVE FALSE
    BY <1>2, <1>4
  <2>1. Start(Index + 1) <= Start(k)
    BY <1>2, <1>4, Starts
  <2> HIDE DEF n
  <2> QED BY <1>1, <1>2, <1>7, <1>8, <1>9, <2>1
<1>11. w = Words + 1 - n /\ w \in 1..Words
  <2> HIDE DEF n
  <2> QED BY <1>1, <1>2, <1>7, <1>8, <1>9, <1>10
<1>12. op.lba + k = Here.lba /\ s \in Sector
  <2>1. op.lba + k = Here.lba
    BY <1>10, AtTheBus DEF Index, BusInvariant, Typed
  <2>2. Here.lba \in Sectors /\ op.drive \in Drives
    BY <2>1, SoundSectors DEF BusInvariant, Typed
  <2> QED BY <2>1, <2>2, AtTheBus DEF BusInvariant
<1>13. Head(SubSeq(s, w, Words)) = s[w]
  <2> HIDE DEF s
  <2> QED BY <1>11, <1>12, RestOfSector
<1> QED BY <1>6, <1>7, <1>10, <1>11, <1>12, <1>13

\* Reading goes on: the word is in its place, and drive and host go on
\* together to the next word or the next sector.
LEMMA ReadingGoesOn ==
    ASSUME BusInvariant, Move, op.kind = "read"
    PROVE  Reading'
<1>1. /\ at = "data" /\ at' = at /\ op' = op /\ moved' = moved + 1 /\ moved < Length
      /\ selected' = selected /\ disk' = disk /\ kind' = kind /\ fast' = fast
      /\ selected = op.drive
      /\ fast => Here.status # "busy"
      /\ moved \in Nat /\ Sound' = Sound /\ Asked' = Asked
  BY WordMoves
<1>2. /\ op.count > 0 => 0 \in Sound
      /\ Index \in 0..Asked /\ Here.left = Asked - Index /\ Index \in Nat
      /\ Asked \in Nat /\ Here.lba \in Nat /\ op.lba \in Nat /\ op.count \in Nat
  BY <1>1, AtTheBus DEF BusInvariant, Reading, Typed
<1>3. buffer \in Seq(Word) /\ Len(buffer) = moved
  BY DEF BusInvariant, Typed, TypeOK
<1>4. \A i \in 1..moved : buffer'[i] = buffer[i]
  <2>1. PICK e \in Word : buffer' = Append(buffer, e)
    BY <1>1, WordIsRead, SectorsAre
  <2> QED BY <1>3, <2>1, AppendProperties
<1>5. Here.status = "data" => buffer'[moved + 1] = Head(Here.sector)
  BY <1>1, <1>3, WordIsRead, AppendProperties
<1>6. \A k \in Sound : Got(k)'
  <2> SUFFICES ASSUME NEW k \in Sound, NEW w \in 1..Words, Start(k) + w <= moved + 1
               PROVE  buffer'[Start(k) + w] = disk[<< op.drive, op.lba + k >>][w]
    BY <1>1 DEF Got, Start
  <2>1. k \in Nat /\ Start(k) \in Nat /\ w \in Nat \ {0}
    BY SoundSectors, Starts, AtaAssumption DEF BusInvariant
  <2>2. CASE Start(k) + w = moved + 1
    BY <1>5, <2>2, WordOfSector
  <2>3. CASE Start(k) + w # moved + 1
    <3>1. Start(k) + w \in 1..moved
      BY <1>1, <2>1, <2>3
    <3>2. Got(k)
      BY <1>1 DEF BusInvariant, Reading
    <3> QED BY <1>4, <3>1, <3>2 DEF Got
  <2> QED BY <2>2, <2>3
<1>7. \A k \in Sound : k \in Nat /\ Start(k) \in Nat /\ Start(k + 1) = Start(k) + Words
                       /\ Start(k + 1) \in Nat /\ Words \in Nat \ {0} /\ k < op.count
  <2> SUFFICES ASSUME NEW k \in Sound
               PROVE  /\ k \in Nat /\ Start(k) \in Nat /\ Start(k + 1) = Start(k) + Words
                      /\ Start(k + 1) \in Nat /\ Words \in Nat \ {0} /\ k < op.count
    OBVIOUS
  <2>1. k \in Nat /\ k < op.count
    BY SoundSectors DEF BusInvariant
  <2> QED BY <2>1, Starts, AtaAssumption
<1>8. Index \in Sound => Here.status # "busy"
  BY <1>1 DEF BusInvariant, Reading
<1>9. CASE Here.status # "data"
  <2>1. Here' = Here /\ Index' = Index
    BY <1>1, <1>9, WordIsRead DEF Here, Index
  <2>2. ASSUME NEW k \in Sound
        PROVE  Start(k + 1) <= moved + 1 \/ (k >= Index /\ Here.status \in {"busy", "data"})
    <3>1. Start(k + 1) <= moved \/ (k >= Index /\ Here.status \in {"busy", "data"})
      BY <1>1 DEF BusInvariant, Reading
    <3> QED BY <1>1, <1>7, <3>1
  <2>3. \A k \in Sound : Start(k + 1)' = Start(k + 1)
    BY DEF Start
  <2> HIDE DEF Got
  <2> QED BY <1>1, <1>2, <1>6, <1>8, <1>9, <2>1, <2>2, <2>3 DEF Reading
<1>10. CASE Here.status = "data" /\ Len(Here.sector) # 1
  <2> DEFINE n == Len(Here.sector)
             s == disk[<< op.drive, Here.lba >>]
  <2>1. /\ Here'.status = "data" /\ Here'.lba = Here.lba /\ Here'.left = Here.left
        /\ Here'.sector = Tail(Here.sector) /\ Len(Here'.sector) = n - 1
        /\ n \in 1..Words /\ n # 1
    BY <1>10, WordIsRead
  <2>2. Index' = Index
    BY <1>1, <2>1 DEF Index
  <2>3. ASSUME NEW k \in Sound
        PROVE  Start(k + 1) <= moved + 1 \/ (k >= Index /\ Here'.status \in {"busy", "data"})
    <3>1. Start(k + 1) <= moved \/ k >= Index
      BY <1>1 DEF BusInvariant, Reading
    <3> QED BY <1>1, <1>7, <2>1, <3>1
  <2>4. Index \in Sound =>
           /\ moved + 1 + (n - 1) = Start(Index + 1)
           /\ Tail(Here.sector) = SubSeq(s, Words + 1 - (n - 1), Words)
    <3> SUFFICES ASSUME Index \in Sound
                 PROVE  /\ moved + 1 + (n - 1) = Start(Index + 1)
                        /\ Tail(Here.sector) = SubSeq(s, Words + 1 - (n - 1), Words)
      OBVIOUS
    <3>1. moved + n = Start(Index + 1) /\ Here.sector = SubSeq(s, Words + 1 - n, Words)
      BY <1>1, <1>10 DEF BusInvariant, Reading
    <3>2. s \in Sector
      <4>1. op.lba + Index = Here.lba
        BY <1>2 DEF Index
      <4>2. Here.lba \in Sectors /\ op.drive \in Drives
        BY <4>1, SoundSectors DEF BusInvariant, Typed
      <4> QED BY <4>2, AtTheBus DEF BusInvariant
    <3> HIDE DEF n, s
    <3>3. /\ Words + 1 - n \in 1..Words /\ (Words + 1 - n) + 1 = Words + 1 - (n - 1)
          /\ moved + 1 + (n - 1) = moved + n
      BY <1>1, <2>1, AtaAssumption
    <3>4. Tail(SubSeq(s, Words + 1 - n, Words)) = SubSeq(s, (Words + 1 - n) + 1, Words)
      BY <3>2, <3>3, RestOfSector
    <3> QED BY <3>1, <3>3, <3>4
  <2>5. \A k \in Sound : Start(k + 1)' = Start(k + 1)
    BY DEF Start
  <2>6. Start(Index)' = Start(Index) /\ Start(Index + 1)' = Start(Index + 1)
    BY <2>2 DEF Start
  <2>7. Index' \in Sound' => /\ moved' + Len(Here'.sector) = Start(Index + 1)
                             /\ Here'.sector = SubSeq(disk'[<< op'.drive, Here'.lba >>],
                                            Words + 1 - Len(Here'.sector), Words)
    BY <1>1, <2>1, <2>2, <2>4
  <2> HIDE DEF Got, n, s
  <2> QED BY <1>1, <1>2, <1>6, <2>1, <2>2, <2>3, <2>5, <2>6, <2>7 DEF Reading
<1>11. CASE Here.status = "data" /\ Len(Here.sector) = 1
  <2>1. /\ Here'.status = IF Here.left = 1 THEN "ready" ELSE "busy"
        /\ Here'.lba = Here.lba + 1 /\ Here'.left = Here.left - 1
        /\ Here.left \in 1..MaxCount
    BY <1>11, WordIsRead
  <2>2. Index' = Index + 1
    BY <1>1, <1>2, <2>1 DEF Index
  <2>3. Index + 1 \in 0..Asked /\ Here.left - 1 = Asked - (Index + 1)
    BY <1>2, <2>1
  <2>4. Index \in Sound => moved + 1 = Start(Index + 1)
    BY <1>1, <1>11 DEF BusInvariant, Reading
  <2>5. ASSUME NEW k \in Sound
        PROVE  Start(k + 1) <= moved + 1 \/ (k >= Index + 1 /\ Here'.status = "busy")
    <3> SUFFICES ASSUME ~(Start(k + 1) <= moved + 1)
                 PROVE  k >= Index + 1 /\ Here'.status = "busy"
      OBVIOUS
    <3>1. k >= Index
      <4>1. ~(Start(k + 1) <= moved)
        BY <1>1, <1>7
      <4> QED BY <1>1, <4>1 DEF BusInvariant, Reading
    <3>2. k # Index
      BY <1>1, <1>7, <2>4
    <3>3. Asked = op.count /\ k < op.count /\ k \in Nat
      BY <1>2, <1>7 DEF Asked
    <3>4. Here.left # 1
      BY <1>2, <3>1, <3>2, <3>3
    <3> QED BY <1>2, <2>1, <3>1, <3>2, <3>3, <3>4
  <2>6. Index + 1 \in Sound => fast /\ moved + 1 = Start(Index + 1)
    <3> SUFFICES ASSUME Index + 1 \in Sound PROVE fast /\ moved + 1 = Start(Index + 1)
      OBVIOUS
    <3>1. Index < Index + 1 /\ Index + 1 > 0
      BY <1>2
    <3> QED BY <1>2, <2>4, <3>1, SoundSectors DEF BusInvariant
  <2>7. \A k \in Sound : Start(k + 1)' = Start(k + 1)
    BY DEF Start
  <2>8. Start(Index)' = Start(Index + 1)
    BY <2>2 DEF Start
  <2> HIDE DEF Got
  <2> QED BY <1>1, <1>2, <1>6, <2>1, <2>2, <2>3, <2>5, <2>6, <2>7, <2>8 DEF Reading
<1> QED BY <1>9, <1>10, <1>11

\* The word to write is one of a sector of the call's.
LEMMA SourceWord ==
    ASSUME BusInvariant, moved \in Nat
    PROVE  Source(moved) \in Word
<1>1. Words \in Nat \ {0} /\ op.lba \in Nat
  BY AtaAssumption DEF BusInvariant, Typed
<1> DEFINE q == moved \div Words
           r == moved % Words
<1>2. q \in Nat /\ r \in 0..(Words - 1)
  BY <1>1
<1> HIDE DEF q, r
<1>3. New(op.lba + q) \in Sector
  BY <1>1, <1>2, SectorsAre
<1>4. New(op.lba + q)[r + 1] \in Word
  BY <1>1, <1>2, <1>3 DEF Sector
<1> QED BY <1>4 DEF Source, q, r

\* A word written joins the sector of a drive that takes data, and is lost
\* otherwise; the last word of a sector makes the drive busy.
LEMMA WordIsWritten ==
    ASSUME BusInvariant, Move, op.kind = "write"
    PROVE  /\ buffer' = buffer
           /\ Here.status # "data" => drive' = drive
           /\ Here.status = "data" =>
                /\ Len(Here.sector) \in 0..(Words - 1) /\ Here.left > 0
                /\ Here'.status = IF Len(Here.sector) = Words - 1 THEN "busy" ELSE "data"
                /\ Here'.command = "write"
                /\ Here'.lba = Here.lba /\ Here'.left = Here.left
                /\ Here'.sector = Append(Here.sector, Source(moved))
                /\ Here'.sector # << >>
                /\ Len(Here'.sector) = Len(Here.sector) + 1
           /\ \A c \in Drives : c # selected => drive'[c] = drive[c]
           /\ drive' \in [Drives -> [status : {"ready", "busy", "data", "error"},
                         error : {"none", "mark", "abort"},
                         command : {"none", "identify", "read", "write", "flush"},
                         lba : Nat, left : 0..MaxCount, sector : Seq(Word)]]
<1> DEFINE R == [status : {"ready", "busy", "data", "error"},
                 error : {"none", "mark", "abort"},
                 command : {"none", "identify", "read", "write", "flush"},
                 lba : Nat, left : 0..MaxCount, sector : Seq(Word)]
           x == Here.sector
           word == Source(moved)
<1>1. /\ Here.command = "write" /\ Present /\ selected \in Drives /\ moved \in Nat
      /\ selected' = selected /\ WriteWord(word)
  BY WordMoves DEF Move
<1>2. drive \in [Drives -> R] /\ Here \in R /\ Here = drive[selected]
  BY AtTheBus DEF BusInvariant, Typed
<1>3. DRQ <=> Here.status = "data"
  BY <1>1 DEF DRQ
<1>4. word \in Word
  BY <1>1, SourceWord
<1> HIDE DEF word
<1>5. CASE Here.status # "data"
  BY <1>1, <1>2, <1>3, <1>5 DEF WriteWord
<1>6. CASE Here.status = "data"
  <2>1. x \in Seq(Word) /\ Len(x) < Words /\ Here.left > 0
    BY <1>1, <1>2, <1>6 DEF BusInvariant, Working
  <2> DEFINE y == Append(x, word)
  <2>2. Len(x) \in 0..(Words - 1) /\ y \in Seq(Word) /\ y # << >> /\ Len(y) = Len(x) + 1
    <3> HIDE DEF x
    <3>1. Len(x) \in Nat /\ Words \in Nat /\ y \in Seq(Word) /\ Len(y) = Len(x) + 1 /\ y # << >>
      BY <1>4, <2>1, AtaAssumption
    <3> QED BY <2>1, <3>1
  <2> DEFINE t == IF Len(x) = Words - 1 THEN "busy" ELSE "data"
             v == [Here EXCEPT !.sector = y, !.status = t]
  <2>3. drive' = [drive EXCEPT ![selected].sector = y, ![selected].status = t] /\ buffer' = buffer
    BY <1>1, <1>2, <1>3, <1>6 DEF WriteWord
  <2>4. t \in {"busy", "data"}
    OBVIOUS
  <2> HIDE DEF t, y
  <2>5. drive' = [drive EXCEPT ![selected] = v]
    BY <1>2, <2>3
  <2>6. /\ v \in R /\ v.status = t /\ v.sector = y /\ v.command = "write"
        /\ v.lba = Here.lba /\ v.left = Here.left
    BY <1>1, <1>2, <2>2, <2>4
  <2> HIDE DEF v, R
  <2>7. /\ drive'[selected] = v /\ drive' \in [Drives -> R] /\ Here' = v
        /\ \A c \in Drives : c # selected => drive'[c] = drive[c]
    BY <1>1, <1>2, <2>5, <2>6 DEF Here
  <2> QED BY <1>6, <2>1, <2>2, <2>3, <2>6, <2>7 DEF R, t, y, word
<1> QED BY <1>5, <1>6

\* Writing goes on: the word joins a sound sector in its place, and the drive
\* is busy with a whole sector when the host comes to its end.
LEMMA WritingGoesOn ==
    ASSUME BusInvariant, Move, op.kind = "write"
    PROVE  Writing'
<1>1. /\ at = "data" /\ at' = at /\ op' = op /\ moved' = moved + 1 /\ moved < Length
      /\ selected' = selected /\ disk' = disk /\ kind' = kind /\ fast' = fast
      /\ selected = op.drive
      /\ fast => Here.status # "busy"
      /\ moved \in Nat /\ Sound' = Sound /\ Asked' = Asked /\ Here.command = "write"
  BY WordMoves
<1>2. /\ Index \in 0..Asked /\ Here.left = Asked - Index
      /\ Here.status = "busy" => Here.sector # << >>
      /\ \A k \in Sound : Stored(k) \/ (k >= Index /\ Here.status \in {"busy", "data"})
      /\ Index \in Sound =>
           /\ Here.sector = SubSeq(New(Here.lba), 1, Len(Here.sector))
           /\ Here.status = "data" => moved = Start(Index) + Len(Here.sector)
  BY <1>1 DEF BusInvariant, Writing
<1>3. op.count # 0
  <2>1. Length = Words * op.count
    BY <1>1 DEF Length
  <2>2. Words \in Nat /\ (op.count = 0 => Words * op.count = 0)
    BY AtaAssumption
  <2> QED BY <1>1, <2>1, <2>2
<1>4. \A k \in Sound : Stored(k)' <=> Stored(k)
  BY <1>1 DEF Stored, New
<1>5. CASE Here.status # "data"
  <2>1. Here' = Here /\ Index' = Index
    BY <1>1, <1>5, WordIsWritten DEF Here, Index
  <2> HIDE DEF Stored
  <2>2. Index \in Sound /\ Here.status = "busy" => ~fast
    BY <1>1
  <2> QED BY <1>1, <1>2, <1>3, <1>4, <1>5, <2>1, <2>2 DEF Writing, New
<1>6. CASE Here.status = "data"
  <2> DEFINE n == Len(Here.sector)
  <2>1. /\ n \in 0..(Words - 1)
        /\ Here'.status = IF n = Words - 1 THEN "busy" ELSE "data"
        /\ Here'.command = "write" /\ Here'.lba = Here.lba /\ Here'.left = Here.left
        /\ Here'.sector = Append(Here.sector, Source(moved)) /\ Here'.sector # << >>
        /\ Len(Here'.sector) = n + 1
    BY <1>6, WordIsWritten
  <2>2. Index' = Index
    BY <1>1, <2>1 DEF Index
  <2> HIDE DEF n
  <2>3. Index \in Sound =>
          /\ Append(Here.sector, Source(moved)) = SubSeq(New(Here.lba), 1, n + 1)
          /\ moved + 1 = Start(Index) + (n + 1)
          /\ n = Words - 1 => moved + 1 = Start(Index + 1)
    <3> SUFFICES ASSUME Index \in Sound
                 PROVE  /\ Append(Here.sector, Source(moved)) = SubSeq(New(Here.lba), 1, n + 1)
                        /\ moved + 1 = Start(Index) + (n + 1)
                        /\ n = Words - 1 => moved + 1 = Start(Index + 1)
      OBVIOUS
    <3>1. Here.sector = SubSeq(New(Here.lba), 1, n) /\ moved = Start(Index) + n
      BY <1>2, <1>6 DEF n
    <3>2. Index \in Nat /\ Start(Index) \in Nat /\ Start(Index + 1) = Start(Index) + Words
      BY SoundSectors, Starts DEF BusInvariant
    <3>3. Source(moved) = New(op.lba + Index)[n + 1]
      <4>1. moved \div Words = Index /\ moved % Words = n
        BY <2>1, <3>1, <3>2, WordAt
      <4> QED BY <4>1 DEF Source
    <3>4. op.lba + Index = Here.lba /\ Here.lba \in Nat
      BY AtTheBus DEF Index, BusInvariant, Typed
    <3>5. New(Here.lba) \in Sector
      BY <3>4, SectorsAre
    <3>6. Append(SubSeq(New(Here.lba), 1, n), New(Here.lba)[n + 1]) = SubSeq(New(Here.lba), 1, n + 1)
      BY <2>1, <3>5, NextOfSector
    <3>7. Words \in Nat \ {0}
      BY AtaAssumption
    <3>8. moved + 1 = Start(Index) + (n + 1) /\ (n = Words - 1 => moved + 1 = Start(Index + 1))
      <4>1. n \in Int /\ Words \in Int /\ Start(Index) \in Int
        BY <2>1, <3>2, <3>7
      <4> QED BY ONLY <3>1, <3>2, <4>1
    <3> QED BY <3>1, <3>3, <3>4, <3>6, <3>8
  <2>4. Start(Index)' = Start(Index) /\ Start(Index + 1)' = Start(Index + 1)
    BY <2>2 DEF Start
  <2>5. Index' \in Sound' =>
          /\ Here'.sector = SubSeq(New(Here'.lba), 1, Len(Here'.sector))
          /\ Here'.status = "data" => moved' = Start(Index) + Len(Here'.sector)
          /\ Here'.status = "busy" => moved' = Start(Index + 1)
    BY <1>1, <2>1, <2>2, <2>3
  <2> HIDE DEF Stored
  <2> QED BY <1>1, <1>2, <1>3, <1>4, <1>6, <2>1, <2>2, <2>4, <2>5 DEF Writing, New
<1> QED BY <1>5, <1>6

\* Identification goes on: the word is the next one, and the drive keeps to
\* its one sector.
LEMMA IdentifyingGoesOn ==
    ASSUME BusInvariant, Move, op.kind = "identify"
    PROVE  Identifying'
<1>1. /\ at = "data" /\ at' = at /\ op' = op /\ moved' = moved + 1 /\ moved < IdentifyWords
      /\ moved \in Nat /\ moved < Words
  BY WordMoves, AtaAssumption DEF Length
<1>2. /\ buffer = SubSeq(Identity, 1, moved)
      /\ Here.status = "data" /\ Here.sector = SubSeq(Identity, moved + 1, Words)
  BY <1>1 DEF BusInvariant, Identifying
<1>3. moved + 1 \in 1..Words /\ moved \in 0..(Words - 1) /\ Words \in Nat \ {0}
  BY <1>1, AtaAssumption
<1>4. /\ Head(Here.sector) = Identity[moved + 1] /\ Len(Here.sector) = Words + 1 - (moved + 1)
      /\ Tail(Here.sector) = SubSeq(Identity, moved + 1 + 1, Words)
  BY <1>2, <1>3, SectorsAre, RestOfSector
<1>5. buffer' = SubSeq(Identity, 1, moved + 1)
  <2>1. Append(SubSeq(Identity, 1, moved), Identity[moved + 1]) = SubSeq(Identity, 1, moved + 1)
    BY <1>3, SectorsAre, NextOfSector
  <2> QED BY <1>2, <1>4, <2>1, WordIsRead
<1>6. moved + 1 < Words =>
         Here'.status = "data" /\ Here'.sector = SubSeq(Identity, moved + 1 + 1, Words)
  <2> SUFFICES ASSUME moved + 1 < Words
               PROVE  Here'.status = "data" /\ Here'.sector = SubSeq(Identity, moved + 1 + 1, Words)
    OBVIOUS
  <2>1. Len(Here.sector) # 1
    BY <1>3, <1>4
  <2> QED BY <1>2, <1>4, <2>1, WordIsRead
<1> QED BY <1>1, <1>5, <1>6 DEF Identifying, Identity

\* One word goes through the data port.
LEMMA MoveKeeps ==
    ASSUME BusInvariant, Move
    PROVE  BusInvariant'
<1>1. /\ at = "data" /\ at' = at /\ op' = op /\ moved' = moved + 1 /\ moved < Length
      /\ selected' = selected /\ disk' = disk /\ kind' = kind /\ fast' = fast
      /\ selected = op.drive /\ selected \in Drives /\ kind[selected] = "disk" /\ Present
      /\ Here.command = op.kind /\ op.kind \in {"identify", "read", "write"}
      /\ moved \in Nat /\ Length \in Nat /\ Length' = Length
  BY WordMoves
<1>2. /\ \A c \in Drives : c # selected => drive'[c] = drive[c]
      /\ drive' \in [Drives -> [status : {"ready", "busy", "data", "error"},
                         error : {"none", "mark", "abort"},
                         command : {"none", "identify", "read", "write", "flush"},
                         lba : Nat, left : 0..MaxCount, sector : Seq(Word)]]
  BY WordIsRead, WordIsWritten
<1>3. buffer \in Seq(Word) /\ Len(buffer) = IF op.kind = "write" THEN 0 ELSE moved
  BY DEF BusInvariant, Typed, TypeOK
<1>4. buffer' \in Seq(Word) /\ Len(buffer') = IF op.kind = "write" THEN 0 ELSE moved + 1
  <2>1. CASE op.kind = "write"
    BY <1>3, <2>1, WordIsWritten
  <2>2. CASE op.kind # "write"
    <3>1. PICK e \in Word : buffer' = Append(buffer, e)
      BY <2>2, WordIsRead, SectorsAre
    <3> QED BY <1>3, <2>2, <3>1, AppendProperties
  <2> QED BY <2>1, <2>2
<1>5. Typed'
  BY <1>1, <1>2, <1>4 DEF BusInvariant, Typed
<1>6. /\ Here'.command = Here.command
      /\ Here'.status = "busy" => Here'.left > 0
      /\ Here'.status = "busy" => \/ Here'.sector = << >> /\ Here'.command # "none"
                                  \/ Len(Here'.sector) = Words /\ Here'.command = "write"
      /\ Here'.status = "data" =>
            /\ Here'.left > 0
            /\ \/ Here'.command = "write" /\ Len(Here'.sector) < Words
               \/ Here'.command \in {"read", "identify"} /\ Here'.sector # << >>
      /\ Len(Here'.sector) <= Words
  <2>1. CASE Here.status # "data"
    <3>1. Here' = Here
      BY <1>1, <2>1, WordIsRead, WordIsWritten DEF Here
    <3>2. Here = drive[selected]
      BY DEF Here
    <3> QED BY <1>1, <2>1, <3>1, <3>2 DEF BusInvariant, Working, TypeOK
  <2>2. CASE Here.status = "data" /\ op.kind = "write"
    <3>1. /\ Len(Here.sector) \in 0..(Words - 1) /\ Here.left > 0
          /\ Here'.status = IF Len(Here.sector) = Words - 1 THEN "busy" ELSE "data"
          /\ Here'.command = "write" /\ Here'.left = Here.left
          /\ Len(Here'.sector) = Len(Here.sector) + 1
      BY <2>2, WordIsWritten
    <3> DEFINE n == Len(Here.sector)
               m == Len(Here'.sector)
    <3>2. n \in 0..(Words - 1) /\ m = n + 1 /\ Words \in Nat
      BY <3>1, AtaAssumption
    <3> HIDE DEF n, m
    <3>3. (n = Words - 1 => m = Words) /\ (n # Words - 1 => m < Words) /\ m <= Words
      BY <3>2
    <3> QED BY <1>1, <2>2, <3>1, <3>3 DEF n, m
  <2>3. CASE Here.status = "data" /\ op.kind # "write" /\ Len(Here.sector) = 1
    <3>1. Len(<< >>) <= Words
      BY AtaAssumption
    <3>2. /\ Here'.status = IF Here.left = 1 THEN "ready" ELSE "busy"
          /\ Here'.left = Here.left - 1 /\ Here.left \in 1..MaxCount
          /\ Here'.sector = << >> /\ Here'.command = Here.command
      BY <2>3, WordIsRead
    <3>3. Here.left # 1 => Here.left - 1 > 0
      BY <3>2, AtaAssumption
    <3> QED BY <1>1, <3>1, <3>2, <3>3
  <2>4. CASE Here.status = "data" /\ op.kind # "write" /\ Len(Here.sector) # 1
    <3>1. /\ Here'.status = "data" /\ Here'.left = Here.left /\ Here.left \in 1..MaxCount
          /\ Len(Here'.sector) = Len(Here.sector) - 1 /\ Here'.command = Here.command
          /\ Len(Here.sector) \in 1..Words /\ Here'.sector \in Seq(Word)
      BY <2>4, WordIsRead
    <3> DEFINE n == Len(Here.sector)
               m == Len(Here'.sector)
    <3>2. n \in 1..Words /\ n # 1 /\ m = n - 1 /\ Words \in Nat
      BY <2>4, <3>1, AtaAssumption
    <3>3. m > 0 /\ m <= Words
      <4> HIDE DEF n, m
      <4> QED BY <3>2
    <3>4. Here'.sector # << >>
      BY <3>1, <3>3
    <3> QED BY <1>1, <2>4, <3>1, <3>3, <3>4, AtaAssumption
  <2> QED BY <2>1, <2>2, <2>3, <2>4
<1>7. Working'
  <2>1. Here' = drive'[selected]
    BY <1>1 DEF Here
  <2> HIDE DEF Here
  <2> QED BY <1>1, <1>2, <1>6, <2>1 DEF BusInvariant, Working
<1>8. TypeOK'
  <2>1. Here' = drive'[selected] /\ moved + 1 <= Length
    BY <1>1 DEF Here
  <2> QED BY <1>1, <1>2, <1>4, <1>6, <2>1 DEF BusInvariant, TypeOK
<1>9. Called'
  BY <1>1, <1>6 DEF BusInvariant, Called, Present
<1>10. Begun' /\ Flushing' /\ ReadsRight' /\ WritesLand' /\ IdentifyTells'
  BY <1>1 DEF Begun, Flushing, ReadsRight, WritesLand, IdentifyTells, Finished
<1>11. Identifying' /\ Reading' /\ Writing'
  BY <1>1, IdentifyingGoesOn, ReadingGoesOn, WritingGoesOn DEF Identifying, Reading, Writing
<1> QED BY <1>5, <1>7, <1>8, <1>9, <1>10, <1>11 DEF BusInvariant

-----------------------------------------------------------------------------
(* The invariant, and what it says of the calls.                           *)

\* Steps that change nothing keep the invariant.
LEMMA StutterKeeps ==
    ASSUME BusInvariant, UNCHANGED vars
    PROVE  BusInvariant'
<1>1. /\ at' = at /\ op' = op /\ moved' = moved /\ buffer' = buffer /\ selected' = selected
      /\ drive' = drive /\ disk' = disk /\ kind' = kind /\ fast' = fast
  BY DEF vars, host, fixed
<1>2. Here' = Here /\ Sound' = Sound /\ Length' = Length /\ Asked' = Asked /\ Index' = Index
  BY <1>1 DEF Here, Sound, Length, Asked, Index
<1>3. TypeOK' /\ Typed' /\ Working' /\ Called' /\ Begun'
  BY <1>1, <1>2 DEF BusInvariant, TypeOK, Typed, Working, Called, Begun, BSY, Present
<1>4. Identifying' /\ Reading' /\ Writing' /\ Flushing'
  BY <1>1, <1>2 DEF BusInvariant, Identifying, Reading, Writing, Flushing, Got, Stored, Start
<1>5. ReadsRight' /\ WritesLand' /\ IdentifyTells'
  BY <1>1, <1>2 DEF BusInvariant, ReadsRight, WritesLand, IdentifyTells, Finished
<1> QED BY <1>3, <1>4, <1>5 DEF BusInvariant

\* The drives and the polling driver keep the bus invariant, whatever sizes,
\* counts, addresses and bad sectors there are, and whatever the drives are.
THEOREM BusIsInvariant == Spec => []BusInvariant
<1>1. Init => BusInvariant
  BY InitBus
<1>2. BusInvariant /\ [Next]_vars => BusInvariant'
  <2> SUFFICES ASSUME BusInvariant, [Next]_vars PROVE BusInvariant'
    OBVIOUS
  <2>1. CASE ata_identify
    <3>1. PICK d \in Drives : Call("identify", d, 0, 0)
      BY <2>1 DEF ata_identify, Drives
    <3>2. 0 \in 0..(MaxCount - 1) /\ 0 \in Nat
      BY AtaAssumption
    <3> QED BY <3>1, <3>2, CallKeeps
  <2>2. CASE \E d \in Drives, l \in Sectors, n \in Counts :
                ata_read_sectors(d, l, n) \/ ata_write_sectors(d, l, n)
    <3>1. PICK d \in Drives, l \in Sectors, n \in Counts :
             Call("read", d, l, n) \/ Call("write", d, l, n)
      BY <2>2 DEF ata_read_sectors, ata_write_sectors
    <3>2. l \in Nat /\ n \in 0..(MaxCount - 1)
      BY AtaAssumption
    <3> QED BY <3>1, <3>2, CallKeeps
  <2>3. CASE Driver
    BY <2>3, CommandKeeps, AnswerKeeps, WaitBsyKeeps, WaitDrqKeeps, MoveKeeps, MovedKeeps,
       FlushedKeeps DEF Driver
  <2>4. CASE \E d \in Drives : Work(d)
    BY <2>4, FailKeeps, OfferKeeps, CommitKeeps, FlushKeeps DEF Work
  <2>5. CASE UNCHANGED vars
    BY <2>5, StutterKeeps
  <2> QED BY <2>1, <2>2, <2>3, <2>4, <2>5 DEF Next
<1> QED BY <1>1, <1>2, PTL DEF Spec

\* Every variable of the bus holds a value of its kind.
THEOREM TypeCorrect == Spec => []TypeOK
<1>1. BusInvariant => TypeOK
  BY DEF BusInvariant
<1> QED BY <1>1, BusIsInvariant, PTL

\* A read that returns has read the sectors it answers for, whatever calls,
\* refusals and unread words came before it.
THEOREM ReadsAreRight == Spec => []ReadsRight
<1>1. BusInvariant => ReadsRight
  BY DEF BusInvariant
<1> QED BY <1>1, BusIsInvariant, PTL

\* A write that returns has stored the sectors it answers for, the flush that
\* a busy drive ignores notwithstanding.
THEOREM WritesAreStored == Spec => []WritesLand
<1>1. BusInvariant => WritesLand
  BY DEF BusInvariant
<1> QED BY <1>1, BusIsInvariant, PTL

\* ata_identify tells a disk from an empty place, and its words in order.
THEOREM IdentifyIsRight == Spec => []IdentifyTells
<1>1. BusInvariant => IdentifyTells
  BY DEF BusInvariant
<1> QED BY <1>1, BusIsInvariant, PTL

-----------------------------------------------------------------------------
(* The bus implements the disk.                                            *)

\* What the abstract disk sees.
View == << disk, at # "code", Request, Cardinality(Sound), Reply >>

\* A count never promises more sectors than the call asks for.
LEMMA PromisesAreBounded == Typed => Cardinality(Sound) \in 0..op.count
BY CountOfSound

\* Within a call, a step that leaves the call and the disks alone is none of
\* the abstract disk's.
LEMMA QuietInCall ==
    ASSUME at # "code", at' # "code", op' = op, fast' = fast, disk' = disk
    PROVE  View' = View
<1>1. Sound' = Sound /\ Request' = Request
  BY DEF Sound, Request, New
<1>2. Reply' = << >> /\ Reply = << >>
  BY DEF Reply, Finished
<1>3. (at # "code") = TRUE /\ (at' # "code") = TRUE
  OBVIOUS
<1> QED BY <1>1, <1>2, <1>3 DEF View

\* Nor is one that leaves the host alone as well.
LEMMA QuietOutside ==
    ASSUME at' = at, op' = op, fast' = fast, disk' = disk, buffer' = buffer
    PROVE  View' = View
<1>1. Sound' = Sound /\ Request' = Request
  BY DEF Sound, Request, New
<1>2. Reply' = Reply
  BY DEF Reply, Finished, Chunk
<1>3. (at' # "code") = (at # "code")
  OBVIOUS
<1> QED BY <1>1, <1>2, <1>3 DEF View

\* A call asks the disk, for no more sectors than it names.
LEMMA CallAsks ==
    ASSUME BusInvariant, BusInvariant',
           NEW k, NEW d, NEW l, NEW n, Call(k, d, l, n)
    PROVE  D!Ask
<1>1. (Typed => Cardinality(Sound) \in 0..op.count)'
  BY PromisesAreBounded, PTL
<1>2. Cardinality(Sound)' \in 0..Request'.count
  BY <1>1 DEF BusInvariant, Request
<1>3. ~(at # "code") /\ at' # "code" /\ disk' = disk
  BY DEF Call
<1>4. Reply' = << >>
  BY <1>3 DEF Reply, Finished
<1> HIDE DEF Request, Reply, Sound
<1> QED BY <1>2, <1>3, <1>4 DEF D!Ask

\* A drive that stores a sector stores one of the call's, at its place, and
\* the call's own words if the call answers for it.
LEMMA CommitStores ==
    ASSUME BusInvariant, NEW d \in Drives, Commit(d)
    PROVE  D!Store
<1>1. /\ at' = at /\ op' = op /\ buffer' = buffer /\ fast' = fast /\ d = op.drive /\ Here = drive[selected]
      /\ disk' = [disk EXCEPT ![<< d, Here.lba >>] = Here.sector]
      /\ Here.command = "write" /\ Here.sector # << >> /\ Here.left > 0
      /\ at \in {"data", "flush"} /\ op.kind = "write"
      /\ Index \in Sound => Here.sector = New(Here.lba)
  BY Committed DEF Here
<1>2. Sound' = Sound /\ Request' = Request /\ Reply' = Reply
  BY <1>1 DEF Sound, Request, Reply, Finished, Chunk, New
<1>3. /\ Index \in 0..Asked /\ Here.left = Asked - Index /\ op.count # 0
  BY <1>1 DEF BusInvariant, Writing
<1>4. /\ op.count \in Nat /\ op.lba \in Nat /\ Here.lba \in Nat /\ Here.left \in Nat
      /\ Index = Here.lba - op.lba /\ Asked = op.count
  BY <1>1, <1>3, AtTheBus DEF BusInvariant, Typed, Index, Asked
<1> DEFINE k == Index + 1
<1>5. k \in 1..op.count /\ k - 1 = Index /\ op.lba + k - 1 = Here.lba
  BY <1>1, <1>3, <1>4
<1> HIDE DEF k
<1>6. << Request.drive, Request.lba + k - 1 >> = << d, Here.lba >>
  BY <1>1, <1>5 DEF Request
<1>7. k <= Cardinality(Sound) => Here.sector = Request.data[k]
  <2> SUFFICES ASSUME k <= Cardinality(Sound) PROVE Here.sector = Request.data[k]
    OBVIOUS
  <2>1. k \in 1..Cardinality(Sound)
    BY <1>5, PromisesAreBounded DEF BusInvariant
  <2>2. Index \in Sound
    BY <1>5, <2>1, CountOfSound DEF BusInvariant
  <2>3. Request.data[k] = New(op.lba + k - 1)
    BY <1>5 DEF Request
  <2> QED BY <1>1, <1>5, <2>2, <2>3
<1>8. Request.kind = "write" /\ Request.count = op.count
  BY <1>1 DEF Request
<1>9. \A p \in DOMAIN disk : disk'[p] # disk[p] => p = << d, Here.lba >> /\ disk'[p] = Here.sector
  BY <1>1
<1>10. DOMAIN disk' = DOMAIN disk /\ at # "code" /\ (at' # "code") = (at # "code")
  BY <1>1
<1> HIDE DEF Request, Reply, Sound
<1>11. D!Place(k) = << d, Here.lba >>
  BY <1>6 DEF D!Place
<1>12. ASSUME NEW p \in DOMAIN disk, disk'[p] # disk[p]
       PROVE  \E c \in 1..Request.count :
                 p = D!Place(c) /\ (c <= Cardinality(Sound) => disk'[p] = Request.data[c])
  <2>1. p = D!Place(k) /\ (k <= Cardinality(Sound) => disk'[p] = Request.data[k])
    BY <1>7, <1>9, <1>11, <1>12
  <2> QED BY <1>5, <1>8, <2>1
<1> QED BY <1>2, <1>8, <1>10, <1>12 DEF D!Store

\* A call that returns answers: a read with what the sectors hold, a write
\* with its sectors stored.
LEMMA ReturnAnswers ==
    ASSUME BusInvariant, at # "code", at' = "code", disk' = disk, buffer' = buffer,
           fast' = fast, NEW a \in BOOLEAN, op' = [op EXCEPT !.answer = a],
           op.kind \in {"read", "write"} => at \in {"data", "flush"} /\ moved >= Length,
           op.kind = "read" => at = "data",
           op.kind = "write" => \A k \in Sound : Stored(k)
    PROVE  D!Answer
<1>1. /\ op'.kind = op.kind /\ op'.drive = op.drive /\ op'.lba = op.lba /\ op'.count = op.count
      /\ op.count \in Nat /\ op.lba \in Nat
  BY DEF BusInvariant, Typed
<1>2. Sound' = Sound /\ Request' = Request
  BY <1>1 DEF Sound, Request, New
<1>3. /\ Request.kind = op.kind /\ Request.count = op.count
      /\ \A k \in 1..op.count : Request.data[k] = New(op.lba + k - 1)
      /\ \A k : D!Place(k) = << op.drive, op.lba + k - 1 >>
  BY DEF Request, D!Place
<1>4. /\ Cardinality(Sound) \in 0..op.count
      /\ \A k \in 1..Cardinality(Sound) : k - 1 \in Sound /\ k \in 1..op.count
      /\ \A k \in 1..Cardinality(Sound) : op.lba + k - 1 = op.lba + (k - 1)
  <2>1. /\ Cardinality(Sound) \in 0..op.count
        /\ \A k \in 1..Cardinality(Sound) : k - 1 \in Sound
    BY CountOfSound DEF BusInvariant
  <2> QED BY <1>1, <2>1
<1>5. op.kind = "read" =>
         /\ op.count > 0 => Cardinality(Sound) > 0
         /\ Len(Reply') = op.count
         /\ \A k \in 1..Cardinality(Sound) : Reply'[k] = disk[D!Place(k)]
  <2> SUFFICES ASSUME op.kind = "read"
               PROVE  /\ op.count > 0 => Cardinality(Sound) > 0
                      /\ Len(Reply') = op.count
                      /\ \A k \in 1..Cardinality(Sound) : Reply'[k] = disk[D!Place(k)]
    OBVIOUS
  <2>1. op.count > 0 => Cardinality(Sound) > 0
    <3>1. op.count > 0 => Sound # {}
      BY DEF BusInvariant, Reading
    <3>2. IsFiniteSet(Sound)
      <4>1. Sound \in SUBSET (0..(op.count - 1)) /\ IsFiniteSet(0..(op.count - 1))
        BY <1>1, SoundSectors, UpTo DEF BusInvariant
      <4> QED BY <4>1, FS_Subset
    <3>3. Sound # {} => Cardinality(Sound) # 0
      BY <3>2, FS_EmptySet
    <3> QED BY <1>4, <3>1, <3>3
  <2>2. Reply' = [k \in 1..op.count |-> SubSeq(buffer, (k - 1) * Words + 1, k * Words)]
    BY <1>1 DEF Reply, Finished, Chunk
  <2>3. Len(Reply') = op.count
    BY <1>1, <2>2
  <2>4. ASSUME NEW k \in 1..Cardinality(Sound) PROVE Reply'[k] = disk[D!Place(k)]
    <3>1. k - 1 \in Sound /\ k \in 1..op.count /\ (k - 1) + 1 = k
      BY <1>1, <1>4
    <3>2. SubSeq(buffer, (k - 1) * Words + 1, ((k - 1) + 1) * Words) = disk[<< op.drive, op.lba + (k - 1) >>]
      BY <3>1, ReadDone
    <3> QED BY <1>3, <1>4, <2>2, <3>1, <3>2
  <2> QED BY <2>1, <2>3, <2>4
<1>6. op.kind = "write" =>
         \A k \in 1..Cardinality(Sound) : disk[D!Place(k)] = Request.data[k]
  <2> SUFFICES ASSUME op.kind = "write", NEW k \in 1..Cardinality(Sound)
               PROVE  disk[D!Place(k)] = Request.data[k]
    OBVIOUS
  <2>1. Stored(k - 1) /\ k \in 1..op.count /\ op.lba + k - 1 = op.lba + (k - 1)
    BY <1>4
  <2> QED BY <1>3, <2>1 DEF Stored
<1>7. op.kind # "read" => Reply' = << >>
  BY <1>1 DEF Reply, Finished
<1> HIDE DEF Request, Reply, Sound
<1> QED BY <1>2, <1>3, <1>5, <1>6, <1>7 DEF D!Answer

\* Every step of driver and drives is a step of the abstract disk, or none.
LEMMA StepsOfDisk ==
    ASSUME BusInvariant, BusInvariant', [Next]_vars
    PROVE  D!Next \/ View' = View
<1>1. ASSUME NEW k, NEW d, NEW l, NEW n, Call(k, d, l, n) PROVE D!Next
  BY <1>1, CallAsks DEF D!Next
<1>2. CASE ata_identify
  BY <1>1, <1>2 DEF ata_identify
<1>3. CASE \E d \in Drives, l \in Sectors, n \in Counts :
              ata_read_sectors(d, l, n) \/ ata_write_sectors(d, l, n)
  BY <1>1, <1>3 DEF ata_read_sectors, ata_write_sectors
<1>4. CASE Command
  BY <1>4, QuietInCall DEF Command, fixed
<1>5. CASE Answer \/ WaitBsy
  <2>1. disk' = disk /\ buffer' = buffer /\ fast' = fast /\ at # "code"
    BY <1>5 DEF Answer, WaitBsy, fixed
  <2>2. CASE at' = "code" /\ op' = [op EXCEPT !.answer = FALSE] /\ op.kind = "identify"
    BY <2>1, <2>2, ReturnAnswers DEF D!Next
  <2>3. CASE at' # "code" /\ op' = op
    BY <2>1, <2>3, QuietInCall
  <2> QED BY <1>5, <2>2, <2>3 DEF Answer, WaitBsy, Return, BusInvariant, Called
<1>6. CASE WaitDrq
  BY <1>6, QuietInCall DEF WaitDrq, host, fixed
<1>7. CASE Move
  BY <1>7, QuietInCall DEF Move, fixed
<1>8. CASE Moved
  <2>1. /\ disk' = disk /\ buffer' = buffer /\ fast' = fast /\ at = "data" /\ moved >= Length
    BY <1>8 DEF Moved, fixed
  <2>2. CASE op.kind = "write"
    BY <1>8, <2>1, <2>2, QuietInCall DEF Moved
  <2>3. CASE op.kind # "write"
    BY <1>8, <2>1, <2>3, ReturnAnswers DEF Moved, Return, D!Next
  <2> QED BY <2>2, <2>3
<1>9. CASE Flushed
  <2>1. /\ disk' = disk /\ buffer' = buffer /\ fast' = fast /\ at = "flush" /\ at' = "code"
        /\ op' = [op EXCEPT !.answer = TRUE] /\ op.kind = "write" /\ moved >= Length
    BY <1>9 DEF Flushed, Return, fixed, BusInvariant, Called
  <2>2. \A k \in Sound : Stored(k)
    <3>1. Present /\ Here.status # "busy"
      BY <1>9, <2>1 DEF Flushed, LastWait, BSY, Present, BusInvariant, Called
    <3> QED BY <2>1, <3>1 DEF BusInvariant, Flushing
  <2> QED BY <2>1, <2>2, ReturnAnswers DEF D!Next
<1>10. ASSUME NEW d \in Drives, Commit(d) PROVE D!Next
  BY <1>10, CommitStores DEF D!Next
<1>11. ASSUME NEW d \in Drives, Fail(d) \/ Offer(d) \/ Flush(d) PROVE View' = View
  BY <1>11, QuietOutside DEF Fail, Offer, Flush, host, fixed
<1>12. CASE UNCHANGED vars
  BY <1>12, QuietOutside DEF vars, host, fixed
<1> QED BY <1>2, <1>3, <1>4, <1>5, <1>6, <1>7, <1>8, <1>9, <1>10, <1>11, <1>12 DEF Next, Driver, Work

\* The polled driver and the drives implement the abstract disk: a read
\* returns what the sectors hold, a write stores its sectors at their own
\* places and no others, and between calls nothing changes.
THEOREM BusImplementsDisk == Spec => ImplementsDisk
<1>1. Init => D!Init
  <2> SUFFICES ASSUME Init PROVE D!Init
    OBVIOUS
  <2>1. Reply = << >> /\ (at # "code") = FALSE
    BY DEF Init, Reply, Finished
  <2> QED BY <2>1 DEF D!Init
<1>2. BusInvariant /\ BusInvariant' /\ [Next]_vars => [D!Next]_View
  BY StepsOfDisk
<1> QED BY <1>1, <1>2, BusIsInvariant, PTL DEF Spec, ImplementsDisk, D!Spec, View
=============================================================================
