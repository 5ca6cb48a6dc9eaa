---- MODULE StageProofs ----
(***************************************************************************)
(* The sequential parts of a stage, for every size.                        *)
(*                                                                         *)
(* The bullet pool: the bitmap, the count and the open spawns agree, and   *)
(* its search by words finds the slot a lap over single slots would find.  *)
(*                                                                         *)
(* The effect pool: a call is applied whole or leaves no trace, and does   *)
(* what the lap it walks promises.                                         *)
(*                                                                         *)
(* The animation: what is foreseen of an animation is what its interpreter *)
(* does, a refused call leaves no draw, and a stopped script stands.       *)
(***************************************************************************)
EXTENDS BulletSlots, EffectPool, AnimationControl, Scenario, FiniteSetTheorems, SequenceTheorems,
        WellFoundedInduction, TLAPS

----
\* The bullet slots.
SlotsTyped ==
    /\ freeBits \in [Word -> SUBSET Bit] /\ slotCursor \in Slot
    /\ spawning \in Seq(Slot)
SlotsCounted == available = Cardinality(FreeSlots)
SpawnsOpen ==
    \A j, k \in DOMAIN spawning :
        ~IsFree(spawning[j]) /\ (spawning[j] = spawning[k] => j = k)
SlotsInv == SlotsTyped /\ SlotsCounted /\ SpawnsOpen
SlotsSpec == SlotsInit /\ [][SlotsNext]_slotVars

LEMMA Sizes ==
  /\ Words \in Nat \ {0} /\ Bits \in Nat \ {0} /\ Capacity \in Nat \ {0}
  /\ Capacity = Words * Bits
<1>1. Words \in Nat \ {0} /\ Bits \in Nat \ {0} BY SlotsAssumption
<1>2. Words * Bits \in Nat \ {0} BY <1>1
<1> QED BY <1>1, <1>2 DEF Capacity

LEMMA Monotone ==
  ASSUME NEW a \in Nat, NEW b \in Nat, a < b, NEW n \in Nat
  PROVE  a * n + n <= b * n /\ a * n \in Nat /\ b * n \in Nat
<1>1. PICK d \in Nat : b = a + 1 + d
 <2>1. b - a - 1 \in Nat /\ b = a + 1 + (b - a - 1) OBVIOUS
 <2> QED BY <2>1
<1>2. d * n \in Nat /\ a * n \in Nat OBVIOUS
<1>3. b * n = a * n + n + d * n BY <1>1
<1> QED BY <1>2, <1>3

LEMMA Division ==
  ASSUME NEW x \in Int, NEW n \in Nat \ {0}, NEW q \in Int, NEW r \in 0 .. n - 1, x = q * n + r
  PROVE  x % n = r /\ x \div n = q
OBVIOUS

LEMMA OneLap ==
  ASSUME NEW x \in Int, NEW n \in Nat \ {0}, NEW r \in 0 .. n - 1, x = r \/ x = n + r \/ x = r - n
  PROVE  x % n = r
<1>1. x = 0 * n + r \/ x = 1 * n + r \/ x = (-1) * n + r OBVIOUS
<1> QED BY <1>1

LEMMA Divided ==
  ASSUME NEW x \in Int, NEW n \in Nat \ {0}
  PROVE  x = (x \div n) * n + (x % n) /\ x \div n \in Int /\ x % n \in 0 .. n - 1
OBVIOUS

LEMMA Distributes ==
  ASSUME NEW x \in Int, NEW y \in Int, NEW n \in Int
  PROVE  (x - y) * n = x * n - y * n /\ x * n \in Int /\ y * n \in Int
OBVIOUS

\* A slot is a word and a bit.
LEMMA Place ==
  ASSUME NEW w \in Word, NEW b \in Bit
  PROVE  /\ w * Bits + b \in Slot
         /\ (w * Bits + b) \div Bits = w /\ (w * Bits + b) % Bits = b
<1>1. w \in Nat /\ w < Words /\ b \in 0 .. Bits - 1 /\ b \in Nat BY Sizes DEF Word, Bit
<1>2. w * Bits + Bits <= Words * Bits /\ w * Bits \in Nat BY <1>1, Sizes, Monotone
<1>3. w * Bits + b \in Nat /\ w * Bits + b <= Capacity - 1 BY <1>1, <1>2, Sizes
<1>4. (w * Bits + b) % Bits = b /\ (w * Bits + b) \div Bits = w BY <1>1, <1>2, Sizes, Division
<1> QED BY <1>3, <1>4, Sizes DEF Slot

LEMMA Split ==
  ASSUME NEW i \in Slot
  PROVE  /\ i \div Bits \in Word /\ i % Bits \in Bit
         /\ i = (i \div Bits) * Bits + (i % Bits)
<1> DEFINE q == i \div Bits
           r == i % Bits
<1>1. i \in Nat /\ i < Words * Bits BY Sizes DEF Slot
<1>2. i = q * Bits + r /\ q \in Int /\ r \in 0 .. Bits - 1 BY <1>1, Sizes, Divided
<1> HIDE DEF q, r
<1>3. q >= 0
 <2>1. CASE q < 0
  <3>1. -q - 1 \in Nat /\ (-q - 1) * Bits \in Nat BY <1>2, <2>1, Sizes
  <3>2. q * Bits = -((-q - 1) * Bits) - Bits BY <1>2, Sizes
  <3> QED BY <1>1, <1>2, <3>1, <3>2, Sizes
 <2> QED BY <1>2, <2>1
<1>4. q < Words
 <2>1. CASE Words <= q
  <3>1. q - Words \in Nat /\ (q - Words) * Bits \in Nat BY <1>2, <2>1, Sizes
  <3>2. q * Bits = Words * Bits + (q - Words) * Bits BY <1>2, Sizes
  <3> QED BY <1>1, <1>2, <3>1, <3>2, Sizes
 <2> QED BY <1>2, <2>1, Sizes
<1> QED BY <1>2, <1>3, <1>4, Sizes DEF Word, Bit, q, r

LEMMA FreeFinite ==
  /\ IsFiniteSet(FreeSlots) /\ Cardinality(FreeSlots) \in Nat
  /\ Cardinality(FreeSlots) = 0 <=> FreeSlots = {}
<1>1. IsFiniteSet(Slot) BY Sizes, FS_Interval DEF Slot
<1>2. FreeSlots \in SUBSET Slot BY DEF FreeSlots
<1> QED BY <1>1, <1>2, FS_Subset, FS_CardinalityType, FS_EmptySet

LEMMA FreeBit ==
  ASSUME NEW w \in Word, NEW b \in Bit
  PROVE  w * Bits + b \in FreeSlots <=> b \in freeBits[w]
BY Place DEF FreeSlots, IsFree

\* What a reservation and a release do to the set of free slots.
LEMMA TakeSlot ==
  ASSUME SlotsTyped, NEW i \in Slot,
         freeBits' = [freeBits EXCEPT ![i \div Bits] = @ \ {i % Bits}]
  PROVE  FreeSlots' = FreeSlots \ {i} /\ freeBits' \in [Word -> SUBSET Bit]
<1>1. i \div Bits \in Word BY Split
<1>2. freeBits' \in [Word -> SUBSET Bit] BY <1>1 DEF SlotsTyped
<1>3. ASSUME NEW j \in Slot PROVE IsFree(j)' <=> (IsFree(j) /\ j # i)
 <2>1. /\ j \div Bits \in Word
       /\ j = (j \div Bits) * Bits + (j % Bits) /\ i = (i \div Bits) * Bits + (i % Bits)
   BY Split
 <2>2. CASE j \div Bits = i \div Bits
  <3>1. j # i <=> j % Bits # i % Bits BY <2>1, <2>2
  <3> QED BY <2>1, <2>2, <3>1 DEF IsFree, SlotsTyped
 <2>3. CASE j \div Bits # i \div Bits
  <3>1. j # i BY <2>3
  <3> QED BY <2>1, <2>3, <3>1 DEF IsFree, SlotsTyped
 <2> QED BY <2>2, <2>3
<1> QED BY <1>2, <1>3 DEF FreeSlots

LEMMA GiveSlot ==
  ASSUME SlotsTyped, NEW i \in Slot,
         freeBits' = [freeBits EXCEPT ![i \div Bits] = @ \cup {i % Bits}]
  PROVE  FreeSlots' = FreeSlots \cup {i} /\ freeBits' \in [Word -> SUBSET Bit]
<1>1. i \div Bits \in Word /\ i % Bits \in Bit BY Split
<1>2. freeBits' \in [Word -> SUBSET Bit] BY <1>1 DEF SlotsTyped
<1>3. ASSUME NEW j \in Slot PROVE IsFree(j)' <=> (IsFree(j) \/ j = i)
 <2>1. /\ j \div Bits \in Word
       /\ j = (j \div Bits) * Bits + (j % Bits) /\ i = (i \div Bits) * Bits + (i % Bits)
   BY Split
 <2>2. CASE j \div Bits = i \div Bits
  <3>1. j = i <=> j % Bits = i % Bits BY <2>1, <2>2
  <3> QED BY <2>1, <2>2, <3>1 DEF IsFree, SlotsTyped
 <2>3. CASE j \div Bits # i \div Bits
  <3>1. j # i BY <2>3
  <3> QED BY <2>1, <2>3, <3>1 DEF IsFree, SlotsTyped
 <2> QED BY <2>2, <2>3
<1> QED BY <1>2, <1>3 DEF FreeSlots

LEMMA SlotsBegin ==
  ASSUME SlotsInit
  PROVE  SlotsInv
<1>1. PICK occupied \in SUBSET Slot :
        /\ freeBits = [w \in Word |-> {b \in Bit : w * Bits + b \notin occupied}]
        /\ available = Capacity - Cardinality(occupied)
        /\ slotCursor \in Slot /\ spawning = << >>
  BY DEF SlotsInit
<1>2. SlotsTyped BY <1>1 DEF SlotsTyped
<1>3. FreeSlots = Slot \ occupied
 <2>1. ASSUME NEW i \in Slot PROVE IsFree(i) <=> i \notin occupied
  <3>1. i \div Bits \in Word /\ i % Bits \in Bit /\ i = (i \div Bits) * Bits + (i % Bits) BY Split
  <3> QED BY <1>1, <3>1 DEF IsFree
 <2> QED BY <2>1 DEF FreeSlots
<1>4. SlotsCounted
 <2>1. IsFiniteSet(Slot) /\ Cardinality(Slot) = Capacity
  <3>1. 0 \in Int /\ Capacity - 1 \in Int /\ ~(0 > Capacity - 1) /\ (Capacity - 1) - 0 + 1 = Capacity BY Sizes
  <3>2. /\ IsFiniteSet(0 .. Capacity - 1)
        /\ Cardinality(0 .. Capacity - 1)
             = IF 0 > Capacity - 1 THEN 0 ELSE (Capacity - 1) - 0 + 1
    BY <3>1, FS_Interval
  <3> QED BY <3>1, <3>2 DEF Slot
 <2>2. Cardinality(Slot \ occupied) = Cardinality(Slot) - Cardinality(Slot \cap occupied) BY <2>1, FS_Difference
 <2>3. Slot \cap occupied = occupied OBVIOUS
 <2> QED BY <1>1, <1>3, <2>1, <2>2, <2>3 DEF SlotsCounted
<1>5. SpawnsOpen BY <1>1 DEF SpawnsOpen
<1> QED BY <1>2, <1>4, <1>5 DEF SlotsInv

\* What the search returns is free.
LEMMA FirstOfBits ==
  ASSUME NEW bits \in SUBSET Bit, bits # {}
  PROVE  FirstBit(bits) \in bits /\ \A c \in bits : FirstBit(bits) <= c
<1>1. \A S \in SUBSET Nat : S # {} => \E n \in S : \A m \in S : n <= m
 <2> SUFFICES ASSUME NEW S \in SUBSET Nat, S # {}
              PROVE  \E n \in S : \A m \in S : n <= m
   OBVIOUS
 <2> DEFINE Less == {p \in Nat \X Nat : p[1] < p[2]}
 <2>1. IsWellFoundedOn(Less, Nat) BY NatLessThanWellFounded, Zenon DEF OpToRel
 <2>2. PICK n \in S : \A m \in S : ~ (<<m, n>> \in Less) BY <2>1, WFMin
 <2>3. ASSUME NEW m \in S PROVE n <= m
  <3>1. m \in Nat /\ n \in Nat /\ <<m, n>> \in Nat \X Nat OBVIOUS
  <3> QED BY <2>2, <3>1
 <2> QED BY <2>3
<1>2. bits \in SUBSET Nat BY Sizes DEF Bit
<1>3. \E n \in bits : \A m \in bits : n <= m BY <1>1, <1>2
<1> QED BY <1>3 DEF FirstBit

LEMMA Looking ==
  ASSUME SlotsTyped, NEW s \in 0 .. Words
  PROVE  /\ ((slotCursor \div Bits) + s) % Words \in Word
         /\ Look(s) \in SUBSET Bit
         /\ Look(s) \subseteq freeBits[((slotCursor \div Bits) + s) % Words]
<1> DEFINE word == slotCursor \div Bits
           w == (word + s) % Words
<1>1. word \in Word /\ Words \in Nat \ {0} BY Split, Sizes DEF SlotsTyped
<1>2. w \in Word BY <1>1 DEF Word
<1>3. s \in {0, Words} => w = word BY SMTT(30), <1>1, Division DEF Word
<1> HIDE DEF w, word
<1>4. Look(s) \subseteq freeBits[w] BY <1>1, <1>3 DEF Look, w, word
<1> QED BY <1>1, <1>2, <1>4 DEF SlotsTyped, w, word

LEMMA NextIsFree ==
  ASSUME SlotsTyped, NEW i \in Next1
  PROVE  i \in FreeSlots
<1>1. PICK s \in 0 .. Words :
        /\ Look(s) # {}
        /\ i = ((slotCursor \div Bits + s) % Words) * Bits + FirstBit(Look(s))
  BY DEF Next1
<1> DEFINE w == (slotCursor \div Bits + s) % Words
           b == FirstBit(Look(s))
<1>2. w \in Word /\ b \in Bit /\ b \in freeBits[w] BY <1>1, Looking, FirstOfBits
<1> HIDE DEF w, b
<1>3. w * Bits + b \in FreeSlots BY <1>2, FreeBit
<1> QED BY <1>1, <1>3 DEF w, b

LEMMA SlotsStep ==
  ASSUME SlotsInv, [SlotsNext]_slotVars
  PROVE  SlotsInv'
<1>1. SlotsTyped /\ SlotsCounted /\ SpawnsOpen BY DEF SlotsInv
<1>2. /\ spawning \in Seq(Slot) /\ Len(spawning) \in Nat /\ DOMAIN spawning = 1 .. Len(spawning)
      /\ \A j \in 1 .. Len(spawning) : spawning[j] \in Slot
  BY <1>1, LenProperties, ElementOfSeq DEF SlotsTyped
<1>3. CASE Reserve
 <2>1. PICK i \in Next1 :
         /\ freeBits' = [freeBits EXCEPT ![i \div Bits] = @ \ {i % Bits}]
         /\ spawning' = Append(spawning, i)
   BY <1>3 DEF Reserve
 <2>2. available' = available - 1 /\ slotCursor' = slotCursor BY <1>3 DEF Reserve
 <2>3. i \in FreeSlots /\ i \in Slot /\ IsFree(i) BY <1>1, NextIsFree DEF FreeSlots
 <2>4. FreeSlots' = FreeSlots \ {i} /\ freeBits' \in [Word -> SUBSET Bit] BY <1>1, <2>1, <2>3, TakeSlot
 <2>5. /\ spawning' \in Seq(Slot) /\ Len(spawning') = Len(spawning) + 1
       /\ DOMAIN spawning' = 1 .. Len(spawning) + 1 /\ spawning'[Len(spawning) + 1] = i
       /\ \A j \in 1 .. Len(spawning) : spawning'[j] = spawning[j]
   BY <1>2, <2>1, <2>3, AppendProperties
 <2>6. SlotsTyped' BY <1>1, <2>2, <2>4, <2>5 DEF SlotsTyped
 <2>7. SlotsCounted'
  <3>1. Cardinality(FreeSlots \ {i}) = Cardinality(FreeSlots) - 1 BY <2>3, FreeFinite, FS_RemoveElement
  <3> QED BY <1>1, <2>2, <2>4, <3>1 DEF SlotsCounted
 <2>8. SpawnsOpen'
  <3>1. \A j \in Slot : j % Bits \in freeBits'[j \div Bits] <=> (IsFree(j) /\ j # i)
    BY <2>4 DEF FreeSlots, IsFree
  <3>2. /\ \A j \in 1 .. Len(spawning) : spawning[j] # i /\ ~IsFree(spawning[j])
        /\ \A j, k \in 1 .. Len(spawning) : spawning[j] = spawning[k] => j = k
    BY <1>1, <1>2, <2>3 DEF SpawnsOpen
  <3>3. ASSUME NEW j \in 1 .. Len(spawning) + 1, NEW k \in 1 .. Len(spawning) + 1,
               spawning'[j] = spawning'[k]
        PROVE  j = k
   <4>1. CASE j <= Len(spawning) /\ k <= Len(spawning) BY <1>2, <2>5, <3>2, <3>3, <4>1
   <4>2. CASE j = Len(spawning) + 1 /\ k <= Len(spawning) BY <1>2, <2>5, <3>2, <3>3, <4>2
   <4>3. CASE j <= Len(spawning) /\ k = Len(spawning) + 1 BY <1>2, <2>5, <3>2, <3>3, <4>3
   <4> QED BY <1>2, <4>1, <4>2, <4>3
  <3>4. ASSUME NEW j \in 1 .. Len(spawning) + 1 PROVE ~IsFree(spawning[j])'
   <4>1. /\ spawning'[j] \in Slot
         /\ spawning'[j] = i \/ ~IsFree(spawning'[j])
     BY <1>2, <2>3, <2>5, <3>2
   <4> QED BY <3>1, <4>1 DEF IsFree
  <3> QED BY <2>5, <3>3, <3>4 DEF SpawnsOpen
 <2> QED BY <2>6, <2>7, <2>8 DEF SlotsInv
<1>4. CASE FinishSpawn
 <2>1. /\ spawning # << >> /\ slotCursor' = (spawning[Len(spawning)] + 1) % Capacity
       /\ spawning' = SubSeq(spawning, 1, Len(spawning) - 1)
       /\ freeBits' = freeBits /\ available' = available
   BY <1>4 DEF FinishSpawn
 <2>2. Len(spawning) \in Nat \ {0} BY <1>2, <2>1, EmptySeq
 <2>3. /\ spawning' \in Seq(Slot) /\ Len(spawning') = Len(spawning) - 1
       /\ DOMAIN spawning' = 1 .. Len(spawning) - 1
       /\ \A j \in 1 .. Len(spawning) - 1 : spawning'[j] = spawning[j]
   BY <1>2, <2>1, <2>2
 <2>4. slotCursor' \in Slot BY <1>2, <2>1, <2>2, Sizes DEF Slot
 <2>5. SlotsTyped' BY <1>1, <2>1, <2>3, <2>4 DEF SlotsTyped
 <2>6. FreeSlots' = FreeSlots /\ \A j : IsFree(j)' <=> IsFree(j) BY <2>1 DEF FreeSlots, IsFree
 <2>7. SlotsCounted' BY <1>1, <2>1, <2>6 DEF SlotsCounted
 <2>8. SpawnsOpen'
  <3>1. \A j \in 1 .. Len(spawning) - 1 : j \in 1 .. Len(spawning) BY <1>2
  <3>2. \A j \in 1 .. Len(spawning) - 1 : ~IsFree(spawning[j])'
    BY <1>1, <1>2, <2>1, <2>3, <3>1 DEF SpawnsOpen, IsFree
  <3> QED BY <1>1, <1>2, <2>3, <3>1, <3>2 DEF SpawnsOpen
 <2> QED BY <2>5, <2>7, <2>8 DEF SlotsInv
<1>5. ASSUME NEW i \in Slot, Release(i) PROVE SlotsInv'
 <2>1. /\ i \notin {spawning[k] : k \in DOMAIN spawning}
       /\ slotCursor' = slotCursor /\ spawning' = spawning
   BY <1>5 DEF Release
 <2>2. CASE IsFree(i)
  <3>1. freeBits' = freeBits /\ available' = available BY <1>5, <2>2 DEF Release
  <3> QED BY <1>1, <2>1, <3>1
          DEF SlotsInv, SlotsTyped, SlotsCounted, SpawnsOpen, FreeSlots, IsFree
 <2>3. CASE ~IsFree(i)
  <3>1. /\ freeBits' = [freeBits EXCEPT ![i \div Bits] = @ \cup {i % Bits}]
        /\ available' = available + 1
    BY <1>5, <2>3 DEF Release
  <3>2. FreeSlots' = FreeSlots \cup {i} /\ freeBits' \in [Word -> SUBSET Bit] BY <1>1, <3>1, GiveSlot
  <3>3. SlotsTyped' BY <1>1, <2>1, <3>2 DEF SlotsTyped
  <3>4. SlotsCounted'
   <4>1. i \notin FreeSlots BY <2>3 DEF FreeSlots
   <4>2. Cardinality(FreeSlots \cup {i}) = Cardinality(FreeSlots) + 1 BY <4>1, FreeFinite, FS_AddElement
   <4> QED BY <1>1, <3>1, <3>2, <4>2 DEF SlotsCounted
  <3>5. SpawnsOpen'
   <4>1. \A j \in Slot : IsFree(j)' <=> (IsFree(j) \/ j = i) BY <3>2 DEF FreeSlots
   <4>2. \A j \in 1 .. Len(spawning) : spawning[j] # i BY <1>2, <2>1
   <4>3. \A j \in 1 .. Len(spawning) : ~IsFree(spawning[j])'
     BY <1>1, <1>2, <2>1, <4>1, <4>2 DEF SpawnsOpen, IsFree
   <4> QED BY <1>1, <1>2, <2>1, <4>3 DEF SpawnsOpen
  <3> QED BY <3>3, <3>4, <3>5 DEF SlotsInv
 <2> QED BY <2>2, <2>3
<1>6. CASE UNCHANGED slotVars
  BY <1>1, <1>6 DEF SlotsInv, SlotsTyped, SlotsCounted, SpawnsOpen, FreeSlots, IsFree, slotVars
<1> QED BY <1>3, <1>4, <1>5, <1>6 DEF SlotsNext

----
\* The search by words.  A lap from the cursor meets a slot in step StepOf
\* of the search: 0 for the rest of the cursor's word, Words for its
\* beginning, and the distance of the words in between.
StepOf(i) ==
    IF i \div Bits # slotCursor \div Bits THEN ((i \div Bits) - (slotCursor \div Bits)) % Words
    ELSE IF i % Bits >= slotCursor % Bits THEN 0 ELSE Words

LEMMA Met ==
  ASSUME SlotsTyped, NEW i \in Slot
  PROVE  /\ StepOf(i) \in 0 .. Words
         /\ ((slotCursor \div Bits) + StepOf(i)) % Words = i \div Bits
         /\ Ahead(Capacity, slotCursor, i)
              = StepOf(i) * Bits + (i % Bits) - (slotCursor % Bits)
         /\ i \in FreeSlots <=> i % Bits \in Look(StepOf(i))
<1> DEFINE w == i \div Bits
           b == i % Bits
           cw == slotCursor \div Bits
           cb == slotCursor % Bits
           s == StepOf(i)
<1>1. /\ w \in 0 .. Words - 1 /\ b \in 0 .. Bits - 1 /\ i = w * Bits + b
      /\ cw \in 0 .. Words - 1 /\ cb \in 0 .. Bits - 1 /\ slotCursor = cw * Bits + cb
      /\ Words \in Nat \ {0} /\ Bits \in Nat \ {0} /\ Capacity \in Nat \ {0}
      /\ Capacity = Words * Bits
 <2>1. slotCursor \in Slot BY DEF SlotsTyped
 <2> QED BY <2>1, Split, Sizes DEF Word, Bit
<1>2. s = IF w # cw THEN (w - cw) % Words ELSE IF b >= cb THEN 0 ELSE Words BY DEF StepOf
<1>3. Ahead(Capacity, slotCursor, i) = (i - slotCursor) % Capacity BY DEF Ahead
<1>4. i \in FreeSlots <=> b \in freeBits[w] BY DEF FreeSlots, IsFree
<1>5. Look(s) = CASE s = 0 -> freeBits[cw] \cap {x \in Bit : x >= cb}
                  [] s = Words -> freeBits[cw] \ {x \in Bit : x >= cb}
                  [] OTHER -> freeBits[(cw + s) % Words]
  BY DEF Look
<1>6. i - slotCursor = (w - cw) * Bits + b - cb
 <2>1. (w - cw) * Bits = w * Bits - cw * Bits /\ w * Bits \in Int /\ cw * Bits \in Int
  <3>1. w \in Int /\ cw \in Int /\ Bits \in Int BY <1>1
  <3> HIDE DEF w, cw
  <3> QED BY <3>1, Distributes
 <2> HIDE DEF w, b, cw, cb
 <2> QED BY <1>1, <2>1
<1>7. freeBits[w] \subseteq Bit /\ b \in Bit BY <1>1 DEF SlotsTyped, Word, Bit
<1>8. SUFFICES /\ s \in 0 .. Words /\ (cw + s) % Words = w
               /\ (i - slotCursor) % Capacity = s * Bits + b - cb
               /\ b \in freeBits[w] <=> b \in Look(s)
  BY <1>3, <1>4
<1> HIDE DEF w, b, cw, cb, s
<1>9. CASE w = cw /\ b >= cb
 <2>1. s = 0 /\ cw + 0 = 0 * Words + cw /\ s * Bits = 0 BY <1>1, <1>2, <1>9
 <2>2. (cw + s) % Words = w BY <1>1, <1>9, <2>1, Division
 <2>3. i - slotCursor = b - cb /\ b - cb \in 0 .. Capacity - 1
       /\ b - cb = 0 * Capacity + (b - cb)
  <3>1. (w - cw) * Bits = 0 BY <1>1, <1>9
  <3>2. 0 * Bits + Bits <= Words * Bits BY <1>1, Monotone
  <3> QED BY <1>1, <1>6, <1>9, <3>1, <3>2
 <2>4. (i - slotCursor) % Capacity = b - cb BY SMTT(30), <1>1, <2>3, Division
 <2>5. b \in freeBits[w] <=> b \in Look(s) BY <1>1, <1>5, <1>7, <1>9, <2>1
 <2> QED BY <1>1, <2>1, <2>2, <2>4, <2>5
<1>10. CASE w = cw /\ ~(b >= cb)
 <2>1. s = Words /\ cw + Words = 1 * Words + cw /\ Words # 0 BY <1>1, <1>2, <1>10
 <2>2. (cw + s) % Words = w BY <1>1, <1>10, <2>1, Division
 <2>3. /\ i - slotCursor = b - cb /\ Capacity + b - cb \in 0 .. Capacity - 1
       /\ b - cb = (-1) * Capacity + (Capacity + b - cb)
  <3>1. (w - cw) * Bits = 0 BY <1>1, <1>10
  <3>2. 0 * Bits + Bits <= Words * Bits BY <1>1, Monotone
  <3> QED BY <1>1, <1>6, <1>10, <3>1, <3>2
 <2>4. (i - slotCursor) % Capacity = Capacity + b - cb
  <3> DEFINE r == Capacity + b - cb
  <3>1. r \in 0 .. Capacity - 1 /\ i - slotCursor \in Int /\ i - slotCursor = (-1) * Capacity + r BY <1>1, <2>3
  <3> HIDE DEF r
  <3>2. (i - slotCursor) % Capacity = r BY <1>1, <3>1, Division
  <3> QED BY <3>2 DEF r
 <2>5. b \in freeBits[w] <=> b \in Look(s) BY <1>1, <1>5, <1>7, <1>10, <2>1
 <2> QED BY <1>1, <2>1, <2>2, <2>4, <2>5
<1>11. ASSUME NEW d \in 1 .. Words - 1, s = d, cw + d = w \/ cw + d = w + Words
       PROVE  /\ s \in 0 .. Words /\ (cw + s) % Words = w
              /\ (i - slotCursor) % Capacity = s * Bits + b - cb
              /\ b \in freeBits[w] <=> b \in Look(s)
 <2>1. (cw + d) % Words = w BY <1>1, <1>11, Division
 <2>2. d * Bits + b - cb \in 0 .. Capacity - 1
  <3>1. 0 * Bits + Bits <= d * Bits /\ d * Bits + Bits <= Words * Bits BY <1>1, Monotone
  <3> QED BY <1>1, <3>1
 <2>3. \/ (w - cw) * Bits = d * Bits
       \/ (w - cw) * Bits = d * Bits - Words * Bits
  <3>1. w - cw = d \/ w - cw = d - Words BY <1>1, <1>11
  <3>2. (d - Words) * Bits = d * Bits - Words * Bits BY <1>1
  <3> QED BY <3>1, <3>2
 <2>4. (i - slotCursor) % Capacity = d * Bits + b - cb
  <3> DEFINE r == d * Bits + b - cb
  <3>1. /\ r \in 0 .. Capacity - 1 /\ i - slotCursor \in Int
        /\ i - slotCursor = 0 * Capacity + r \/ i - slotCursor = (-1) * Capacity + r
    BY <1>1, <1>6, <2>2, <2>3
  <3> HIDE DEF r
  <3>2. (i - slotCursor) % Capacity = r BY <1>1, <3>1, Division
  <3> QED BY <3>2 DEF r
 <2>5. b \in freeBits[w] <=> b \in Look(s) BY <1>1, <1>5, <1>11, <2>1
 <2> QED BY <1>1, <1>11, <2>1, <2>4, <2>5
<1>12. CASE w > cw
 <2>1. w - cw \in 1 .. Words - 1 /\ w - cw = 0 * Words + (w - cw) /\ cw + (w - cw) = w BY <1>1, <1>12
 <2>2. s = w - cw BY <1>1, <1>2, <1>12, <2>1, Division
 <2> QED BY <1>11, <2>1, <2>2
<1>13. CASE w < cw
 <2> DEFINE d == w - cw + Words
 <2>1. d \in 1 .. Words - 1 /\ d \in 0 .. Words - 1 /\ w - cw = (-1) * Words + d
       /\ cw + d = w + Words
   BY <1>1, <1>13
 <2> HIDE DEF d
 <2>2. s = d BY <1>1, <1>2, <1>13, <2>1, Division
 <2> QED BY <1>11, <2>1, <2>2
<1> QED BY <1>1, <1>9, <1>10, <1>12, <1>13

\* Conversely, a bit the search sees in a step is a free slot of that step.
LEMMA Reached ==
  ASSUME SlotsTyped, NEW s \in 0 .. Words, NEW b \in Look(s),
         NEW i, i = (((slotCursor \div Bits) + s) % Words) * Bits + b
  PROVE  /\ i \in FreeSlots /\ i \in Slot /\ StepOf(i) = s /\ i % Bits = b
         /\ i \div Bits = ((slotCursor \div Bits) + s) % Words
<1> DEFINE cw == slotCursor \div Bits
           cb == slotCursor % Bits
           w == (cw + s) % Words
<1>1. /\ w \in Word /\ b \in Bit /\ b \in freeBits[w] BY Looking
<1>2. /\ cw \in 0 .. Words - 1 /\ cb \in 0 .. Bits - 1 /\ w \in 0 .. Words - 1
      /\ b \in 0 .. Bits - 1 /\ Words \in Nat \ {0}
  BY <1>1, Split, Sizes DEF SlotsTyped, Word, Bit
<1>3. i \in FreeSlots /\ i \in Slot /\ i % Bits = b /\ i \div Bits = w
 <2> HIDE DEF w
 <2>1. i = w * Bits + b BY DEF w
 <2> QED BY <1>1, <2>1, Place, FreeBit
<1>4. StepOf(i) = IF w # cw THEN (w - cw) % Words ELSE IF b >= cb THEN 0 ELSE Words BY <1>3 DEF StepOf
<1>5. Look(s) = CASE s = 0 -> freeBits[cw] \cap {x \in Bit : x >= cb}
                  [] s = Words -> freeBits[cw] \ {x \in Bit : x >= cb}
                  [] OTHER -> freeBits[w]
  BY DEF Look
<1>6. s = 0 \/ s = Words \/ s \in 1 .. Words - 1 BY <1>2
<1> DEFINE x == cw + s
<1>7. w = x % Words OBVIOUS
<1> HIDE DEF w, cw, cb
<1>9. x = cw + s /\ x \in Int BY <1>2
<1> HIDE DEF x
<1>8. StepOf(i) = s
 <2>1. CASE s = 0
  <3>1. x = cw BY <1>2, <1>9, <2>1
  <3>2. w = cw BY <1>2, <1>7, <1>9, <3>1, OneLap
  <3>3. b >= cb
   <4>1. b \in freeBits[cw] \cap {y \in Bit : y >= cb} BY <1>2, <1>5, <2>1
   <4> QED BY <4>1
  <3> QED BY <1>4, <2>1, <3>2, <3>3
 <2>2. CASE s = Words
  <3>1. x = Words + cw BY <1>2, <1>9, <2>2
  <3>2. w = cw BY <1>2, <1>7, <1>9, <3>1, OneLap
  <3>3. ~(b >= cb) BY <1>1, <1>2, <1>5, <2>2
  <3> QED BY <1>4, <2>2, <3>2, <3>3
 <2>3. CASE s \in 1 .. Words - 1 /\ cw + s < Words
  <3>1. x \in 0 .. Words - 1 /\ x = 0 * Words + x BY <1>2, <1>9, <2>3
  <3>2. w = x BY <1>2, <1>7, <1>9, <3>1, Division
  <3>3. w - cw = 0 * Words + s /\ s \in 0 .. Words - 1 /\ w # cw BY <1>2, <1>9, <2>3, <3>2
  <3> QED BY <1>2, <1>4, <3>3, Division
 <2>4. CASE s \in 1 .. Words - 1 /\ ~(cw + s < Words)
  <3> DEFINE r == cw + s - Words
  <3>1. r \in 0 .. Words - 1 /\ x = Words + r BY <1>2, <1>9, <2>4
  <3>2. w = r
   <4> HIDE DEF r
   <4> QED BY <1>2, <1>7, <1>9, <3>1, OneLap
  <3> DEFINE y == w - cw
  <3>3. y = s - Words /\ s \in 0 .. Words - 1 /\ w # cw /\ y \in Int BY <1>2, <1>9, <2>4, <3>1, <3>2
  <3>4. y % Words = s
   <4> HIDE DEF y, r
   <4> QED BY <1>2, <3>3, OneLap
  <3> QED BY <1>4, <3>3, <3>4
 <2> QED BY <1>6, <2>1, <2>2, <2>3, <2>4
<1> QED BY <1>3, <1>8 DEF w, cw

\* A slot of an earlier step, or of the same step and a lower bit, lies
\* nearer on the lap.
LEMMA Nearer ==
  ASSUME SlotsTyped, NEW i \in Slot, NEW j \in Slot,
         Ahead(Capacity, slotCursor, j) <= Ahead(Capacity, slotCursor, i)
  PROVE  /\ StepOf(j) <= StepOf(i)
         /\ StepOf(j) = StepOf(i) => j % Bits <= i % Bits
<1> DEFINE s == StepOf(i)
           t == StepOf(j)
           b == i % Bits
           d == j % Bits
           cb == slotCursor % Bits
<1>1. /\ s \in 0 .. Words /\ t \in 0 .. Words /\ b \in 0 .. Bits - 1 /\ d \in 0 .. Bits - 1
      /\ cb \in 0 .. Bits - 1 /\ Bits \in Nat \ {0} /\ Words \in Nat
  BY Met, Split, Sizes DEF SlotsTyped, Bit
<1>2. t * Bits + d - cb <= s * Bits + b - cb BY Met
<1> HIDE DEF s, t, b, d, cb
<1>3. s * Bits \in Nat /\ t * Bits \in Nat BY <1>1
<1>4. ~(s < t)
 <2>1. CASE s < t
  <3>1. s * Bits + Bits <= t * Bits BY <1>1, <2>1, Monotone
  <3> QED BY <1>1, <1>2, <1>3, <3>1
 <2> QED BY <2>1
<1>5. t = s => d <= b BY <1>1, <1>2, <1>3
<1>6. t <= s /\ (t = s => d <= b) BY <1>1, <1>4, <1>5
<1> QED BY <1>6 DEF s, t, b, d

LEMMA AheadInt ==
  ASSUME SlotsTyped, NEW i \in Slot
  PROVE  Ahead(Capacity, slotCursor, i) \in Int
<1>1. i - slotCursor \in Int /\ Capacity \in Nat \ {0} BY Sizes DEF Slot, SlotsTyped
<1> QED BY <1>1 DEF Ahead

\* The converse order: an earlier step, or a lower bit of the same step.
LEMMA Sooner ==
  ASSUME SlotsTyped, NEW i \in Slot, NEW j \in Slot,
         StepOf(j) < StepOf(i) \/ (StepOf(j) = StepOf(i) /\ j % Bits <= i % Bits)
  PROVE  Ahead(Capacity, slotCursor, j) <= Ahead(Capacity, slotCursor, i)
<1> DEFINE s == StepOf(i)
           t == StepOf(j)
           b == i % Bits
           d == j % Bits
           cb == slotCursor % Bits
<1>1. /\ s \in 0 .. Words /\ t \in 0 .. Words /\ b \in 0 .. Bits - 1 /\ d \in 0 .. Bits - 1
      /\ cb \in 0 .. Bits - 1 /\ Bits \in Nat \ {0} /\ Words \in Nat
  BY Met, Split, Sizes DEF SlotsTyped, Bit
<1>2. SUFFICES t * Bits + d - cb <= s * Bits + b - cb BY Met
<1>3. t < s \/ (t = s /\ d <= b) OBVIOUS
<1> HIDE DEF s, t, b, d, cb
<1>4. s * Bits \in Nat /\ t * Bits \in Nat BY <1>1
<1>5. CASE t < s
 <2>1. t * Bits + Bits <= s * Bits BY <1>1, <1>5, Monotone
 <2> QED BY <1>1, <1>4, <2>1
<1>6. CASE t = s /\ d <= b BY <1>1, <1>4, <1>6
<1> QED BY <1>3, <1>5, <1>6

\* The search finds what a lap over single slots finds, or nothing.
LEMMA SearchIsLap ==
  ASSUME SlotsTyped, SlotsCounted
  PROVE  Next1 = NextFree(Capacity, FreeSlots, slotCursor)
<1>1. available = 0 <=> FreeSlots = {} BY FreeFinite DEF SlotsCounted
<1>2. ASSUME NEW i \in Next1 PROVE i \in NextFree(Capacity, FreeSlots, slotCursor)
 <2>1. PICK s \in 0 .. Words :
         /\ Look(s) # {} /\ \A t \in 0 .. s - 1 : Look(t) = {}
         /\ i = (((slotCursor \div Bits) + s) % Words) * Bits + FirstBit(Look(s))
   BY DEF Next1
 <2>2. FirstBit(Look(s)) \in Look(s) /\ \A c \in Look(s) : FirstBit(Look(s)) <= c BY <2>1, Looking, FirstOfBits
 <2>3. /\ i \in FreeSlots /\ i \in Slot /\ StepOf(i) = s /\ i % Bits = FirstBit(Look(s))
       /\ i \div Bits = ((slotCursor \div Bits) + s) % Words
   BY <2>1, <2>2, Reached
 <2>4. ASSUME NEW j \in FreeSlots,
              Ahead(Capacity, slotCursor, j) <= Ahead(Capacity, slotCursor, i)
       PROVE  j = i
  <3>1. j \in Slot BY DEF FreeSlots
  <3>2. StepOf(j) \in 0 .. Words /\ j % Bits \in Look(StepOf(j))
        /\ ((slotCursor \div Bits) + StepOf(j)) % Words = j \div Bits
    BY <3>1, Met
  <3>3. StepOf(j) <= s /\ (StepOf(j) = s => j % Bits <= i % Bits) BY <2>3, <2>4, <3>1, Nearer
  <3>4. StepOf(j) = s
   <4>1. CASE StepOf(j) < s
    <5>1. StepOf(j) \in 0 .. s - 1 BY <3>2, <4>1, Sizes
    <5> QED BY <2>1, <3>2, <5>1
   <4> QED BY <3>2, <3>3, <4>1, Sizes
  <3>5. j % Bits <= i % Bits /\ i % Bits <= j % Bits BY <2>2, <2>3, <3>2, <3>3, <3>4
  <3>6. j % Bits = i % Bits
   <4>1. j % Bits \in 0 .. Bits - 1 /\ i % Bits \in 0 .. Bits - 1 /\ Bits \in Nat
     BY <2>3, <3>1, Split, Sizes DEF Bit
   <4> QED BY <3>5, <4>1
  <3>7. j = (j \div Bits) * Bits + (j % Bits) /\ i = (i \div Bits) * Bits + (i % Bits) BY <2>3, <3>1, Split
  <3>8. j \div Bits = i \div Bits BY <2>3, <3>2, <3>4
  <3> QED BY <3>6, <3>7, <3>8
 <2>5. Ahead(Capacity, slotCursor, i) <= Ahead(Capacity, slotCursor, i) BY <2>3, AheadInt
 <2> QED BY <2>3, <2>4, <2>5 DEF NextFree, UpTo
<1>3. ASSUME NEW i \in NextFree(Capacity, FreeSlots, slotCursor) PROVE i \in Next1
 <2>1. /\ i \in FreeSlots /\ i \in Slot
       /\ \A j \in FreeSlots :
            Ahead(Capacity, slotCursor, j) <= Ahead(Capacity, slotCursor, i) => j = i
   BY DEF NextFree, UpTo, FreeSlots
 <2> DEFINE s == StepOf(i)
            lowest == FirstBit(Look(s))
 <2>2. /\ s \in 0 .. Words /\ i % Bits \in Look(s)
       /\ ((slotCursor \div Bits) + s) % Words = i \div Bits
   BY <2>1, Met
 <2>3. ASSUME NEW t \in 0 .. s - 1, NEW c \in Look(t) PROVE FALSE
  <3> DEFINE j == (((slotCursor \div Bits) + t) % Words) * Bits + c
  <3>1. t \in 0 .. Words /\ t < s BY <2>2, Sizes
  <3>2. j \in FreeSlots /\ j \in Slot /\ StepOf(j) = t BY <3>1, Reached
  <3>3. Ahead(Capacity, slotCursor, j) <= Ahead(Capacity, slotCursor, i) BY <2>1, <3>1, <3>2, Sooner
  <3>4. j = i BY <2>1, <3>2, <3>3
  <3> HIDE DEF j, s
  <3> QED BY <2>2, <3>1, <3>2, <3>4, Sizes DEF s
 <2>4. lowest \in Look(s) /\ lowest <= i % Bits BY <2>2, Looking, FirstOfBits
 <2>5. lowest = i % Bits
  <3> DEFINE j == (((slotCursor \div Bits) + s) % Words) * Bits + lowest
  <3>1. j \in FreeSlots /\ j \in Slot /\ StepOf(j) = s /\ j % Bits = lowest
   <4> HIDE DEF s, lowest
   <4> QED BY <2>2, <2>4, Reached
  <3>2. j = i
   <4> HIDE DEF j, lowest
   <4>1. Ahead(Capacity, slotCursor, j) <= Ahead(Capacity, slotCursor, i) BY <2>1, <2>4, <3>1, Sooner
   <4> QED BY <2>1, <3>1, <4>1
  <3> HIDE DEF j, lowest
  <3> QED BY <3>1, <3>2
 <2>6. i = (((slotCursor \div Bits) + s) % Words) * Bits + lowest BY <2>1, <2>2, <2>5, Split
 <2>7. available # 0 BY <1>1, <2>1
 <2> HIDE DEF s, lowest
 <2> QED BY <2>2, <2>3, <2>6, <2>7 DEF Next1, lowest
<1> QED BY <1>2, <1>3

\* In every state a nest of spawns and releases can reach, for every
\* bitmap: the words are a bitmap, the count is the number of free bits
\* and every open spawn owns a slot of its own.
THEOREM SlotsInvariance == SlotsSpec => []SlotsInv
<1>1. SlotsInit => SlotsInv BY SlotsBegin
<1>2. SlotsInv /\ [SlotsNext]_slotVars => SlotsInv' BY SlotsStep
<1> QED BY <1>1, <1>2, PTL DEF SlotsSpec

\* The slots tell one story (th08::bullet::Slots): the count next() asks
\* first is the number of free bits, no two open spawns share a slot and
\* the search by words returns the first free slot of a lap from the
\* cursor, or none.
THEOREM SlotsAgree == SlotsSpec => []SlotsConsistent
<1>1. SlotsInv => SlotsConsistent BY SearchIsLap DEF SlotsInv, SlotsCounted, SpawnsOpen, SlotsConsistent
<1> QED BY <1>1, SlotsInvariance, PTL

----
\* The pool of effects.  Between two calls its count is right; during a
\* spawn the draft holds the free slots of the part of the lap walked so
\* far, and during an update phase what the phase makes of the occupied
\* slots below its position.
Kinds == {"none", "unknown", "effect51", "background62"}
SlotStates == [kind : Kinds, time : Nat]
Drafts == UNION {[D -> SlotStates] : D \in SUBSET Effect}
SpawnJobs ==
    [call : {"spawn"}, kind : {"effect51", "background62"}, count : Int,
     inputs : {"complete", "missing", "invalid"}, fails : 0 .. PoolSize, at : Effect,
     scanned : 0 .. PoolSize, left : Int, draft : Drafts]
UpdateJobs == [call : {"update"}, frozen : BOOLEAN, at : 0 .. PoolSize, draft : Drafts]
Taken == {i \in Effect : Occupied(i)}

PoolTyped ==
    /\ effects \in [Effect -> SlotStates] /\ effectCursor \in Effect /\ served \in Nat
    /\ job \in {NoJob} \cup SpawnJobs \cup UpdateJobs
PoolCounted == activeCount = Cardinality(Taken)
SpawnDraft ==
    job.call = "spawn" =>
        /\ job.at = (effectCursor + job.scanned) % PoolSize
        /\ DOMAIN job.draft
             = {i \in FreeEffects : Ahead(PoolSize, effectCursor, i) < job.scanned}
        /\ \A i \in DOMAIN job.draft : job.draft[i] = Fresh(job.kind)
        /\ job.left = job.count - Initialised
        /\ job.count >= 1 => job.left >= 0
        /\ Filled => \E i \in DOMAIN job.draft :
                        Ahead(PoolSize, effectCursor, i) + 1 = job.scanned
UpdateDraft ==
    job.call = "update" =>
        /\ DOMAIN job.draft = {i \in Taken : i < job.at /\ ~job.frozen}
        /\ \A i \in DOMAIN job.draft :
             job.draft[i] \in {Vacant, [effects[i] EXCEPT !.time = @ + 1]}
PoolInv == PoolTyped /\ PoolCounted /\ SpawnDraft /\ UpdateDraft
PoolSpec == EffectInit /\ [][EffectNext]_effectVars

LEMMA PoolSizes ==
  /\ PoolSize \in Nat \ {0} /\ Effect = 0 .. PoolSize - 1
  /\ EndTime \in Nat \ {0} /\ Counts \subseteq Int
BY EffectAssumption DEF Effect

\* The lap: the slot s places ahead of the cursor, and how far a slot is.
LEMMA LapSlot ==
  ASSUME NEW n \in Nat \ {0}, NEW c \in 0 .. n - 1, NEW s \in 0 .. n - 1
  PROVE  (c + s) % n \in 0 .. n - 1 /\ Ahead(n, c, (c + s) % n) = s
<1> DEFINE i == (c + s) % n
           x == c + s
<1>1. CASE c + s < n
 <2>1. x \in Int /\ x \in 0 .. n - 1 BY <1>1
 <2> HIDE DEF x
 <2>2. x % n = x BY <2>1, OneLap
 <2>3. i - c = s /\ i \in 0 .. n - 1 /\ i - c \in Int BY <2>1, <2>2 DEF x
 <2> HIDE DEF i
 <2>4. (i - c) % n = s BY <2>3, OneLap
 <2> QED BY <2>3, <2>4 DEF Ahead, i
<1>2. CASE ~(c + s < n)
 <2> DEFINE r == c + s - n
 <2>1. x \in Int /\ r \in 0 .. n - 1 /\ x = n + r BY <1>2
 <2> HIDE DEF x, r
 <2>2. x % n = r BY <2>1, OneLap
 <2>3. i = r /\ i \in 0 .. n - 1 BY <2>1, <2>2 DEF x
 <2> DEFINE y == i - c
 <2>4. y \in Int /\ y = s - n BY <1>2, <2>3 DEF r
 <2> HIDE DEF i, y
 <2>5. y % n = s BY <2>4, OneLap
 <2> QED BY <2>3, <2>5 DEF Ahead, i, y
<1> QED BY <1>1, <1>2

LEMMA LapBack ==
  ASSUME NEW n \in Nat \ {0}, NEW c \in 0 .. n - 1, NEW i \in 0 .. n - 1
  PROVE  Ahead(n, c, i) \in 0 .. n - 1 /\ (c + Ahead(n, c, i)) % n = i
<1> DEFINE y == i - c
           s == y % n
           x == c + s
<1>1. CASE c <= i
 <2>1. y \in Int /\ y \in 0 .. n - 1 BY <1>1
 <2> HIDE DEF y
 <2>2. s = y BY <2>1, OneLap
 <2>3. x = i /\ x \in Int BY <2>1, <2>2 DEF y
 <2> HIDE DEF x, s
 <2>4. x % n = i BY <2>3, OneLap
 <2> QED BY <2>1, <2>2, <2>4 DEF Ahead, y, s, x
<1>2. CASE ~(c <= i)
 <2> DEFINE r == i - c + n
 <2>1. y \in Int /\ r \in 0 .. n - 1 /\ y = r - n BY <1>2
 <2> HIDE DEF y, r
 <2>2. s = r BY <2>1, OneLap
 <2>3. x = n + i /\ x \in Int BY <2>1, <2>2 DEF r
 <2> HIDE DEF x, s
 <2>4. x % n = i BY <2>3, OneLap
 <2> QED BY <2>1, <2>2, <2>4 DEF Ahead, y, s, x
<1> QED BY <1>1, <1>2

LEMMA PoolFinite ==
  ASSUME NEW S \in SUBSET Effect
  PROVE  /\ IsFiniteSet(S) /\ Cardinality(S) \in Nat
         /\ Cardinality(S) = 0 <=> S = {}
<1>1. IsFiniteSet(Effect) BY PoolSizes, FS_Interval
<1> QED BY <1>1, FS_Subset, FS_CardinalityType, FS_EmptySet

LEMMA Smaller ==
  ASSUME NEW S \in SUBSET Effect, NEW T \in SUBSET S
  PROVE  /\ Cardinality(T) <= Cardinality(S)
         /\ Cardinality(T) = Cardinality(S) => T = S
<1>1. IsFiniteSet(S) BY PoolFinite
<1> QED BY <1>1, FS_Subset

LEMMA Putting ==
  ASSUME NEW draft \in Drafts, NEW i \in Effect, NEW slot \in SlotStates
  PROVE  /\ Put(draft, i, slot) \in Drafts
         /\ DOMAIN Put(draft, i, slot) = DOMAIN draft \cup {i}
         /\ Put(draft, i, slot)[i] = slot
         /\ \A j \in DOMAIN draft : j # i => Put(draft, i, slot)[j] = draft[j]
<1>1. PICK D \in SUBSET Effect : draft \in [D -> SlotStates] BY DEF Drafts
<1>2. Put(draft, i, slot) \in [D \cup {i} -> SlotStates] BY <1>1 DEF Put
<1>3. D \cup {i} \in SUBSET Effect OBVIOUS
<1>4. Put(draft, i, slot) \in Drafts BY <1>2, <1>3 DEF Drafts
<1> QED BY <1>4 DEF Put

LEMMA Drafting ==
  /\ EmptyDraft \in Drafts /\ DOMAIN EmptyDraft = {}
  /\ \A draft \in Drafts :
       /\ DOMAIN draft \in SUBSET Effect
       /\ \A i \in DOMAIN draft : draft[i] \in SlotStates
<1>1. EmptyDraft \in [{} -> SlotStates] /\ {} \in SUBSET Effect BY DEF EmptyDraft
<1>2. EmptyDraft \in Drafts /\ DOMAIN EmptyDraft = {} BY <1>1 DEF Drafts
<1>3. ASSUME NEW draft \in Drafts
      PROVE  DOMAIN draft \in SUBSET Effect /\ \A i \in DOMAIN draft : draft[i] \in SlotStates
 <2>1. PICK D \in SUBSET Effect : draft \in [D -> SlotStates] BY DEF Drafts
 <2> QED BY <2>1
<1> QED BY <1>2, <1>3

LEMMA Jobs ==
  ASSUME PoolTyped
  PROVE  /\ job.call = "spawn" => job \in SpawnJobs
         /\ job.call = "update" => job \in UpdateJobs
         /\ job = NoJob => job.call = "none"
<1>1. job \in SpawnJobs => job.call = "spawn" BY DEF SpawnJobs
<1>2. job \in UpdateJobs => job.call = "update" BY DEF UpdateJobs
<1>3. job = NoJob => job.call = "none" BY DEF NoJob
<1> QED BY <1>1, <1>2, <1>3 DEF PoolTyped

LEMMA Unmoved ==
  ASSUME PoolTyped, PoolCounted, job' \in {NoJob} \cup SpawnJobs \cup UpdateJobs,
         effects' = effects, effectCursor' = effectCursor, activeCount' = activeCount,
         served' = served
  PROVE  PoolTyped' /\ PoolCounted'
<1>1. PoolTyped' BY DEF PoolTyped
<1>2. Taken' = Taken BY DEF Taken, Occupied
<1> QED BY <1>1, <1>2 DEF PoolCounted

\* No call in progress, nothing to say of its draft.
LEMMA NoDraft ==
  ASSUME job' = NoJob
  PROVE  SpawnDraft' /\ UpdateDraft'
<1>1. job'.call = "none" BY DEF NoJob
<1> QED BY <1>1 DEF SpawnDraft, UpdateDraft

LEMMA PoolBegin ==
  ASSUME EffectInit
  PROVE  PoolInv
<1>1. PICK occupied \in SUBSET Effect :
        /\ effects = [i \in Effect |-> IF i \in occupied THEN Unknown ELSE Vacant]
        /\ activeCount = Cardinality(occupied)
  BY DEF EffectInit
<1>2. effectCursor \in Effect /\ served = 0 /\ job = NoJob BY DEF EffectInit
<1>3. Vacant \in SlotStates /\ Unknown \in SlotStates /\ Vacant.kind = "none"
      /\ Unknown.kind # "none"
  BY DEF Vacant, Unknown, SlotStates, Kinds
<1>4. PoolTyped BY <1>1, <1>2, <1>3 DEF PoolTyped
<1>5. Taken = occupied BY <1>1, <1>3 DEF Taken, Occupied
<1>6. PoolCounted BY <1>1, <1>5 DEF PoolCounted
<1>7. job.call = "none" BY <1>2 DEF NoJob
<1>8. SpawnDraft /\ UpdateDraft BY <1>7 DEF SpawnDraft, UpdateDraft
<1> QED BY <1>4, <1>6, <1>8 DEF PoolInv

\* A call begins with an empty draft.
LEMMA CallSpawnStep ==
  ASSUME PoolInv, NEW kind \in {"effect51", "background62"}, NEW count \in Counts,
         NEW inputs \in {"complete", "missing", "invalid"}, NEW fails \in 0 .. PoolSize,
         CallSpawn(kind, count, inputs, fails)
  PROVE  PoolInv'
<1>1. PoolTyped /\ PoolCounted BY DEF PoolInv
<1>2. /\ job' = [call |-> "spawn", kind |-> kind, count |-> count, inputs |-> inputs,
                 fails |-> fails, at |-> effectCursor, scanned |-> 0, left |-> count,
                 draft |-> EmptyDraft]
      /\ effects' = effects /\ effectCursor' = effectCursor
      /\ activeCount' = activeCount /\ served' = served
  BY DEF CallSpawn, Call
<1>3. effectCursor \in 0 .. PoolSize - 1 /\ count \in Int /\ PoolSize \in Nat \ {0}
  BY <1>1, PoolSizes DEF PoolTyped
<1>4. job' \in SpawnJobs BY <1>2, <1>3, PoolSizes, Drafting DEF SpawnJobs
<1>5. PoolTyped' /\ PoolCounted' BY <1>1, <1>2, <1>4, Unmoved
<1>6. UpdateDraft' BY <1>2 DEF UpdateDraft
<1>7. /\ job'.at = effectCursor /\ job'.scanned = 0 /\ DOMAIN job'.draft = {}
      /\ job'.left = count /\ job'.count = count
  BY <1>2, Drafting
<1>8. effectCursor = (effectCursor + 0) % PoolSize
 <2> DEFINE x == effectCursor + 0
 <2>1. x = effectCursor /\ x \in Int BY <1>3
 <2> HIDE DEF x
 <2>2. x % PoolSize = effectCursor BY <1>3, <2>1, OneLap
 <2> QED BY <2>2 DEF x
<1>9. \A i \in Effect : Ahead(PoolSize, effectCursor, i) \in Nat BY <1>3, PoolSizes, LapBack
<1>10. {i \in FreeEffects : Ahead(PoolSize, effectCursor, i) < 0} = {} BY <1>9 DEF FreeEffects
<1>11. FreeEffects' = FreeEffects BY <1>2 DEF FreeEffects, Occupied
<1>12. Cardinality(DOMAIN job'.draft) = 0 BY <1>7, FS_EmptySet
<1>13. SpawnDraft'
 <2>1. job'.at = (effectCursor' + job'.scanned) % PoolSize BY <1>2, <1>7, <1>8
 <2>2. DOMAIN job'.draft
         = {i \in FreeEffects' : Ahead(PoolSize, effectCursor', i) < job'.scanned}
   BY <1>2, <1>7, <1>10, <1>11
 <2>3. job'.left = job'.count - Cardinality(DOMAIN job'.draft)
       /\ (job'.count >= 1 => job'.left >= 0)
   BY <1>3, <1>7, <1>12
 <2> QED BY <1>7, <2>1, <2>2, <2>3 DEF SpawnDraft, Initialised, Filled
<1> QED BY <1>5, <1>6, <1>13 DEF PoolInv

LEMMA CallUpdateStep ==
  ASSUME PoolInv, NEW frozen \in BOOLEAN, CallUpdate(frozen)
  PROVE  PoolInv'
<1>1. PoolTyped /\ PoolCounted BY DEF PoolInv
<1>2. /\ job' = [call |-> "update", frozen |-> frozen, at |-> 0, draft |-> EmptyDraft]
      /\ effects' = effects /\ effectCursor' = effectCursor
      /\ activeCount' = activeCount /\ served' = served
  BY DEF CallUpdate
<1>3. job' \in UpdateJobs BY <1>2, PoolSizes, Drafting DEF UpdateJobs
<1>4. PoolTyped' /\ PoolCounted' BY <1>1, <1>2, <1>3, Unmoved
<1>5. SpawnDraft' BY <1>2 DEF SpawnDraft
<1>6. job'.at = 0 /\ DOMAIN job'.draft = {} BY <1>2, Drafting
<1>7. \A i \in Taken' : ~(i < 0) BY PoolSizes DEF Taken
<1>8. UpdateDraft' BY <1>6, <1>7 DEF UpdateDraft
<1> QED BY <1>4, <1>5, <1>8 DEF PoolInv

LEMMA LapNext ==
  ASSUME NEW n \in Nat \ {0}, NEW c \in 0 .. n - 1, NEW s \in 0 .. n - 1
  PROVE  (((c + s) % n) + 1) % n = (c + (s + 1)) % n
<1> DEFINE x == c + s
           y == c + (s + 1)
           r == x % n
           z == r + 1
<1>1. x \in 0 .. 2 * n - 2 /\ y = x + 1 OBVIOUS
<1>2. CASE x < n
 <2> HIDE DEF x, y
 <2>1. x \in 0 .. n - 1 /\ x \in Int BY <1>1, <1>2
 <2>2. r = x BY <2>1, OneLap
 <2>3. z = y BY <1>1, <2>1, <2>2
 <2> QED BY <2>3 DEF x, y
<1>3. CASE ~(x < n)
 <2> DEFINE q == x - n
 <2>1. q \in 0 .. n - 1 /\ x = n + q /\ x \in Int /\ q + 1 \in 1 .. n /\ y = n + (q + 1)
       /\ y \in Int
   BY <1>1, <1>3
 <2> HIDE DEF x, y, q
 <2>2. r = q BY <2>1, OneLap
 <2>3. z = q + 1 /\ z \in Int BY <2>1, <2>2
 <2>4. CASE q + 1 < n
  <3> DEFINE p == q + 1
  <3>1. p \in 0 .. n - 1 /\ z = p /\ y = n + p BY <2>1, <2>3, <2>4
  <3> HIDE DEF p, z
  <3>2. z % n = p /\ y % n = p BY <2>1, <2>3, <3>1, OneLap
  <3> QED BY <3>2 DEF z, y, x
 <2>5. CASE q + 1 = n
  <3> DEFINE zero == 0
             w == n + n
  <3>1. zero \in 0 .. n - 1 /\ z = n + zero /\ y = w /\ w = 2 * n + zero BY <2>1, <2>3, <2>5
  <3> HIDE DEF zero, z, w
  <3>2. z % n = zero BY <2>3, <3>1, OneLap
  <3>3. y % n = zero
   <4>1. 2 \in Int /\ n \in Nat \ {0} /\ zero \in 0 .. n - 1 /\ y = 2 * n + zero BY <3>1
   <4> QED BY <2>1, <4>1, Division
  <3> QED BY <3>2, <3>3 DEF z, y, x
 <2> QED BY <2>1, <2>4, <2>5
<1> QED BY <1>2, <1>3

\* Where a scan stands: at the first slot of the lap it has not met.
LEMMA ScanAt ==
  ASSUME PoolTyped, SpawnDraft, Scanning
  PROVE  /\ job \in SpawnJobs /\ job.at \in Effect /\ job.at \notin DOMAIN job.draft
         /\ job.scanned + 1 \in 0 .. PoolSize /\ (job.at + 1) % PoolSize \in Effect
         /\ Ahead(PoolSize, effectCursor, job.at) = job.scanned
         /\ (job.at + 1) % PoolSize = (effectCursor + (job.scanned + 1)) % PoolSize
         /\ {i \in FreeEffects : Ahead(PoolSize, effectCursor, i) < job.scanned + 1}
              = DOMAIN job.draft \cup (IF Occupied(job.at) THEN {} ELSE {job.at})
<1> DEFINE c == effectCursor
           s == job.scanned
           at == job.at
<1>1. /\ job \in SpawnJobs /\ s < PoolSize
      /\ at = (c + s) % PoolSize
      /\ DOMAIN job.draft = {i \in FreeEffects : Ahead(PoolSize, c, i) < s}
  BY Jobs DEF Scanning, SpawnDraft
<1>2. at \in Effect /\ s \in 0 .. PoolSize - 1 /\ c \in 0 .. PoolSize - 1
      /\ PoolSize \in Nat \ {0} /\ Effect = 0 .. PoolSize - 1
  BY <1>1, PoolSizes DEF SpawnJobs, PoolTyped
<1>3. \A i \in Effect : Ahead(PoolSize, c, i) \in 0 .. PoolSize - 1
                        /\ (c + Ahead(PoolSize, c, i)) % PoolSize = i
  BY <1>2, LapBack
<1> HIDE DEF c, s, at
<1>4. Ahead(PoolSize, c, at) = s BY <1>1, <1>2, LapSlot
<1>5. (at + 1) % PoolSize = (c + (s + 1)) % PoolSize BY <1>1, <1>2, LapNext
<1>6. (at + 1) % PoolSize \in Effect
 <2> DEFINE x == at + 1
 <2>1. x \in Int BY <1>2
 <2> HIDE DEF x
 <2>2. x % PoolSize \in 0 .. PoolSize - 1 BY <1>2, <2>1
 <2> QED BY <1>2, <2>2 DEF x
<1>7. at \notin DOMAIN job.draft BY <1>1, <1>2, <1>4
<1>8. ASSUME NEW i \in FreeEffects
      PROVE  Ahead(PoolSize, c, i) < s + 1 <=> (Ahead(PoolSize, c, i) < s \/ i = at)
 <2>1. i \in Effect BY DEF FreeEffects
 <2>2. Ahead(PoolSize, c, i) = s <=> i = at
  <3>1. Ahead(PoolSize, c, i) = s => i = at BY <1>1, <1>3, <2>1
  <3>2. i = at => Ahead(PoolSize, c, i) = s BY <1>4
  <3> QED BY <3>1, <3>2
 <2> DEFINE d == Ahead(PoolSize, c, i)
 <2>3. d \in Int /\ s \in Int /\ (d = s <=> i = at) BY <1>2, <1>3, <2>1, <2>2
 <2> HIDE DEF d
 <2>4. d < s + 1 <=> (d < s \/ d = s) BY <2>3
 <2>5. d < s + 1 <=> (d < s \/ i = at) BY <2>3, <2>4
 <2> QED BY <2>5 DEF d
<1>9. at \in FreeEffects <=> ~Occupied(at) BY <1>2 DEF FreeEffects
<1>10. {i \in FreeEffects : Ahead(PoolSize, c, i) < s + 1}
         = DOMAIN job.draft \cup (IF Occupied(at) THEN {} ELSE {at})
  BY <1>1, <1>8, <1>9
<1>11. s + 1 \in 0 .. PoolSize BY <1>2
<1> QED BY <1>1, <1>2, <1>4, <1>5, <1>6, <1>7, <1>10, <1>11 DEF c, s, at

LEMMA SkipStep ==
  ASSUME PoolInv, SkipOccupied
  PROVE  PoolInv'
<1>1. PoolTyped /\ PoolCounted /\ SpawnDraft BY DEF PoolInv
<1>2. /\ job' = [job EXCEPT !.at = (@ + 1) % PoolSize, !.scanned = @ + 1]
      /\ effects' = effects /\ effectCursor' = effectCursor
      /\ activeCount' = activeCount /\ served' = served
      /\ Scanning /\ Occupied(job.at)
  BY DEF SkipOccupied
<1>3. /\ job \in SpawnJobs /\ job.scanned + 1 \in 0 .. PoolSize
      /\ (job.at + 1) % PoolSize \in Effect
      /\ (job.at + 1) % PoolSize = (effectCursor + (job.scanned + 1)) % PoolSize
      /\ {i \in FreeEffects : Ahead(PoolSize, effectCursor, i) < job.scanned + 1}
           = DOMAIN job.draft
  BY <1>1, <1>2, ScanAt
<1>4. /\ job' \in SpawnJobs /\ job'.at = (job.at + 1) % PoolSize
      /\ job'.scanned = job.scanned + 1 /\ job'.call = "spawn"
      /\ job'.draft = job.draft /\ job'.left = job.left /\ job'.count = job.count
      /\ job'.kind = job.kind
  BY <1>2, <1>3 DEF SpawnJobs
<1>5. PoolTyped' /\ PoolCounted' BY <1>1, <1>2, <1>4, Unmoved
<1>6. UpdateDraft' BY <1>4 DEF UpdateDraft
<1>7. FreeEffects' = FreeEffects BY <1>2 DEF FreeEffects, Occupied
<1>8. /\ \A i \in DOMAIN job.draft : job.draft[i] = Fresh(job.kind)
      /\ job.left = job.count - Cardinality(DOMAIN job.draft)
      /\ job.count >= 1 => job.left >= 0
  BY <1>1, <1>2 DEF SpawnDraft, Scanning, Initialised
<1>9. ~(job.left = 0 /\ DOMAIN job.draft # {}) BY <1>2 DEF Scanning, Filled
<1>10. SpawnDraft'
 <2>1. job'.at = (effectCursor' + job'.scanned) % PoolSize BY <1>2, <1>3, <1>4
 <2>2. DOMAIN job'.draft
         = {i \in FreeEffects' : Ahead(PoolSize, effectCursor', i) < job'.scanned}
   BY <1>2, <1>3, <1>4, <1>7
 <2>3. /\ \A i \in DOMAIN job'.draft : job'.draft[i] = Fresh(job'.kind)
       /\ job'.left = job'.count - Cardinality(DOMAIN job'.draft)
       /\ job'.count >= 1 => job'.left >= 0
       /\ ~(job'.left = 0 /\ DOMAIN job'.draft # {})
   BY <1>4, <1>8, <1>9
 <2> QED BY <2>1, <2>2, <2>3 DEF SpawnDraft, Initialised, Filled
<1> QED BY <1>5, <1>6, <1>10 DEF PoolInv

LEMMA ClaimStep ==
  ASSUME PoolInv, ClaimSlot
  PROVE  PoolInv'
<1>1. PoolTyped /\ PoolCounted /\ SpawnDraft BY DEF PoolInv
<1>2. /\ job' = [job EXCEPT !.at = (@ + 1) % PoolSize, !.scanned = @ + 1, !.left = @ - 1,
                            !.draft = Put(@, job.at, Fresh(job.kind))]
      /\ effects' = effects /\ effectCursor' = effectCursor
      /\ activeCount' = activeCount /\ served' = served
      /\ Scanning /\ ~Occupied(job.at)
  BY DEF ClaimSlot
<1>3. /\ job \in SpawnJobs /\ job.scanned + 1 \in 0 .. PoolSize
      /\ job.at \in Effect /\ job.at \notin DOMAIN job.draft
      /\ (job.at + 1) % PoolSize \in Effect
      /\ Ahead(PoolSize, effectCursor, job.at) = job.scanned
      /\ (job.at + 1) % PoolSize = (effectCursor + (job.scanned + 1)) % PoolSize
      /\ {i \in FreeEffects : Ahead(PoolSize, effectCursor, i) < job.scanned + 1}
           = DOMAIN job.draft \cup {job.at}
  BY <1>1, <1>2, ScanAt
<1>4. /\ job.draft \in Drafts /\ Fresh(job.kind) \in SlotStates /\ job.left \in Int
      /\ job.count \in Int /\ job.scanned \in Nat
  BY <1>3, PoolSizes DEF SpawnJobs, Fresh, SlotStates, Kinds
<1> DEFINE draft == Put(job.draft, job.at, Fresh(job.kind))
<1>5. /\ draft \in Drafts /\ DOMAIN draft = DOMAIN job.draft \cup {job.at}
      /\ draft[job.at] = Fresh(job.kind)
      /\ \A j \in DOMAIN job.draft : draft[j] = job.draft[j]
 <2> DEFINE d == job.draft
            i == job.at
            f == Fresh(job.kind)
 <2>1. d \in Drafts /\ i \in Effect /\ f \in SlotStates /\ i \notin DOMAIN d BY <1>3, <1>4
 <2> HIDE DEF d, i, f
 <2>2. /\ Put(d, i, f) \in Drafts /\ DOMAIN Put(d, i, f) = DOMAIN d \cup {i}
       /\ Put(d, i, f)[i] = f /\ \A j \in DOMAIN d : j # i => Put(d, i, f)[j] = d[j]
   BY <2>1, Putting
 <2>3. \A j \in DOMAIN d : Put(d, i, f)[j] = d[j] BY <2>1, <2>2
 <2> QED BY <2>2, <2>3 DEF d, i, f
<1>6. job' = [job EXCEPT !.at = (@ + 1) % PoolSize, !.scanned = @ + 1, !.left = @ - 1,
                         !.draft = draft]
  BY <1>2, <1>3 DEF SpawnJobs
<1> HIDE DEF draft
<1>7. /\ job' \in SpawnJobs /\ job'.at = (job.at + 1) % PoolSize
      /\ job'.scanned = job.scanned + 1 /\ job'.call = "spawn"
      /\ job'.draft = draft /\ job'.left = job.left - 1 /\ job'.count = job.count
      /\ job'.kind = job.kind
 <2>1. job.left - 1 \in Int /\ draft \in Drafts BY <1>4, <1>5
 <2> QED BY <1>3, <1>6, <2>1 DEF SpawnJobs
<1>8. PoolTyped' /\ PoolCounted' BY <1>1, <1>2, <1>7, Unmoved
<1>9. UpdateDraft' BY <1>7 DEF UpdateDraft
<1>10. FreeEffects' = FreeEffects BY <1>2 DEF FreeEffects, Occupied
<1>11. /\ \A i \in DOMAIN job.draft : job.draft[i] = Fresh(job.kind)
       /\ job.left = job.count - Cardinality(DOMAIN job.draft)
       /\ job.count >= 1 => job.left >= 0
  BY <1>1, <1>2 DEF SpawnDraft, Scanning, Initialised
<1>12. ~(job.left = 0 /\ DOMAIN job.draft # {}) BY <1>2 DEF Scanning, Filled
<1>13. /\ Cardinality(DOMAIN draft) = Cardinality(DOMAIN job.draft) + 1
       /\ Cardinality(DOMAIN job.draft) \in Nat
       /\ DOMAIN job.draft = {} => Cardinality(DOMAIN job.draft) = 0
 <2>1. DOMAIN job.draft \in SUBSET Effect BY <1>4, Drafting
 <2>2. IsFiniteSet(DOMAIN job.draft) /\ Cardinality(DOMAIN job.draft) \in Nat BY <2>1, PoolFinite
 <2> QED BY <1>3, <1>5, <2>1, <2>2, FS_AddElement, FS_EmptySet
<1>14. /\ job.left - 1 = job.count - Cardinality(DOMAIN draft)
       /\ job.count >= 1 => job.left - 1 >= 0
 <2>1. job.left - 1 = job.count - Cardinality(DOMAIN draft) BY <1>4, <1>11, <1>13
 <2>2. job.count >= 1 => job.left # 0 BY <1>4, <1>11, <1>12, <1>13
 <2> QED BY <1>4, <1>11, <2>1, <2>2
<1>15. SpawnDraft'
 <2>1. job'.at = (effectCursor' + job'.scanned) % PoolSize BY <1>2, <1>3, <1>7
 <2>2. DOMAIN job'.draft
         = {i \in FreeEffects' : Ahead(PoolSize, effectCursor', i) < job'.scanned}
   BY <1>2, <1>3, <1>5, <1>7, <1>10
 <2>3. \A i \in DOMAIN job'.draft : job'.draft[i] = Fresh(job'.kind) BY <1>5, <1>7, <1>11
 <2>4. /\ job'.left = job'.count - Cardinality(DOMAIN job'.draft)
       /\ job'.count >= 1 => job'.left >= 0
   BY <1>7, <1>14
 <2>5. \E i \in DOMAIN job'.draft : Ahead(PoolSize, effectCursor', i) + 1 = job'.scanned
   BY <1>2, <1>3, <1>5, <1>7
 <2> QED BY <2>1, <2>2, <2>3, <2>4, <2>5 DEF SpawnDraft, Initialised
<1> QED BY <1>8, <1>9, <1>15 DEF PoolInv

LEMMA Overlaid ==
  ASSUME effects \in [Effect -> SlotStates], NEW draft \in Drafts
  PROVE  /\ Overlay(draft) \in [Effect -> SlotStates]
         /\ \A i \in Effect :
              Overlay(draft)[i] = IF i \in DOMAIN draft THEN draft[i] ELSE effects[i]
<1>1. \A i \in DOMAIN draft : draft[i] \in SlotStates BY Drafting
<1>2. \A i \in Effect : (IF i \in DOMAIN draft THEN draft[i] ELSE effects[i]) \in SlotStates BY <1>1
<1> QED BY <1>2 DEF Overlay

\* A finished scan claimed what one lap promises, and its cursor is the
\* one the lap leaves behind.
LEMMA ScanClaims ==
  ASSUME PoolTyped, SpawnDraft, job.call = "spawn", ~Scanning
  PROVE  /\ Claimed(PoolSize, FreeEffects, effectCursor, job.count) = DOMAIN job.draft
         /\ CursorAfter(PoolSize, FreeEffects, effectCursor, job.count) = job.at
<1> DEFINE N == PoolSize
           c == effectCursor
           s == job.scanned
           F == FreeEffects
           D == DOMAIN job.draft
           n == job.count
           A(i) == Ahead(PoolSize, effectCursor, i)
           U(i) == UpTo(PoolSize, FreeEffects, effectCursor, i)
<1>1. /\ job \in SpawnJobs /\ job.at = (c + s) % N
      /\ D = {i \in F : A(i) < s} /\ job.left = n - Cardinality(D)
      /\ n >= 1 => job.left >= 0
      /\ Filled => \E i \in D : A(i) + 1 = s
  BY Jobs DEF SpawnDraft, Initialised
<1>2. /\ N \in Nat \ {0} /\ c \in 0 .. N - 1 /\ s \in 0 .. N /\ n \in Int
      /\ job.left \in Int /\ Effect = 0 .. N - 1 /\ F \in SUBSET Effect /\ D \in SUBSET F
      /\ D \in SUBSET Effect
  BY <1>1, PoolSizes DEF SpawnJobs, PoolTyped, FreeEffects
<1>3. Filled \/ s = N BY <1>2 DEF Scanning
<1>4. \A i \in Effect : A(i) \in 0 .. N - 1 /\ (c + A(i)) % N = i BY <1>2, LapBack
<1>5. \A i : U(i) = {j \in F : A(j) <= A(i)} /\ U(i) \in SUBSET F BY DEF UpTo
<1>6. /\ IsFiniteSet(F) /\ Cardinality(F) \in Nat /\ IsFiniteSet(D) /\ Cardinality(D) \in Nat
      /\ Cardinality(D) <= Cardinality(F) /\ (Cardinality(D) = 0 <=> D = {})
  BY <1>2, PoolFinite, Smaller
<1>7. Filled <=> (job.left = 0 /\ D # {}) BY DEF Filled
<1>8. Claimed(N, F, c, n) = {i \in F : n <= 0 \/ Cardinality(U(i)) <= n} BY DEF Claimed
<1>9. \A i \in F : Cardinality(U(i)) \in Nat /\ Cardinality(U(i)) <= Cardinality(F)
  BY <1>2, <1>5, PoolFinite, Smaller
<1> HIDE DEF N, c, s, F, D, n, A, U
<1>10. CASE Filled
 <2>1. n = Cardinality(D) /\ n >= 1 BY <1>1, <1>2, <1>6, <1>7, <1>10
 <2>2. ASSUME NEW i \in F PROVE i \in D <=> (n <= 0 \/ Cardinality(U(i)) <= n)
  <3>1. CASE i \in D
   <4>1. U(i) \in SUBSET D
    <5>1. ASSUME NEW j \in F, A(j) <= A(i) PROVE A(j) < s
     <6>1. A(j) \in Int /\ A(i) \in Int /\ A(i) < s /\ s \in Int BY <1>1, <1>2, <1>4, <3>1, <5>1
     <6> QED BY <5>1, <6>1
    <5> QED BY <1>1, <1>5, <5>1
   <4>2. Cardinality(U(i)) <= Cardinality(D) BY <1>2, <4>1, Smaller
   <4> QED BY <2>1, <3>1, <4>2
  <3>2. CASE i \notin D
   <4>1. ASSUME NEW j \in D PROVE A(j) <= A(i)
    <5>1. A(j) \in Int /\ A(i) \in Int /\ A(j) < s /\ ~(A(i) < s) /\ s \in Int BY <1>1, <1>2, <1>4, <3>2
    <5> QED BY <5>1
   <4>2. A(i) <= A(i) BY <1>2, <1>4
   <4>3. D \cup {i} \in SUBSET U(i) /\ U(i) \in SUBSET Effect BY <1>2, <1>5, <4>1, <4>2
   <4>4. Cardinality(D \cup {i}) <= Cardinality(U(i)) BY <4>3, Smaller
   <4>5. Cardinality(D \cup {i}) = Cardinality(D) + 1 BY <1>6, <3>2, FS_AddElement
   <4>6. ~(n <= 0) /\ ~(Cardinality(U(i)) <= n) BY <1>2, <1>6, <1>9, <2>1, <4>4, <4>5
   <4> QED BY <3>2, <4>6
  <3> QED BY <3>1, <3>2
 <2>3. Claimed(N, F, c, n) = D BY <1>2, <1>8, <2>2
 <2>4. Satisfied(F, n) BY <1>2, <1>6, <2>1 DEF Satisfied
 <2>5. PICK l \in D : A(l) + 1 = s BY <1>1, <1>10
 <2>6. ASSUME NEW i \in D PROVE UpTo(N, D, c, i) = D <=> i = l
  <3>1. UpTo(N, D, c, i) = {j \in D : A(j) <= A(i)} BY DEF UpTo, A, N, c
  <3>2. \A j \in D : A(j) \in Int /\ A(j) < s BY <1>1, <1>2, <1>4
  <3>3. CASE i = l
   <4>1. \A j \in D : A(j) <= A(i) BY <1>2, <2>5, <3>2, <3>3
   <4> QED BY <3>1, <3>3, <4>1
  <3>4. ASSUME UpTo(N, D, c, i) = D PROVE i = l
   <4>1. A(l) <= A(i) BY <3>1, <3>4
   <4>2. A(i) = A(l) BY <1>2, <2>5, <3>2, <4>1
   <4> QED BY <1>2, <1>4, <4>2
  <3> QED BY <3>3, <3>4
 <2>7. LastClaimed(N, F, c, n) = CHOOSE i \in D : UpTo(N, D, c, i) = D BY <2>3 DEF LastClaimed
 <2>8. LastClaimed(N, F, c, n) = l
  <3>1. \E i \in D : UpTo(N, D, c, i) = D BY <2>6
  <3> QED BY <2>6, <2>7, <3>1
 <2>9. (l + 1) % N = job.at
  <3>1. A(l) \in 0 .. N - 1 /\ (c + A(l)) % N = l /\ s = A(l) + 1 BY <1>2, <1>4, <2>5
  <3>2. (((c + A(l)) % N) + 1) % N = (c + (A(l) + 1)) % N BY <1>2, <3>1, LapNext
  <3> QED BY <1>1, <3>1, <3>2
 <2>10. CursorAfter(N, F, c, n) = job.at BY <2>4, <2>8, <2>9 DEF CursorAfter
 <2> QED BY <2>3, <2>10 DEF N, F, c, n, D
<1>11. CASE ~Filled
 <2>1. s = N BY <1>3, <1>11
 <2>2. D = F
  <3>1. ASSUME NEW i \in F PROVE A(i) < s
   <4>1. A(i) \in 0 .. N - 1 BY <1>2, <1>4
   <4> QED BY <1>2, <2>1, <4>1
  <3> QED BY <1>1, <3>1
 <2> DEFINE k == Cardinality(D)
            left == job.left
 <2>0. /\ k \in Nat /\ left \in Int /\ n \in Int /\ left = n - k /\ (n >= 1 => left >= 0)
        /\ k = Cardinality(F) /\ (left = 0 => k = 0)
  <3>1. left = n - k /\ (n >= 1 => left >= 0) BY <1>1
  <3>2. left = 0 => k = 0 BY <1>6, <1>7, <1>11
  <3> QED BY <1>2, <1>6, <2>2, <3>1, <3>2
 <2>3. n >= 1 => Cardinality(F) <= n
  <3> HIDE DEF k, left
  <3> QED BY <2>0
 <2>4. \A i \in F : n <= 0 \/ Cardinality(U(i)) <= n BY <1>2, <1>6, <1>9, <2>3
 <2>5. Claimed(N, F, c, n) = D BY <1>8, <2>2, <2>4
 <2>6. ~Satisfied(F, n)
  <3>1. CASE n \in 1 .. Cardinality(F)
   <4> HIDE DEF k, left
   <4> QED BY <2>0, <3>1
  <3> QED BY <3>1 DEF Satisfied
 <2>7. job.at = c
  <3> DEFINE x == c + s
  <3>1. x \in Int /\ x = N + c BY <1>2, <2>1
  <3> HIDE DEF x
  <3>2. x % N = c BY <1>2, <3>1, OneLap
  <3> QED BY <1>1, <3>2 DEF x
 <2>8. CursorAfter(N, F, c, n) = job.at BY <2>6, <2>7 DEF CursorAfter
 <2> QED BY <2>5, <2>8 DEF N, F, c, n, D
<1> QED BY <1>10, <1>11

LEMMA CommitSpawnStep ==
  ASSUME PoolInv, CommitSpawn
  PROVE  PoolInv' /\ SpawnKept
<1> DEFINE D == DOMAIN job.draft
<1>1. PoolTyped /\ PoolCounted /\ SpawnDraft BY DEF PoolInv
<1>2. /\ job.call = "spawn" /\ ~Scanning /\ effects' = Overlay(job.draft)
      /\ activeCount' = activeCount + Cardinality(D) /\ effectCursor' = job.at
      /\ served' = (IF job.kind = "effect51" THEN served + Cardinality(D) ELSE served)
      /\ job' = NoJob
  BY DEF CommitSpawn, Initialised
<1>3. /\ job \in SpawnJobs /\ job.draft \in Drafts /\ job.at \in Effect
      /\ job.kind \in {"effect51", "background62"}
  BY <1>1, <1>2, Jobs DEF SpawnJobs
<1>4. /\ Claimed(PoolSize, FreeEffects, effectCursor, job.count) = D
      /\ CursorAfter(PoolSize, FreeEffects, effectCursor, job.count) = job.at
  BY <1>1, <1>2, ScanClaims
<1>5. /\ D \in SUBSET FreeEffects /\ \A i \in D : job.draft[i] = Fresh(job.kind) BY <1>1, <1>2 DEF SpawnDraft
<1>6. /\ effects' \in [Effect -> SlotStates]
      /\ \A i \in Effect :
           effects'[i] = IF i \in D THEN Fresh(job.kind) ELSE effects[i]
  BY <1>1, <1>2, <1>3, <1>5, Overlaid DEF PoolTyped
<1>7. /\ FreeEffects \in SUBSET Effect /\ D \in SUBSET Effect /\ Taken \in SUBSET Effect
      /\ Taken \cap D = {}
  BY <1>5 DEF FreeEffects, Taken
<1>8. /\ IsFiniteSet(D) /\ Cardinality(D) \in Nat
      /\ IsFiniteSet(Taken) /\ Cardinality(Taken) \in Nat
  BY <1>7, PoolFinite
<1>9. PoolTyped'
 <2>1. served' \in Nat BY <1>1, <1>2, <1>8 DEF PoolTyped
 <2> QED BY <1>2, <1>3, <1>6, <2>1 DEF PoolTyped
<1>10. Taken' = Taken \cup D
 <2>1. Fresh(job.kind).kind # "none" BY <1>3 DEF Fresh
 <2>2. \A i \in Effect : effects'[i].kind # "none" <=> (effects[i].kind # "none" \/ i \in D) BY <1>6, <2>1
 <2> QED BY <1>7, <2>2 DEF Taken, Occupied
<1>11. PoolCounted'
 <2>1. Cardinality(Taken \cup D) = Cardinality(Taken) + Cardinality(D) - Cardinality({}) BY <1>7, <1>8, FS_Union
 <2>2. Cardinality({}) = 0 BY FS_EmptySet
 <2>3. Cardinality(Taken \cup D) = Cardinality(Taken) + Cardinality(D) BY <1>8, <2>1, <2>2
 <2> QED BY <1>1, <1>2, <1>10, <2>3 DEF PoolCounted
<1>12. SpawnDraft' /\ UpdateDraft' BY <1>2, NoDraft
<1>13. PoolInv' BY <1>9, <1>11, <1>12 DEF PoolInv
<1>14. SpawnKept
 <2> DEFINE claimed == Claimed(PoolSize, FreeEffects, effectCursor, job.count)
 <2>1. effects' = [i \in Effect |-> IF i \in claimed THEN Fresh(job.kind) ELSE effects[i]] BY <1>4, <1>6
 <2>2. effectCursor' = CursorAfter(PoolSize, FreeEffects, effectCursor, job.count) BY <1>2, <1>4
 <2>3. CountsOccupied(activeCount', effects') BY <1>11 DEF PoolCounted, Taken, Occupied, CountsOccupied
 <2>4. served' = served + (IF job.kind = "effect51" THEN Cardinality(claimed) ELSE 0)
   BY <1>1, <1>2, <1>4, <1>8 DEF PoolTyped
 <2> QED BY <2>1, <2>2, <2>3, <2>4 DEF SpawnKept
<1> QED BY <1>13, <1>14

\* The phase walks the slots in order.
LEMMA PassStep ==
  ASSUME PoolInv, PassBy
  PROVE  PoolInv'
<1>1. PoolTyped /\ PoolCounted /\ UpdateDraft BY DEF PoolInv
<1>2. /\ job' = [job EXCEPT !.at = @ + 1]
      /\ effects' = effects /\ effectCursor' = effectCursor
      /\ activeCount' = activeCount /\ served' = served
      /\ job.call = "update" /\ job.at < PoolSize /\ (~Occupied(job.at) \/ job.frozen)
  BY DEF PassBy, Updating
<1>3. job \in UpdateJobs /\ PoolSize \in Nat BY <1>1, <1>2, Jobs, PoolSizes
<1>4. job.at + 1 \in 0 .. PoolSize /\ job.at \in Effect /\ job.at \in Int
  BY <1>2, <1>3, PoolSizes DEF UpdateJobs
<1>5. /\ job' \in UpdateJobs /\ job'.at = job.at + 1 /\ job'.draft = job.draft
      /\ job'.frozen = job.frozen /\ job'.call = "update"
  BY <1>2, <1>3, <1>4 DEF UpdateJobs
<1>6. PoolTyped' /\ PoolCounted' BY <1>1, <1>2, <1>5, Unmoved
<1>7. SpawnDraft' BY <1>5 DEF SpawnDraft
<1>8. UpdateDraft'
 <2>1. Taken' = Taken BY <1>2 DEF Taken, Occupied
 <2>2. ASSUME NEW i \in Taken
       PROVE  (i < job.at + 1 /\ ~job.frozen) <=> (i < job.at /\ ~job.frozen)
  <3>1. i \in Int /\ Occupied(i) BY PoolSizes DEF Taken
  <3>2. job.frozen \/ i # job.at BY <1>2, <3>1
  <3> QED BY <1>4, <3>1, <3>2
 <2>3. /\ DOMAIN job.draft = {i \in Taken : i < job.at /\ ~job.frozen}
       /\ \A i \in DOMAIN job.draft :
            job.draft[i] \in {Vacant, [effects[i] EXCEPT !.time = @ + 1]}
   BY <1>1, <1>2 DEF UpdateDraft
 <2>4. DOMAIN job'.draft = {i \in Taken' : i < job'.at /\ ~job'.frozen} BY <1>5, <2>1, <2>2, <2>3
 <2> QED BY <1>2, <1>5, <2>3, <2>4 DEF UpdateDraft
<1> QED BY <1>6, <1>7, <1>8 DEF PoolInv

LEMMA UpdateSlotStep ==
  ASSUME PoolInv, NEW culled \in BOOLEAN, UpdateSlot(culled)
  PROVE  PoolInv'
<1> DEFINE new == AfterScript(AfterCallback(effects[job.at], culled))
           draft == Put(job.draft, job.at, new)
<1>1. PoolTyped /\ PoolCounted /\ UpdateDraft BY DEF PoolInv
<1>2. /\ job' = [job EXCEPT !.at = @ + 1, !.draft = Put(@, job.at, new)]
      /\ effects' = effects /\ effectCursor' = effectCursor
      /\ activeCount' = activeCount /\ served' = served
      /\ job.call = "update" /\ job.at < PoolSize /\ ~job.frozen
      /\ effects[job.at].kind \in {"effect51", "background62"}
  BY DEF UpdateSlot, Updating, Known
<1>3. job \in UpdateJobs /\ PoolSize \in Nat BY <1>1, <1>2, Jobs, PoolSizes
<1>4. job.at + 1 \in 0 .. PoolSize /\ job.at \in Effect /\ job.at \in Int /\ job.draft \in Drafts
  BY <1>2, <1>3, PoolSizes DEF UpdateJobs
<1>5. /\ new \in {Vacant, [effects[job.at] EXCEPT !.time = @ + 1]} /\ new \in SlotStates
 <2>1. effects[job.at] \in SlotStates BY <1>1, <1>4 DEF PoolTyped
 <2>2. [effects[job.at] EXCEPT !.time = @ + 1] \in SlotStates /\ Vacant \in SlotStates
   BY <2>1 DEF SlotStates, Kinds, Vacant
 <2>3. new \in {Vacant, [effects[job.at] EXCEPT !.time = @ + 1]} BY DEF AfterScript, AfterCallback
 <2> QED BY <2>2, <2>3
<1> HIDE DEF new
<1>6. /\ draft \in Drafts /\ DOMAIN draft = DOMAIN job.draft \cup {job.at}
      /\ draft[job.at] = new
      /\ \A j \in DOMAIN job.draft : j # job.at => draft[j] = job.draft[j]
 <2> DEFINE d == job.draft
            i == job.at
 <2>1. d \in Drafts /\ i \in Effect /\ new \in SlotStates BY <1>4, <1>5
 <2> HIDE DEF d, i
 <2>2. /\ Put(d, i, new) \in Drafts /\ DOMAIN Put(d, i, new) = DOMAIN d \cup {i}
       /\ Put(d, i, new)[i] = new
       /\ \A j \in DOMAIN d : j # i => Put(d, i, new)[j] = d[j]
   BY <2>1, Putting
 <2> QED BY <2>2 DEF d, i
<1>7. job' = [job EXCEPT !.at = @ + 1, !.draft = draft] BY <1>2, <1>3 DEF UpdateJobs
<1> HIDE DEF draft
<1>8. /\ job' \in UpdateJobs /\ job'.at = job.at + 1 /\ job'.draft = draft
      /\ job'.frozen = job.frozen /\ job'.call = "update"
  BY <1>3, <1>4, <1>6, <1>7 DEF UpdateJobs
<1>9. PoolTyped' /\ PoolCounted' BY <1>1, <1>2, <1>8, Unmoved
<1>10. SpawnDraft' BY <1>8 DEF SpawnDraft
<1>11. UpdateDraft'
 <2>1. Taken' = Taken BY <1>2 DEF Taken, Occupied
 <2>2. job.at \in Taken BY <1>2, <1>4 DEF Taken, Occupied
 <2>3. ASSUME NEW i \in Taken PROVE i < job.at + 1 <=> (i < job.at \/ i = job.at)
  <3>1. i \in Int BY PoolSizes DEF Taken
  <3> QED BY <1>4, <3>1
 <2>4. /\ DOMAIN job.draft = {i \in Taken : i < job.at /\ ~job.frozen}
       /\ \A i \in DOMAIN job.draft :
            job.draft[i] \in {Vacant, [effects[i] EXCEPT !.time = @ + 1]}
   BY <1>1, <1>2 DEF UpdateDraft
 <2>5. DOMAIN job'.draft = {i \in Taken' : i < job'.at /\ ~job'.frozen}
  <3>1. DOMAIN job.draft = {i \in Taken : i < job.at} BY <1>2, <2>4
  <3>2. DOMAIN draft = {i \in Taken : i < job.at + 1} BY <1>6, <2>2, <2>3, <3>1
  <3> QED BY <1>2, <1>8, <2>1, <3>2
 <2>6. \A i \in DOMAIN draft : draft[i] \in {Vacant, [effects[i] EXCEPT !.time = @ + 1]} BY <1>5, <1>6, <2>4
 <2>7. \A i \in DOMAIN job'.draft :
         job'.draft[i] \in {Vacant, [effects'[i] EXCEPT !.time = @ + 1]}
   BY <1>2, <1>8, <2>6
 <2> QED BY <2>5, <2>7 DEF UpdateDraft
<1> QED BY <1>9, <1>10, <1>11 DEF PoolInv

LEMMA CommitUpdateStep ==
  ASSUME PoolInv, CommitUpdate
  PROVE  PoolInv' /\ (effects' # effects \/ activeCount' # activeCount => PhaseKept)
<1> DEFINE D == DOMAIN job.draft
           R == Retired
<1>1. PoolTyped /\ PoolCounted /\ UpdateDraft BY DEF PoolInv
<1>2. /\ job.call = "update" /\ ~(job.at < PoolSize) /\ effects' = Overlay(job.draft)
      /\ activeCount' = activeCount - Cardinality(R)
      /\ effectCursor' = effectCursor /\ served' = served /\ job' = NoJob
  BY DEF CommitUpdate, Updating
<1>3. job \in UpdateJobs /\ job.draft \in Drafts /\ job.frozen \in BOOLEAN BY <1>1, <1>2, Jobs DEF UpdateJobs
<1>4. job.at = PoolSize BY <1>2, <1>3, PoolSizes DEF UpdateJobs
<1>5. /\ D = {i \in Taken : i < job.at /\ ~job.frozen}
      /\ \A i \in D : job.draft[i] \in {Vacant, [effects[i] EXCEPT !.time = @ + 1]}
  BY <1>1, <1>2 DEF UpdateDraft
<1>6. D = IF job.frozen THEN {} ELSE Taken
 <2>1. \A i \in Taken : i < PoolSize BY PoolSizes DEF Taken
 <2> QED BY <1>3, <1>4, <1>5, <2>1
<1>7. /\ effects \in [Effect -> SlotStates] /\ effects' \in [Effect -> SlotStates]
      /\ \A i \in Effect : effects'[i] = IF i \in D THEN job.draft[i] ELSE effects[i]
  BY <1>1, <1>2, <1>3, Overlaid DEF PoolTyped
<1>8. /\ Taken \in SUBSET Effect /\ R \in SUBSET D /\ D \in SUBSET Taken
      /\ R = {i \in D : job.draft[i] = Vacant}
  BY <1>6 DEF Taken, Retired
<1>9. PoolTyped' BY <1>1, <1>2, <1>7 DEF PoolTyped
<1>10. Taken' = Taken \ R
 <2>1. ASSUME NEW i \in Effect PROVE Occupied(i)' <=> (i \in Taken /\ i \notin R)
  <3>1. CASE i \in R BY <1>7, <1>8, <3>1 DEF Occupied, Vacant
  <3>2. CASE i \in D /\ i \notin R
   <4>1. effects'[i] = [effects[i] EXCEPT !.time = @ + 1] BY <1>5, <1>7, <1>8, <3>2
   <4>2. effects'[i].kind = effects[i].kind BY <1>7, <4>1 DEF SlotStates
   <4> QED BY <1>8, <3>2, <4>2 DEF Occupied, Taken
  <3>3. CASE i \notin D BY <1>7, <1>8, <3>3 DEF Occupied, Taken
  <3> QED BY <3>1, <3>2, <3>3
 <2> QED BY <1>8, <2>1 DEF Taken
<1>11. PoolCounted'
 <2>1. IsFiniteSet(Taken) /\ Taken \cap R = R BY <1>8, PoolFinite
 <2>2. Cardinality(Taken \ R) = Cardinality(Taken) - Cardinality(R) BY <2>1, FS_Difference
 <2> QED BY <1>1, <1>2, <1>10, <2>2 DEF PoolCounted
<1>12. SpawnDraft' /\ UpdateDraft' BY <1>2, NoDraft
<1>13. PoolInv' BY <1>9, <1>11, <1>12 DEF PoolInv
<1>14. ASSUME effects' # effects \/ activeCount' # activeCount PROVE PhaseKept
 <2>1. ~job.frozen
  <3>1. ASSUME job.frozen PROVE FALSE
   <4>1. D = {} /\ R = {} BY <1>6, <1>8, <3>1
   <4>2. effects' = effects BY <1>7, <4>1
   <4>3. activeCount' = activeCount
    <5>1. Taken' = Taken BY <1>10, <4>1
    <5> QED BY <1>1, <1>11, <5>1 DEF PoolCounted
   <4> QED BY <1>14, <4>2, <4>3
  <3> QED BY <3>1
 <2>2. D = Taken BY <1>6, <2>1
 <2>3. ASSUME NEW i \in Effect
       PROVE  \/ ~Occupied(i) /\ effects'[i] = effects[i]
              \/ /\ Occupied(i) /\ ~job.frozen
                 /\ effects'[i] \in {Vacant, [effects[i] EXCEPT !.time = @ + 1]}
  <3>1. i \in D <=> Occupied(i) BY <2>2 DEF Taken
  <3> QED BY <1>5, <1>7, <2>1, <3>1
 <2>4. CountsOccupied(activeCount', effects') BY <1>11 DEF PoolCounted, Taken, Occupied, CountsOccupied
 <2> QED BY <1>2, <2>3, <2>4 DEF PhaseKept
<1> QED BY <1>13, <1>14

LEMMA PoolStep ==
  ASSUME PoolInv, [EffectNext]_effectVars
  PROVE  /\ PoolInv'
         /\ \/ job.call = "spawn" /\ SpawnKept
            \/ job.call = "update" /\ PhaseKept
            \/ UNCHANGED <<effects, effectCursor, activeCount, served>>
<1> DEFINE still == UNCHANGED <<effects, effectCursor, activeCount, served>>
<1>1. PoolTyped /\ PoolCounted BY DEF PoolInv
<1>2. ASSUME NEW kind \in {"effect51", "background62"}, NEW count \in Counts,
             NEW inputs \in {"complete", "missing", "invalid"}, NEW fails \in 0 .. PoolSize,
             CallSpawn(kind, count, inputs, fails)
      PROVE  PoolInv' /\ still
  BY <1>2, CallSpawnStep DEF CallSpawn
<1>3. ASSUME NEW kind \in {"effect51", "background62"}, SpawnOnFull(kind)
      PROVE  PoolInv' /\ still
 <2>1. effects' = effects /\ effectCursor' = effectCursor /\ activeCount' = activeCount
       /\ served' = served /\ job' = job /\ job = NoJob
   BY <1>3 DEF SpawnOnFull
 <2>2. job' \in {NoJob} \cup SpawnJobs \cup UpdateJobs BY <1>1, <2>1 DEF PoolTyped
 <2>3. PoolTyped' /\ PoolCounted' /\ SpawnDraft' /\ UpdateDraft' BY <1>1, <2>1, <2>2, Unmoved, NoDraft
 <2> QED BY <2>1, <2>3 DEF PoolInv
<1>4. CASE SkipOccupied BY <1>4, SkipStep DEF SkipOccupied
<1>5. CASE ClaimSlot BY <1>5, ClaimStep DEF ClaimSlot
<1>6. ASSUME SpawnBlocked \/ UpdateBlocked
      PROVE  PoolInv' /\ still
 <2>1. effects' = effects /\ effectCursor' = effectCursor /\ activeCount' = activeCount
       /\ served' = served /\ job' = NoJob
   BY <1>6 DEF SpawnBlocked, UpdateBlocked
 <2>2. PoolTyped' /\ PoolCounted' /\ SpawnDraft' /\ UpdateDraft' BY <1>1, <2>1, Unmoved, NoDraft
 <2> QED BY <2>1, <2>2 DEF PoolInv
<1>7. CASE CommitSpawn BY <1>7, CommitSpawnStep DEF CommitSpawn
<1>8. ASSUME NEW frozen \in BOOLEAN, CallUpdate(frozen)
      PROVE  PoolInv' /\ still
  BY <1>8, CallUpdateStep DEF CallUpdate
<1>9. CASE PassBy BY <1>9, PassStep DEF PassBy
<1>10. ASSUME NEW culled \in BOOLEAN, UpdateSlot(culled)
       PROVE  PoolInv' /\ still
  BY <1>10, UpdateSlotStep DEF UpdateSlot
<1>11. CASE CommitUpdate BY <1>11, CommitUpdateStep DEF CommitUpdate
<1>12. CASE UNCHANGED effectVars
  BY <1>12 DEF effectVars, PoolInv, PoolTyped, PoolCounted, SpawnDraft, UpdateDraft, Taken,
         Occupied, FreeEffects, Initialised, Filled
<1> QED BY <1>2, <1>3, <1>4, <1>5, <1>6, <1>7, <1>8, <1>9, <1>10, <1>11, <1>12
        DEF EffectNext

\* The pool of effects between calls and inside one, for every size: the
\* count is the number of occupied slots, and the draft of a scan is what
\* the walked part of the lap made of the slots.
THEOREM PoolInvariance == PoolSpec => []PoolInv
<1>1. EffectInit => PoolInv BY PoolBegin
<1>2. PoolInv /\ [EffectNext]_effectVars => PoolInv' BY PoolStep
<1> QED BY <1>1, <1>2, PTL DEF PoolSpec

\* A call on the pool (th08::effect::PrimaryPool) is applied whole or
\* leaves no trace, whatever its count and wherever it was blocked: a
\* committed spawn claims the slots one lap from the cursor promises and
\* an update phase moves every occupied slot on by one frame.
THEOREM CallsAreWhole == PoolSpec => WholeCallOrNothing
<1> DEFINE A == (<<effects, effectCursor, activeCount, served>>'
                    # <<effects, effectCursor, activeCount, served>>) =>
                  \/ job.call = "spawn" /\ SpawnKept
                  \/ job.call = "update" /\ PhaseKept
<1>1. PoolInv /\ [EffectNext]_effectVars => [A]_effectVars BY PoolStep
<1> QED BY <1>1, PoolInvariance, PTL DEF PoolSpec, WholeCallOrNothing

----
\* The animation.
VmFields == {"pc", "returnPc", "time", "wait", "returnTime", "sprite", "pending", "active", "visible", "stopped",
             "frozen", "hasReturn", "hit", "vars"}
IsState(s) ==
    /\ DOMAIN s = VmFields
    /\ s.pc \in DOMAIN script /\ s.returnPc \in DOMAIN script /\ s.time \in Int /\ s.returnTime \in Int
    /\ s.active \in BOOLEAN /\ s.visible \in BOOLEAN /\ s.stopped \in BOOLEAN /\ s.frozen \in BOOLEAN
IsCall(c) ==
    /\ DOMAIN c = {"step", "rate", "extra", "limit", "rng", "executed", "entry", "next"}
    /\ c.step \in {"interrupted", "running", "tail"} /\ c.rate \in {1, 2} /\ c.extra \in BOOLEAN
    /\ c.limit \in Nat /\ c.executed \in Nat /\ IsState(c.next)
AnimationTyped ==
    /\ script \in Scripts /\ Loads(script) /\ IsState(vm) /\ (call = NoCall \/ IsCall(call))
    /\ calls \in Nat /\ pure \in BOOLEAN /\ promised \in Nat

\* A call under way: only of an animation that is active and not frozen,
\* and with an account of its draws.
Underway(c) ==
    /\ vm.active /\ ~vm.frozen /\ c.next.active /\ ~c.next.frozen
    /\ c.executed <= c.limit /\ c.entry = kept
    /\ c.step = "interrupted" => vm.pending # 0 /\ c.next = vm /\ c.executed < c.limit
    /\ c.step # "interrupted" => c.next.pending = 0
Verdict == verdict \in {"advanced", "completed"} => (verdict = "completed" <=> ~vm.active)

\* Who is stopped is at the instruction that stopped it.
AtItsStop(s) == s.stopped => script[s.pc].op \in {"stop", "stopHidden"}
StandsStill(c) ==
    \/ c.step = "running" /\ c.next = vm
    \/ /\ c.step = "tail" /\ c.next.stopped /\ c.next.pc = vm.pc
       /\ \/ c.next.time = vm.time /\ script[vm.pc].time > Whole(vm.time)
          \/ c.next.time = Decremented(vm.time, c.rate, c.extra)

\* A count of calls holds at an end, where nothing more is executed.
AtItsEnd(c) == c.next = vm /\ (c.step = "running" \/ (c.step = "tail" /\ promised > 1))

\* A certified text as far as an undisturbed animation has read it.
Course(s, last) ==
    /\ s.pc <= StopsAt(script) /\ s.time = calls * Unit
    /\ \A j \in 1 .. s.pc - 1 : script[j].time <= last
Shown(s) ==
    \/ \E j \in 1 .. s.pc - 1 : script[j].op = "sprite" /\ s.sprite = script[j].words[1] /\ s.visible = TRUE
    \/ (\A j \in 1 .. s.pc - 1 : script[j].op # "sprite") /\ s.sprite = -1 /\ s.visible = FALSE
OnCourse ==
    /\ vm.pending = 0 /\ ~vm.frozen
    /\ vm.active => Course(vm, calls - 1) /\ Shown(vm) /\ (calls > 0 => script[vm.pc].time > calls - 1)
    /\ ~vm.active => LET timing == Timing(script)
                     IN  /\ calls > timing.completion
                         /\ vm.sprite = timing.sprite /\ vm.visible = (~timing.hides /\ vm.sprite # -1)
CallOnCourse(c) ==
    /\ Course(c.next, calls) /\ Shown(c.next)
    /\ c.step = "tail" => script[c.next.pc].time > calls
AnimationInv ==
    /\ AnimationTyped /\ Verdict /\ AtItsStop(vm)
    /\ call = NoCall => drawn = kept
    /\ call # NoCall => Underway(call) /\ AtItsStop(call.next)
    /\ call # NoCall /\ vm.stopped /\ vm.pending = 0 => StandsStill(call)
    /\ promised > 0 => promised = RemainingCalls(script, vm)
    /\ call # NoCall /\ promised > 0 => AtItsEnd(call)
    /\ Certified(script) /\ pure => OnCourse
    /\ Certified(script) /\ pure /\ call # NoCall /\ call.rate = Unit => CallOnCourse(call)
AnimationSpec == AnimationInit /\ [][AnimationNext]_animationVars

----
LEMMA AnimationTexts ==
  ASSUME script \in Scripts, Loads(script)
  PROVE  /\ Len(script) \in Nat \ {0} /\ DOMAIN script = 1 .. Len(script) /\ script[Len(script)].op = "end"
         /\ \A i \in DOMAIN script : /\ script[i].time \in Int /\ script[i].words \in Seq(Int)
                                     /\ script[i].op \in DOMAIN JumpWord => Target(script[i]) \in DOMAIN script
BY AnimationAssumption DEF Loads

\* The least and the greatest of a set.
LEMMA LeastOf ==
  ASSUME NEW S \in SUBSET Nat, S # {}
  PROVE  Least(S) \in S /\ \A m \in S : Least(S) <= m
<1> DEFINE Less == {p \in Nat \X Nat : p[1] < p[2]}
<1>1. IsWellFoundedOn(Less, Nat) BY NatLessThanWellFounded, Zenon DEF OpToRel
<1>2. PICK n \in S : \A m \in S : ~ (<<m, n>> \in Less) BY <1>1, WFMin
<1>3. ASSUME NEW m \in S PROVE n <= m
 <2>1. m \in Nat /\ n \in Nat /\ <<m, n>> \in Nat \X Nat OBVIOUS
 <2> QED BY <1>2, <2>1
<1> QED BY <1>3 DEF Least

LEMMA MostOf ==
  ASSUME NEW S \in SUBSET Int, S # {}, NEW b \in Int, \A m \in S : m <= b
  PROVE  Most(S) \in S /\ \A m \in S : Most(S) >= m
<1> DEFINE T == {b - m : m \in S}
<1>1. T \in SUBSET Nat /\ T # {}
 <2>1. ASSUME NEW m \in S PROVE b - m \in Nat
  <3>1. m \in Int /\ m <= b OBVIOUS
  <3> QED BY <3>1
 <2> QED BY <2>1
<1>2. Least(T) \in T /\ \A k \in T : Least(T) <= k BY <1>1, LeastOf
<1>3. PICK n \in S : Least(T) = b - n BY <1>2
<1>4. ASSUME NEW m \in S PROVE n >= m
 <2>1. b - n <= b - m /\ m \in Int /\ n \in Int BY <1>2, <1>3
 <2> QED BY <2>1
<1> HIDE DEF T
<1>5. \E i \in S : \A j \in S : i >= j BY <1>4
<1> QED BY <1>5, Zenon DEF Most

LEMMA MostOfTwo ==
  ASSUME NEW m \in Int, NEW n \in Int
  PROVE  Most({m, n}) = IF m < n THEN n ELSE m
<1> DEFINE b == IF m < n THEN n ELSE m
<1>1. {m, n} \in SUBSET Int /\ {m, n} # {} /\ b \in Int /\ \A k \in {m, n} : k <= b OBVIOUS
<1>2. Most({m, n}) \in {m, n} /\ \A k \in {m, n} : Most({m, n}) >= k BY <1>1, MostOf
<1>3. \A k \in Int : k \in {m, n} /\ k >= m /\ k >= n => k = b OBVIOUS
<1> QED BY <1>2, <1>3

\* The times of a text have a greatest.
LEMMA LastTimeOf ==
  ASSUME script \in Scripts, Loads(script), NEW n \in DOMAIN script
  PROVE  /\ LastTime(script, n) \in Nat
         /\ \A j \in 1 .. n : script[j].time <= LastTime(script, n)
         /\ LastTime(script, n) = 0 \/ \E j \in 1 .. n : LastTime(script, n) = script[j].time
<1> DEFINE Times(i) == {0} \union {script[j].time : j \in 1 .. i}
           Unbounded == {i \in 0 .. n : \A b \in Int : \E t \in Times(i) : ~ (t <= b)}
<1>1. \A j \in 1 .. n : script[j].time \in Int BY AnimationTexts
<1>2. n \in Nat BY AnimationTexts
<1>3. Unbounded = {}
 <2> SUFFICES ASSUME Unbounded # {} PROVE FALSE OBVIOUS
 <2>1. Unbounded \in SUBSET Nat BY <1>2
 <2> DEFINE i == Least(Unbounded)
 <2>2. i \in Unbounded /\ \A k \in Unbounded : i <= k BY <2>1, LeastOf
 <2> HIDE DEF i
 <2>3. i # 0
  <3>1. Times(0) = {0} OBVIOUS
  <3> QED BY <2>2, <3>1
 <2>4. i - 1 \in 0 .. n /\ i - 1 \notin Unbounded
  <3>1. i \in 0 .. n BY <2>2
  <3>2. i - 1 \in 0 .. n /\ ~ (i <= i - 1) BY <1>2, <2>3, <3>1
  <3> QED BY <2>2, <3>2, Zenon
 <2>5. PICK b \in Int : \A t \in Times(i - 1) : t <= b BY <2>4
 <2>6. Times(i) = Times(i - 1) \union {script[i].time} /\ script[i].time \in Int
  <3>1. 1 .. i = (1 .. i - 1) \union {i} /\ i \in 1 .. n BY <1>2, <2>2, <2>3
  <3> QED BY <1>1, <3>1
 <2> DEFINE c == IF b < script[i].time THEN script[i].time ELSE b
 <2>7. c \in Int /\ \A t \in Times(i) : t \in Int /\ t <= c
  <3>1. \A t \in Times(i - 1) : t \in Int BY <1>1, <2>4
  <3> QED BY <2>5, <2>6, <3>1
 <2> QED BY <2>2, <2>7
<1>4. PICK b \in Int : \A t \in Times(n) : t <= b
 <2>1. n \in 0 .. n BY <1>2
 <2>2. ~ \A b \in Int : \E t \in Times(n) : ~ (t <= b) BY <1>3, <2>1, Zenon
 <2> QED BY <2>2, Zenon
<1>5. Times(n) \in SUBSET Int /\ Times(n) # {} BY <1>1
<1>6. Most(Times(n)) \in Times(n) /\ \A t \in Times(n) : Most(Times(n)) >= t BY <1>4, <1>5, MostOf
<1>7. LastTime(script, n) = Most(Times(n)) BY DEF LastTime
<1> HIDE DEF Unbounded
<1>8. 0 \in Times(n) /\ \A j \in 1 .. n : script[j].time \in Times(n) OBVIOUS
<1>9. LastTime(script, n) \in Int /\ LastTime(script, n) >= 0 BY <1>5, <1>6, <1>7, <1>8
<1>10. \A j \in 1 .. n : script[j].time <= LastTime(script, n) BY <1>1, <1>6, <1>7, <1>8, <1>9
<1>11. LastTime(script, n) = 0 \/ \E j \in 1 .. n : LastTime(script, n) = script[j].time
 <2>1. \A t \in Times(n) : t = 0 \/ \E j \in 1 .. n : t = script[j].time OBVIOUS
 <2> QED BY <1>6, <1>7, <2>1
<1>12. LastTime(script, n) \in Nat BY <1>9
<1> QED BY <1>10, <1>11, <1>12, Zenon

\* Where a certified text stops.
LEMMA StopsThere ==
  ASSUME script \in Scripts, Loads(script)
  PROVE  /\ StopsAt(script) \in DOMAIN script /\ ~Passed(script, StopsAt(script))
         /\ \A i \in DOMAIN script : i < StopsAt(script) => Passed(script, i)
<1> DEFINE S == {i \in DOMAIN script : ~Passed(script, i)}
<1>1. Len(script) \in DOMAIN script /\ script[Len(script)].op = "end" /\ DOMAIN script \subseteq Nat
  BY AnimationTexts
<1>2. ~Passed(script, Len(script)) BY <1>1 DEF Passed
<1>3. S \in SUBSET Nat /\ S # {} BY <1>1, <1>2
<1>4. Least(S) \in S /\ \A m \in S : Least(S) <= m BY <1>3, LeastOf
<1>5. StopsAt(script) = Least(S) BY DEF StopsAt
<1>6. StopsAt(script) \in S /\ \A m \in S : StopsAt(script) <= m BY <1>4, <1>5
<1> HIDE DEF S
<1>7. ASSUME NEW i \in DOMAIN script, i < StopsAt(script), i \in S PROVE FALSE
 <2>1. StopsAt(script) <= i BY <1>6, <1>7
 <2>2. StopsAt(script) \in Nat /\ i \in Nat BY <1>1, <1>3, <1>6
 <2> QED BY <1>7, <2>1, <2>2
<1> QED BY <1>6, <1>7 DEF S

\* What an instruction that is not refused has.
LEMMA RefusalKinds ==
  ASSUME NEW s, NEW ins, NEW rng
  PROVE  /\ Refusal(s, ins, rng) \in {"none", "unsupported", "invalid", "requires_context"}
         /\ Refusal(s, ins, rng) = "none" /\ ins.op # "end" =>
                ins.op \in DOMAIN Arity /\ Len(ins.words) = Arity[ins.op]

<1>1. Refusal(s, ins, rng) \in {"none", "unsupported", "invalid", "requires_context"} BY DEF Refusal
<1>2. ASSUME Refusal(s, ins, rng) = "none", ins.op # "end"
      PROVE  ins.op \in DOMAIN Arity /\ Len(ins.words) = Arity[ins.op]
 <2>1. CASE ins.op \notin DOMAIN Arity
  <3>1. Refusal(s, ins, rng) = "unsupported" BY <1>2, <2>1 DEF Refusal
  <3> QED BY <1>2, <3>1
 <2>2. CASE ins.op \in DOMAIN Arity /\ Len(ins.words) # Arity[ins.op]
  <3>1. Refusal(s, ins, rng) = "invalid" BY <1>2, <2>2 DEF Refusal
  <3> QED BY <1>2, <3>1
 <2> QED BY <2>1, <2>2
<1> QED BY <1>1, <1>2

\* A handler is an instruction.
LEMMA Handlers ==
  ASSUME script \in Scripts, Loads(script), NEW value, HandlerOf(script, value) # None
  PROVE  HandlerOf(script, value) \in DOMAIN script
<1>1. Len(script) \in Nat /\ DOMAIN script = 1 .. Len(script) /\ script[Len(script)].op = "end"
  BY AnimationTexts
<1>2. \A v : \A i \in LabelsOf(script, v) : i \in 1 .. Len(script) - 1 BY <1>1 DEF LabelsOf
<1>3. CASE LabelsOf(script, value) # {}
 <2>1. LabelsOf(script, value) \in SUBSET Nat BY <1>1, <1>2
 <2>2. Least(LabelsOf(script, value)) \in LabelsOf(script, value) BY <1>3, <2>1, LeastOf
 <2>3. Least(LabelsOf(script, value)) \in 1 .. Len(script) - 1 BY <1>2, <2>2
 <2> QED BY <1>1, <1>3, <2>3 DEF HandlerOf
<1>4. CASE LabelsOf(script, value) = {} /\ LabelsOf(script, -1) # {}
 <2>1. LabelsOf(script, -1) \in SUBSET Int /\ Len(script) \in Int
       /\ \A m \in LabelsOf(script, -1) : m <= Len(script)
   BY <1>1, <1>2
 <2>2. Most(LabelsOf(script, -1)) \in LabelsOf(script, -1) BY <1>4, <2>1, MostOf
 <2>3. Most(LabelsOf(script, -1)) \in 1 .. Len(script) - 1 BY <1>2, <2>2
 <2> QED BY <1>1, <1>4, <2>3 DEF HandlerOf
<1> QED BY <1>3, <1>4 DEF HandlerOf

----
----
\* A call that is refused.
LEMMA RefusedKeeps ==
  ASSUME AnimationInv, NEW status, status \notin {"advanced", "completed"}, NEW entry, entry = kept,
         Refused(status, entry)
  PROVE  AnimationInv'
<1>1. /\ script' = script /\ vm' = vm /\ calls' = calls /\ kept' = kept /\ pure' = pure /\ promised' = promised
      /\ call' = NoCall /\ drawn' = entry /\ verdict' = status
  BY DEF Refused
<1>2. AnimationTyped' BY <1>1 DEF AnimationInv, AnimationTyped, IsState
<1>3. Verdict' /\ AtItsStop(vm)' /\ drawn' = kept' BY <1>1 DEF AnimationInv, Verdict, AtItsStop
<1>4. promised' > 0 => promised' = RemainingCalls(script, vm)' BY <1>1 DEF AnimationInv
<1>5. Certified(script)' /\ pure' => OnCourse' BY <1>1 DEF AnimationInv, OnCourse, Course, Shown
<1> QED BY <1>1, <1>2, <1>3, <1>4, <1>5 DEF AnimationInv

\* A call that goes on.
LEMMA GoesOn ==
  ASSUME AnimationInv, call # NoCall, call.step # "tail", call.executed < call.limit,
         NEW step \in {"running", "tail"}, NEW s, IsState(s), s.active, ~s.frozen, s.pending = 0, AtItsStop(s),
         Going(step, s), promised = 0,
         vm.stopped /\ vm.pending = 0 =>
             /\ step = "tail" /\ s.stopped /\ s.pc = vm.pc
             /\ s.time = Decremented(vm.time, call.rate, call.extra),
         Certified(script) /\ pure /\ call.rate = Unit =>
             Course(s, calls) /\ Shown(s) /\ (step = "tail" => script[s.pc].time > calls)
  PROVE  AnimationInv'
<1>1. /\ script' = script /\ vm' = vm /\ calls' = calls /\ kept' = kept /\ pure' = pure /\ promised' = promised
      /\ verdict' = verdict
  BY DEF Going
<1>2. IsCall(call) /\ Underway(call) BY DEF AnimationInv, AnimationTyped
<1> DEFINE c == [call EXCEPT !.step = step, !.executed = call.executed + 1, !.next = s]
<1>3. /\ call' = c /\ c.step = step /\ c.executed = call.executed + 1 /\ c.next = s /\ DOMAIN c = DOMAIN call
      /\ c.rate = call.rate /\ c.extra = call.extra /\ c.limit = call.limit /\ c.entry = call.entry
  BY <1>2 DEF Going, IsCall
<1> HIDE DEF c
<1>4. IsCall(c) /\ c # NoCall BY <1>2, <1>3 DEF IsCall, NoCall
<1>5. Underway(c) BY <1>2, <1>3 DEF Underway, IsCall
<1>6. AnimationTyped' BY <1>1, <1>3, <1>4 DEF AnimationInv, AnimationTyped, IsState, IsCall
<1>7. Verdict' /\ AtItsStop(vm)' BY <1>1 DEF AnimationInv, Verdict, AtItsStop
<1>8. Underway(call)' /\ AtItsStop(call.next)' BY <1>1, <1>3, <1>5 DEF Underway, AtItsStop
<1>9. call' # NoCall /\ vm'.stopped /\ vm'.pending = 0 => StandsStill(call)' BY <1>1, <1>3 DEF StandsStill
<1>10. promised' = 0 BY <1>1
<1>11. Certified(script)' /\ pure' => OnCourse' BY <1>1 DEF AnimationInv, OnCourse, Course, Shown
<1>12. Certified(script)' /\ pure' /\ call'.rate = Unit => CallOnCourse(call)'
  BY <1>1, <1>3 DEF CallOnCourse, Course, Shown
<1> QED BY <1>3, <1>4, <1>6, <1>7, <1>8, <1>9, <1>10, <1>11, <1>12 DEF AnimationInv

LEMMA WholeIs ==
  ASSUME NEW t \in Int
  PROVE  Whole(t) \in Int /\ 2 * Whole(t) <= t /\ t < 2 * Whole(t) + 2 /\ (t % Unit = 0 => t = 2 * Whole(t))
         /\ At(t) \in Int /\ Whole(2 * t) = t /\ (t >= 0 => Whole(t) >= 0)
BY DEF Whole, Unit, At

LEMMA RemainingTyped ==
  ASSUME script \in Scripts, Loads(script), NEW s, IsState(s)
  PROVE  /\ RemainingCalls(script, s) \in Nat
         /\ ~s.active => RemainingCalls(script, s) = 1
         /\ RemainingCalls(script, s) > 0 /\ s.active =>
                /\ ~s.frozen /\ ~s.stopped /\ s.pending = 0 /\ s.time >= 0 /\ s.time % Unit = 0
                /\ Terminal(script[s.pc]) /\ ~script[s.pc].masked /\ script[s.pc].words = << >>
                /\ RemainingCalls(script, s) = LET n == script[s.pc].time - Whole(s.time) + 1 IN IF n > 1 THEN n ELSE 1
<1>1. script[s.pc].time \in Int /\ s.time \in Int /\ Whole(s.time) \in Int
  BY AnimationTexts, WholeIs DEF IsState
<1> DEFINE n == script[s.pc].time - Whole(s.time) + 1
<1>2. n \in Int BY <1>1
<1>3. Most({1, n}) = IF n > 1 THEN n ELSE 1 BY <1>2, MostOfTwo
<1>4. CASE ~s.active BY <1>4 DEF RemainingCalls
<1>5. CASE /\ s.active
           /\ s.frozen \/ s.stopped \/ s.pending # 0 \/ s.time < 0 \/ s.time % Unit # 0
              \/ ~Terminal(script[s.pc]) \/ script[s.pc].masked \/ script[s.pc].words # << >>
 <2>1. RemainingCalls(script, s) = 0 BY <1>5 DEF RemainingCalls
 <2> QED BY <1>5, <2>1
<1>6. CASE /\ s.active
           /\ ~ (s.frozen \/ s.stopped \/ s.pending # 0 \/ s.time < 0 \/ s.time % Unit # 0
                 \/ ~Terminal(script[s.pc]) \/ script[s.pc].masked \/ script[s.pc].words # << >>)
 <2>1. RemainingCalls(script, s) = Most({1, n}) BY <1>6 DEF RemainingCalls
 <2>2. s.time >= 0 BY <1>1, <1>6
 <2> HIDE DEF n
 <2>3. RemainingCalls(script, s) \in Nat BY <1>2, <1>3, <2>1
 <2> QED BY <1>3, <1>6, <2>1, <2>2, <2>3 DEF n
<1> QED BY <1>4, <1>5, <1>6

\* A call that is answered.
LEMMA AnswersKeep ==
  ASSUME AnimationInv, NEW status \in {"advanced", "completed"}, NEW s, IsState(s),
         status = "completed" <=> ~s.active, AtItsStop(s), NEW rate \in {1, 2}, Answered(status, s, rate),
         Undisturbed(rate) /\ promised > 1 => RemainingCalls(script, s) = promised - 1,
         Certified(script) /\ pure /\ Undisturbed(rate) =>
             /\ s.pending = 0 /\ ~s.frozen
             /\ s.active => /\ s.pc <= StopsAt(script) /\ s.time = (calls + 1) * Unit
                            /\ \A j \in 1 .. s.pc - 1 : script[j].time <= calls
                            /\ Shown(s) /\ script[s.pc].time > calls
             /\ ~s.active => /\ calls + 1 > Timing(script).completion /\ s.sprite = Timing(script).sprite
                             /\ s.visible = (~Timing(script).hides /\ s.sprite # -1)
  PROVE  AnimationInv'
<1>1. /\ script' = script /\ vm' = s /\ calls' = calls + 1 /\ kept' = drawn /\ call' = NoCall /\ verdict' = status
      /\ drawn' = drawn /\ pure' = (pure /\ Undisturbed(rate))
      /\ promised' = IF Undisturbed(rate) /\ promised > 1 THEN promised - 1 ELSE RemainingCalls(script, s)
  BY DEF Answered
<1>2. script \in Scripts /\ Loads(script) /\ calls \in Nat /\ pure \in BOOLEAN
  BY DEF AnimationInv, AnimationTyped
<1>3. promised' = RemainingCalls(script, s) /\ promised' \in Nat BY <1>1, <1>2, RemainingTyped
<1>4. pure' \in BOOLEAN BY <1>1, <1>2 DEF Undisturbed
<1>5. AnimationTyped' BY <1>1, <1>2, <1>3, <1>4 DEF AnimationTyped, IsState
<1>6. Verdict' /\ AtItsStop(vm)' /\ drawn' = kept' BY <1>1 DEF Verdict, AtItsStop
<1>7. promised' = RemainingCalls(script, vm)' BY <1>1, <1>3
<1>8. Certified(script)' /\ pure' => OnCourse'
 <2> SUFFICES ASSUME Certified(script), pure, Undisturbed(rate) PROVE OnCourse' BY <1>1
 <2>1. calls' - 1 = calls BY <1>1, <1>2
 <2> QED BY <1>1, <2>1 DEF OnCourse, Course, Shown
<1> QED BY <1>1, <1>5, <1>6, <1>7, <1>8 DEF AnimationInv

----
LEMMA AnimationStarts == ASSUME AnimationInit PROVE AnimationInv
<1>1. /\ script \in Scripts /\ Loads(script) /\ vm = Born /\ call = NoCall /\ drawn = 0 /\ verdict = "none"
      /\ calls = 0 /\ kept = 0 /\ pure = TRUE /\ promised = 0
  BY DEF AnimationInit
<1>2. /\ DOMAIN vm = VmFields /\ vm.pc = 1 /\ vm.returnPc = 1 /\ vm.time = 0 /\ vm.returnTime = 0 /\ vm.active
      /\ ~vm.visible /\ ~vm.stopped /\ ~vm.frozen /\ vm.pending = 0 /\ vm.sprite = -1
      /\ vm.active \in BOOLEAN /\ vm.visible \in BOOLEAN /\ vm.stopped \in BOOLEAN /\ vm.frozen \in BOOLEAN
  BY <1>1 DEF Born, VmFields
<1>3. 1 \in DOMAIN script BY <1>1, AnimationTexts
<1>4. AnimationTyped BY <1>1, <1>2, <1>3 DEF AnimationTyped, IsState
<1>5. Verdict /\ AtItsStop(vm) BY <1>1, <1>2 DEF Verdict, AtItsStop
<1>6. OnCourse
 <2>1. StopsAt(script) \in DOMAIN script BY <1>1, StopsThere
 <2>2. StopsAt(script) >= 1 BY <1>1, <2>1, AnimationTexts
 <2>3. Course(vm, calls - 1) BY <1>1, <1>2, <2>2 DEF Course, Unit
 <2>4. Shown(vm) BY <1>2 DEF Shown
 <2> QED BY <1>1, <1>2, <2>3, <2>4 DEF OnCourse
<1> QED BY <1>1, <1>4, <1>5, <1>6 DEF AnimationInv

\* What the caller does between two calls.
LEMMA BetweenCalls ==
  ASSUME AnimationInv, NEW s, IsState(s), s.active <=> vm.active, s.stopped <=> vm.stopped, s.pc = vm.pc,
         vm' = s, pure' = FALSE, promised' = 0, call = NoCall,
         UNCHANGED <<script, call, drawn, verdict, calls, kept>>
  PROVE  AnimationInv'
<1>1. AnimationTyped' BY DEF AnimationInv, AnimationTyped, IsState
<1>2. Verdict' /\ AtItsStop(vm)' BY DEF AnimationInv, Verdict, AtItsStop
<1> QED BY <1>1, <1>2 DEF AnimationInv

LEMMA BetweenKeeps ==
  ASSUME AnimationInv, ToggleFreeze \/ \E value \in Labels : RaiseInterrupt(value)
  PROVE  AnimationInv'
<1>1. IsState(vm) BY DEF AnimationInv, AnimationTyped
<1>2. CASE ToggleFreeze
 <2> DEFINE s == [vm EXCEPT !.frozen = ~vm.frozen]
 <2>1. IsState(s) /\ s.active = vm.active /\ s.stopped = vm.stopped /\ s.pc = vm.pc
   BY <1>1 DEF IsState, VmFields
 <2>2. vm' = s /\ pure' = FALSE /\ promised' = 0 /\ call = NoCall
       /\ UNCHANGED <<script, call, drawn, verdict, calls, kept>>
   BY <1>2 DEF ToggleFreeze
 <2> HIDE DEF s
 <2> QED BY <2>1, <2>2, BetweenCalls
<1>3. ASSUME NEW value \in Labels, RaiseInterrupt(value) PROVE AnimationInv'
 <2> DEFINE s == [vm EXCEPT !.pending = value]
 <2>1. IsState(s) /\ s.active = vm.active /\ s.stopped = vm.stopped /\ s.pc = vm.pc
   BY <1>1 DEF IsState, VmFields
 <2>2. vm' = s /\ pure' = FALSE /\ promised' = 0 /\ call = NoCall
       /\ UNCHANGED <<script, call, drawn, verdict, calls, kept>>
   BY <1>3 DEF RaiseInterrupt
 <2> HIDE DEF s
 <2> QED BY <2>1, <2>2, BetweenCalls
<1> QED BY <1>2, <1>3

\* Calls that are answered at once.
LEMMA AtOnceKeeps ==
  ASSUME AnimationInv, NEW rate \in {1, 2}, CallOnNull(rate) \/ CallOnFrozen(rate)
  PROVE  AnimationInv'
<1>1. IsState(vm) /\ AtItsStop(vm) /\ script \in Scripts /\ Loads(script) /\ calls \in Nat
  BY DEF AnimationInv, AnimationTyped
<1>2. CASE CallOnNull(rate)
 <2>1. ~vm.active /\ Answered("completed", vm, rate) BY <1>2 DEF CallOnNull
 <2>2. ~ (promised > 1)
  <3>1. RemainingCalls(script, vm) = 1 BY <1>1, <2>1, RemainingTyped
  <3>2. promised \in Nat /\ (promised > 0 => promised = RemainingCalls(script, vm))
    BY DEF AnimationInv, AnimationTyped
  <3> QED BY <3>1, <3>2
 <2>3. Certified(script) /\ pure =>
          /\ vm.pending = 0 /\ ~vm.frozen
          /\ calls > Timing(script).completion /\ vm.sprite = Timing(script).sprite
          /\ vm.visible = (~Timing(script).hides /\ vm.sprite # -1)
   BY <2>1 DEF AnimationInv, OnCourse
 <2>4. Certified(script) => Timing(script).completion \in Nat
  <3>1. Timing(script).completion = LastTime(script, StopsAt(script)) BY DEF Timing
  <3> QED BY <1>1, <3>1, StopsThere, LastTimeOf
 <2>5. Certified(script) /\ pure => calls + 1 > Timing(script).completion BY <1>1, <2>3, <2>4
 <2> QED BY <1>1, <2>1, <2>2, <2>3, <2>5, AnswersKeep
<1>3. CASE CallOnFrozen(rate)
 <2>1. vm.active /\ vm.frozen /\ Answered("advanced", vm, rate) BY <1>3 DEF CallOnFrozen
 <2>2. ~Undisturbed(rate) BY <2>1 DEF Undisturbed
 <2> QED BY <1>1, <2>1, <2>2, AnswersKeep
<1> QED BY <1>2, <1>3

LEMMA WithoutBudgetKeeps == ASSUME AnimationInv, CallWithoutBudget PROVE AnimationInv'
<1>1. drawn = kept /\ Refused("invalid", drawn) BY DEF AnimationInv, CallWithoutBudget, Callable
<1> QED BY <1>1, RefusedKeeps

LEMMA AdvanceKeeps ==
  ASSUME AnimationInv, NEW rate \in {1, 2}, NEW extra \in BOOLEAN, NEW limit \in Budgets, NEW rng \in BOOLEAN,
         CallAdvance(rate, extra, limit, rng)
  PROVE  AnimationInv'
<1>1. call = NoCall /\ vm.active /\ ~vm.frozen /\ limit > 0 /\ limit \in Nat /\ drawn = kept
      /\ UNCHANGED <<script, vm, drawn, verdict, calls, kept, pure, promised>>
  BY AnimationAssumption DEF CallAdvance, Callable, AnimationInv
<1> DEFINE c == [step |-> IF vm.pending # 0 THEN "interrupted" ELSE "running", rate |-> rate, extra |-> extra,
                 limit |-> limit, rng |-> rng, executed |-> 0, entry |-> drawn, next |-> vm]
<1>2. IsState(vm) /\ AtItsStop(vm) /\ script \in Scripts /\ Loads(script) /\ calls \in Nat
  BY DEF AnimationInv, AnimationTyped
<1>3. /\ call' = c /\ c # NoCall /\ IsCall(c) /\ c.next = vm /\ c.executed = 0 /\ c.entry = drawn /\ c.limit = limit
      /\ c.step = IF vm.pending # 0 THEN "interrupted" ELSE "running"
  BY <1>1, <1>2 DEF CallAdvance, IsCall, NoCall
<1> HIDE DEF c
<1>4. AnimationTyped' BY <1>1, <1>3 DEF AnimationInv, AnimationTyped, IsState, IsCall
<1>5. Verdict' /\ AtItsStop(vm)' /\ AtItsStop(call.next)' BY <1>1, <1>3 DEF AnimationInv, Verdict, AtItsStop
<1>6. Underway(call)' BY <1>1, <1>3 DEF Underway
<1>7. vm'.stopped /\ vm'.pending = 0 => StandsStill(call)' BY <1>1, <1>3 DEF StandsStill
<1>8. promised' > 0 => promised' = RemainingCalls(script, vm)' /\ AtItsEnd(call)'
 <2>1. promised > 0 => promised = RemainingCalls(script, vm) /\ vm.pending = 0
   BY <1>1, <1>2, RemainingTyped DEF AnimationInv
 <2> QED BY <1>1, <1>3, <2>1 DEF AtItsEnd
<1>9. Certified(script)' /\ pure' => OnCourse' /\ CallOnCourse(call)'
 <2> SUFFICES ASSUME Certified(script), pure PROVE OnCourse' /\ CallOnCourse(call)' BY <1>1
 <2>1. OnCourse BY DEF AnimationInv
 <2>2. OnCourse' BY <1>1, <2>1 DEF OnCourse, Course, Shown
 <2>3. \A j \in 1 .. vm.pc - 1 : script[j].time <= calls
  <3> SUFFICES ASSUME NEW j \in 1 .. vm.pc - 1 PROVE script[j].time <= calls OBVIOUS
  <3>1. script[j].time <= calls - 1 BY <1>1, <2>1 DEF OnCourse, Course
  <3>2. script[j].time \in Int BY <1>2, AnimationTexts DEF IsState
  <3> QED BY <1>2, <3>1, <3>2
 <2>4. CallOnCourse(call)' BY <1>1, <1>3, <2>1, <2>3 DEF OnCourse, CallOnCourse, Course, Shown
 <2> QED BY <2>2, <2>4
<1> QED BY <1>1, <1>3, <1>4, <1>5, <1>6, <1>7, <1>8, <1>9 DEF AnimationInv

----
LEMMA Flying1 ==
  ASSUME AnimationInv, call.step # "none"
  PROVE  /\ call # NoCall /\ IsCall(call) /\ Underway(call) /\ IsState(call.next) /\ AtItsStop(call.next)
         /\ IsState(vm) /\ AtItsStop(vm) /\ script \in Scripts /\ Loads(script) /\ calls \in Nat
         /\ vm.stopped /\ vm.pending = 0 => StandsStill(call)
         /\ promised \in Nat /\ (promised > 0 => promised = RemainingCalls(script, vm) /\ AtItsEnd(call))
         /\ Certified(script) /\ pure => OnCourse /\ (call.rate = Unit => CallOnCourse(call))
<1>1. call # NoCall BY DEF NoCall
<1> QED BY <1>1 DEF AnimationInv, AnimationTyped, IsCall

LEMMA ScaleTurned ==
  ASSUME NEW t \in Int, NEW rate \in {1, 2}, NEW extra \in BOOLEAN
  PROVE  Decremented(t, rate, extra) \in Int /\ Decremented(t, rate, FALSE) = t - rate
<1>1. Whole(t) \in Int /\ At(Whole(t) - 1) \in Int BY WholeIs DEF At, Unit
<1> QED BY <1>1 DEF Decremented

LEMMA StandStillIs ==
  ASSUME NEW s, IsState(s), IsCall(call)
  PROVE  LET t == StandStill(s)
         IN  /\ IsState(t) /\ t.time = Decremented(s.time, call.rate, call.extra) /\ t.pc = s.pc
             /\ t.active = s.active /\ t.stopped = s.stopped /\ t.frozen = s.frozen /\ t.pending = s.pending
<1> DEFINE d == Decremented(s.time, call.rate, call.extra)
<1>1. d \in Int BY ScaleTurned DEF IsState, IsCall
<1>2. StandStill(s) = [s EXCEPT !.time = d] BY DEF StandStill, IsState, VmFields
<1> HIDE DEF d
<1>3. /\ IsState([s EXCEPT !.time = d]) /\ [s EXCEPT !.time = d].time = d /\ [s EXCEPT !.time = d].pc = s.pc
      /\ [s EXCEPT !.time = d].active = s.active /\ [s EXCEPT !.time = d].stopped = s.stopped
      /\ [s EXCEPT !.time = d].frozen = s.frozen /\ [s EXCEPT !.time = d].pending = s.pending
  BY <1>1 DEF IsState, VmFields
<1> QED BY <1>2, <1>3 DEF d

LEMMA DispatchKeeps == ASSUME AnimationInv, Dispatch PROVE AnimationInv'
<1>1. call.step = "interrupted" /\ call.step # "none" /\ call.step # "tail" BY DEF Dispatch
<1>2. /\ call # NoCall /\ IsCall(call) /\ Underway(call) /\ IsState(vm) /\ script \in Scripts /\ Loads(script)
      /\ promised \in Nat /\ (promised > 0 => AtItsEnd(call)) /\ (Certified(script) /\ pure => OnCourse)
  BY <1>1, Flying1
<1>3. /\ call.next = vm /\ vm.pending # 0 /\ call.executed < call.limit /\ vm.active /\ ~vm.frozen
  BY <1>1, <1>2 DEF Underway
<1>4. promised = 0 BY <1>1, <1>2 DEF AtItsEnd
<1>5. ~ (Certified(script) /\ pure) BY <1>2, <1>3 DEF OnCourse
<1> DEFINE h == HandlerOf(script, vm.pending)
           woken == [vm EXCEPT !.pending = 0, !.stopped = FALSE]
           handled == [woken EXCEPT !.returnTime = woken.time, !.returnPc = woken.pc, !.hasReturn = TRUE,
                                    !.pc = h, !.time = At(script[h].time), !.visible = TRUE]
<1>6. /\ IsState(woken) /\ woken.active /\ ~woken.frozen /\ ~woken.stopped /\ woken.pending = 0
  BY <1>2, <1>3 DEF IsState, VmFields
<1>7. IF h = None THEN Going("tail", StandStill(woken)) ELSE Going("running", handled)
  BY <1>3, Zenon DEF Dispatch
<1> HIDE DEF woken, h
<1>8. CASE h = None
 <2>1. Going("tail", StandStill(woken)) BY <1>7, <1>8
 <2> DEFINE s == StandStill(woken)
 <2>2. IsState(s) /\ s.active /\ ~s.frozen /\ ~s.stopped /\ s.pending = 0 BY <1>2, <1>6, StandStillIs
 <2>3. AtItsStop(s) BY <2>2 DEF AtItsStop
 <2> HIDE DEF s
 <2> QED BY <1>1, <1>2, <1>3, <1>4, <1>5, <2>1, <2>2, <2>3, GoesOn DEF s
<1>9. CASE h # None
 <2>1. Going("running", handled) BY <1>7, <1>9
 <2>2. h \in DOMAIN script BY <1>2, <1>9, Handlers DEF h
 <2>3. At(script[h].time) \in Int BY <1>2, <2>2, AnimationTexts, WholeIs
 <2>4. IsState(handled) /\ handled.active /\ ~handled.frozen /\ ~handled.stopped /\ handled.pending = 0
   BY <1>6, <2>2, <2>3 DEF IsState, VmFields
 <2> HIDE DEF handled
 <2>5. AtItsStop(handled) BY <2>4 DEF AtItsStop
 <2> QED BY <1>1, <1>2, <1>3, <1>4, <1>5, <2>1, <2>4, <2>5, GoesOn
<1> QED BY <1>8, <1>9

LEMMA OutOfBudgetKeeps == ASSUME AnimationInv, OutOfBudget \/ InstructionRefused PROVE AnimationInv'
<1>1. call.step = "running" /\ call.step # "none" BY DEF OutOfBudget, InstructionRefused, InstructionDue
<1>2. call.entry = kept BY <1>1, Flying1 DEF Underway
<1>3. \E status : status \notin {"advanced", "completed"} /\ Refused(status, call.entry)
 <2>1. CASE OutOfBudget BY <2>1 DEF OutOfBudget
 <2>2. CASE InstructionRefused
  <3> DEFINE status == Refusal(call.next, Cursor, call.rng)
  <3>1. status \in {"none", "unsupported", "invalid", "requires_context"} BY RefusalKinds
  <3>2. Refused(status, call.entry) BY <2>2 DEF InstructionRefused
  <3> HIDE DEF status
  <3> QED BY <3>1, <3>2
 <2> QED BY <2>1, <2>2
<1> QED BY <1>2, <1>3, RefusedKeeps

LEMMA NotDueKeeps == ASSUME AnimationInv, NotDue PROVE AnimationInv'
<1>1. /\ call.step = "running" /\ call.step # "none" /\ Cursor.time > Whole(call.next.time)
      /\ UNCHANGED <<script, vm, drawn, verdict, calls, kept, pure, promised>>
  BY DEF NotDue
<1>2. /\ call # NoCall /\ IsCall(call) /\ Underway(call) /\ IsState(call.next) /\ AtItsStop(call.next)
      /\ IsState(vm) /\ AtItsStop(vm) /\ script \in Scripts /\ Loads(script) /\ calls \in Nat
      /\ (vm.stopped /\ vm.pending = 0 => StandsStill(call))
      /\ promised \in Nat /\ (promised > 0 => promised = RemainingCalls(script, vm) /\ AtItsEnd(call))
      /\ (Certified(script) /\ pure => OnCourse /\ (call.rate = Unit => CallOnCourse(call)))
  BY <1>1, Flying1
<1> DEFINE c == [call EXCEPT !.step = "tail"]
<1>3. /\ call' = c /\ c.step = "tail" /\ c.executed = call.executed /\ c.next = call.next /\ DOMAIN c = DOMAIN call
      /\ c.rate = call.rate /\ c.extra = call.extra /\ c.limit = call.limit /\ c.entry = call.entry
  BY <1>2 DEF NotDue, IsCall
<1> HIDE DEF c
<1>4. IsCall(c) /\ c # NoCall BY <1>2, <1>3 DEF IsCall, NoCall
<1>5. AnimationTyped' BY <1>1, <1>3, <1>4 DEF AnimationInv, AnimationTyped, IsState, IsCall
<1>6. Verdict' /\ AtItsStop(vm)' /\ AtItsStop(call.next)'
  BY <1>1, <1>2, <1>3 DEF AnimationInv, Verdict, AtItsStop
<1>7. Underway(call)' BY <1>1, <1>2, <1>3 DEF Underway
<1>8. vm'.stopped /\ vm'.pending = 0 => StandsStill(call)'
 <2> SUFFICES ASSUME vm.stopped, vm.pending = 0 PROVE StandsStill(call)' BY <1>1
 <2>1. call.next = vm BY <1>1, <1>2 DEF StandsStill
 <2>2. script[vm.pc].time > Whole(vm.time) BY <1>1, <2>1 DEF Cursor
 <2> QED BY <1>1, <1>3, <2>1, <2>2 DEF StandsStill
<1>9. promised' > 0 => promised' = RemainingCalls(script, vm)' /\ AtItsEnd(call)'
 <2> SUFFICES ASSUME promised > 0 PROVE promised' = RemainingCalls(script, vm)' /\ AtItsEnd(call)' BY <1>1
 <2>1. promised = RemainingCalls(script, vm) /\ call.next = vm /\ vm.active BY <1>2 DEF AtItsEnd, Underway
 <2>2. script[vm.pc].time > Whole(vm.time) /\ script[vm.pc].time \in Int /\ Whole(vm.time) \in Int
   BY <1>1, <1>2, <2>1, AnimationTexts, WholeIs DEF Cursor, IsState
 <2>3. promised = LET n == script[vm.pc].time - Whole(vm.time) + 1 IN IF n > 1 THEN n ELSE 1
   BY <1>2, <2>1, RemainingTyped
 <2>4. promised > 1 BY <2>2, <2>3
 <2> QED BY <1>1, <1>3, <2>1, <2>4 DEF AtItsEnd
<1>10. Certified(script)' /\ pure' => OnCourse' /\ (call'.rate = Unit => CallOnCourse(call)')
 <2> SUFFICES ASSUME Certified(script), pure PROVE OnCourse' /\ (call'.rate = Unit => CallOnCourse(call)')
   BY <1>1
 <2>1. OnCourse /\ (call.rate = Unit => CallOnCourse(call)) BY <1>2
 <2>2. OnCourse' BY <1>1, <2>1 DEF OnCourse, Course, Shown
 <2>3. ASSUME call.rate = Unit PROVE CallOnCourse(call)'
  <3>1. Course(call.next, calls) /\ Shown(call.next) /\ call.next.time = 2 * calls
    BY <1>2, <2>1, <2>3 DEF CallOnCourse, Course, Unit
  <3>2. script[call.next.pc].time > calls
   <4>1. calls \in Int BY <1>2
   <4>2. Whole(call.next.time) = calls BY <3>1, <4>1, WholeIs
   <4> QED BY <1>1, <4>2 DEF Cursor
  <3> QED BY <1>1, <1>3, <3>1, <3>2 DEF CallOnCourse, Course, Shown
 <2> QED BY <1>3, <2>2, <2>3
<1> QED BY <1>1, <1>2, <1>3, <1>4, <1>5, <1>6, <1>7, <1>8, <1>9, <1>10 DEF AnimationInv

LEMMA RemainingNext ==
  ASSUME script \in Scripts, Loads(script), NEW s, IsState(s), s.active, RemainingCalls(script, s) > 1
  PROVE  RemainingCalls(script, [s EXCEPT !.time = s.time + 2]) = RemainingCalls(script, s) - 1
<1> DEFINE t == [s EXCEPT !.time = s.time + 2]
           n == script[s.pc].time - Whole(s.time) + 1
<1>1. script[s.pc].time \in Int /\ s.time \in Int /\ Whole(s.time) \in Int
  BY AnimationTexts, WholeIs DEF IsState
<1>2. /\ ~s.frozen /\ ~s.stopped /\ s.pending = 0 /\ s.time >= 0 /\ s.time % Unit = 0
      /\ Terminal(script[s.pc]) /\ ~script[s.pc].masked /\ script[s.pc].words = << >>
      /\ RemainingCalls(script, s) = IF n > 1 THEN n ELSE 1
  BY RemainingTyped
<1>3. n \in Int /\ n > 1 /\ RemainingCalls(script, s) = n BY <1>1, <1>2
<1>4. /\ t.pc = s.pc /\ t.active = s.active /\ t.frozen = s.frozen /\ t.stopped = s.stopped /\ t.pending = s.pending
      /\ t.time = s.time + 2
  BY DEF IsState, VmFields
<1>5. s.time = 2 * Whole(s.time) BY <1>1, <1>2, WholeIs
<1>6. t.time = 2 * (Whole(s.time) + 1) /\ Whole(s.time) + 1 \in Int BY <1>1, <1>4, <1>5
<1>7. Whole(t.time) = Whole(s.time) + 1 /\ t.time % Unit = 0 /\ t.time >= 0
 <2>1. Whole(t.time) = Whole(s.time) + 1 BY <1>6, WholeIs
 <2>2. t.time % 2 = 0 BY <1>1, <1>6
 <2> QED BY <1>1, <1>2, <1>4, <2>1, <2>2 DEF Unit
<1> HIDE DEF t
<1>8. RemainingCalls(script, t) = Most({1, script[s.pc].time - Whole(t.time) + 1})
  BY <1>1, <1>2, <1>4, <1>7 DEF RemainingCalls
<1>9. script[s.pc].time - Whole(t.time) + 1 = n - 1 BY <1>1, <1>7
<1>10. Most({1, n - 1}) = n - 1 BY <1>3, MostOfTwo
<1> QED BY <1>3, <1>8, <1>9, <1>10 DEF t

LEMMA FrameTailKeeps == ASSUME AnimationInv, FrameTail PROVE AnimationInv'
<1>1. /\ call.step = "tail" /\ call.step # "none"
      /\ Answered("advanced", [call.next EXCEPT !.time = call.next.time + call.rate], call.rate)
  BY DEF FrameTail
<1>2. /\ IsCall(call) /\ Underway(call) /\ IsState(call.next) /\ AtItsStop(call.next)
      /\ IsState(vm) /\ script \in Scripts /\ Loads(script) /\ calls \in Nat
      /\ promised \in Nat /\ (promised > 0 => promised = RemainingCalls(script, vm) /\ AtItsEnd(call))
      /\ (Certified(script) /\ pure => OnCourse /\ (call.rate = Unit => CallOnCourse(call)))
  BY <1>1, Flying1
<1> DEFINE s == [call.next EXCEPT !.time = call.next.time + call.rate]
<1>3. /\ IsState(s) /\ s.time = call.next.time + call.rate /\ s.pc = call.next.pc /\ s.active = call.next.active
      /\ s.stopped = call.next.stopped /\ s.frozen = call.next.frozen /\ s.pending = call.next.pending
      /\ s.sprite = call.next.sprite /\ s.visible = call.next.visible
  BY <1>2 DEF IsState, VmFields, IsCall
<1>4. s.active /\ ~s.frozen /\ s.pending = 0 /\ vm.active BY <1>1, <1>2, <1>3 DEF Underway
<1>5. AtItsStop(s) BY <1>2, <1>3 DEF AtItsStop
<1>6. Undisturbed(call.rate) /\ promised > 1 => RemainingCalls(script, s) = promised - 1
 <2> SUFFICES ASSUME call.rate = 2, promised > 1 PROVE RemainingCalls(script, s) = promised - 1
   BY DEF Undisturbed, Unit
 <2>1. promised = RemainingCalls(script, vm) /\ call.next = vm BY <1>2 DEF AtItsEnd
 <2> QED BY <1>2, <1>4, <2>1, RemainingNext
<1>7. Certified(script) /\ pure /\ Undisturbed(call.rate) =>
         /\ s.pc <= StopsAt(script) /\ s.time = (calls + 1) * Unit
         /\ \A j \in 1 .. s.pc - 1 : script[j].time <= calls
         /\ Shown(s) /\ script[s.pc].time > calls
 <2> SUFFICES ASSUME Certified(script), pure, call.rate = Unit
              PROVE  /\ s.pc <= StopsAt(script) /\ s.time = (calls + 1) * Unit
                     /\ \A j \in 1 .. s.pc - 1 : script[j].time <= calls
                     /\ Shown(s) /\ script[s.pc].time > calls
   BY DEF Undisturbed
 <2>1. Course(call.next, calls) /\ Shown(call.next) /\ script[call.next.pc].time > calls
   BY <1>1, <1>2 DEF CallOnCourse
 <2>2. s.time = (calls + 1) * Unit BY <1>2, <1>3, <2>1 DEF Course, Unit
 <2>3. Shown(s) BY <1>3, <2>1 DEF Shown
 <2> QED BY <1>3, <2>1, <2>2, <2>3 DEF Course
<1>8. call.rate \in {1, 2} BY <1>2 DEF IsCall
<1> HIDE DEF s
<1> QED BY <1>1, <1>3, <1>4, <1>5, <1>6, <1>7, <1>8, AnswersKeep DEF s

----
\* One instruction.
LEMMA CertifiedText ==
  ASSUME script \in Scripts, Loads(script), Certified(script), NEW i \in DOMAIN script, i <= StopsAt(script)
  PROVE  IF i < StopsAt(script) THEN Passed(script, i) ELSE Terminal(script[i])
<1>1. StopsAt(script) \in DOMAIN script /\ \A k \in DOMAIN script : k < StopsAt(script) => Passed(script, k)
  BY StopsThere
<1>2. DOMAIN script \subseteq Int BY AnimationTexts
<1>3. Terminal(script[StopsAt(script)]) BY DEF Certified
<1>4. i < StopsAt(script) \/ i = StopsAt(script) BY <1>1, <1>2
<1> QED BY <1>1, <1>3, <1>4

LEMMA Executing ==
  ASSUME AnimationInv, NEW ops, Executes(ops)
  PROVE  /\ call.step = "running" /\ call.step # "none" /\ call.step # "tail" /\ call # NoCall
         /\ IsCall(call) /\ IsState(call.next) /\ call.executed < call.limit /\ Cursor = script[call.next.pc]
         /\ Cursor.op \in ops /\ Cursor.time <= Whole(call.next.time) /\ Cursor.words \in Seq(Int)
         /\ call.next.active /\ ~call.next.frozen /\ call.next.pending = 0 /\ vm.active
         /\ Cursor.op # "end" => call.next.pc + 1 \in DOMAIN script /\ Len(Cursor.words) = Arity[Cursor.op]
         /\ ~Terminal(Cursor) => promised = 0
         /\ Cursor.op \notin {"stop", "stopHidden"} => ~call.next.stopped /\ ~ (vm.stopped /\ vm.pending = 0)
         /\ Certified(script) /\ pure /\ call.rate = Unit =>
               /\ CallOnCourse(call) /\ Cursor.time <= calls
               /\ IF call.next.pc < StopsAt(script) THEN Passed(script, call.next.pc)
                  ELSE call.next.pc = StopsAt(script) /\ Terminal(Cursor)
<1>1. /\ call.step = "running" /\ call.step # "none" /\ call.step # "tail" /\ Cursor.op \in ops
      /\ call.executed < call.limit /\ Cursor.time <= Whole(call.next.time)
      /\ Refusal(call.next, Cursor, call.rng) = "none"
  BY DEF Executes, InstructionDue
<1>2. /\ call # NoCall /\ IsCall(call) /\ Underway(call) /\ IsState(call.next) /\ AtItsStop(call.next)
      /\ IsState(vm) /\ AtItsStop(vm) /\ script \in Scripts /\ Loads(script) /\ calls \in Nat
      /\ (vm.stopped /\ vm.pending = 0 => StandsStill(call))
      /\ promised \in Nat /\ (promised > 0 => promised = RemainingCalls(script, vm) /\ AtItsEnd(call))
      /\ (Certified(script) /\ pure => OnCourse /\ (call.rate = Unit => CallOnCourse(call)))
  BY <1>1, Flying1
<1>3. call.next.active /\ ~call.next.frozen /\ call.next.pending = 0 /\ vm.active BY <1>1, <1>2 DEF Underway
<1>4. call.next.pc \in DOMAIN script /\ Cursor = script[call.next.pc] BY <1>2 DEF IsState, Cursor
<1>5. Cursor.words \in Seq(Int) /\ Cursor.time \in Int BY <1>2, <1>4, AnimationTexts
<1>6. ASSUME Cursor.op # "end" PROVE call.next.pc + 1 \in DOMAIN script /\ Len(Cursor.words) = Arity[Cursor.op]
 <2>1. /\ Len(script) \in Nat \ {0} /\ DOMAIN script = 1 .. Len(script) /\ script[Len(script)].op = "end"
   BY <1>2, AnimationTexts
 <2>2. call.next.pc # Len(script) BY <1>4, <1>6, <2>1
 <2>3. call.next.pc + 1 \in DOMAIN script BY <1>4, <2>1, <2>2
 <2> QED BY <1>1, <1>6, <2>3, RefusalKinds
<1>7. ASSUME ~Terminal(Cursor) PROVE promised = 0
 <2> SUFFICES ASSUME promised > 0 PROVE FALSE BY <1>2
 <2>1. RemainingCalls(script, vm) > 0 /\ call.next = vm BY <1>2 DEF AtItsEnd
 <2>2. Terminal(script[vm.pc]) BY <1>2, <1>3, <2>1, RemainingTyped
 <2> QED BY <1>4, <1>7, <2>1, <2>2
<1>8. ASSUME Cursor.op \notin {"stop", "stopHidden"}
      PROVE  ~call.next.stopped /\ ~ (vm.stopped /\ vm.pending = 0)
 <2>1. ~call.next.stopped BY <1>2, <1>4, <1>8 DEF AtItsStop
 <2>2. vm.stopped /\ vm.pending = 0 => call.next = vm BY <1>1, <1>2 DEF StandsStill
 <2> QED BY <2>1, <2>2
<1>9. ASSUME Certified(script), pure, call.rate = Unit
      PROVE  /\ CallOnCourse(call) /\ Cursor.time <= calls
             /\ IF call.next.pc < StopsAt(script) THEN Passed(script, call.next.pc)
                ELSE call.next.pc = StopsAt(script) /\ Terminal(Cursor)
 <2>1. CallOnCourse(call) /\ call.next.time = 2 * calls /\ call.next.pc <= StopsAt(script)
   BY <1>2, <1>9 DEF CallOnCourse, Course, Unit
 <2>2. Cursor.time <= calls
  <3>1. calls \in Int BY <1>2
  <3>2. Whole(2 * calls) = calls BY <3>1, WholeIs
  <3> QED BY <1>1, <2>1, <3>2
 <2>3. DOMAIN script \subseteq Int /\ StopsAt(script) \in DOMAIN script BY <1>2, AnimationTexts, StopsThere
 <2>4. call.next.pc < StopsAt(script) \/ call.next.pc = StopsAt(script) BY <1>4, <2>1, <2>3
 <2>5. IF call.next.pc < StopsAt(script) THEN Passed(script, call.next.pc) ELSE Terminal(script[call.next.pc])
   BY <1>2, <1>4, <1>9, <2>1, CertifiedText
 <2> QED BY <1>4, <2>1, <2>2, <2>4, <2>5
<1> QED BY <1>1, <1>2, <1>3, <1>4, <1>5, <1>6, <1>7, <1>8, <1>9

\* An instruction after which the call goes on.
LEMMA StepsOn ==
  ASSUME AnimationInv, NEW ops, Executes(ops), ops \cap {"end", "hide", "keep", "stop", "stopHidden"} = {},
         NEW step \in {"running", "tail"}, NEW s, Going(step, s), IsState(s), s.active = call.next.active,
         s.frozen = call.next.frozen, s.stopped = call.next.stopped, s.pending = call.next.pending,
         Cursor.op \in {"sprite", "visual"} /\ Certified(script) /\ pure /\ call.rate = Unit =>
             step = "running" /\ Course(s, calls) /\ Shown(s)
  PROVE  AnimationInv'
<1>1. /\ call.step # "tail" /\ call # NoCall /\ call.executed < call.limit /\ Cursor.op \in ops
      /\ call.next.active /\ ~call.next.frozen /\ call.next.pending = 0
      /\ (~Terminal(Cursor) => promised = 0)
      /\ (Cursor.op \notin {"stop", "stopHidden"} => ~call.next.stopped /\ ~ (vm.stopped /\ vm.pending = 0))
      /\ (Certified(script) /\ pure /\ call.rate = Unit => Passed(script, call.next.pc) \/ Terminal(Cursor))
      /\ Cursor = script[call.next.pc]
  BY Executing
<1>2. ~Terminal(Cursor) /\ Cursor.op \notin {"stop", "stopHidden"} BY <1>1 DEF Terminal
<1>3. promised = 0 /\ ~s.stopped /\ s.active /\ ~s.frozen /\ s.pending = 0 /\ ~ (vm.stopped /\ vm.pending = 0)
  BY <1>1, <1>2
<1>4. Certified(script) /\ pure /\ call.rate = Unit => Cursor.op \in {"sprite", "visual"}
  BY <1>1, <1>2 DEF Passed
<1>5. AtItsStop(s) BY <1>3 DEF AtItsStop
<1>6. Certified(script) /\ pure /\ call.rate = Unit => step = "running" /\ Course(s, calls) /\ Shown(s) BY <1>4
<1> QED BY <1>1, <1>3, <1>5, <1>6, GoesOn

\* The next instruction, or another one.
LEMMA NextPcIs ==
  ASSUME NEW s, IsState(s), s.pc + 1 \in DOMAIN script
  PROVE  LET t == NextPc(s)
         IN  /\ IsState(t) /\ t.pc = s.pc + 1 /\ t.time = s.time /\ t.active = s.active /\ t.frozen = s.frozen
             /\ t.stopped = s.stopped /\ t.pending = s.pending /\ t.sprite = s.sprite /\ t.visible = s.visible
BY DEF NextPc, IsState, VmFields

LEMMA JumpedIs ==
  ASSUME NEW s, IsState(s), NEW to \in DOMAIN script, NEW frame \in Int
  PROVE  LET t == Jumped(s, to, frame)
         IN  /\ IsState(t) /\ t.active = s.active /\ t.frozen = s.frozen /\ t.stopped = s.stopped
             /\ t.pending = s.pending
<1>1. At(frame) \in Int BY WholeIs
<1> QED BY <1>1 DEF Jumped, IsState, VmFields

LEMMA WrittenIs ==
  ASSUME NEW s, IsState(s), NEW word, NEW value
  PROVE  LET t == [s EXCEPT !.vars[word] = value]
         IN  /\ IsState(t) /\ t.pc = s.pc /\ t.active = s.active /\ t.frozen = s.frozen /\ t.stopped = s.stopped
             /\ t.pending = s.pending
BY DEF IsState, VmFields

\* What an instruction of the certificate adds to what is shown.
LEMMA CourseNext ==
  ASSUME AnimationInv, NEW ops, Executes(ops), Certified(script), pure, call.rate = Unit, ~Terminal(Cursor),
         NEW s, s.pc = call.next.pc + 1, s.time = call.next.time,
         Cursor.op = "sprite" => s.sprite = Cursor.words[1] /\ s.visible = TRUE,
         Cursor.op # "sprite" => s.sprite = call.next.sprite /\ s.visible = call.next.visible
  PROVE  Course(s, calls) /\ Shown(s)
<1>1. /\ CallOnCourse(call) /\ Cursor.time <= calls /\ call.next.pc < StopsAt(script)
      /\ Passed(script, call.next.pc) /\ Cursor = script[call.next.pc] /\ IsState(call.next)
  BY Executing
<1>2. script \in Scripts /\ Loads(script) BY DEF AnimationInv, AnimationTyped
<1> DEFINE p == call.next.pc
<1>3. p \in Int /\ StopsAt(script) \in Int /\ p >= 1 /\ 1 .. s.pc - 1 = (1 .. p - 1) \union {p} /\ p \in 1 .. s.pc - 1
  BY <1>1, <1>2, AnimationTexts, StopsThere DEF IsState
<1>4. Course(s, calls) BY <1>1, <1>3 DEF CallOnCourse, Course
<1>5. CASE Cursor.op = "sprite"
 <2>1. p \in 1 .. s.pc - 1 /\ script[p].op = "sprite" /\ s.sprite = script[p].words[1] /\ s.visible = TRUE
   BY <1>1, <1>3, <1>5
 <2> QED BY <1>4, <2>1, Zenon DEF Shown
<1>6. CASE Cursor.op # "sprite"
 <2>1. Shown(call.next) BY <1>1 DEF CallOnCourse
 <2>2. script[p].op # "sprite" /\ s.sprite = call.next.sprite /\ s.visible = call.next.visible BY <1>1, <1>6
 <2>3. \A j \in 1 .. p - 1 : j \in 1 .. s.pc - 1 BY <1>3
 <2>4. \A j \in 1 .. s.pc - 1 : j \in 1 .. p - 1 \/ j = p BY <1>3
 <2>5. CASE \E j \in 1 .. p - 1 : script[j].op = "sprite" /\ call.next.sprite = script[j].words[1] /\ call.next.visible = TRUE
  <3>1. PICK j \in 1 .. p - 1 :
           script[j].op = "sprite" /\ call.next.sprite = script[j].words[1] /\ call.next.visible = TRUE
    BY <2>5
  <3>2. j \in 1 .. s.pc - 1 /\ script[j].op = "sprite" /\ s.sprite = script[j].words[1] /\ s.visible
    BY <2>2, <2>3, <3>1
  <3> QED BY <1>4, <3>2, Zenon DEF Shown
 <2>6. CASE (\A j \in 1 .. p - 1 : script[j].op # "sprite") /\ call.next.sprite = -1 /\ call.next.visible = FALSE
   BY <1>4, <2>2, <2>4, <2>6, Zenon DEF Shown
 <2> QED BY <1>4, <2>1, <2>5, <2>6, Zenon DEF Shown
<1> QED BY <1>4, <1>5, <1>6

LEMMA MarksKeep == ASSUME AnimationInv, SetSprite \/ Mark PROVE AnimationInv'
<1>1. CASE SetSprite
 <2> DEFINE v == Read(call.next, Cursor, 1)
            drawn1 == [call.next EXCEPT !.sprite = v, !.visible = TRUE]
            s == NextPc(drawn1)
 <2>1. Executes({"sprite"}) /\ Going("running", s) BY <1>1 DEF SetSprite
 <2>2. IsState(call.next) /\ Cursor.op = "sprite" /\ call.next.pc + 1 \in DOMAIN script /\ IsCall(call)
       /\ Cursor = script[call.next.pc]
   BY <2>1, Executing
 <2>3. /\ IsState(drawn1) /\ drawn1.pc = call.next.pc /\ drawn1.time = call.next.time /\ drawn1.sprite = v
       /\ drawn1.visible /\ drawn1.active = call.next.active /\ drawn1.frozen = call.next.frozen
       /\ drawn1.stopped = call.next.stopped /\ drawn1.pending = call.next.pending
   BY <2>2 DEF IsState, VmFields
 <2> HIDE DEF drawn1, v
 <2>4. /\ IsState(s) /\ s.pc = call.next.pc + 1 /\ s.time = call.next.time /\ s.sprite = v /\ s.visible
       /\ s.active = call.next.active /\ s.frozen = call.next.frozen /\ s.stopped = call.next.stopped
       /\ s.pending = call.next.pending
   BY <2>2, <2>3, NextPcIs
 <2> HIDE DEF s
 <2>5. ~Terminal(Cursor) BY <2>2 DEF Terminal
 <2>6. ASSUME Certified(script), pure, call.rate = Unit PROVE Course(s, calls) /\ Shown(s)
  <3>1. Passed(script, call.next.pc) BY <2>1, <2>5, <2>6, Executing
  <3>2. v = Cursor.words[1] BY <2>2, <3>1 DEF v, Read, Selects, Passed
  <3> QED BY <2>1, <2>2, <2>4, <2>5, <2>6, <3>2, CourseNext
 <2> QED BY <2>1, <2>4, <2>6, StepsOn
<1>2. CASE Mark
 <2> DEFINE ops == {"label", "show", "hit", "visual", "pose"}
            u == CASE Cursor.op = "show" -> [call.next EXCEPT !.visible = Cursor.words[1] % 2 = 1]
                   [] Cursor.op = "hit" -> [call.next EXCEPT !.hit = Cursor.words[1]]
                   [] OTHER -> call.next
            s == NextPc(u)
 <2>1. Executes(ops) /\ Going("running", s) BY <1>2 DEF Mark
 <2>2. IsState(call.next) /\ Cursor.op \in ops /\ call.next.pc + 1 \in DOMAIN script /\ IsCall(call)
       /\ Cursor = script[call.next.pc]
   BY <2>1, Executing
 <2>3. /\ IsState(u) /\ u.pc = call.next.pc /\ u.time = call.next.time /\ u.active = call.next.active
       /\ u.frozen = call.next.frozen /\ u.stopped = call.next.stopped /\ u.pending = call.next.pending
       /\ Cursor.op = "visual" => u = call.next
  <3>1. CASE Cursor.op = "show" BY <2>2, <3>1 DEF IsState, VmFields
  <3>2. CASE Cursor.op = "hit" BY <2>2, <3>2 DEF IsState, VmFields
  <3>3. CASE Cursor.op # "show" /\ Cursor.op # "hit" BY <2>2, <3>3
  <3> QED BY <3>1, <3>2, <3>3
 <2> HIDE DEF u
 <2>4. /\ IsState(s) /\ s.pc = call.next.pc + 1 /\ s.time = call.next.time /\ s.sprite = u.sprite
       /\ s.visible = u.visible /\ s.active = call.next.active /\ s.frozen = call.next.frozen
       /\ s.stopped = call.next.stopped /\ s.pending = call.next.pending
   BY <2>2, <2>3, NextPcIs
 <2> HIDE DEF s
 <2>5. ~Terminal(Cursor) BY <2>2 DEF Terminal
 <2>6. ASSUME Cursor.op = "visual", Certified(script), pure, call.rate = Unit PROVE Course(s, calls) /\ Shown(s)
  <3>1. Cursor.op # "sprite" /\ s.sprite = call.next.sprite /\ s.visible = call.next.visible BY <2>3, <2>4, <2>6
  <3> HIDE DEF ops
  <3> QED BY <2>1, <2>4, <2>5, <2>6, <3>1, CourseNext
 <2>7. ops \cap {"end", "hide", "keep", "stop", "stopHidden"} = {} /\ (Cursor.op = "sprite" => FALSE) BY <2>2
 <2> HIDE DEF ops
 <2> QED BY <2>1, <2>4, <2>6, <2>7, StepsOn
<1> QED BY <1>1, <1>2

LEMMA SpriteTold ==
  ASSUME script \in Scripts, Loads(script), Certified(script), NEW s, s.pc = StopsAt(script), Shown(s)
  PROVE  /\ s.sprite = Timing(script).sprite
         /\ (s.visible = TRUE /\ s.sprite # -1) \/ (s.visible = FALSE /\ s.sprite = -1)
<1> DEFINE e == StopsAt(script)
<1>1. Timing(script).sprite = Most({-1} \union SpritesOf(script)) BY DEF Timing
<1>2. e \in Int /\ 1 .. e - 1 \subseteq DOMAIN script /\ DOMAIN script \subseteq Int
      /\ \A i \in 1 .. e - 1 : Passed(script, i)
 <2>1. e \in DOMAIN script /\ DOMAIN script = 1 .. Len(script) /\ Len(script) \in Nat
   BY AnimationTexts, StopsThere
 <2>2. \A i \in 1 .. e - 1 : i \in DOMAIN script /\ i < e BY <2>1
 <2> QED BY <2>1, <2>2, StopsThere
<1>3. SpritesOf(script) = {script[i].words[1] : i \in {j \in 1 .. e - 1 : script[j].op = "sprite"}}
  BY DEF SpritesOf
<1> HIDE DEF e
<1>4. CASE \E j \in 1 .. e - 1 : script[j].op = "sprite" /\ s.sprite = script[j].words[1] /\ s.visible = TRUE
 <2>1. PICK j \in 1 .. e - 1 : script[j].op = "sprite" /\ s.sprite = script[j].words[1] /\ s.visible = TRUE
   BY <1>4
 <2>2. ASSUME NEW i \in 1 .. e - 1, script[i].op = "sprite" PROVE i = j
  <3>1. ~ (i < j)
   <4>1. i < j => i \in 1 .. j - 1 BY <1>2
   <4> QED BY <1>2, <2>1, <2>2, <4>1 DEF Passed
  <3>2. ~ (j < i)
   <4>1. j < i => j \in 1 .. i - 1 BY <1>2
   <4> QED BY <1>2, <2>1, <2>2, <4>1 DEF Passed
  <3> QED BY <1>2, <3>1, <3>2
 <2>3. SpritesOf(script) = {s.sprite} BY <1>3, <2>1, <2>2
 <2>4. s.sprite \in Int /\ s.sprite >= 0
  <3>1. script[j].words \in Seq(Int) /\ Len(script[j].words) = 1 /\ script[j].words[1] >= 0
    BY <1>2, <2>1, AnimationTexts DEF Passed
  <3> QED BY <2>1, <3>1
 <2>5. {-1} \union SpritesOf(script) = {-1, s.sprite} BY <2>3
 <2>6. Most({-1, s.sprite}) = s.sprite BY <2>4, MostOfTwo
 <2> QED BY <1>1, <2>1, <2>4, <2>5, <2>6
<1>5. CASE (\A j \in 1 .. e - 1 : script[j].op # "sprite") /\ s.sprite = -1 /\ s.visible = FALSE
 <2>1. {-1} \union SpritesOf(script) = {-1, -1} BY <1>3, <1>5
 <2>2. Most({-1, -1}) = -1 BY MostOfTwo
 <2> QED BY <1>1, <1>5, <2>1, <2>2
<1> QED BY <1>4, <1>5 DEF Shown, e

\* Where something is due, at most this call was promised.
LEMMA DueIsLast == ASSUME AnimationInv, NEW ops, Executes(ops) PROVE ~ (promised > 1)
<1> SUFFICES ASSUME promised > 1 PROVE FALSE OBVIOUS
<1>1. call.step # "none" /\ Cursor = script[call.next.pc] /\ Cursor.time <= Whole(call.next.time) /\ vm.active
  BY Executing
<1>2. /\ script \in Scripts /\ Loads(script) /\ IsState(vm) /\ promised \in Nat
      /\ (promised > 0 => promised = RemainingCalls(script, vm) /\ AtItsEnd(call))
  BY <1>1, Flying1
<1>3. call.next = vm /\ RemainingCalls(script, vm) > 1 BY <1>2 DEF AtItsEnd
<1>4. script[vm.pc].time \in Int /\ Whole(vm.time) \in Int BY <1>2, AnimationTexts, WholeIs DEF IsState
<1>5. script[vm.pc].time - Whole(vm.time) + 1 > 1 BY <1>1, <1>2, <1>3, <1>4, RemainingTyped
<1> QED BY <1>1, <1>3, <1>4, <1>5

LEMMA EndKeeps == ASSUME AnimationInv, EndScript PROVE AnimationInv'
<1> DEFINE ops == {"end", "hide", "keep"}
           s == [call.next EXCEPT !.active = FALSE, !.visible = call.next.visible /\ Cursor.op = "keep"]
<1>1. Executes(ops) /\ Answered("completed", s, call.rate) BY DEF EndScript
<1>2. /\ call.step = "running" /\ call.step # "none" /\ IsCall(call) /\ IsState(call.next)
      /\ Cursor = script[call.next.pc] /\ Cursor.op \in ops /\ Cursor.time <= Whole(call.next.time)
      /\ ~call.next.frozen /\ call.next.pending = 0 /\ ~call.next.stopped /\ vm.active
      /\ (Certified(script) /\ pure /\ call.rate = Unit =>
            /\ CallOnCourse(call) /\ Cursor.time <= calls
            /\ IF call.next.pc < StopsAt(script) THEN Passed(script, call.next.pc)
               ELSE call.next.pc = StopsAt(script) /\ Terminal(Cursor))
 <2>1. Cursor.op \in ops /\ (Cursor.op \notin {"stop", "stopHidden"} => ~call.next.stopped) BY <1>1, Executing
 <2>2. ~call.next.stopped BY <2>1
 <2> HIDE DEF ops
 <2> QED BY <1>1, <2>2, Executing
<1>3. /\ IsState(s) /\ ~s.active /\ ~s.frozen /\ ~s.stopped /\ s.pending = 0 /\ s.sprite = call.next.sprite
      /\ s.visible = (call.next.visible /\ Cursor.op = "keep")
  BY <1>2 DEF IsState, VmFields
<1> HIDE DEF s
<1>4. AtItsStop(s) BY <1>3 DEF AtItsStop
<1>5. script \in Scripts /\ Loads(script) /\ calls \in Nat /\ IsState(vm) /\ promised \in Nat
      /\ (promised > 0 => promised = RemainingCalls(script, vm) /\ AtItsEnd(call))
  BY <1>2, Flying1
<1>6. ~ (promised > 1) BY <1>1, DueIsLast
<1>7. ASSUME Certified(script), pure, call.rate = Unit
      PROVE  /\ calls + 1 > Timing(script).completion /\ s.sprite = Timing(script).sprite
             /\ s.visible = (~Timing(script).hides /\ s.sprite # -1)
 <2>1. /\ Course(call.next, calls) /\ Shown(call.next) /\ Cursor.time <= calls
       /\ call.next.pc = StopsAt(script)
  <3>1. ~Passed(script, call.next.pc) BY <1>2 DEF Passed
  <3> QED BY <1>2, <1>7, <3>1 DEF CallOnCourse
 <2>2. Timing(script).completion = LastTime(script, StopsAt(script))
       /\ Timing(script).hides = (Cursor.op # "keep")
   BY <1>2, <2>1 DEF Timing
 <2>3. calls + 1 > Timing(script).completion
  <3>1. StopsAt(script) \in DOMAIN script BY <1>5, StopsThere
  <3>2. /\ LastTime(script, StopsAt(script)) \in Nat
        /\ (LastTime(script, StopsAt(script)) = 0
            \/ \E j \in 1 .. StopsAt(script) : LastTime(script, StopsAt(script)) = script[j].time)
    BY <1>5, <3>1, LastTimeOf
  <3>3. \A j \in 1 .. StopsAt(script) : j \in 1 .. call.next.pc - 1 \/ j = call.next.pc
    BY <1>5, <2>1, <3>1, AnimationTexts
  <3>4. \A j \in 1 .. StopsAt(script) : script[j].time <= calls BY <1>2, <2>1, <3>3 DEF Course
  <3> QED BY <1>5, <2>2, <3>2, <3>4
 <2>4. /\ call.next.sprite = Timing(script).sprite
       /\ (call.next.visible = TRUE /\ call.next.sprite # -1) \/ (call.next.visible = FALSE /\ call.next.sprite = -1)
   BY <1>5, <1>7, <2>1, SpriteTold
 <2>5. s.visible = (~Timing(script).hides /\ s.sprite # -1) BY <1>3, <2>2, <2>4
 <2> QED BY <1>3, <2>3, <2>4, <2>5
<1>8. call.rate \in {1, 2} BY <1>2 DEF IsCall
<1>9. Certified(script) /\ pure /\ Undisturbed(call.rate) =>
         /\ calls + 1 > Timing(script).completion /\ s.sprite = Timing(script).sprite
         /\ s.visible = (~Timing(script).hides /\ s.sprite # -1)
  BY <1>7 DEF Undisturbed
<1> QED BY <1>1, <1>3, <1>4, <1>6, <1>8, <1>9, AnswersKeep

LEMMA StopKeeps == ASSUME AnimationInv, StopScript PROVE AnimationInv'
<1> DEFINE ops == {"stop", "stopHidden"}
           u == [call.next EXCEPT !.stopped = TRUE, !.visible = call.next.visible /\ Cursor.op = "stop"]
           s == StandStill(u)
<1>1. Executes(ops) /\ Going("tail", s) BY DEF StopScript
<1>2. /\ call.step = "running" /\ call.step # "none" /\ call.step # "tail" /\ call # NoCall /\ IsCall(call)
      /\ IsState(call.next) /\ call.executed < call.limit /\ Cursor = script[call.next.pc] /\ Cursor.op \in ops
      /\ call.next.active /\ ~call.next.frozen /\ call.next.pending = 0
      /\ (~Terminal(Cursor) => promised = 0)
      /\ (Certified(script) /\ pure /\ call.rate = Unit => Passed(script, call.next.pc) \/ Terminal(Cursor))
  BY <1>1, Executing
<1>3. ~Terminal(Cursor) /\ ~Passed(script, call.next.pc) BY <1>2 DEF Terminal, Passed
<1>4. /\ IsState(u) /\ u.active /\ ~u.frozen /\ u.stopped /\ u.pending = 0 /\ u.pc = call.next.pc
      /\ u.time = call.next.time
  BY <1>2 DEF IsState, VmFields
<1> HIDE DEF u
<1>5. /\ IsState(s) /\ s.active /\ ~s.frozen /\ s.stopped /\ s.pending = 0 /\ s.pc = call.next.pc
      /\ s.time = Decremented(call.next.time, call.rate, call.extra)
  BY <1>2, <1>4, StandStillIs
<1> HIDE DEF s
<1>6. AtItsStop(s) BY <1>2, <1>5 DEF AtItsStop
<1>7. vm.stopped /\ vm.pending = 0 =>
         s.pc = vm.pc /\ s.time = Decremented(vm.time, call.rate, call.extra)
  BY <1>2, <1>5, Flying1 DEF StandsStill
<1>8. promised = 0 /\ ~ (Certified(script) /\ pure /\ call.rate = Unit) BY <1>2, <1>3
<1> HIDE DEF ops
<1> QED BY <1>1, <1>2, <1>5, <1>6, <1>7, <1>8, GoesOn

LEMMA JumpsTyped ==
  ASSUME AnimationInv, NEW ops, Executes(ops), Cursor.op \in DOMAIN JumpWord
  PROVE  /\ Target(Cursor) \in DOMAIN script
         /\ Cursor.op = "jump" => Cursor.words[2] \in Int
         /\ Cursor.op = "loop" => Cursor.words[3] \in Int
         /\ Cursor.op = "branch" => Cursor.words[4] \in Int
<1>1. /\ Cursor = script[call.next.pc] /\ Cursor.words \in Seq(Int) /\ IsState(call.next)
      /\ (Cursor.op # "end" => Len(Cursor.words) = Arity[Cursor.op])
  BY Executing
<1>2. script \in Scripts /\ Loads(script) /\ call.next.pc \in DOMAIN script
  BY <1>1 DEF AnimationInv, AnimationTyped, IsState
<1>3. Target(Cursor) \in DOMAIN script BY <1>1, <1>2, AnimationTexts
<1>4. Cursor.op \in {"jump", "loop", "branch"} BY DEF JumpWord
<1>5. Len(Cursor.words) = Arity[Cursor.op] BY <1>1, <1>4
<1>6. Cursor.op = "jump" => Cursor.words[2] \in Int BY <1>1, <1>5 DEF Arity
<1>7. Cursor.op = "loop" => Cursor.words[3] \in Int BY <1>1, <1>5 DEF Arity
<1>8. Cursor.op = "branch" => Cursor.words[4] \in Int BY <1>1, <1>5 DEF Arity
<1> QED BY <1>3, <1>6, <1>7, <1>8

\* What keeps the flags of the state keeps the invariant.
SameFlags(s) ==
    /\ IsState(s) /\ s.active = call.next.active /\ s.frozen = call.next.frozen
    /\ s.stopped = call.next.stopped /\ s.pending = call.next.pending
Plain == {"jump", "loop", "wait", "return", "assign", "update", "compute", "math", "draw", "branch"}

LEMMA PlainKeeps ==
  ASSUME AnimationInv, NEW ops \in SUBSET Plain, Executes(ops), NEW step \in {"running", "tail"}, NEW s,
         SameFlags(s), Going(step, s)
  PROVE  AnimationInv'
<1>1. Cursor.op \in ops BY Executing
<1>2. Cursor.op \notin {"sprite", "visual"} /\ ops \cap {"end", "hide", "keep", "stop", "stopHidden"} = {}
  BY <1>1 DEF Plain
<1> QED BY <1>2, StepsOn DEF SameFlags

LEMMA NextFlags ==
  ASSUME AnimationInv, NEW ops \in SUBSET Plain, Executes(ops), NEW s, SameFlags(s), s.pc = call.next.pc
  PROVE  SameFlags(NextPc(s))
<1>1. Cursor.op \in ops /\ (Cursor.op # "end" => call.next.pc + 1 \in DOMAIN script) BY Executing
<1>2. s.pc + 1 \in DOMAIN script BY <1>1 DEF Plain
<1> QED BY <1>2, NextPcIs DEF SameFlags

LEMMA NowFlags == ASSUME AnimationInv, NEW ops, Executes(ops) PROVE SameFlags(call.next)
BY Executing DEF SameFlags

LEMMA JumpKeeps == ASSUME AnimationInv, Jump \/ Loop \/ Branch PROVE AnimationInv'
<1>1. CASE Jump
 <2>1. Executes({"jump"}) /\ Going("running", Jumped(call.next, Target(Cursor), Cursor.words[2]))
   BY <1>1 DEF Jump
 <2>2. Cursor.op = "jump" /\ SameFlags(call.next) BY <2>1, Executing, NowFlags
 <2>3. Target(Cursor) \in DOMAIN script /\ Cursor.words[2] \in Int BY <2>1, <2>2, JumpsTyped DEF JumpWord
 <2>4. SameFlags(Jumped(call.next, Target(Cursor), Cursor.words[2])) BY <2>2, <2>3, JumpedIs DEF SameFlags
 <2>5. {"jump"} \in SUBSET Plain BY DEF Plain
 <2> QED BY <2>1, <2>4, <2>5, PlainKeeps
<1>2. CASE Loop
 <2> DEFINE left == Read(call.next, Cursor, 1) - 1
            counted == [call.next EXCEPT !.vars[Cursor.words[1]] = left]
 <2>1. Executes({"loop"})
       /\ Going("running", IF left > 0 THEN Jumped(counted, Target(Cursor), Cursor.words[3]) ELSE NextPc(counted))
   BY <1>2 DEF Loop
 <2>2. Cursor.op = "loop" /\ SameFlags(call.next) BY <2>1, Executing, NowFlags
 <2>3. Target(Cursor) \in DOMAIN script /\ Cursor.words[3] \in Int BY <2>1, <2>2, JumpsTyped DEF JumpWord
 <2>4. SameFlags(counted) /\ counted.pc = call.next.pc BY <2>2, WrittenIs DEF SameFlags
 <2> HIDE DEF counted, left
 <2>5. {"loop"} \in SUBSET Plain BY DEF Plain
 <2>6. SameFlags(Jumped(counted, Target(Cursor), Cursor.words[3])) BY <2>3, <2>4, JumpedIs DEF SameFlags
 <2>7. SameFlags(NextPc(counted)) BY <2>1, <2>4, <2>5, NextFlags
 <2> QED BY <2>1, <2>5, <2>6, <2>7, PlainKeeps
<1>3. CASE Branch
 <2> DEFINE jumps == Holds(Cursor.f, Read(call.next, Cursor, 1), Read(call.next, Cursor, 2))
 <2>1. Executes({"branch"})
       /\ Going("running", IF jumps THEN Jumped(call.next, Target(Cursor), Cursor.words[4]) ELSE NextPc(call.next))
   BY <1>3 DEF Branch
 <2> HIDE DEF jumps
 <2>2. Cursor.op = "branch" /\ SameFlags(call.next) BY <2>1, Executing, NowFlags
 <2>3. Target(Cursor) \in DOMAIN script /\ Cursor.words[4] \in Int BY <2>1, <2>2, JumpsTyped DEF JumpWord
 <2>4. SameFlags(Jumped(call.next, Target(Cursor), Cursor.words[4])) BY <2>2, <2>3, JumpedIs DEF SameFlags
 <2>5. {"branch"} \in SUBSET Plain BY DEF Plain
 <2>6. SameFlags(NextPc(call.next)) BY <2>1, <2>2, <2>5, NextFlags
 <2> QED BY <2>1, <2>4, <2>5, <2>6, PlainKeeps
<1> QED BY <1>1, <1>2, <1>3

LEMMA WaitKeeps == ASSUME AnimationInv, Wait PROVE AnimationInv'
<1> DEFINE left == IF Whole(call.next.wait) = 0 THEN At(Read(call.next, Cursor, 1))
                   ELSE Decremented(call.next.wait, call.rate, call.extra)
           done == [call.next EXCEPT !.wait = 0]
           waiting == [call.next EXCEPT !.wait = left]
<1>1. Executes({"wait"})
      /\ IF Whole(left) <= 0 THEN Going("running", NextPc(done)) ELSE Going("tail", StandStill(waiting))
  BY DEF Wait
<1>2. SameFlags(call.next) /\ IsCall(call) /\ {"wait"} \in SUBSET Plain BY <1>1, Executing, NowFlags DEF Plain
<1> HIDE DEF left
<1>3. SameFlags(done) /\ done.pc = call.next.pc /\ SameFlags(waiting) BY <1>2 DEF SameFlags, IsState, VmFields
<1> HIDE DEF done, waiting
<1>4. SameFlags(NextPc(done)) BY <1>1, <1>2, <1>3, NextFlags
<1>5. SameFlags(StandStill(waiting)) BY <1>2, <1>3, StandStillIs DEF SameFlags
<1> QED BY <1>1, <1>2, <1>4, <1>5, PlainKeeps

LEMMA ReturnKeeps == ASSUME AnimationInv, Return PROVE AnimationInv'
<1> DEFINE s == [call.next EXCEPT !.time = call.next.returnTime, !.pc = call.next.returnPc]
<1>1. Executes({"return"}) /\ Going("running", s) BY DEF Return
<1>2. SameFlags(call.next) /\ {"return"} \in SUBSET Plain BY <1>1, NowFlags DEF Plain
<1>3. SameFlags(s) BY <1>2 DEF SameFlags, IsState, VmFields
<1> QED BY <1>1, <1>2, <1>3, PlainKeeps

LEMMA ComputeKeeps == ASSUME AnimationInv, Compute \/ DrawNumber PROVE AnimationInv'
<1>1. \E ops \in SUBSET Plain : \E value : Executes(ops) /\ Going("running", Written(call.next, value))
 <2>1. CASE Compute
  <3>1. \E value : Executes({"assign", "update", "compute", "math"}) /\ Going("running", Written(call.next, value))
    BY <2>1 DEF Compute
  <3>2. {"assign", "update", "compute", "math"} \in SUBSET Plain BY DEF Plain
  <3> QED BY <3>1, <3>2
 <2>2. CASE DrawNumber
  <3>1. \E value : Executes({"draw"}) /\ Going("running", Written(call.next, value)) BY <2>2 DEF DrawNumber
  <3>2. {"draw"} \in SUBSET Plain BY DEF Plain
  <3> QED BY <3>1, <3>2
 <2> QED BY <2>1, <2>2
<1>2. PICK ops \in SUBSET Plain : \E value : Executes(ops) /\ Going("running", Written(call.next, value))
  BY <1>1
<1>3. PICK value : Executes(ops) /\ Going("running", Written(call.next, value)) BY <1>2
<1> DEFINE s == [call.next EXCEPT !.vars[Cursor.words[1]] = value]
<1>4. SameFlags(call.next) BY <1>3, NowFlags
<1>5. SameFlags(s) /\ s.pc = call.next.pc BY <1>4, WrittenIs DEF SameFlags
<1>6. Written(call.next, value) = NextPc(s) BY DEF Written
<1> HIDE DEF s
<1>7. SameFlags(NextPc(s)) BY <1>3, <1>5, NextFlags
<1> QED BY <1>3, <1>6, <1>7, PlainKeeps

----
LEMMA AnimationKept == ASSUME AnimationInv, [AnimationNext]_animationVars PROVE AnimationInv'
<1>1. CASE UNCHANGED animationVars
  BY <1>1 DEF animationVars, AnimationInv, AnimationTyped, IsState, IsCall, Verdict, AtItsStop, Underway, StandsStill,
              AtItsEnd, OnCourse, CallOnCourse, Course, Shown
<1>2. CASE (\E value \in Labels : RaiseInterrupt(value)) \/ ToggleFreeze BY <1>2, BetweenKeeps
<1>3. ASSUME NEW rate \in {Unit, Unit \div 2}, CallOnNull(rate) \/ CallOnFrozen(rate) PROVE AnimationInv'
 <2>1. rate \in {1, 2} BY DEF Unit
 <2> QED BY <1>3, <2>1, AtOnceKeeps
<1>4. CASE CallWithoutBudget BY <1>4, WithoutBudgetKeeps
<1>5. ASSUME NEW rate \in {Unit, Unit \div 2}, NEW extra \in BOOLEAN, NEW limit \in Budgets, NEW rng \in BOOLEAN,
             CallAdvance(rate, extra, limit, rng)
      PROVE  AnimationInv'
 <2>1. rate \in {1, 2} BY DEF Unit
 <2> QED BY <1>5, <2>1, AdvanceKeeps
<1>6. CASE Dispatch \/ NotDue BY <1>6, DispatchKeeps, NotDueKeeps
<1>7. CASE OutOfBudget \/ InstructionRefused BY <1>7, OutOfBudgetKeeps
<1>8. CASE EndScript \/ SetSprite \/ Jump \/ Loop \/ StopScript \/ Mark
  BY <1>8, EndKeeps, MarksKeep, JumpKeeps, StopKeeps
<1>9. CASE Wait \/ Return \/ Compute \/ DrawNumber \/ Branch
  BY <1>9, WaitKeeps, ReturnKeeps, ComputeKeeps, JumpKeeps
<1>10. CASE FrameTail BY <1>10, FrameTailKeeps
<1> QED BY <1>1, <1>2, <1>3, <1>4, <1>5, <1>6, <1>7, <1>8, <1>9, <1>10, Zenon DEF AnimationNext

\* What the invariant says of the forecasts.
LEMMA ForecastsTold == ASSUME AnimationInv PROVE CertificateKept /\ CursorKept /\ RefusedWithoutTrace
<1>1. /\ script \in Scripts /\ Loads(script) /\ IsState(vm) /\ calls \in Nat /\ promised \in Nat /\ Verdict
      /\ (promised > 0 => promised = RemainingCalls(script, vm))
      /\ (Certified(script) /\ pure => OnCourse)
      /\ (call = NoCall => drawn = kept) /\ (call # NoCall => Underway(call))
  BY DEF AnimationInv, AnimationTyped
<1>2. CertificateKept
 <2> SUFFICES ASSUME calls > 0, pure, Certified(script)
              PROVE  LET timing == Timing(script)
                     IN  /\ vm.active <=> calls <= timing.completion
                         /\ calls > 1 /\ verdict \in {"advanced", "completed"} =>
                                (verdict = "completed" <=> calls - 1 >= timing.callsAfterTemplate)
                         /\ ~vm.active => vm.sprite = timing.sprite /\ vm.visible = (~timing.hides /\ vm.sprite # -1)
   BY DEF CertificateKept
 <2> DEFINE last == LastTime(script, StopsAt(script))
 <2>1. OnCourse BY <1>1
 <2>2. StopsAt(script) \in DOMAIN script /\ DOMAIN script \subseteq Int BY <1>1, StopsThere, AnimationTexts
 <2>3. last \in Nat /\ \A j \in 1 .. StopsAt(script) : script[j].time <= last BY <1>1, <2>2, LastTimeOf
 <2>4. Timing(script).completion = last /\ Timing(script).callsAfterTemplate = IF last < 1 THEN 1 ELSE last
  <3>1. Most({last, 1}) = IF last < 1 THEN 1 ELSE last BY <2>3, MostOfTwo
  <3> QED BY <3>1 DEF Timing
 <2> HIDE DEF last
 <2>5. ASSUME vm.active PROVE calls <= last
  <3>1. script[vm.pc].time > calls - 1 /\ vm.pc <= StopsAt(script) BY <2>1, <2>5 DEF OnCourse, Course
  <3>2. vm.pc \in 1 .. StopsAt(script) /\ script[vm.pc].time \in Int
    BY <1>1, <2>2, <3>1, AnimationTexts DEF IsState
  <3>3. script[vm.pc].time <= last BY <2>3, <3>2
  <3> QED BY <1>1, <2>3, <3>1, <3>2, <3>3
 <2>6. ASSUME ~vm.active
       PROVE  calls > last /\ vm.sprite = Timing(script).sprite
              /\ vm.visible = (~Timing(script).hides /\ vm.sprite # -1)
   BY <2>1, <2>4, <2>6 DEF OnCourse
 <2>7. vm.active <=> calls <= last BY <1>1, <2>3, <2>5, <2>6
 <2>8. calls > 1 => (calls - 1 >= (IF last < 1 THEN 1 ELSE last) <=> ~ (calls <= last)) BY <1>1, <2>3
 <2> QED BY <1>1, <2>4, <2>6, <2>7, <2>8 DEF Verdict
<1>3. CursorKept BY <1>1, RemainingTyped DEF CursorKept
<1>4. RefusedWithoutTrace BY <1>1 DEF RefusedWithoutTrace, Underway
<1> QED BY <1>2, <1>3, <1>4

\* How a step ends a call.
CallEnds ==
    \/ calls' = calls /\ (call = NoCall \/ call' # NoCall)
    \/ calls' = calls /\ vm' = vm
    \/ \E rate \in {1, 2} : CallOnNull(rate) \/ CallOnFrozen(rate)
    \/ EndScript \/ FrameTail

LEMMA GoingOn ==
  ASSUME AnimationInv, call.step # "none", NEW step \in {"running", "tail"}, NEW s, Going(step, s)
  PROVE  CallEnds
<1>1. IsCall(call) BY Flying1
<1>2. call'.step = step /\ calls' = calls BY <1>1 DEF Going, IsCall
<1>3. call' # NoCall BY <1>2 DEF NoCall
<1> QED BY <1>2, <1>3 DEF CallEnds

LEMMA EndsTold == ASSUME AnimationInv, AnimationNext PROVE CallEnds
<1>1. CASE (\E value \in Labels : RaiseInterrupt(value)) \/ ToggleFreeze
  BY <1>1 DEF RaiseInterrupt, ToggleFreeze, CallEnds
<1>2. ASSUME NEW rate \in {Unit, Unit \div 2}, CallOnNull(rate) \/ CallOnFrozen(rate) PROVE CallEnds
 <2>1. rate \in {1, 2} BY DEF Unit
 <2> QED BY <1>2, <2>1 DEF CallEnds
<1>3. CASE CallWithoutBudget BY <1>3 DEF CallWithoutBudget, Refused, CallEnds
<1>4. ASSUME NEW rate, NEW extra, NEW limit, NEW rng, CallAdvance(rate, extra, limit, rng) PROVE CallEnds
  BY <1>4 DEF CallAdvance, Callable, CallEnds
<1>5. CASE OutOfBudget \/ InstructionRefused BY <1>5 DEF OutOfBudget, InstructionRefused, Refused, CallEnds
<1>6. CASE NotDue
 <2>1. call.step # "none" /\ call' = [call EXCEPT !.step = "tail"] /\ calls' = calls BY <1>6 DEF NotDue
 <2>2. call'.step = "tail" BY <2>1, Flying1 DEF IsCall
 <2> QED BY <2>1, <2>2 DEF NoCall, CallEnds
<1>7. CASE EndScript \/ FrameTail BY <1>7 DEF CallEnds
<1>8. ASSUME call.step # "none", \E step \in {"running", "tail"} : \E s : Going(step, s) PROVE CallEnds
  BY <1>8, GoingOn
<1>9. CASE Dispatch
 <2>1. call.step # "none" /\ \E step \in {"running", "tail"} : \E s : Going(step, s) BY <1>9 DEF Dispatch
 <2> QED BY <1>8, <2>1
<1>10. \A ops : Executes(ops) => call.step # "none" BY DEF Executes, InstructionDue
<1>11. CASE SetSprite \/ Jump \/ Loop \/ Mark \/ Return \/ Compute \/ DrawNumber \/ Branch
 <2>1. \E s : Going("running", s)
   BY <1>11, Zenon DEF SetSprite, Jump, Loop, Mark, Return, Compute, DrawNumber, Branch
 <2>2. \E ops : Executes(ops)
   BY <1>11, Zenon DEF SetSprite, Jump, Loop, Mark, Return, Compute, DrawNumber, Branch
 <2> QED BY <1>8, <1>10, <2>1, <2>2
<1>12. CASE StopScript
 <2>1. (\E s : Going("tail", s)) /\ \E ops : Executes(ops) BY <1>12, Zenon DEF StopScript
 <2> QED BY <1>8, <1>10, <2>1
<1>13. CASE Wait
 <2>1. \E step \in {"running", "tail"} : \E s : Going(step, s) BY <1>13 DEF Wait
 <2>2. \E ops : Executes(ops) BY <1>13, Zenon DEF Wait
 <2> QED BY <1>8, <1>10, <2>1, <2>2
<1> QED BY <1>1, <1>2, <1>3, <1>4, <1>5, <1>6, <1>7, <1>9, <1>11, <1>12, <1>13, Zenon DEF AnimationNext

LEMMA CallsTold ==
  ASSUME AnimationInv, AnimationNext
  PROVE  /\ (promised > 0 /\ calls' > calls /\ Undisturbed(IF call = NoCall THEN Unit ELSE call.rate)) =>
                (verdict' = "completed" <=> promised = 1)
         /\ StoppedScriptStands
<1>1. /\ script \in Scripts /\ Loads(script) /\ IsState(vm) /\ calls \in Nat /\ promised \in Nat
      /\ (promised > 0 => promised = RemainingCalls(script, vm))
  BY DEF AnimationInv, AnimationTyped
<1>2. CASE calls' = calls /\ (call = NoCall \/ call' # NoCall) BY <1>1, <1>2 DEF StoppedScriptStands
<1>3. CASE calls' = calls /\ vm' = vm
 <2>1. vm.stopped => vm'.stopped /\ vm'.pc = vm.pc /\ vm'.time = vm.time BY <1>3
 <2> QED BY <1>1, <1>3, <2>1 DEF StoppedScriptStands
<1>4. ASSUME NEW rate \in {1, 2}, CallOnNull(rate)
      PROVE  call = NoCall /\ verdict' = "completed" /\ (promised > 0 => promised = 1)
  BY <1>1, <1>4, RemainingTyped DEF CallOnNull, Answered
<1>5. ASSUME NEW rate \in {1, 2}, CallOnFrozen(rate) PROVE call = NoCall /\ vm.frozen BY <1>5 DEF CallOnFrozen
<1>6. CASE EndScript
 <2>1. Executes({"end", "hide", "keep"}) /\ verdict' = "completed" BY <1>6 DEF EndScript, Answered
 <2>2. ~ (promised > 1) /\ ~ (vm.stopped /\ vm.pending = 0) BY <2>1, Executing, DueIsLast
 <2>3. promised > 0 => promised = 1 BY <1>1, <2>2
 <2> QED BY <2>1, <2>2, <2>3 DEF StoppedScriptStands
<1>7. CASE FrameTail
 <2>1. /\ call.step = "tail" /\ call.step # "none" /\ verdict' = "advanced"
       /\ vm' = [call.next EXCEPT !.time = call.next.time + call.rate]
   BY <1>7 DEF FrameTail, Answered
 <2>2. /\ IsState(call.next) /\ IsCall(call) /\ (promised > 0 => AtItsEnd(call))
       /\ (vm.stopped /\ vm.pending = 0 => StandsStill(call))
   BY <2>1, Flying1
 <2>3. vm'.time = call.next.time + call.rate /\ vm'.pc = call.next.pc /\ vm'.stopped = call.next.stopped
   BY <2>1, <2>2 DEF IsState, VmFields
 <2>4. promised > 0 => promised # 1 BY <1>1, <2>1, <2>2 DEF AtItsEnd
 <2>5. ASSUME vm.stopped, vm.pending = 0
       PROVE  /\ vm'.stopped /\ vm'.pc = vm.pc
              /\ (~call.extra /\ Whole(vm.time) >= script[vm.pc].time) => vm'.time = vm.time
  <3>1. /\ call.next.stopped /\ call.next.pc = vm.pc
        /\ \/ call.next.time = vm.time /\ script[vm.pc].time > Whole(vm.time)
           \/ call.next.time = Decremented(vm.time, call.rate, call.extra)
    BY <2>1, <2>2, <2>5 DEF StandsStill
  <3>2. script[vm.pc].time \in Int /\ Whole(vm.time) \in Int /\ vm.time \in Int /\ call.rate \in {1, 2}
    BY <1>1, <2>2, AnimationTexts, WholeIs DEF IsState, IsCall
  <3>3. ~call.extra => Decremented(vm.time, call.rate, call.extra) = vm.time - call.rate BY DEF Decremented
  <3> QED BY <2>3, <3>1, <3>2, <3>3
 <2> QED BY <2>1, <2>4, <2>5 DEF StoppedScriptStands
<1>8. CASE \E rate \in {1, 2} : CallOnNull(rate) \/ CallOnFrozen(rate)
  BY <1>4, <1>5, <1>8 DEF StoppedScriptStands, Undisturbed
<1> QED BY <1>2, <1>3, <1>6, <1>7, <1>8, EndsTold DEF CallEnds

\* What is foreseen of an animation is what its interpreter does, for
\* every text, width and budget, whatever calls are refused on the way.
THEOREM AnimationHonest == AnimationSpec => HonestAnimation
<1>1. AnimationInit => AnimationInv BY AnimationStarts
<1>2. AnimationInv /\ [AnimationNext]_animationVars => AnimationInv' BY AnimationKept
<1>3. AnimationInv => CertificateKept /\ CursorKept /\ RefusedWithoutTrace BY ForecastsTold
<1> DEFINE Counted == (promised > 0 /\ calls' > calls /\ Undisturbed(IF call = NoCall THEN Unit ELSE call.rate)) =>
                          (verdict' = "completed" <=> promised = 1)
<1>4. AnimationInv /\ AnimationNext => Counted /\ StoppedScriptStands BY CallsTold
<1>5. CertificateKept' /\ CursorKept' /\ RefusedWithoutTrace' /\ Counted /\ StoppedScriptStands =>
          HonestTiming /\ RefusedWithoutTrace' /\ StoppedScriptStands
  BY DEF HonestTiming
<1> HIDE DEF Counted
<1> QED BY <1>1, <1>2, <1>3, <1>4, <1>5, PTL DEF AnimationSpec, HonestAnimation

----
\* The reference planner and the runs of the synthetic scenarios.

\* A non-empty set of naturals has a least element.
Below1 == {pair \in Nat \X Nat : pair[1] < pair[2]}

LEMMA LeastElement ==
  ASSUME NEW S, S \subseteq Nat, S # {}
  PROVE  \E n \in S : \A m \in S : n <= m
<1>1. IsWellFoundedOn(Below1, Nat) BY NatLessThanWellFounded, Zenon DEF Below1, OpToRel
<1>2. PICK n \in S : \A m \in S : ~ (<<m, n>> \in Below1) BY <1>1, WFMin
<1>3. ASSUME NEW m \in S PROVE n <= m
 <2>1. m \in Nat /\ n \in Nat /\ <<m, n>> \in Nat \X Nat OBVIOUS
 <2>2. ~ (m < n) BY <1>2, <2>1 DEF Below1
 <2> QED BY <2>1, <2>2
<1> QED BY <1>3

----
\* Counting up to n, and functions defined along the way.
LEMMA CountUp ==
  ASSUME NEW n \in Nat, NEW S, 0 \in S, \A k \in 0 .. n - 1 : k \in S => k + 1 \in S
  PROVE  \A k \in 0 .. n : k \in S
<1> DEFINE Out == {k \in 0 .. n : k \notin S}
<1>1. ASSUME Out # {} PROVE FALSE
 <2>1. PICK k \in Out : \A j \in Out : k <= j
  <3>1. Out \subseteq Nat OBVIOUS
  <3> QED BY <1>1, <3>1, LeastElement
 <2>2. k \in 0 .. n /\ k # 0 /\ k - 1 \in 0 .. n - 1 /\ k - 1 \in 0 .. n /\ (k - 1) + 1 = k BY <2>1
 <2>3. k - 1 \notin Out BY <2>1, <2>2
 <2> QED BY <2>1, <2>2, <2>3
<1> QED BY <1>1

Stepper(step, n, V) == step \in [(1 .. n) \X V -> V]
Follows(f, base, step, n, V) ==
    f \in [0 .. n -> V] /\ f[0] = base /\ \A k \in 1 .. n : f[k] = step[<<k, f[k - 1]>>]

LEMMA Recursion ==
  ASSUME NEW n \in Nat, NEW V, NEW base \in V, NEW step, Stepper(step, n, V)
  PROVE  \E f : Follows(f, base, step, n, V)
<1> USE DEF Stepper
<1> DEFINE Agrees(m, f) == f[0] = base /\ \A k \in 1 .. m : f[k] = step[<<k, f[k - 1]>>]
           S == {m \in 0 .. n : \E f \in [0 .. m -> V] : Agrees(m, f)}
<1>1. 0 \in S
 <2> DEFINE e == [k \in 0 .. 0 |-> base]
 <2>1. Agrees(0, e) /\ e \in [0 .. 0 -> V] OBVIOUS
 <2> HIDE DEF e, Agrees
 <2> QED BY <2>1
<1>2. ASSUME NEW m \in 0 .. n - 1, m \in S PROVE m + 1 \in S
 <2>1. PICK f \in [0 .. m -> V] : Agrees(m, f) BY <1>2
 <2> DEFINE g == [k \in 0 .. m + 1 |-> IF k = m + 1 THEN step[<<m + 1, f[m]>>] ELSE f[k]]
 <2>2. step[<<m + 1, f[m]>>] \in V OBVIOUS
 <2>3. g \in [0 .. m + 1 -> V] BY <2>2
 <2>4. \A k \in 1 .. m + 1 : g[k] = step[<<k, g[k - 1]>>]
  <3> TAKE k \in 1 .. m + 1
  <3>1. CASE k = m + 1
   <4>1. k - 1 = m /\ m \in 0 .. m + 1 /\ m # m + 1 BY <3>1
   <4>2. g[m] = f[m] /\ g[m + 1] = step[<<m + 1, f[m]>>] BY <4>1
   <4> QED BY <3>1, <4>1, <4>2
  <3>2. CASE k # m + 1
   <4>1. k \in 1 .. m /\ k - 1 \in 0 .. m /\ k - 1 # m + 1 /\ k \in 0 .. m + 1 /\ k - 1 \in 0 .. m + 1 BY <3>2
   <4>2. g[k] = f[k] /\ g[k - 1] = f[k - 1] BY <3>2, <4>1
   <4> QED BY <2>1, <4>1, <4>2
  <3> QED BY <3>1, <3>2
 <2>5. g[0] = f[0] OBVIOUS
 <2>6. Agrees(m + 1, g) BY <2>1, <2>4, <2>5
 <2> HIDE DEF g, Agrees
 <2> QED BY <2>3, <2>6
<1> HIDE DEF S
<1>3. \A m \in 0 .. n : m \in S BY <1>1, <1>2, CountUp
<1>4. n \in S BY <1>3
<1>5. PICK f \in [0 .. n -> V] : Agrees(n, f) BY <1>4 DEF S
<1>6. Follows(f, base, step, n, V) BY <1>5 DEF Follows
<1> HIDE DEF Agrees
<1> QED BY <1>6

LEMMA MinOf ==
  ASSUME NEW S, S \subseteq Nat, S # {}
  PROVE  Min(S) \in S /\ \A k \in S : Min(S) <= k
<1> DEFINE Bottom(y) == y \in S /\ \A z \in S : y <= z
<1>1. PICK n \in S : \A m \in S : n <= m BY LeastElement
<1>2. Min(S) = CHOOSE y \in S : \A z \in S : y <= z BY DEF Min
<1>3. Bottom(CHOOSE y : Bottom(y))
 <2>1. Bottom(n) BY <1>1
 <2> HIDE DEF Bottom
 <2> QED BY <2>1, Zenon
<1>4. Min(S) = CHOOSE y : Bottom(y) BY <1>2
<1>5. Bottom(Min(S)) BY <1>3, <1>4
<1> QED BY <1>5

----
\* In a finite set with a strict order every place is taken.
Orders(R, S) ==
    /\ \A g \in S : <<g, g>> \notin R
    /\ \A g, h \in S : g # h => <<g, h>> \in R \/ <<h, g>> \in R
    /\ \A f, g, h \in S : <<f, g>> \in R /\ <<g, h>> \in R => <<f, h>> \in R

LEMMA PlacesTaken ==
  ASSUME NEW S, IsFiniteSet(S), NEW R, Orders(R, S), NEW place,
         place = [g \in S |-> 1 + Cardinality({h \in S : <<h, g>> \in R})]
  PROVE  \A i \in 1 .. Cardinality(S) : \E g \in S : place[g] = i
<1> DEFINE Before1(g) == {h \in S : <<h, g>> \in R}
           n == Cardinality(S)
<1>1. n \in Nat BY FS_CardinalityType
<1>2. ASSUME NEW g \in S PROVE IsFiniteSet(Before1(g)) /\ Cardinality(Before1(g)) \in Nat /\ Cardinality(Before1(g)) < n
 <2>1. Before1(g) \in SUBSET S /\ g \notin Before1(g) /\ Before1(g) # S BY DEF Orders
 <2> HIDE DEF Before1
 <2>2. IsFiniteSet(Before1(g)) /\ Cardinality(Before1(g)) <= n /\ Cardinality(Before1(g)) # n BY <2>1, FS_Subset
 <2>3. Cardinality(Before1(g)) \in Nat BY <2>2, FS_CardinalityType
 <2> QED BY <1>1, <2>2, <2>3
<1>3. ASSUME NEW g \in S, NEW h \in S, <<g, h>> \in R PROVE Cardinality(Before1(g)) < Cardinality(Before1(h))
 <2>1. Before1(g) \in SUBSET Before1(h) /\ g \in Before1(h) /\ g \notin Before1(g) BY <1>3 DEF Orders
 <2>2. /\ IsFiniteSet(Before1(h)) /\ Cardinality(Before1(h)) \in Nat /\ Cardinality(Before1(g)) \in Nat BY <1>2
 <2>3. Before1(g) # Before1(h) BY <2>1
 <2> HIDE DEF Before1
 <2>4. Cardinality(Before1(g)) <= Cardinality(Before1(h)) /\ Cardinality(Before1(h)) # Cardinality(Before1(g))
   BY <2>1, <2>2, <2>3, FS_Subset
 <2> QED BY <2>2, <2>4
<1>4. \A g \in S : place[g] = 1 + Cardinality(Before1(g)) OBVIOUS
<1>5. place \in [S -> 1 .. n]
 <2>1. \A g \in S : place[g] \in 1 .. n
  <3> HIDE DEF Before1, n
  <3> QED BY <1>1, <1>2, <1>4
 <2>2. place = [g \in S |-> place[g]] OBVIOUS
 <2> QED BY <2>1, <2>2
<1>6. ASSUME NEW g \in S, NEW h \in S, place[g] = place[h] PROVE g = h
 <2>1. Cardinality(Before1(g)) \in Nat /\ Cardinality(Before1(h)) \in Nat BY <1>2
 <2>2. Cardinality(Before1(g)) = Cardinality(Before1(h))
  <3>1. place[g] = 1 + Cardinality(Before1(g)) /\ place[h] = 1 + Cardinality(Before1(h)) BY <1>4
  <3> HIDE DEF Before1
  <3> QED BY <1>6, <2>1, <3>1
 <2>3. ASSUME g # h PROVE FALSE
  <3>1. <<g, h>> \in R \/ <<h, g>> \in R BY <2>3 DEF Orders
  <3>2. Cardinality(Before1(g)) < Cardinality(Before1(h)) \/ Cardinality(Before1(h)) < Cardinality(Before1(g))
    BY <1>3, <3>1
  <3> HIDE DEF Before1
  <3> QED BY <2>1, <2>2, <3>2
 <2> QED BY <2>3
<1>7. place \in Injection(S, 1 .. n) BY <1>5, <1>6 DEF Injection, IsInjective
<1>8. IsFiniteSet(1 .. n) /\ Cardinality(1 .. n) = n
 <2>1. 1 \in Int /\ n \in Int /\ (~(1 > n) \/ n = 0) BY <1>1
 <2>2. n \in Int /\ 1 \in Int BY <1>1
 <2>3. IsFiniteSet(1 .. n) /\ Cardinality(1 .. n) = IF 1 > n THEN 0 ELSE n - 1 + 1 BY <2>2, FS_Interval
 <2> HIDE DEF n
 <2> QED BY <1>1, <2>1, <2>3
<1>9. place \in Surjection(S, 1 .. n)
 <2> HIDE DEF n
 <2> QED BY <1>7, <1>8, FS_Injection DEF n
<1> QED BY <1>9 DEF Surjection

----
\* One layer of the search: every node follows from one of the layer
\* before by an action, onto a position that is free.
NodeSet == [p : Positions, parent : Nat, action : Actions, score : Int]
Child(n, layer) == n.parent \in DOMAIN layer /\ n.p = Advance(layer[n.parent].p, n.action)
Apart(nodes) == \A g, h \in nodes : g.parent = h.parent /\ g.action = h.action => g = h

LEMMA AdvanceStays == ASSUME NEW p \in Positions, NEW a \in Actions PROVE Advance(p, a) \in Positions
  BY BeamPlanAssumption DEF Positions, Actions, Advance, Clamp

LEMMA DistanceCounts == ASSUME NEW p \in Positions, NEW q \in Int \X Int PROVE Distance(p, q) \in Int
<1>1. p[1] \in Int /\ p[2] \in Int /\ q[1] \in Int /\ q[2] \in Int BY BeamPlanAssumption DEF Positions
<1>2. \A m \in Int, n \in Int : (m - n) * (m - n) \in Int OBVIOUS
<1> QED BY <1>1, <1>2 DEF Distance

LEMMA ActionsFinite == IsFiniteSet(Actions)
<1>1. -1 \in Int /\ 1 \in Int OBVIOUS
<1>2. IsFiniteSet(-1 .. 1) BY <1>1, FS_Interval
<1> QED BY <1>2, FS_Product DEF Actions

LEMMA PositionsCount == IsFiniteSet(Positions) /\ Cardinality(Positions) = Columns * Rows
<1>1. 1 \in Int /\ Columns \in Int /\ Rows \in Int /\ ~(1 > Columns) /\ ~(1 > Rows) BY BeamPlanAssumption
<1>2. IsFiniteSet(1 .. Columns) /\ Cardinality(1 .. Columns) = Columns BY <1>1, FS_Interval
<1>3. IsFiniteSet(1 .. Rows) /\ Cardinality(1 .. Rows) = Rows BY <1>1, FS_Interval
<1> DEFINE C == 1 .. Columns
           R == 1 .. Rows
<1>4. IsFiniteSet(C) /\ IsFiniteSet(R) /\ Cardinality(C) = Columns /\ Cardinality(R) = Rows /\ Positions = C \X R
  BY <1>2, <1>3 DEF Positions
<1> HIDE DEF C, R
<1>5. IsFiniteSet(C \X R) /\ Cardinality(C \X R) = Cardinality(C) * Cardinality(R) BY <1>4, FS_Product
<1> QED BY <1>4, <1>5

LEMMA SuccessorsAre ==
  ASSUME NEW layer \in Seq(NodeSet), NEW goal \in Int \X Int
  PROVE  /\ Successors(layer, goal) \subseteq NodeSet /\ IsFiniteSet(Successors(layer, goal)) /\ Apart(Successors(layer, goal))
         /\ \A n \in Successors(layer, goal) : Child(n, layer)
         /\ \A i \in DOMAIN layer, a \in Actions : \E n \in Successors(layer, goal) : n.p = Advance(layer[i].p, a)
<1> DEFINE made(i, a) == [p |-> Advance(layer[i].p, a), parent |-> i, action |-> a,
                          score |-> Distance(Advance(layer[i].p, a), goal)]
           nodes == Successors(layer, goal)
<1>1. \A g \in nodes : \E i \in DOMAIN layer, a \in Actions : g = made(i, a) BY DEF Successors
<1>2. \A i \in DOMAIN layer, a \in Actions : made(i, a) \in nodes BY DEF Successors
<1>3. ASSUME NEW i \in DOMAIN layer, NEW a \in Actions
      PROVE  /\ made(i, a) \in NodeSet /\ Child(made(i, a), layer)
             /\ made(i, a).parent = i /\ made(i, a).action = a /\ made(i, a).p = Advance(layer[i].p, a)
 <2>1. layer[i] \in NodeSet /\ i \in Nat OBVIOUS
 <2>2. Advance(layer[i].p, a) \in Positions BY <2>1, AdvanceStays DEF NodeSet
 <2>3. Distance(Advance(layer[i].p, a), goal) \in Int BY <2>2, DistanceCounts
 <2> QED BY <2>1, <2>2, <2>3 DEF NodeSet, Child
<1> HIDE DEF nodes, made
<1>4. nodes \subseteq NodeSet /\ \A g \in nodes : Child(g, layer) BY <1>1, <1>3
<1>5. Apart(nodes)
 <2>1. ASSUME NEW g \in nodes, NEW h \in nodes, g.parent = h.parent, g.action = h.action PROVE g = h
  <3>1. PICK i \in DOMAIN layer, a \in Actions : g = made(i, a) BY <1>1
  <3>2. PICK j \in DOMAIN layer, b \in Actions : h = made(j, b) BY <1>1
  <3>3. i = j /\ a = b BY <1>3, <2>1, <3>1, <3>2
  <3> QED BY <3>1, <3>2, <3>3
 <2> QED BY <2>1 DEF Apart
<1>6. \A i \in DOMAIN layer, a \in Actions : \E n \in nodes : n.p = Advance(layer[i].p, a) BY <1>2, <1>3
<1>7. IsFiniteSet(nodes)
 <2> DEFINE D == (DOMAIN layer) \X Actions
            key == [g \in nodes |-> <<g.parent, g.action>>]
 <2>1. \A g \in nodes : <<g.parent, g.action>> \in D BY <1>4 DEF Child, NodeSet
 <2>2. key \in Injection(nodes, D)
  <3> HIDE DEF D
  <3>1. key \in [nodes -> D] BY <2>1
  <3>2. \A a, b \in nodes : key[a] = key[b] => a = b BY <1>5 DEF Apart
  <3> QED BY <3>1, <3>2 DEF Injection, IsInjective
 <2>3. IsFiniteSet(D)
  <3>1. DOMAIN layer = 1 .. Len(layer) /\ Len(layer) \in Int /\ 1 \in Int OBVIOUS
  <3>2. IsFiniteSet(DOMAIN layer) BY <3>1, FS_Interval
  <3> QED BY <3>2, ActionsFinite, FS_Product
 <2> HIDE DEF key, D
 <2> QED BY <2>2, <2>3, FS_Injection
<1> QED BY <1>4, <1>5, <1>6, <1>7 DEF nodes

\* The rank orders the nodes of a layer.
Outranks(g, h) ==
    \/ g.score < h.score
    \/ g.score = h.score /\ g.parent < h.parent
    \/ g.score = h.score /\ g.parent = h.parent /\ g.action[2] < h.action[2]
    \/ g.score = h.score /\ g.parent = h.parent /\ g.action[2] = h.action[2] /\ g.action[1] < h.action[1]

LEMMA RankIs == ASSUME NEW g, NEW h PROVE Before(g, h) <=> Outranks(g, h)
<1> DEFINE u == RankOf(g)
           v == RankOf(h)
<1>1. /\ u[1] = g.score /\ u[2] = g.parent /\ u[3] = g.action[2] /\ u[4] = g.action[1]
      /\ v[1] = h.score /\ v[2] = h.parent /\ v[3] = h.action[2] /\ v[4] = h.action[1]
  BY DEF RankOf
<1> HIDE DEF u, v
<1>2. Before(g, h) <=> \E k \in {1, 2, 3, 4} : u[k] < v[k] /\ \A i \in 1 .. k - 1 : u[i] = v[i]
 <2>1. 1 .. 4 = {1, 2, 3, 4} OBVIOUS
 <2> QED BY <2>1 DEF Before, u, v
<1>3. (\A i \in 1 .. 1 - 1 : u[i] = v[i]) <=> TRUE OBVIOUS
<1>4. (\A i \in 1 .. 2 - 1 : u[i] = v[i]) <=> u[1] = v[1]
 <2>1. 1 .. 2 - 1 = {1} OBVIOUS
 <2> QED BY <2>1
<1>5. (\A i \in 1 .. 3 - 1 : u[i] = v[i]) <=> u[1] = v[1] /\ u[2] = v[2]
 <2>1. 1 .. 3 - 1 = {1, 2} OBVIOUS
 <2> QED BY <2>1
<1>6. (\A i \in 1 .. 4 - 1 : u[i] = v[i]) <=> u[1] = v[1] /\ u[2] = v[2] /\ u[3] = v[3]
 <2>1. 1 .. 4 - 1 = {1, 2, 3} OBVIOUS
 <2> QED BY <2>1
<1>7. Before(g, h) <=> \/ u[1] < v[1]
                       \/ u[2] < v[2] /\ u[1] = v[1]
                       \/ u[3] < v[3] /\ u[1] = v[1] /\ u[2] = v[2]
                       \/ u[4] < v[4] /\ u[1] = v[1] /\ u[2] = v[2] /\ u[3] = v[3]
  BY <1>2, <1>3, <1>4, <1>5, <1>6
<1> QED BY <1>1, <1>7 DEF Outranks

LEMMA RankOrders ==
  ASSUME NEW S, S \subseteq NodeSet, Apart(S)
  PROVE  Orders({q \in S \X S : Before(q[1], q[2])}, S)
<1> DEFINE R == {q \in S \X S : Before(q[1], q[2])}
<1>1. \A g, h \in S : <<g, h>> \in R <=> Outranks(g, h) BY RankIs
<1>2. \A g \in S : g.score \in Int /\ g.parent \in Nat /\ g.action \in Actions /\ g.action[1] \in Int /\ g.action[2] \in Int
  BY DEF NodeSet, Actions
<1>3. \A g \in S : ~Outranks(g, g) BY <1>2 DEF Outranks
<1>4. ASSUME NEW g \in S, NEW h \in S, g # h PROVE Outranks(g, h) \/ Outranks(h, g)
 <2>1. g.parent # h.parent \/ g.action # h.action BY <1>4 DEF Apart
 <2>2. g.action[1] = h.action[1] /\ g.action[2] = h.action[2] => g.action = h.action BY <1>2 DEF Actions
 <2> QED BY <1>2, <2>1, <2>2 DEF Outranks
<1>5. ASSUME NEW f \in S, NEW g \in S, NEW h \in S, Outranks(f, g), Outranks(g, h) PROVE Outranks(f, h)
  BY <1>2, <1>5 DEF Outranks
<1> HIDE DEF R
<1> QED BY <1>1, <1>3, <1>4, <1>5 DEF Orders, R

\* One node of every position is left, and it is one of the nodes.
LEMMA DeduplicatedAre ==
  ASSUME NEW S, S \subseteq NodeSet, IsFiniteSet(S), Apart(S)
  PROVE  /\ Deduplicated(S) \subseteq S /\ IsFiniteSet(Deduplicated(S)) /\ Cardinality(Deduplicated(S)) <= Columns * Rows
         /\ \A g \in S : \E n \in Deduplicated(S) : n.p = g.p
<1> DEFINE D == Deduplicated(S)
<1>1. D \subseteq S /\ IsFiniteSet(D)
 <2>1. D \subseteq S BY DEF Deduplicated
 <2> HIDE DEF D
 <2> QED BY <2>1, FS_Subset
<1>2. \A n \in S : n \in D <=> \A m \in S : m.p = n.p => m = n \/ Before(n, m) BY DEF Deduplicated
<1> DEFINE R == {q \in S \X S : Before(q[1], q[2])}
<1>3. Orders(R, S) /\ \A g, h \in S : <<g, h>> \in R <=> Before(g, h) BY RankOrders
<1> HIDE DEF R, D
<1>4. Cardinality(D) <= Columns * Rows
 <2> DEFINE place == [n \in D |-> n.p]
 <2>1. place \in Injection(D, Positions)
  <3>1. place \in [D -> Positions] BY <1>1 DEF NodeSet
  <3>2. ASSUME NEW g \in D, NEW h \in D, place[g] = place[h] PROVE g = h
   <4>1. g \in S /\ h \in S /\ g.p = h.p BY <1>1, <3>2
   <4>2. (h = g \/ Before(g, h)) /\ (g = h \/ Before(h, g)) BY <1>2, <4>1
   <4>3. ~(Before(g, h) /\ Before(h, g)) BY <1>3, <4>1 DEF Orders
   <4> QED BY <4>2, <4>3
  <3> HIDE DEF place
  <3> QED BY <3>1, <3>2 DEF Injection, IsInjective
 <2> HIDE DEF place
 <2> QED BY <2>1, PositionsCount, FS_Injection
<1>5. ASSUME NEW g \in S PROVE \E n \in D : n.p = g.p
 <2> DEFINE T == {m \in S : m.p = g.p}
            rank == [n \in T |-> 1 + Cardinality({m \in T : <<m, n>> \in R})]
 <2>1. T \subseteq S /\ g \in T OBVIOUS
 <2>2. IsFiniteSet(T) /\ Cardinality(T) \in Nat /\ Cardinality(T) # 0
  <3>1. IsFiniteSet(T) BY <2>1, FS_Subset
  <3>2. Cardinality(T) \in Nat BY <3>1, FS_CardinalityType
  <3>3. Cardinality(T) = 0 => T = {} BY <3>1, FS_EmptySet
  <3> QED BY <2>1, <3>1, <3>2, <3>3
 <2>3. Orders(R, T) BY <1>3, <2>1 DEF Orders
 <2> HIDE DEF T
 <2>14. rank = [n \in T |-> 1 + Cardinality({m \in T : <<m, n>> \in R})] OBVIOUS
 <2> HIDE DEF rank
 <2>4. \A i \in 1 .. Cardinality(T) : \E n \in T : rank[n] = i BY <2>2, <2>3, <2>14, PlacesTaken
 <2>5. PICK n \in T : rank[n] = 1
  <3>1. 1 \in 1 .. Cardinality(T) BY <2>2
  <3> QED BY <2>4, <3>1
 <2> DEFINE before == {m \in T : <<m, n>> \in R}
 <2>6. before \in SUBSET T OBVIOUS
 <2>7. 1 + Cardinality(before) = 1 BY <2>5, <2>14
 <2> HIDE DEF before
 <2>8. IsFiniteSet(before) /\ Cardinality(before) \in Nat BY <2>2, <2>6, FS_Subset, FS_CardinalityType
 <2>9. before = {}
  <3>1. Cardinality(before) = 0 BY <2>7, <2>8
  <3> QED BY <2>8, <3>1, FS_EmptySet
 <2>10. \A m \in T : m = n \/ <<n, m>> \in R BY <2>3, <2>9 DEF Orders, before
 <2>11. n \in S /\ n.p = g.p /\ \A m \in S : m.p = n.p => m \in T BY <2>1 DEF T
 <2>12. \A m \in S : m.p = n.p => m = n \/ Before(n, m) BY <1>3, <2>10, <2>11
 <2> QED BY <1>2, <2>11, <2>12
<1> QED BY <1>1, <1>4, <1>5 DEF D

\* The best of a layer: no more than the beam, and all if there is room.
LEMMA BestAre ==
  ASSUME NEW S, S \subseteq NodeSet, IsFiniteSet(S), Apart(S), NEW beam \in Nat
  PROVE  /\ Best(S, beam) \in Seq(S) /\ Len(Best(S, beam)) <= beam
         /\ Cardinality(S) <= beam => \A g \in S : \E i \in DOMAIN Best(S, beam) : Best(S, beam)[i] = g
<1> DEFINE R == {q \in S \X S : Before(q[1], q[2])}
           place == [n \in S |-> 1 + Cardinality({m \in S : Before(m, n)})]
           k == Cardinality(S)
           count == Min({beam, k})
           best == [i \in 1 .. count |-> CHOOSE n \in S : place[n] = i]
<1>1. k \in Nat BY FS_CardinalityType
<1>2. count \in Nat /\ count <= k /\ count <= beam /\ (k <= beam => count = k) BY <1>1 DEF Min
<1>3. place = [n \in S |-> 1 + Cardinality({m \in S : <<m, n>> \in R})]
 <2>1. \A n \in S : {m \in S : Before(m, n)} = {m \in S : <<m, n>> \in R} OBVIOUS
 <2> QED BY <2>1
<1>4. Orders(R, S) BY RankOrders
<1>5. Best(S, beam) = best BY DEF Best, Ranked
<1> HIDE DEF R, place
<1>6. \A i \in 1 .. k : \E n \in S : place[n] = i BY <1>3, <1>4, PlacesTaken
<1>7. \A i \in 1 .. count : best[i] \in S /\ place[best[i]] = i
 <2> TAKE i \in 1 .. count
 <2>1. \E n \in S : place[n] = i
  <3>1. i \in 1 .. k BY <1>1, <1>2
  <3> HIDE DEF k
  <3> QED BY <1>6, <3>1
 <2> QED BY <2>1
<1>8. best \in [1 .. count -> S] BY <1>7
<1> HIDE DEF best, count
<1>9. best \in Seq(S) /\ Len(best) = count /\ DOMAIN best = 1 .. count BY <1>2, <1>8
<1>10. ASSUME k <= beam PROVE \A g \in S : \E i \in DOMAIN best : best[i] = g
 <2>1. best \in Injection(1 .. k, S)
  <3>1. best \in [1 .. k -> S] BY <1>2, <1>8, <1>10
  <3>2. \A i, j \in 1 .. k : best[i] = best[j] => i = j BY <1>2, <1>7, <1>10
  <3> QED BY <3>1, <3>2 DEF Injection, IsInjective
 <2>2. IsFiniteSet(1 .. k) /\ Cardinality(1 .. k) = k
  <3>1. 1 \in Int /\ k \in Int /\ (1 > k => k = 0) BY <1>1
  <3> HIDE DEF k
  <3>2. IsFiniteSet(1 .. k) /\ Cardinality(1 .. k) = IF 1 > k THEN 0 ELSE k - 1 + 1 BY <3>1, FS_Interval
  <3> QED BY <1>1, <3>1, <3>2
 <2> HIDE DEF k
 <2>3. best \in Surjection(1 .. k, S) BY <2>1, <2>2, FS_Injection DEF k
 <2> QED BY <1>2, <1>9, <1>10, <2>3 DEF Surjection
<1> QED BY <1>2, <1>5, <1>9, <1>10

\* What one layer makes of the one before: free positions its nodes lead
\* to, and if the beam has room every one of them.
Grows(cur, next, blocked, beam) ==
    /\ next \in Seq(NodeSet) /\ Len(next) <= beam
    /\ \A i \in DOMAIN next : Child(next[i], cur) /\ next[i].p \notin blocked
    /\ beam >= Columns * Rows =>
          \A i \in DOMAIN cur, a \in Actions :
             Advance(cur[i].p, a) \notin blocked => \E j \in DOMAIN next : next[j].p = Advance(cur[i].p, a)

LEMMA NextLayerGrows ==
  ASSUME NEW cur \in Seq(NodeSet), NEW blocked, NEW goal \in Int \X Int, NEW beam \in Nat
  PROVE  Grows(cur, NextLayer(cur, blocked, goal, beam), blocked, beam)
<1> DEFINE All == Successors(cur, goal)
           Open == Free(cur, blocked, goal)
           D == Deduplicated(Open)
           next == Best(D, beam)
<1>1. /\ All \subseteq NodeSet /\ IsFiniteSet(All) /\ Apart(All)
      /\ \A n \in All : Child(n, cur)
      /\ \A i \in DOMAIN cur, a \in Actions : \E n \in All : n.p = Advance(cur[i].p, a)
  BY SuccessorsAre
<1>2. Open \subseteq All /\ \A n \in All : n \in Open <=> n.p \notin blocked BY DEF Free
<1>3. NextLayer(cur, blocked, goal, beam) = next BY DEF NextLayer
<1> HIDE DEF All, Open
<1>4. Open \subseteq NodeSet /\ IsFiniteSet(Open) /\ Apart(Open) BY <1>1, <1>2, FS_Subset DEF Apart
<1>5. /\ D \subseteq Open /\ IsFiniteSet(D) /\ Cardinality(D) <= Columns * Rows
      /\ \A g \in Open : \E n \in D : n.p = g.p
  BY <1>4, DeduplicatedAre
<1> HIDE DEF D
<1>6. D \subseteq NodeSet /\ Apart(D) BY <1>4, <1>5 DEF Apart
<1>7. /\ next \in Seq(D) /\ Len(next) <= beam
      /\ Cardinality(D) <= beam => \A g \in D : \E i \in DOMAIN next : next[i] = g
 <2>1. D \subseteq NodeSet /\ IsFiniteSet(D) /\ Apart(D) /\ next = Best(D, beam) BY <1>5, <1>6
 <2> HIDE DEF next
 <2> QED BY <2>1, BestAre
<1> HIDE DEF next
<1>8. \A i \in DOMAIN next : next[i] \in D BY <1>7
<1>9. next \in Seq(NodeSet) BY <1>6, <1>7
<1>10. \A i \in DOMAIN next : Child(next[i], cur) /\ next[i].p \notin blocked BY <1>1, <1>2, <1>5, <1>8
<1>11. ASSUME beam >= Columns * Rows, NEW i \in DOMAIN cur, NEW a \in Actions, Advance(cur[i].p, a) \notin blocked
       PROVE  \E j \in DOMAIN next : next[j].p = Advance(cur[i].p, a)
 <2>1. PICK n \in All : n.p = Advance(cur[i].p, a) BY <1>1
 <2>2. n \in Open BY <1>2, <1>11, <2>1
 <2>3. PICK m \in D : m.p = n.p BY <1>5, <2>2
 <2>4. Cardinality(D) <= beam
  <3>1. Cardinality(D) \in Nat /\ Columns * Rows \in Nat BY <1>5, FS_CardinalityType, PositionsCount
  <3> QED BY <1>5, <1>11, <3>1
 <2>5. PICK j \in DOMAIN next : next[j] = m BY <1>7, <2>3, <2>4
 <2> QED BY <2>1, <2>3, <2>5
<1> QED BY <1>3, <1>7, <1>9, <1>10, <1>11 DEF Grows

----
\* The layers of a search.
Layered(L, frames, start, beam) ==
    /\ L \in Seq(Seq(NodeSet)) /\ L # << >> /\ L[1] = Root(start)
    /\ \A t \in 1 .. Len(L) - 1 : Grows(L[t], L[t + 1], frames[t], beam)
Grew(after, L, t, frames, goal, beam) == t = Len(L) /\ after = Append(L, NextLayer(L[t], frames[t], goal, beam))

LEMMA GrownStays ==
  ASSUME NEW frames, NEW start, NEW goal \in Int \X Int, NEW beam \in Nat,
         NEW L, Layered(L, frames, start, beam), NEW t, NEW after, Grew(after, L, t, frames, goal, beam)
  PROVE  Layered(after, frames, start, beam) /\ Len(after) = t + 1
<1> DEFINE next == NextLayer(L[t], frames[t], goal, beam)
           M == Append(L, next)
<1>1. L \in Seq(Seq(NodeSet)) /\ Len(L) \in Nat /\ Len(L) >= 1 /\ t = Len(L) /\ L[t] \in Seq(NodeSet) /\ after = M
 <2>1. L \in Seq(Seq(NodeSet)) /\ L # << >> /\ t = Len(L) /\ after = M BY DEF Layered, Grew
 <2>2. Len(L) \in Nat /\ Len(L) >= 1 BY <2>1
 <2> HIDE DEF M
 <2> QED BY <2>1, <2>2
<1>2. Grows(L[t], next, frames[t], beam) BY <1>1, NextLayerGrows
<1>3. next \in Seq(NodeSet) BY <1>2 DEF Grows
<1> HIDE DEF next
<1>4. M \in Seq(Seq(NodeSet)) /\ Len(M) = t + 1 /\ M[t + 1] = next /\ \A k \in 1 .. t : M[k] = L[k]
  BY <1>1, <1>3
<1> HIDE DEF M
<1>5. M # << >> /\ M[1] = L[1] BY <1>1, <1>4
<1>6. ASSUME NEW k \in 1 .. Len(M) - 1 PROVE Grows(M[k], M[k + 1], frames[k], beam)
 <2>1. k \in 1 .. t BY <1>1, <1>4
 <2>2. CASE k = t BY <1>1, <1>2, <1>4, <2>1, <2>2
 <2>3. CASE k # t
  <3>1. k \in 1 .. Len(L) - 1 /\ k + 1 \in 1 .. t BY <1>1, <2>1, <2>3
  <3>2. M[k] = L[k] /\ M[k + 1] = L[k + 1] BY <1>4, <2>1, <3>1
  <3> QED BY <3>1, <3>2 DEF Layered
 <2> QED BY <2>2, <2>3
<1> QED BY <1>1, <1>4, <1>5, <1>6 DEF Layered

LEMMA RootLayered ==
  ASSUME NEW frames, NEW start \in Positions, NEW beam
  PROVE  Layered(<< Root(start) >>, frames, start, beam) /\ Len(<< Root(start) >>) = 1
<1>1. [p |-> start, parent |-> 0, action |-> <<0, 0>>, score |-> 0] \in NodeSet BY DEF NodeSet, Actions
<1>2. Root(start) \in Seq(NodeSet) BY <1>1 DEF Root
<1> HIDE DEF Root
<1>3. << Root(start) >> \in Seq(Seq(NodeSet)) /\ Len(<< Root(start) >>) = 1 BY <1>2
<1>4. \A t \in 1 .. Len(<< Root(start) >>) - 1 : FALSE OBVIOUS
<1> QED BY <1>3, <1>4 DEF Layered

LEMMA LayersAre ==
  ASSUME NEW frames \in Seq(SUBSET Positions), NEW start \in Positions, NEW goal \in Int \X Int, NEW beam \in Nat
  PROVE  /\ Layered(Layers(frames, start, goal, beam), frames, start, beam)
         /\ Len(Layers(frames, start, goal, beam)) = Len(frames) + 1
<1> DEFINE n == Len(frames)
           base == << Root(start) >>
           Onward(L, t) == Append(L, NextLayer(L[t], frames[t], goal, beam))
           Good(L, t) == Layered(L, frames, start, beam) /\ Len(L) = t + 1
           Solves(f) == f = [t \in 0 .. n |-> IF t = 0 THEN base ELSE Onward(f[t - 1], t)]
           V == {L \in Seq(Seq(NodeSet)) : Layered(L, frames, start, beam)}
           step == [q \in (1 .. n) \X V |-> IF Len(q[2]) = q[1] THEN Onward(q[2], q[1]) ELSE q[2]]
<1>1. Good(base, 0) BY RootLayered
<1>2. ASSUME NEW t \in 1 .. n, NEW L, Layered(L, frames, start, beam), Len(L) = t PROVE Good(Onward(L, t), t)
 <2> DEFINE after == Onward(L, t)
 <2>1. Grew(after, L, t, frames, goal, beam) BY <1>2 DEF Grew
 <2> HIDE DEF after
 <2>2. Layered(after, frames, start, beam) /\ Len(after) = t + 1 BY <1>2, <2>1, GrownStays
 <2> QED BY <2>2 DEF after
<1>3. n \in Nat OBVIOUS
<1>4. base \in V BY <1>1 DEF Layered
<1>5. Stepper(step, n, V)
 <2>1. ASSUME NEW q \in (1 .. n) \X V PROVE (IF Len(q[2]) = q[1] THEN Onward(q[2], q[1]) ELSE q[2]) \in V
  <3>1. q[1] \in 1 .. n /\ q[2] \in V /\ Layered(q[2], frames, start, beam) OBVIOUS
  <3>2. CASE Len(q[2]) = q[1]
   <4>1. Layered(Onward(q[2], q[1]), frames, start, beam)
    <5> HIDE DEF Onward, n
    <5> QED BY <1>2, <3>1, <3>2
   <4>2. Onward(q[2], q[1]) \in Seq(Seq(NodeSet))
    <5> HIDE DEF Onward
    <5> QED BY <4>1 DEF Layered
   <4> HIDE DEF Onward
   <4> QED BY <3>2, <4>1, <4>2
  <3>3. CASE Len(q[2]) # q[1] BY <3>1, <3>3
  <3> QED BY <3>2, <3>3
 <2> HIDE DEF V, Onward, n
 <2> QED BY <2>1 DEF Stepper
<1> HIDE DEF step, V, n
<1>6. PICK f : Follows(f, base, step, n, V)
 <2> HIDE DEF base
 <2> QED BY <1>3, <1>4, <1>5, Recursion
<1> HIDE DEF Onward, base
<1>7. \A t \in 0 .. n : f[t] \in V /\ Len(f[t]) = t + 1
 <2> DEFINE S == {t \in 0 .. n : Len(f[t]) = t + 1}
 <2>1. 0 \in S BY <1>1, <1>3, <1>6 DEF Follows
 <2>2. ASSUME NEW t \in 0 .. n - 1, t \in S PROVE t + 1 \in S
  <3>1. t + 1 \in 1 .. n /\ (t + 1) - 1 = t /\ t + 1 \in 0 .. n /\ t \in 0 .. n BY <1>3
  <3>2. f[t + 1] = step[<<t + 1, f[t]>>] /\ f[t] \in V /\ <<t + 1, f[t]>> \in (1 .. n) \X V
    BY <1>6, <3>1 DEF Follows
  <3>3. f[t + 1] = Onward(f[t], t + 1) /\ Layered(f[t], frames, start, beam) /\ Len(f[t]) = t + 1
    BY <2>2, <3>2 DEF step, V
  <3>4. Len(Onward(f[t], t + 1)) = (t + 1) + 1 BY <1>2, <3>1, <3>3
  <3> QED BY <3>1, <3>3, <3>4
 <2> HIDE DEF S
 <2>3. \A t \in 0 .. n : t \in S BY <1>3, <2>1, <2>2, CountUp
 <2> QED BY <1>6, <2>3 DEF S, Follows
<1>8. Solves(f)
 <2>1. f = [t \in 0 .. n |-> f[t]] /\ f[0] = base BY <1>6 DEF Follows
 <2>2. ASSUME NEW t \in 1 .. n PROVE f[t] = Onward(f[t - 1], t)
  <3>1. t - 1 \in 0 .. n /\ (t - 1) + 1 = t BY <1>3
  <3>2. f[t - 1] \in V /\ Len(f[t - 1]) = t BY <1>7, <3>1
  <3>3. f[t] = step[<<t, f[t - 1]>>] /\ <<t, f[t - 1]>> \in (1 .. n) \X V BY <1>6, <3>2 DEF Follows
  <3> QED BY <3>2, <3>3 DEF step
 <2>3. ASSUME NEW t \in 0 .. n PROVE f[t] = IF t = 0 THEN base ELSE Onward(f[t - 1], t)
  <3>1. CASE t = 0 BY <2>1, <3>1
  <3>2. CASE t # 0
   <4>1. t \in 1 .. n BY <1>3, <3>2
   <4>2. f[t] = Onward(f[t - 1], t) BY <2>2, <4>1
   <4> QED BY <3>2, <4>2, Zenon
  <3> QED BY <3>1, <3>2
 <2> QED BY <2>1, <2>3
<1>9. Layers(frames, start, goal, beam) = (CHOOSE g : Solves(g))[n] BY DEF Layers, Onward, base, n
<1> DEFINE g == CHOOSE h : Solves(h)
<1> HIDE DEF Solves
<1>10. Solves(g) BY <1>8, Zenon
<1> HIDE DEF g
<1>11. g[0] = base /\ \A t \in 1 .. n : g[t] = Onward(g[t - 1], t) BY <1>3, <1>10 DEF Solves
<1> DEFINE T == {t \in 0 .. n : Good(g[t], t)}
<1>12. 0 \in T BY <1>1, <1>3, <1>11
<1>13. ASSUME NEW t \in 0 .. n - 1, t \in T PROVE t + 1 \in T
 <2>1. t + 1 \in 1 .. n /\ (t + 1) - 1 = t /\ t + 1 \in 0 .. n BY <1>3
 <2>2. g[t + 1] = Onward(g[t], t + 1) BY <1>11, <2>1
 <2> QED BY <1>2, <1>13, <2>1, <2>2
<1> HIDE DEF T
<1>14. \A t \in 0 .. n : t \in T BY <1>3, <1>12, <1>13, CountUp
<1>15. Good(g[n], n) BY <1>3, <1>14 DEF T
<1> QED BY <1>9, <1>15 DEF Good, g, n

\* What the layers cost.
LEMMA CostsAre ==
  ASSUME NEW L \in Seq(Seq(NodeSet))
  PROVE  /\ Costs(L)[0] = 0 /\ \A k \in 0 .. Len(L) : Costs(L)[k] \in Nat
         /\ \A k \in 1 .. Len(L) : Costs(L)[k] = Costs(L)[k - 1] + 9 * Len(L[k])
<1> DEFINE n == Len(L)
           Sum(v, k) == v + Branching * Len(L[k])
           Solves(f) == f = [k \in 0 .. n |-> IF k = 0 THEN 0 ELSE Sum(f[k - 1], k)]
           step == [q \in (1 .. n) \X Nat |-> q[2] + 9 * Len(L[q[1]])]
<1>1. n \in Nat /\ \A k \in 1 .. n : L[k] \in Seq(NodeSet) /\ 9 * Len(L[k]) \in Nat
 <2>1. n \in Nat /\ \A k \in 1 .. n : L[k] \in Seq(NodeSet) OBVIOUS
 <2>2. ASSUME NEW k \in 1 .. n PROVE 9 * Len(L[k]) \in Nat
  <3>1. Len(L[k]) \in Nat BY <2>1
  <3> QED BY <3>1
 <2> QED BY <2>1, <2>2
<1>2. Stepper(step, n, Nat)
 <2> HIDE DEF n
 <2>1. \A q \in (1 .. n) \X Nat : q[2] + 9 * Len(L[q[1]]) \in Nat BY <1>1
 <2> QED BY <2>1 DEF Stepper
<1> HIDE DEF step
<1>3. PICK f : Follows(f, 0, step, n, Nat)
 <2> HIDE DEF n
 <2>1. 0 \in Nat OBVIOUS
 <2> QED BY <1>1, <1>2, <2>1, Recursion
<1>4. Solves(f)
 <2>1. f = [k \in 0 .. n |-> f[k]] /\ f[0] = 0 BY <1>3 DEF Follows
 <2>2. ASSUME NEW k \in 1 .. n PROVE f[k] = Sum(f[k - 1], k)
  <3>1. k - 1 \in 0 .. n BY <1>1
  <3>2. f[k] = step[<<k, f[k - 1]>>] /\ <<k, f[k - 1]>> \in (1 .. n) \X Nat BY <1>3, <3>1 DEF Follows
  <3> QED BY <3>2 DEF step, Branching
 <2> HIDE DEF Sum, n
 <2>3. ASSUME NEW k \in 0 .. n PROVE f[k] = IF k = 0 THEN 0 ELSE Sum(f[k - 1], k)
  <3>1. CASE k = 0 BY <2>1, <3>1
  <3>2. CASE k # 0
   <4>1. k \in 1 .. n BY <1>1, <3>2
   <4>2. f[k] = Sum(f[k - 1], k) BY <2>2, <4>1
   <4> QED BY <3>2, <4>2, Zenon
  <3> QED BY <3>1, <3>2
 <2> QED BY <2>1, <2>3
<1> DEFINE g == CHOOSE h : Solves(h)
<1>5. Costs(L) = g BY DEF Costs
<1> HIDE DEF Solves
<1>6. Solves(g) BY <1>4, Zenon
<1> HIDE DEF g
<1>7. g[0] = 0 /\ \A k \in 1 .. n : g[k] = g[k - 1] + 9 * Len(L[k])
 <2> HIDE DEF Sum, n
 <2>1. g[0] = 0 /\ \A k \in 1 .. n : g[k] = Sum(g[k - 1], k) BY <1>1, <1>6 DEF Solves
 <2> QED BY <2>1 DEF Sum, Branching
<1> DEFINE T == {k \in 0 .. n : g[k] \in Nat}
<1>8. 0 \in T BY <1>1, <1>7
<1>9. ASSUME NEW k \in 0 .. n - 1, k \in T PROVE k + 1 \in T
 <2>1. k + 1 \in 1 .. n /\ (k + 1) - 1 = k /\ k + 1 \in 0 .. n BY <1>1
 <2>2. g[k + 1] = g[k] + 9 * Len(L[k + 1]) /\ g[k] \in Nat BY <1>7, <1>9, <2>1
 <2>3. g[k + 1] \in Nat BY <1>1, <2>1, <2>2
 <2> QED BY <2>1, <2>3
<1> HIDE DEF T
<1>10. \A k \in 0 .. n : k \in T BY <1>1, <1>8, <1>9, CountUp
<1> QED BY <1>5, <1>7, <1>10 DEF T, n

----
\* The path to a node: a place in every layer, each the parent of the next.
Parented(M) == \A j \in 2 .. Len(M) : \A i \in DOMAIN M[j] : M[j][i].parent \in DOMAIN M[j - 1]
Descends(f, M, n) == f = [j \in 1 .. Len(M) |-> IF j = Len(M) THEN n ELSE M[j + 1][f[j + 1]].parent]
Placed(place, M) ==
    /\ place \in [1 .. Len(M) -> Nat]
    /\ \A j \in 1 .. Len(M) : place[j] \in DOMAIN M[j]
    /\ \A j \in 2 .. Len(M) : place[j - 1] = M[j][place[j]].parent

LEMMA PathExists ==
  ASSUME NEW M \in Seq(Seq(NodeSet)), M # << >>, Parented(M), NEW n \in DOMAIN M[Len(M)]
  PROVE  \E f : Descends(f, M, n)
<1> DEFINE d == Len(M)
           e == d - 1
           step == [q \in (1 .. e) \X Nat |-> IF q[2] \in DOMAIN M[(d - q[1]) + 1] THEN M[(d - q[1]) + 1][q[2]].parent ELSE 0]
<1>1. d \in Nat /\ d >= 1 /\ e \in Nat /\ e = d - 1
 <2>1. d \in Nat /\ d # 0 OBVIOUS
 <2> HIDE DEF d
 <2> QED BY <2>1
<1>2. ASSUME NEW j \in 1 .. d, NEW i \in DOMAIN M[j] PROVE M[j][i].parent \in Nat /\ i \in Nat
 <2>1. M[j] \in Seq(NodeSet) OBVIOUS
 <2>2. M[j][i] \in NodeSet /\ i \in Nat BY <2>1
 <2> QED BY <2>2 DEF NodeSet
<1>3. n \in Nat /\ n \in DOMAIN M[d]
 <2>1. M[d] \in Seq(NodeSet) BY <1>1
 <2> QED BY <2>1
<1>4. ASSUME NEW j \in 2 .. d, NEW i \in DOMAIN M[j] PROVE M[j][i].parent \in DOMAIN M[j - 1] BY DEF Parented
<1> HIDE DEF d
<1> USE <1>1
<1>5. Stepper(step, e, Nat)
 <2>1. ASSUME NEW k \in 1 .. e, NEW m \in Nat, m \in DOMAIN M[(d - k) + 1] PROVE M[(d - k) + 1][m].parent \in Nat
  <3>1. (d - k) + 1 \in 1 .. d OBVIOUS
  <3> QED BY <1>2, <2>1, <3>1
 <2>2. \A q \in (1 .. e) \X Nat : q[1] \in 1 .. e /\ q[2] \in Nat OBVIOUS
 <2>3. \A q \in (1 .. e) \X Nat : (IF q[2] \in DOMAIN M[(d - q[1]) + 1] THEN M[(d - q[1]) + 1][q[2]].parent ELSE 0) \in Nat
  <3> HIDE DEF e
  <3> QED BY <2>1, <2>2
 <2> HIDE DEF e
 <2> QED BY <2>3 DEF Stepper
<1> HIDE DEF e
<1>6. PICK g : Follows(g, n, step, e, Nat)
 <2> HIDE DEF step
 <2> QED BY <1>3, <1>5, Recursion
<1> DEFINE S == {k \in 0 .. e : g[k] \in DOMAIN M[d - k]}
<1>7. 0 \in S BY <1>3, <1>6 DEF Follows
<1>8. ASSUME NEW k \in 0 .. e - 1, k \in S PROVE k + 1 \in S
 <2>1. k + 1 \in 1 .. e /\ (k + 1) - 1 = k /\ k + 1 \in 0 .. e /\ (d - (k + 1)) + 1 = d - k /\ k \in 0 .. e
       /\ d - k \in 2 .. d /\ d - k \in 1 .. d /\ (d - k) - 1 = d - (k + 1)
   OBVIOUS
 <2>2. g[k + 1] = step[<<k + 1, g[k]>>] /\ g[k] \in Nat /\ <<k + 1, g[k]>> \in (1 .. e) \X Nat
  <3> HIDE DEF step
  <3> QED BY <1>6, <2>1 DEF Follows
 <2>3. g[k] \in DOMAIN M[d - k] BY <1>8
 <2>4. step[<<k + 1, g[k]>>] = M[d - k][g[k]].parent BY <2>1, <2>2, <2>3
 <2>5. M[d - k][g[k]].parent \in DOMAIN M[d - (k + 1)] BY <1>4, <2>1, <2>3
 <2> QED BY <2>1, <2>2, <2>4, <2>5
<1> HIDE DEF S
<1>9. \A k \in 0 .. e : k \in S BY <1>7, <1>8, CountUp
<1> DEFINE f == [j \in 1 .. d |-> g[d - j]]
<1>10. ASSUME NEW j \in 1 .. d PROVE f[j] = IF j = d THEN n ELSE M[j + 1][f[j + 1]].parent
 <2>1. CASE j = d
  <3>1. d - j = 0 /\ f[j] = g[d - j] /\ g[0] = n BY <1>6, <2>1 DEF Follows
  <3> QED BY <2>1, <3>1
 <2>2. CASE j # d
  <3>1. d - j \in 1 .. e /\ (d - j) - 1 = d - (j + 1) /\ j + 1 \in 1 .. d /\ d - (j + 1) \in 0 .. e
        /\ d - (d - (j + 1)) = j + 1 /\ (d - (d - j)) + 1 = j + 1
   <4> HIDE DEF f, step
   <4> QED BY <2>2
  <3>2. f[j] = g[d - j] /\ f[j + 1] = g[d - (j + 1)] BY <3>1
  <3>3. g[d - j] = step[<<d - j, g[d - (j + 1)]>>] /\ g[d - (j + 1)] \in Nat /\ <<d - j, g[d - (j + 1)]>> \in (1 .. e) \X Nat
   <4> HIDE DEF step
   <4> QED BY <1>6, <3>1 DEF Follows
  <3>4. g[d - (j + 1)] \in DOMAIN M[j + 1] BY <1>9, <3>1 DEF S
  <3>5. step[<<d - j, g[d - (j + 1)]>>] = M[j + 1][g[d - (j + 1)]].parent BY <3>1, <3>3, <3>4
  <3> HIDE DEF f
  <3> QED BY <2>2, <3>2, <3>3, <3>5
 <2> QED BY <2>1, <2>2
<1>11. f = [j \in 1 .. d |-> f[j]] OBVIOUS
<1> HIDE DEF f
<1>12. Descends(f, M, n) BY <1>10, <1>11 DEF Descends, d
<1> QED BY <1>12

LEMMA PathIsPlaced ==
  ASSUME NEW M \in Seq(Seq(NodeSet)), M # << >>, Parented(M), NEW n \in DOMAIN M[Len(M)], NEW place, Descends(place, M, n)
  PROVE  Placed(place, M) /\ place[Len(M)] = n
<1> DEFINE d == Len(M)
<1>1. d \in Nat /\ d >= 1
 <2>1. d \in Nat /\ d # 0 OBVIOUS
 <2> HIDE DEF d
 <2> QED BY <2>1
<1>2. ASSUME NEW j \in 1 .. d, NEW i \in DOMAIN M[j] PROVE i \in Nat
 <2>1. M[j] \in Seq(NodeSet) OBVIOUS
 <2> QED BY <2>1
<1>3. ASSUME NEW j \in 2 .. d, NEW i \in DOMAIN M[j] PROVE M[j][i].parent \in DOMAIN M[j - 1] BY DEF Parented
<1>4. n \in DOMAIN M[d] /\ place = [j \in 1 .. d |-> IF j = d THEN n ELSE M[j + 1][place[j + 1]].parent]
  BY DEF Descends
<1> HIDE DEF d
<1>5. place[d] = n /\ place = [j \in 1 .. d |-> place[j]] BY <1>1, <1>4
<1>6. ASSUME NEW j \in 2 .. d PROVE place[j - 1] = M[j][place[j]].parent
 <2>1. j - 1 \in 1 .. d /\ j - 1 # d /\ (j - 1) + 1 = j BY <1>1
 <2>2. place[j - 1] = IF j - 1 = d THEN n ELSE M[(j - 1) + 1][place[(j - 1) + 1]].parent BY <1>4, <2>1
 <2> QED BY <2>1, <2>2
<1> DEFINE T == {k \in 0 .. d - 1 : place[d - k] \in DOMAIN M[d - k]}
<1>7. 0 \in T BY <1>1, <1>4, <1>5
<1>8. ASSUME NEW k \in 0 .. (d - 1) - 1, k \in T PROVE k + 1 \in T
 <2>1. k + 1 \in 0 .. d - 1 /\ d - k \in 2 .. d /\ (d - k) - 1 = d - (k + 1) BY <1>1
 <2>2. place[d - (k + 1)] = M[d - k][place[d - k]].parent BY <1>6, <2>1
 <2>3. M[d - k][place[d - k]].parent \in DOMAIN M[d - (k + 1)] BY <1>3, <1>8, <2>1
 <2> QED BY <2>1, <2>2, <2>3
<1> HIDE DEF T
<1>9. \A k \in 0 .. d - 1 : k \in T
 <2>1. d - 1 \in Nat BY <1>1
 <2> QED BY <1>7, <1>8, <2>1, CountUp
<1>10. ASSUME NEW j \in 1 .. d PROVE place[j] \in DOMAIN M[j]
 <2>1. d - j \in 0 .. d - 1 /\ d - (d - j) = j BY <1>1
 <2> QED BY <1>9, <2>1 DEF T
<1>11. place \in [1 .. d -> Nat]
 <2>1. \A j \in 1 .. d : place[j] \in Nat BY <1>2, <1>10
 <2> QED BY <1>5, <2>1
<1> QED BY <1>5, <1>6, <1>10, <1>11 DEF Placed, d

\* The path a search returns, and where it leads.
PathOf(place, L) == [t \in 1 .. Len(L) - 1 |-> L[t + 1][place[t]].action]
Steps(place, L) == \A t \in 2 .. Len(L) - 1 : place[t - 1] = L[t + 1][place[t]].parent
LeadsTo(place, L, n) ==
    /\ \A t \in 1 .. Len(L) - 1 : place[t] \in DOMAIN L[t + 1]
    /\ Steps(place, L) /\ place[Len(L) - 1] = n

LEMMA TupleIs ==
  ASSUME NEW n \in Nat, NEW S, NEW f \in [1 .. n -> S]
  PROVE  f \in Seq(S) /\ Len(f) = n
OBVIOUS

LEMMA PathPlaced ==
  ASSUME NEW frames, NEW start, NEW beam, NEW L, Layered(L, frames, start, beam), Len(L) >= 2, NEW n \in DOMAIN L[Len(L)]
  PROVE  \E place : LeadsTo(place, L, n) /\ PathTo(L, Len(L) - 1, n) = PathOf(place, L)
<1> DEFINE d == Len(L) - 1
           M == [j \in 1 .. d |-> L[j + 1]]
           Solves(f) == f = [t \in 1 .. d |-> IF t = d THEN n ELSE L[t + 2][f[t + 1]].parent]
<1>1. L \in Seq(Seq(NodeSet)) /\ Len(L) \in Nat /\ d \in Nat /\ d >= 1 /\ Len(L) = d + 1
 <2>1. L \in Seq(Seq(NodeSet)) /\ Len(L) \in Nat /\ Len(L) >= 2 BY DEF Layered
 <2> QED BY <2>1
<1>2. ASSUME NEW t \in 1 .. d PROVE L[t + 1] \in Seq(NodeSet) /\ \A i \in DOMAIN L[t + 1] : Child(L[t + 1][i], L[t])
 <2>1. t \in 1 .. Len(L) - 1 OBVIOUS
 <2>2. Grows(L[t], L[t + 1], frames[t], beam) BY <2>1 DEF Layered
 <2> QED BY <2>2 DEF Grows
<1> HIDE DEF d
<1>3. M \in Seq(Seq(NodeSet)) /\ Len(M) = d /\ \A j \in 1 .. d : M[j] = L[j + 1]
 <2>1. M \in [1 .. d -> Seq(NodeSet)] BY <1>2
 <2>2. \A j \in 1 .. d : M[j] = L[j + 1] OBVIOUS
 <2> HIDE DEF M
 <2> QED BY <1>1, <2>1, <2>2
<1> HIDE DEF M
<1>4. M # << >> /\ n \in DOMAIN M[Len(M)] BY <1>1, <1>3
<1>5. Parented(M)
 <2>1. ASSUME NEW j \in 2 .. Len(M), NEW i \in DOMAIN M[j] PROVE M[j][i].parent \in DOMAIN M[j - 1]
  <3>1. j \in 1 .. d /\ j - 1 \in 1 .. d /\ (j - 1) + 1 = j BY <1>1, <1>3
  <3>2. M[j] = L[j + 1] /\ M[j - 1] = L[j] BY <1>3, <3>1
  <3> QED BY <1>2, <3>1, <3>2 DEF Child
 <2> QED BY <2>1 DEF Parented
<1>6. ASSUME NEW f PROVE Descends(f, M, n) <=> Solves(f)
 <2>1. ASSUME NEW t \in 1 .. d, t # d PROVE M[t + 1] = L[t + 2]
  <3>1. t + 1 \in 1 .. d /\ (t + 1) + 1 = t + 2 BY <1>1, <2>1
  <3> QED BY <1>3, <3>1
 <2>2. [t \in 1 .. d |-> IF t = d THEN n ELSE L[t + 2][f[t + 1]].parent]
       = [t \in 1 .. d |-> IF t = d THEN n ELSE M[t + 1][f[t + 1]].parent]
   BY <2>1
 <2> QED BY <1>3, <2>2 DEF Descends
<1>7. \E f : Solves(f)
 <2>1. \E f : Descends(f, M, n) BY <1>3, <1>4, <1>5, PathExists
 <2> HIDE DEF Solves
 <2> QED BY <1>6, <2>1
<1> DEFINE place == CHOOSE f : Solves(f)
<1>8. PathTo(L, d, n) = [t \in 1 .. d |-> L[t + 1][place[t]].action] BY DEF PathTo
<1> HIDE DEF Solves
<1>9. Solves(place) BY <1>7, Zenon
<1> HIDE DEF place
<1>10. Placed(place, M) /\ place[Len(M)] = n
 <2>1. Descends(place, M, n) BY <1>6, <1>9
 <2> QED BY <1>3, <1>4, <1>5, <2>1, PathIsPlaced
<1>11. \A t \in 1 .. d : place[t] \in DOMAIN L[t + 1] BY <1>3, <1>10 DEF Placed
<1>12. \A t \in 2 .. d : place[t - 1] = L[t + 1][place[t]].parent
 <2>1. \A t \in 2 .. d : place[t - 1] = M[t][place[t]].parent BY <1>3, <1>10 DEF Placed
 <2>2. \A t \in 2 .. d : t \in 1 .. d BY <1>1
 <2> QED BY <1>3, <2>1, <2>2
<1>13. LeadsTo(place, L, n) BY <1>3, <1>10, <1>11, <1>12 DEF LeadsTo, Steps, d
<1>14. PathTo(L, Len(L) - 1, n) = PathOf(place, L) BY <1>8 DEF PathOf, d
<1> QED BY <1>13, <1>14

\* Where actions lead is a walk.
LEMMA RouteIs ==
  ASSUME NEW start \in Positions, NEW actions \in Seq(Actions)
  PROVE  /\ Route(start, actions)[0] = start
         /\ \A t \in 0 .. Len(actions) : Route(start, actions)[t] \in Positions
         /\ \A t \in 1 .. Len(actions) : Route(start, actions)[t] = Advance(Route(start, actions)[t - 1], actions[t])
<1> DEFINE n == Len(actions)
           Solves(f) == f = [t \in 0 .. n |-> IF t = 0 THEN start ELSE Advance(f[t - 1], actions[t])]
           step == [q \in (1 .. n) \X Positions |-> Advance(q[2], actions[q[1]])]
<1>1. n \in Nat /\ \A t \in 1 .. n : actions[t] \in Actions OBVIOUS
<1>2. Stepper(step, n, Positions)
 <2> HIDE DEF n
 <2>1. \A q \in (1 .. n) \X Positions : q[1] \in 1 .. n /\ q[2] \in Positions OBVIOUS
 <2>2. \A q \in (1 .. n) \X Positions : Advance(q[2], actions[q[1]]) \in Positions BY <1>1, <2>1, AdvanceStays
 <2> QED BY <2>2 DEF Stepper
<1> HIDE DEF step, n
<1>3. PICK f : Follows(f, start, step, n, Positions) BY <1>1, <1>2, Recursion
<1>4. Solves(f)
 <2>1. f = [t \in 0 .. n |-> f[t]] /\ f[0] = start BY <1>3 DEF Follows
 <2>2. ASSUME NEW t \in 1 .. n PROVE f[t] = Advance(f[t - 1], actions[t])
  <3>1. t - 1 \in 0 .. n BY <1>1
  <3>2. f[t] = step[<<t, f[t - 1]>>] /\ <<t, f[t - 1]>> \in (1 .. n) \X Positions BY <1>3, <3>1 DEF Follows
  <3> QED BY <3>2 DEF step
 <2>3. \A t \in 0 .. n : f[t] = IF t = 0 THEN start ELSE Advance(f[t - 1], actions[t]) BY <1>1, <2>1, <2>2
 <2> QED BY <2>1, <2>3
<1> DEFINE g == CHOOSE h : Solves(h)
<1>5. Route(start, actions) = g BY DEF Route, n
<1> HIDE DEF Solves
<1>6. Solves(g) BY <1>4, Zenon
<1> HIDE DEF g
<1>7. g[0] = start /\ \A t \in 1 .. n : g[t] = Advance(g[t - 1], actions[t]) BY <1>1, <1>6 DEF Solves
<1> DEFINE T == {t \in 0 .. n : g[t] \in Positions}
<1>8. 0 \in T BY <1>1, <1>7
<1>9. ASSUME NEW t \in 0 .. n - 1, t \in T PROVE t + 1 \in T
 <2>1. t + 1 \in 1 .. n /\ (t + 1) - 1 = t /\ t + 1 \in 0 .. n BY <1>1
 <2>2. g[t + 1] = Advance(g[t], actions[t + 1]) /\ g[t] \in Positions BY <1>7, <1>9, <2>1
 <2> QED BY <1>1, <2>1, <2>2, AdvanceStays
<1> HIDE DEF T
<1>10. \A t \in 0 .. n : t \in T BY <1>1, <1>8, <1>9, CountUp
<1> QED BY <1>5, <1>7, <1>10 DEF T, n

\* The path to a node of the last layer survives every frame and ends
\* where the node is.
LEMMA PathSurvives ==
  ASSUME NEW frames, NEW start \in Positions, NEW beam, NEW L, Layered(L, frames, start, beam), Len(L) >= 2,
         Len(frames) = Len(L) - 1, NEW n \in DOMAIN L[Len(L)], NEW path, path = PathTo(L, Len(L) - 1, n)
  PROVE  /\ path \in Seq(Actions) /\ Len(path) = Len(frames) /\ Survives(frames, start, path)
         /\ Route(start, path)[Len(frames)] = L[Len(L)][n].p
<1> DEFINE d == Len(L) - 1
           at == Route(start, path)
<1>1. L \in Seq(Seq(NodeSet)) /\ Len(L) \in Nat /\ d \in Nat /\ d >= 1 /\ Len(L) = d + 1 /\ L[1] = Root(start)
 <2>1. L \in Seq(Seq(NodeSet)) /\ Len(L) \in Nat /\ Len(L) >= 2 /\ L[1] = Root(start) BY DEF Layered
 <2> QED BY <2>1
<1>2. PICK place : LeadsTo(place, L, n) /\ path = PathOf(place, L) BY PathPlaced
<1>3. ASSUME NEW t \in 1 .. d
      PROVE  /\ L[t + 1] \in Seq(NodeSet) /\ place[t] \in DOMAIN L[t + 1] /\ L[t + 1][place[t]] \in NodeSet
             /\ Child(L[t + 1][place[t]], L[t]) /\ L[t + 1][place[t]].p \notin frames[t]
 <2>1. t \in 1 .. Len(L) - 1 OBVIOUS
 <2>2. Grows(L[t], L[t + 1], frames[t], beam) BY <2>1 DEF Layered
 <2>3. place[t] \in DOMAIN L[t + 1] BY <1>2, <2>1 DEF LeadsTo
 <2> QED BY <2>2, <2>3 DEF Grows
<1>4. (\A t \in 2 .. d : place[t - 1] = L[t + 1][place[t]].parent) /\ place[d] = n BY <1>2 DEF LeadsTo, Steps
<1>5. path \in [1 .. d -> Actions] /\ \A t \in 1 .. d : path[t] = L[t + 1][place[t]].action
 <2>1. path = [t \in 1 .. d |-> L[t + 1][place[t]].action] BY <1>2 DEF PathOf
 <2>2. \A t \in 1 .. d : L[t + 1][place[t]].action \in Actions BY <1>3 DEF NodeSet
 <2> HIDE DEF d
 <2> QED BY <2>1, <2>2
<1> HIDE DEF d
<1>6. path \in Seq(Actions) /\ Len(path) = d /\ Len(frames) = d
 <2>1. path \in [1 .. d -> Actions] /\ d \in Nat BY <1>1, <1>5
 <2>2. path \in Seq(Actions) /\ Len(path) = d BY <2>1, TupleIs
 <2> QED BY <1>1, <2>2 DEF d
<1>7. at[0] = start /\ \A t \in 1 .. d : at[t] = Advance(at[t - 1], path[t]) BY <1>6, RouteIs
<1> HIDE DEF at
<1> DEFINE T == {k \in 0 .. d - 1 : at[k + 1] = L[k + 2][place[k + 1]].p}
<1>8. 0 \in T
 <2>1. 1 \in 1 .. d /\ 1 + 1 = 2 /\ 1 - 1 = 0 /\ 0 \in 0 .. d - 1 /\ 0 + 1 = 1 /\ 0 + 2 = 2 BY <1>1
 <2>2. at[1] = Advance(start, path[1]) /\ path[1] = L[2][place[1]].action BY <1>5, <1>7, <2>1
 <2>3. Child(L[2][place[1]], Root(start)) BY <1>1, <1>3, <2>1
 <2>4. L[2][place[1]].p = Advance(start, L[2][place[1]].action)
  <3>1. DOMAIN Root(start) = {1} /\ Root(start)[1].p = start BY DEF Root
  <3> QED BY <2>3, <3>1 DEF Child
 <2> QED BY <2>1, <2>2, <2>4
<1>9. ASSUME NEW k \in 0 .. (d - 1) - 1, k \in T PROVE k + 1 \in T
 <2>1. /\ k + 1 \in 0 .. d - 1 /\ k + 2 \in 2 .. d /\ k + 2 \in 1 .. d /\ (k + 2) - 1 = k + 1 /\ (k + 2) + 1 = k + 3
       /\ (k + 1) + 1 = k + 2 /\ (k + 1) + 2 = k + 3
   BY <1>1
 <2>2. at[k + 2] = Advance(at[k + 1], path[k + 2]) /\ path[k + 2] = L[k + 3][place[k + 2]].action
   BY <1>5, <1>7, <2>1
 <2>3. at[k + 1] = L[k + 2][place[k + 1]].p BY <1>9
 <2>4. Child(L[k + 3][place[k + 2]], L[k + 2]) /\ place[k + 1] = L[k + 3][place[k + 2]].parent
   BY <1>3, <1>4, <2>1
 <2>5. at[k + 2] = L[k + 3][place[k + 2]].p BY <2>2, <2>3, <2>4 DEF Child
 <2> QED BY <2>1, <2>5
<1> HIDE DEF T
<1>10. \A k \in 0 .. d - 1 : k \in T
 <2>1. d - 1 \in Nat BY <1>1
 <2> QED BY <1>8, <1>9, <2>1, CountUp
<1>11. ASSUME NEW t \in 1 .. d PROVE at[t] = L[t + 1][place[t]].p
 <2>1. t - 1 \in 0 .. d - 1 /\ (t - 1) + 1 = t /\ (t - 1) + 2 = t + 1 BY <1>1
 <2>2. at[(t - 1) + 1] = L[(t - 1) + 2][place[(t - 1) + 1]].p BY <1>10, <2>1 DEF T
 <2> QED BY <2>1, <2>2
<1>12. at[d] = L[d + 1][n].p
 <2>1. d \in 1 .. d BY <1>1
 <2> QED BY <1>4, <1>11, <2>1
<1>13. \A t \in 1 .. d : at[t] \notin frames[t] BY <1>3, <1>11
<1>14. Survives(frames, start, path) BY <1>6, <1>13 DEF Survives, at
<1> QED BY <1>1, <1>6, <1>12, <1>14 DEF at

----
\* When the beam has room for every position the layers hold every one
\* that can be reached, and once nothing is left nothing comes back.
Held(cur) == {cur[i].p : i \in DOMAIN cur}
Outward(S, blocked) == {Advance(p, a) : p \in S, a \in Actions} \ blocked

LEMMA ReachableHeld ==
  ASSUME NEW frames \in Seq(SUBSET Positions), NEW start, NEW beam, beam >= Columns * Rows,
         NEW L, Layered(L, frames, start, beam), Len(L) = Len(frames) + 1
  PROVE  Reachable(frames, start) \subseteq Held(L[Len(L)])
<1> DEFINE n == Len(frames)
           Solves(f) == f = [t \in 0 .. n |-> IF t = 0 THEN {start} ELSE Outward(f[t - 1], frames[t])]
           V == SUBSET Positions
<1>1. n \in Nat OBVIOUS
<1>2. \E f : Solves(f)
 <2> DEFINE Agrees(m, f) == f[0] = {start} /\ \A k \in 1 .. m : f[k] = Outward(f[k - 1], frames[k])
            S == {m \in 0 .. n : \E f : f = [k \in 0 .. m |-> f[k]] /\ Agrees(m, f)}
 <2> HIDE DEF n
 <2>1. 0 \in S
  <3> DEFINE e == [k \in 0 .. 0 |-> {start}]
  <3>1. Agrees(0, e) /\ e = [k \in 0 .. 0 |-> e[k]] OBVIOUS
  <3> HIDE DEF e, Agrees
  <3> QED BY <1>1, <3>1
 <2>2. ASSUME NEW m \in 0 .. n - 1, m \in S PROVE m + 1 \in S
  <3>1. PICK f : f = [k \in 0 .. m |-> f[k]] /\ Agrees(m, f) BY <2>2
  <3> DEFINE g == [k \in 0 .. m + 1 |-> IF k = m + 1 THEN Outward(f[m], frames[m + 1]) ELSE f[k]]
  <3>2. ASSUME NEW k \in 1 .. m + 1 PROVE g[k] = Outward(g[k - 1], frames[k])
   <4>1. CASE k = m + 1
    <5>1. k - 1 = m /\ m \in 0 .. m + 1 /\ m # m + 1 /\ m + 1 \in 0 .. m + 1 BY <4>1
    <5>2. g[m] = f[m] /\ g[m + 1] = Outward(f[m], frames[m + 1]) BY <5>1
    <5> QED BY <4>1, <5>1, <5>2
   <4>2. CASE k # m + 1
    <5>1. k \in 1 .. m /\ k - 1 # m + 1 /\ k \in 0 .. m + 1 /\ k - 1 \in 0 .. m + 1 BY <4>2
    <5>2. g[k] = f[k] /\ g[k - 1] = f[k - 1] BY <4>2, <5>1
    <5> QED BY <3>1, <5>1, <5>2
   <4> QED BY <4>1, <4>2
  <3>3. g[0] = f[0] /\ g = [k \in 0 .. m + 1 |-> g[k]]
   <4>1. 0 \in 0 .. m + 1 /\ 0 # m + 1 OBVIOUS
   <4> QED BY <4>1
  <3>4. Agrees(m + 1, g) BY <3>1, <3>2, <3>3
  <3>5. m + 1 \in 0 .. n BY <1>1
  <3> HIDE DEF g, Agrees
  <3> QED BY <3>3, <3>4, <3>5
 <2> HIDE DEF S
 <2>3. n \in S
  <3>1. \A m \in 0 .. n : m \in S BY <1>1, <2>1, <2>2, CountUp
  <3> QED BY <1>1, <3>1
 <2>4. PICK f : f = [k \in 0 .. n |-> f[k]] /\ Agrees(n, f) BY <2>3 DEF S
 <2>5. ASSUME NEW k \in 0 .. n PROVE f[k] = IF k = 0 THEN {start} ELSE Outward(f[k - 1], frames[k])
  <3>1. CASE k = 0 BY <2>4, <3>1
  <3>2. CASE k # 0
   <4>1. k \in 1 .. n BY <1>1, <3>2
   <4>2. f[k] = Outward(f[k - 1], frames[k]) BY <2>4, <4>1
   <4> QED BY <3>2, <4>2, Zenon
  <3> QED BY <3>1, <3>2
 <2>6. Solves(f) BY <2>4, <2>5
 <2> HIDE DEF Solves
 <2> QED BY <2>6
<1> DEFINE g == CHOOSE h : Solves(h)
<1>3. Reachable(frames, start) = g[n] BY DEF Reachable, Outward
<1> HIDE DEF Solves
<1>4. Solves(g) BY <1>2, Zenon
<1> HIDE DEF g
<1>5. g[0] = {start} /\ \A t \in 1 .. n : g[t] = Outward(g[t - 1], frames[t]) BY <1>1, <1>4 DEF Solves
<1> HIDE DEF n
<1> DEFINE T == {t \in 0 .. n : g[t] \subseteq Held(L[t + 1])}
<1>6. 0 \in T
 <2>1. L[1] = Root(start) /\ start \in Held(Root(start)) BY DEF Layered, Root, Held
 <2> QED BY <1>1, <1>5, <2>1
<1>7. ASSUME NEW t \in 0 .. n - 1, t \in T PROVE t + 1 \in T
 <2>1. t + 1 \in 1 .. n /\ (t + 1) - 1 = t /\ t + 1 \in 0 .. n /\ t + 1 \in 1 .. Len(L) - 1 /\ (t + 1) + 1 = t + 2
   BY <1>1 DEF n
 <2>2. Grows(L[t + 1], L[t + 2], frames[t + 1], beam) BY <2>1 DEF Layered
 <2>3. g[t + 1] = Outward(g[t], frames[t + 1]) /\ g[t] \subseteq Held(L[t + 1]) BY <1>5, <1>7, <2>1
 <2>4. ASSUME NEW q \in g[t + 1] PROVE q \in Held(L[t + 2])
  <3>1. PICK p \in g[t], a \in Actions : q = Advance(p, a) BY <2>3 DEF Outward
  <3>2. q \notin frames[t + 1] BY <2>3 DEF Outward
  <3>3. PICK i \in DOMAIN L[t + 1] : p = L[t + 1][i].p BY <2>3 DEF Held
  <3>4. PICK j \in DOMAIN L[t + 2] : L[t + 2][j].p = Advance(L[t + 1][i].p, a)
    BY <2>2, <3>1, <3>2, <3>3 DEF Grows
  <3> QED BY <3>1, <3>3, <3>4 DEF Held
 <2> QED BY <2>1, <2>4
<1> HIDE DEF T
<1>8. \A t \in 0 .. n : t \in T BY <1>1, <1>6, <1>7, CountUp
<1>9. g[n] \subseteq Held(L[n + 1]) BY <1>1, <1>8 DEF T
<1> QED BY <1>3, <1>9 DEF n

LEMMA NothingComesBack ==
  ASSUME NEW frames, NEW start, NEW beam, NEW L, Layered(L, frames, start, beam),
         NEW t \in 1 .. Len(L), L[t] = << >>
  PROVE  L[Len(L)] = << >>
<1> DEFINE n == Len(L) - t
           T == {k \in 0 .. n : L[t + k] = << >>}
<1>1. n \in Nat /\ t \in Nat /\ Len(L) \in Nat /\ n = Len(L) - t /\ t >= 1 /\ L \in Seq(Seq(NodeSet))
  BY DEF Layered
<1> HIDE DEF n
<1>2. 0 \in T BY <1>1
<1>3. ASSUME NEW k \in 0 .. n - 1, k \in T PROVE k + 1 \in T
 <2>1. t + k \in 1 .. Len(L) - 1 /\ (t + k) + 1 = t + (k + 1) /\ k + 1 \in 0 .. n /\ t + (k + 1) \in 1 .. Len(L)
  <3>1. k \in Nat /\ k < n /\ k + 1 \in 0 .. n BY <1>1
  <3>2. n \in Nat /\ t \in Nat /\ Len(L) \in Nat /\ n = Len(L) - t /\ t >= 1 BY <1>1
  <3> DEFINE len == Len(L)
  <3> HIDE DEF len
  <3>3. t + k \in 1 .. len - 1 /\ (t + k) + 1 = t + (k + 1) /\ t + (k + 1) \in 1 .. len BY <3>1, <3>2 DEF len
  <3> QED BY <3>1, <3>3 DEF len
 <2>2. Grows(L[t + k], L[t + (k + 1)], frames[t + k], beam) BY <2>1 DEF Layered
 <2>3. L[t + k] = << >> BY <1>3
 <2>4. L[t + (k + 1)] \in Seq(NodeSet) /\ \A i \in DOMAIN L[t + (k + 1)] : FALSE BY <2>2, <2>3 DEF Grows, Child
 <2>5. L[t + (k + 1)] = << >>
  <3> DEFINE s == L[t + (k + 1)]
  <3>1. s \in Seq(NodeSet) /\ \A i \in DOMAIN s : FALSE BY <2>4
  <3> HIDE DEF s
  <3>2. Len(s) \in Nat /\ DOMAIN s = 1 .. Len(s) BY <3>1
  <3>3. Len(s) = 0
   <4>1. CASE Len(s) # 0
    <5>1. 1 \in DOMAIN s BY <3>2, <4>1
    <5> QED BY <3>1, <5>1
   <4> QED BY <4>1
  <3>4. s = << >> BY <3>1, <3>3
  <3> QED BY <3>4 DEF s
 <2> QED BY <2>1, <2>5
<1> HIDE DEF T
<1>4. \A k \in 0 .. n : k \in T BY <1>1, <1>2, <1>3, CountUp
<1>5. L[t + n] = << >> /\ t + n = Len(L)
 <2>1. n \in 0 .. n /\ t + n = Len(L) BY <1>1
 <2>2. L[t + n] = << >> BY <1>4, <2>1 DEF T
 <2> QED BY <2>1, <2>2
<1>6. L[Len(L)] = L[t + n] BY <1>5
<1> QED BY <1>5, <1>6

----
\* What a search concludes from its layers.
Concludes(r, L, cost, a) ==
    /\ a.expansions \in Nat /\ a.expansions <= r.limit
    /\ a.status = "found" =>
          \E n \in DOMAIN L[Len(L)] : L[Len(L)][n].p \in r.terminal /\ a.actions = PathTo(L, Len(L) - 1, n)
    /\ a.status = "search_exhausted" => \E t \in 1 .. Len(L) - 1 : L[t + 1] = << >>
    /\ a.status = "no_terminal_witness" => \A n \in DOMAIN L[Len(L)] : L[Len(L)][n].p \notin r.terminal
    /\ a.status = "expansion_limit" => \E t \in 1 .. Len(L) - 1 : cost[t] > r.limit

LEMMA SearchConcludes ==
  ASSUME NEW r, r.limit \in Nat, NEW L \in Seq(Seq(NodeSet)), Len(L) = Len(r.frames) + 1, Len(r.frames) \in Nat, Len(r.frames) >= 1,
         r.frames \in Seq(SUBSET Positions), NEW cost, \A k \in 0 .. Len(L) : cost[k] \in Nat
  PROVE  Concludes(r, L, cost, Searched(r, L, cost))
<1> DEFINE n == Len(r.frames)
           a == Searched(r, L, cost)
           stops == {t \in DOMAIN r.frames : cost[t] > r.limit \/ L[t + 1] = << >>}
           hits == {k \in DOMAIN Last(L) : Last(L)[k].p \in r.terminal}
<1>1. n \in Nat /\ n >= 1 /\ Len(L) = n + 1 /\ Len(L) - 1 = n /\ DOMAIN r.frames = 1 .. n OBVIOUS
<1>2. a = IF stops # {} THEN StoppedAt(Min(stops), cost, r.limit) ELSE Arrived(L, n, hits, cost[n])
  BY DEF Searched, Concluded
<1>3. Last(L) = L[Len(L)] /\ L[Len(L)] \in Seq(NodeSet) BY <1>1 DEF Last
<1>4. \A t \in 1 .. n : cost[t] \in Nat BY <1>1
<1> HIDE DEF n, a
<1>5. CASE stops # {}
 <2>1. stops \subseteq Nat /\ \A t \in stops : t \in 1 .. n /\ (cost[t] > r.limit \/ L[t + 1] = << >>) BY <1>1
 <2> DEFINE t == Min(stops)
 <2>2. t \in stops
  <3> HIDE DEF stops
  <3> QED BY <1>5, <2>1, MinOf
 <2>3. a = StoppedAt(t, cost, r.limit) BY <1>2, <1>5
 <2> HIDE DEF stops, t
 <2>4. t \in 1 .. n /\ (cost[t] > r.limit \/ L[t + 1] = << >>) /\ cost[t] \in Nat BY <1>4, <2>1, <2>2
 <2>5. CASE cost[t] > r.limit
  <3>1. a = Failed("expansion_limit", r.limit) BY <2>3, <2>5 DEF StoppedAt
  <3>2. a.status = "expansion_limit" /\ a.expansions = r.limit BY <3>1 DEF Failed
  <3> QED BY <1>1, <2>4, <2>5, <3>2 DEF Concludes, a
 <2>6. CASE ~(cost[t] > r.limit)
  <3>1. a = Failed("search_exhausted", cost[t]) BY <2>3, <2>6 DEF StoppedAt
  <3>2. a.status = "search_exhausted" /\ a.expansions = cost[t] BY <3>1 DEF Failed
  <3>3. cost[t] <= r.limit
   <4> DEFINE c == cost[t]
              top == r.limit
   <4>1. c \in Nat /\ top \in Nat /\ ~(c > top) BY <2>4, <2>6
   <4> HIDE DEF c, top
   <4>2. c <= top BY <4>1
   <4> QED BY <4>2 DEF c, top
  <3> QED BY <1>1, <2>4, <2>6, <3>2, <3>3 DEF Concludes, a
 <2> QED BY <2>5, <2>6
<1>6. CASE stops = {}
 <2>1. n \in 1 .. n /\ cost[n] \in Nat /\ ~(cost[n] > r.limit) BY <1>1, <1>4, <1>6
 <2>2. cost[n] <= r.limit BY <2>1
 <2>3. a = Arrived(L, n, hits, cost[n]) BY <1>2, <1>6
 <2> HIDE DEF stops
 <2>4. CASE hits = {}
  <3>1. a = Failed("no_terminal_witness", cost[n]) BY <2>3, <2>4 DEF Arrived
  <3>2. a.status = "no_terminal_witness" /\ a.expansions = cost[n] BY <3>1 DEF Failed
  <3>3. \A k \in DOMAIN L[Len(L)] : L[Len(L)][k].p \notin r.terminal BY <1>3, <2>4
  <3> QED BY <2>1, <2>2, <3>2, <3>3 DEF Concludes, a
 <2>5. CASE hits # {}
  <3> DEFINE k == Min(hits)
  <3>1. hits \subseteq Nat /\ \A i \in hits : i \in DOMAIN L[Len(L)] /\ L[Len(L)][i].p \in r.terminal BY <1>3
  <3>2. k \in hits
   <4> HIDE DEF hits
   <4> QED BY <2>5, <3>1, MinOf
  <3>3. a = [status |-> "found", actions |-> PathTo(L, n, k), expansions |-> cost[n]] BY <2>3, <2>5 DEF Arrived
  <3> HIDE DEF hits, k
  <3>4. a.status = "found" /\ a.expansions = cost[n] /\ a.actions = PathTo(L, n, k) BY <3>3
  <3>5. k \in DOMAIN L[Len(L)] /\ L[Len(L)][k].p \in r.terminal /\ a.actions = PathTo(L, Len(L) - 1, k)
    BY <1>1, <3>1, <3>2, <3>4
  <3> QED BY <2>1, <2>2, <3>4, <3>5 DEF Concludes, a
 <2> QED BY <2>4, <2>5
<1> QED BY <1>5, <1>6 DEF a

\* The layers of a request, and what its answer says.
LayersOf(r) == Layers(r.frames, r.start, r.goal, r.beam)
Searchable(r) == Question(r) /\ r.frames # << >> /\ r.beam # 0 /\ r.start \in Positions

LEMMA SearchAnswers ==
  ASSUME NEW r, Searchable(r)
  PROVE  /\ Layered(LayersOf(r), r.frames, r.start, r.beam) /\ Len(LayersOf(r)) = Len(r.frames) + 1
         /\ LayersOf(r) \in Seq(Seq(NodeSet)) /\ Len(r.frames) \in Nat /\ Len(r.frames) >= 1
         /\ Concludes(r, LayersOf(r), Costs(LayersOf(r)), Search(r))
<1> DEFINE L == LayersOf(r)
<1>1. r.frames \in Seq(SUBSET Positions) /\ r.start \in Positions /\ r.goal \in Int \X Int /\ r.beam \in Nat /\ r.limit \in Nat
      /\ r.frames # << >>
  BY DEF Searchable, Question
<1>2. Layered(L, r.frames, r.start, r.beam) /\ Len(L) = Len(r.frames) + 1 BY <1>1, LayersAre DEF LayersOf
<1>3. Len(r.frames) \in Nat /\ Len(r.frames) >= 1 BY <1>1
<1>4. Search(r) = Searched(r, L, Costs(L)) BY DEF Search, Found, LayersOf
<1> HIDE DEF L
<1>5. L \in Seq(Seq(NodeSet)) BY <1>2 DEF Layered
<1>6. \A k \in 0 .. Len(L) : Costs(L)[k] \in Nat BY <1>5, CostsAre
<1> DEFINE cost == Costs(L)
<1> HIDE DEF cost
<1>7. Concludes(r, L, cost, Searched(r, L, cost)) BY <1>1, <1>2, <1>3, <1>5, <1>6, SearchConcludes DEF cost
<1> QED BY <1>2, <1>3, <1>4, <1>5, <1>7 DEF L, cost

\* An answer is truthful, and what it found is a sequence of actions.
LEMMA PlanTruthful ==
  ASSUME NEW r, Question(r)
  PROVE  /\ Truthful(r, Plan(r)) /\ Plan(r).expansions \in Nat
         /\ Plan(r).status = "found" => Plan(r).actions \in Seq(Actions)
<1> DEFINE a == Plan(r)
           L == LayersOf(r)
<1>1. r.limit \in Nat BY DEF Question
<1>2. CASE ~(r.supported /\ r.epoch = r.expected /\ Searchable(r))
 <2>1. \E s \in {"unsupported_dependency", "invalidated", "invalid_argument"} : a = Failed(s, 0)
   BY <1>2 DEF Plan, Searchable
 <2>2. a.expansions = 0 /\ a.status \in {"unsupported_dependency", "invalidated", "invalid_argument"}
   BY <2>1 DEF Failed
 <2> HIDE DEF a
 <2> QED BY <1>1, <2>2 DEF Truthful, a
<1>3. CASE r.supported /\ r.epoch = r.expected /\ Searchable(r)
 <2>1. a = Search(r) /\ Searchable(r) BY <1>3 DEF Plan, Searchable
 <2>2. /\ Layered(L, r.frames, r.start, r.beam) /\ Len(L) = Len(r.frames) + 1
       /\ Len(r.frames) \in Nat /\ Len(r.frames) >= 1 /\ Concludes(r, L, Costs(L), a)
   BY <2>1, SearchAnswers
 <2>3. r.frames \in Seq(SUBSET Positions) /\ r.start \in Positions BY <2>1 DEF Searchable, Question
 <2> HIDE DEF a, L
 <2>4. a.expansions \in Nat /\ a.expansions <= r.limit BY <2>2 DEF Concludes
 <2>5. ASSUME a.status = "found"
       PROVE  /\ a.actions \in Seq(Actions) /\ Len(a.actions) = Len(r.frames) /\ Survives(r.frames, r.start, a.actions)
              /\ Route(r.start, a.actions)[Len(r.frames)] \in r.terminal
  <3>1. PICK n \in DOMAIN L[Len(L)] : L[Len(L)][n].p \in r.terminal /\ a.actions = PathTo(L, Len(L) - 1, n)
    BY <2>2, <2>5 DEF Concludes
  <3> DEFINE path == a.actions
             frames == r.frames
             start == r.start
  <3>2. /\ Layered(L, frames, start, r.beam) /\ Len(L) >= 2 /\ Len(frames) = Len(L) - 1 /\ start \in Positions
        /\ path = PathTo(L, Len(L) - 1, n)
    BY <2>2, <2>3, <3>1
  <3> HIDE DEF path, frames, start
  <3>3. /\ path \in Seq(Actions) /\ Len(path) = Len(frames) /\ Survives(frames, start, path)
        /\ Route(start, path)[Len(frames)] = L[Len(L)][n].p
    BY <3>2, PathSurvives
  <3> QED BY <3>1, <3>3 DEF path, frames, start
 <2>6. ASSUME r.beam >= Columns * Rows
       PROVE  /\ a.status = "search_exhausted" => Reachable(r.frames, r.start) = {}
              /\ a.status = "no_terminal_witness" => Reachable(r.frames, r.start) \cap r.terminal = {}
  <3>1. Reachable(r.frames, r.start) \subseteq Held(L[Len(L)]) BY <2>2, <2>3, <2>6, ReachableHeld
  <3>2. ASSUME a.status = "search_exhausted" PROVE Held(L[Len(L)]) = {}
   <4>1. PICK t \in 1 .. Len(L) - 1 : L[t + 1] = << >> BY <2>2, <3>2 DEF Concludes
   <4>2. t + 1 \in 1 .. Len(L) BY <2>2
   <4>3. L[Len(L)] = << >> BY <2>2, <4>1, <4>2, NothingComesBack
   <4> QED BY <4>3 DEF Held
  <3>3. ASSUME a.status = "no_terminal_witness" PROVE Held(L[Len(L)]) \cap r.terminal = {}
    BY <2>2, <3>3 DEF Concludes, Held
  <3> QED BY <3>1, <3>2, <3>3
 <2> QED BY <2>4, <2>5, <2>6 DEF Truthful, a
<1> QED BY <1>2, <1>3

\* A search whose beam is narrow enough never ends for want of budget.
LEMMA CostBound ==
  ASSUME NEW frames, NEW start, NEW beam \in Nat, NEW L, Layered(L, frames, start, beam), NEW t \in 1 .. Len(L)
  PROVE  Costs(L)[t] <= 9 + 9 * (beam * (t - 1))
<1> DEFINE cost == Costs(L)
           n == Len(L) - 1
           T == {k \in 0 .. n : cost[k + 1] <= 9 + 9 * (beam * k)}
<1>1. L \in Seq(Seq(NodeSet)) /\ n \in Nat /\ Len(L) = n + 1 /\ L[1] = Root(start)
 <2>1. L \in Seq(Seq(NodeSet)) /\ L # << >> /\ L[1] = Root(start) BY DEF Layered
 <2> QED BY <2>1
<1>2. cost[0] = 0 /\ (\A k \in 0 .. Len(L) : cost[k] \in Nat) /\ \A k \in 1 .. Len(L) : cost[k] = cost[k - 1] + 9 * Len(L[k])
  BY <1>1, CostsAre
<1> HIDE DEF cost, n
<1>3. 0 \in T
 <2>1. Len(L[1]) = 1 BY <1>1 DEF Root
 <2>2. cost[1] = cost[0] + 9 * Len(L[1]) BY <1>1, <1>2
 <2>3. cost[0 + 1] = 9 /\ beam * 0 = 0 BY <1>2, <2>1, <2>2
 <2> QED BY <1>1, <2>3
<1>4. ASSUME NEW k \in 0 .. n - 1, k \in T PROVE k + 1 \in T
 <2>1. k + 1 \in 0 .. n /\ k + 1 \in 1 .. Len(L) - 1 /\ k + 2 \in 1 .. Len(L) /\ (k + 2) - 1 = k + 1 /\ (k + 1) + 1 = k + 2
       /\ k + 1 \in 0 .. Len(L) /\ k \in Nat
   BY <1>1
 <2>2. Grows(L[k + 1], L[k + 2], frames[k + 1], beam) BY <2>1 DEF Layered
 <2>3. L[k + 2] \in Seq(NodeSet) /\ Len(L[k + 2]) <= beam BY <2>2 DEF Grows
 <2> DEFINE m == Len(L[k + 2])
 <2>4. m \in Nat /\ m <= beam BY <2>3
 <2>5. cost[k + 2] = cost[k + 1] + 9 * m /\ cost[k + 1] \in Nat /\ cost[k + 1] <= 9 + 9 * (beam * k)
   BY <1>2, <1>4, <2>1
 <2> HIDE DEF m
 <2>6. beam * (k + 1) = beam * k + beam /\ beam * k \in Nat BY <2>1
 <2> DEFINE u == beam * k
            v == beam * (k + 1)
 <2>7. v = u + beam /\ u \in Nat /\ cost[k + 1] <= 9 + 9 * u BY <2>5, <2>6
 <2> HIDE DEF u, v
 <2>8. cost[k + 2] <= 9 + 9 * v BY <2>4, <2>5, <2>7
 <2> QED BY <2>1, <2>8 DEF v
<1> HIDE DEF T
<1>5. \A k \in 0 .. n : k \in T BY <1>1, <1>3, <1>4, CountUp
<1>6. t - 1 \in 0 .. n /\ (t - 1) + 1 = t BY <1>1
<1> QED BY <1>5, <1>6 DEF T, cost

Affordable(r) == 9 + 9 * (r.beam * (Len(r.frames) - 1)) <= r.limit

LEMMA NeverShort ==
  ASSUME NEW r, Question(r), Affordable(r)
  PROVE  Plan(r).status # "expansion_limit"
<1> DEFINE a == Plan(r)
           L == LayersOf(r)
<1>1. CASE ~(r.supported /\ r.epoch = r.expected /\ Searchable(r))
 <2>1. \E s \in {"unsupported_dependency", "invalidated", "invalid_argument"} : a = Failed(s, 0)
   BY <1>1 DEF Plan, Searchable
 <2>2. a.status \in {"unsupported_dependency", "invalidated", "invalid_argument"} BY <2>1 DEF Failed
 <2> HIDE DEF a
 <2> QED BY <2>2 DEF a
<1>2. CASE r.supported /\ r.epoch = r.expected /\ Searchable(r)
 <2>1. a = Search(r) /\ Searchable(r) BY <1>2 DEF Plan, Searchable
 <2>2. /\ Layered(L, r.frames, r.start, r.beam) /\ Len(L) = Len(r.frames) + 1 /\ L \in Seq(Seq(NodeSet))
       /\ Len(r.frames) \in Nat /\ Len(r.frames) >= 1 /\ Concludes(r, L, Costs(L), a)
   BY <2>1, SearchAnswers
 <2>3. r.beam \in Nat /\ r.limit \in Nat BY DEF Question
 <2> HIDE DEF a, L
 <2>4. ASSUME a.status = "expansion_limit" PROVE FALSE
  <3>1. PICK t \in 1 .. Len(L) - 1 : Costs(L)[t] > r.limit BY <2>2, <2>4 DEF Concludes
  <3> DEFINE beam == r.beam
             n == Len(r.frames)
  <3>2. Costs(L)[t] <= 9 + 9 * (beam * (t - 1)) /\ Costs(L)[t] \in Nat
   <4>1. t \in 1 .. Len(L) /\ t \in 0 .. Len(L) BY <2>2
   <4> HIDE DEF beam
   <4> QED BY <2>2, <2>3, <4>1, CostBound, CostsAre DEF beam
  <3>3. t - 1 \in Nat /\ n - 1 \in Nat /\ t - 1 <= n - 1 BY <2>2
  <3> DEFINE i == t - 1
             j == n - 1
             d == j - i
  <3>4. i \in Nat /\ d \in Nat /\ j = i + d BY <3>3
  <3> HIDE DEF n, i, j, d
  <3>5. beam * (i + d) = beam * i + beam * d /\ beam * i \in Nat /\ beam * d \in Nat BY <2>3, <3>4
  <3> DEFINE u == beam * i
             v == beam * j
  <3>6. u \in Nat /\ v \in Nat /\ u <= v BY <3>4, <3>5
  <3>7. Costs(L)[t] <= 9 + 9 * u /\ 9 + 9 * v <= r.limit BY <3>2 DEF Affordable, i, j, n
  <3> HIDE DEF u, v
  <3> QED BY <2>3, <3>1, <3>2, <3>6, <3>7
 <2> QED BY <2>4 DEF a
<1> QED BY <1>1, <1>2

----
\* The world of a scenario keeps its definition, and its cursor moves one
\* frame a step.
WorldFields == {"def", "seed", "bullets", "turns", "frame", "phase", "peak", "next", "events", "draws", "hook"}
World(w) == w = [f \in WorldFields |-> w[f]] /\ w.def \in Definitions /\ w.frame \in Nat
SameCursor(v, w) == World(v) /\ v.def = w.def /\ v.frame = w.frame /\ v.phase = w.phase

LEMMA SequenceIs ==
  ASSUME NEW S, NEW t \in Seq(S)
  PROVE  DOMAIN t = 1 .. Len(t) /\ Len(t) \in Nat /\ \A i \in 1 .. Len(t) : t[i] \in S
OBVIOUS

LEMMA DefinitionIs ==
  ASSUME NEW d \in Definitions
  PROVE  /\ Len(d.phases) \in Nat /\ Len(d.phases) >= 1 /\ DOMAIN d.phases = 1 .. Len(d.phases)
         /\ \A i \in 1 .. Len(d.phases) : d.phases[i].end \in Nat
         /\ \A i \in 2 .. Len(d.phases) : d.phases[i - 1].end < d.phases[i].end
         /\ d.phases[1].end > 0 /\ Duration(d) \in Nat
<1> DEFINE s == d.phases
           Phases == [end : Nat, pattern : {"curtain", "rings", "lane_shift", "quiet", "closing_gate"}]
<1>0. \A p \in Phases : p.end \in Nat OBVIOUS
<1>1. s \in Seq(Phases) /\ Len(s) \in 1 .. 64
      /\ \A i \in DOMAIN s : s[i].end > (IF i = 1 THEN 0 ELSE s[i - 1].end)
  BY ScenarioAssumption
<1>2. Duration(d) = s[Len(s)].end BY DEF Duration
<1> HIDE DEF s, Phases
<1>3. Len(s) \in Nat /\ Len(s) >= 1 /\ DOMAIN s = 1 .. Len(s)
 <2>1. s \in Seq(Phases) /\ Len(s) \in 1 .. 64 BY <1>1
 <2>2. DOMAIN s = 1 .. Len(s) /\ Len(s) \in Nat BY <2>1, SequenceIs, Zenon
 <2> QED BY <2>1, <2>2
<1>4. ASSUME NEW i \in 1 .. Len(s) PROVE s[i].end \in Nat
 <2>1. s \in Seq(Phases) /\ i \in 1 .. Len(s) BY <1>1
 <2>2. s[i] \in Phases BY ONLY <2>1
 <2> QED BY <1>0, <2>2
<1>5. ASSUME NEW i \in 2 .. Len(s) PROVE s[i - 1].end < s[i].end
 <2>1. i \in 1 .. Len(s) /\ i - 1 \in 1 .. Len(s) /\ i # 1 BY <1>3
 <2>2. s[i].end > s[i - 1].end /\ s[i].end \in Nat /\ s[i - 1].end \in Nat BY <1>1, <1>3, <1>4, <2>1
 <2> QED BY <2>2
<1>6. 1 \in 1 .. Len(s) /\ Len(s) \in 1 .. Len(s) BY <1>3
<1>7. s[1].end > 0 /\ s[Len(s)].end \in Nat BY <1>1, <1>3, <1>4, <1>6
<1> QED BY <1>2, <1>3, <1>4, <1>5, <1>7 DEF s

LEMMA TurnedIs ==
  ASSUME NEW w, World(w)
  PROVE  /\ World(Turned(w)) /\ Turned(w).def = w.def /\ Turned(w).frame = w.frame
         /\ Turned(w).phase = IF w.frame = w.def.phases[w.phase].end THEN w.phase + 1 ELSE w.phase
<1> DEFINE t == Turned(w)
<1>1. CASE w.frame # w.def.phases[w.phase].end
 <2>1. t = w BY <1>1 DEF Turned
 <2> HIDE DEF t
 <2> QED BY <1>1, <2>1 DEF t
<1>2. CASE w.frame = w.def.phases[w.phase].end
 <2> DEFINE turn == Append(w.turns, <<w.frame, Cardinality(w.bullets), w.draws, w.hook>>)
 <2>1. t = [w EXCEPT !.phase = @ + 1, !.turns = turn] BY <1>2 DEF Turned
 <2> HIDE DEF turn, t
 <2>2. DOMAIN w = WorldFields BY DEF World
 <2>3. t = [f \in WorldFields |-> IF f = "turns" THEN turn ELSE IF f = "phase" THEN w.phase + 1 ELSE w[f]]
   BY <2>1, <2>2 DEF WorldFields
 <2>4. t.def = w.def /\ t.frame = w.frame /\ t.phase = w.phase + 1 /\ t = [f \in WorldFields |-> t[f]]
   BY <2>3 DEF WorldFields
 <2> QED BY <1>2, <2>4 DEF World, t
<1> QED BY <1>1, <1>2

LEMMA EmittedIs ==
  ASSUME NEW w, World(w), NEW pattern, NEW local
  PROVE  SameCursor(Emit(w, pattern, local), w)
<1> DEFINE e == Emit(w, pattern, local)
<1>1. CASE ~Due(pattern, local)
 <2>1. e = w BY <1>1 DEF Emit
 <2> HIDE DEF e
 <2> QED BY <2>1 DEF SameCursor, e
<1>2. CASE Due(pattern, local)
 <2> DEFINE bullets == Volley(w, pattern, local)
            draws == IF pattern = "rings" THEN 2 ELSE 1
            some == w.bullets \union bullets
            next == w.next + Cardinality(bullets)
            lots == w.draws + draws
 <2>1. e = [w EXCEPT !.bullets = some, !.next = next, !.events = @ + 1, !.draws = lots]
   BY <1>2 DEF Emit, Spawned
 <2> HIDE DEF some, next, lots, e
 <2>2. DOMAIN w = WorldFields BY DEF World
 <2>3. e = [f \in WorldFields |-> IF f = "draws" THEN lots ELSE IF f = "events" THEN w.events + 1
                                  ELSE IF f = "next" THEN next ELSE IF f = "bullets" THEN some ELSE w[f]]
   BY <2>1, <2>2 DEF WorldFields
 <2>4. e.def = w.def /\ e.frame = w.frame /\ e.phase = w.phase /\ e = [f \in WorldFields |-> e[f]]
   BY <2>3 DEF WorldFields
 <2> QED BY <2>4 DEF World, SameCursor, e
<1> QED BY <1>1, <1>2

LEMMA SettledIs ==
  ASSUME NEW w, World(w), NEW live
  PROVE  World(Settled(w, live)) /\ Settled(w, live).def = w.def /\ Settled(w, live).frame = w.frame + 1 /\ Settled(w, live).phase = w.phase
<1> DEFINE s == Settled(w, live)
           peak == Max({w.peak, Cardinality(live)})
           hook == w.hook + w.def.visual
<1>1. s = [w EXCEPT !.hook = hook, !.frame = @ + 1, !.bullets = live, !.peak = peak] BY DEF Settled
<1> HIDE DEF s, peak, hook
<1>2. DOMAIN w = WorldFields BY DEF World
<1>3. s = [f \in WorldFields |-> IF f = "peak" THEN peak ELSE IF f = "bullets" THEN live
                                 ELSE IF f = "frame" THEN w.frame + 1 ELSE IF f = "hook" THEN hook ELSE w[f]]
  BY <1>1, <1>2 DEF WorldFields
<1>4. s.def = w.def /\ s.frame = w.frame + 1 /\ s.phase = w.phase /\ s = [f \in WorldFields |-> s[f]]
  BY <1>3 DEF WorldFields
<1>5. w.frame + 1 \in Nat BY DEF World
<1> QED BY <1>4, <1>5 DEF World, s

LEMMA StepIs ==
  ASSUME NEW w, World(w)
  PROVE  /\ World(Step(w)) /\ Step(w).def = w.def /\ Step(w).frame = w.frame + 1
         /\ Step(w).phase = IF w.frame = w.def.phases[w.phase].end THEN w.phase + 1 ELSE w.phase
<1> DEFINE t == Turned(w)
           e == Emitted(t)
<1>1. World(t) /\ t.def = w.def /\ t.frame = w.frame
      /\ t.phase = IF w.frame = w.def.phases[w.phase].end THEN w.phase + 1 ELSE w.phase
  BY TurnedIs
<1>2. Step(w) = Settled(e, Living(e)) BY DEF Step, Flown
<1> HIDE DEF t
<1>3. SameCursor(e, t) BY <1>1, EmittedIs DEF Emitted
<1> HIDE DEF e
<1>4. World(e) /\ e.def = t.def /\ e.frame = t.frame /\ e.phase = t.phase BY <1>3 DEF SameCursor
<1> DEFINE s == Settled(e, Living(e))
<1>5. World(s) /\ s.def = e.def /\ s.frame = e.frame + 1 /\ s.phase = e.phase BY <1>4, SettledIs
<1> HIDE DEF s
<1> QED BY <1>1, <1>2, <1>4, <1>5 DEF s

LEMMA CursorStays ==
  ASSUME NEW w, World(w), ValidCursor(w, TRUE), w.frame < Duration(w.def)
  PROVE  ValidCursor(Step(w), TRUE)
<1> DEFINE v == Step(w)
           s == w.def.phases
<1>1. v.def = w.def /\ v.frame = w.frame + 1 /\ v.phase = IF w.frame = s[w.phase].end THEN w.phase + 1 ELSE w.phase
  BY StepIs
<1>2. /\ Len(s) \in Nat /\ Len(s) >= 1 /\ DOMAIN s = 1 .. Len(s)
      /\ \A i \in 1 .. Len(s) : s[i].end \in Nat
      /\ \A i \in 2 .. Len(s) : s[i - 1].end < s[i].end
  BY DefinitionIs DEF World
<1>3. w.phase \in DOMAIN s /\ w.frame <= s[w.phase].end /\ w.frame >= Begin(w) /\ w.frame \in Nat /\ w.frame < s[Len(s)].end
  BY DEF ValidCursor, World, Duration
<1>4. Begin(w) = IF w.phase = 1 THEN 0 ELSE s[w.phase - 1].end BY DEF Begin
<1>5. Begin(v) = IF v.phase = 1 THEN 0 ELSE s[v.phase - 1].end BY <1>1 DEF Begin
<1>6. ValidCursor(v, TRUE) <=> v.phase \in DOMAIN s /\ v.frame <= s[Len(s)].end /\ v.frame >= Begin(v) /\ v.frame <= s[v.phase].end
  BY <1>1 DEF ValidCursor, Duration
<1> HIDE DEF v, s
<1>7. w.phase \in 1 .. Len(s) /\ w.phase \in Nat /\ Len(s) \in 1 .. Len(s) /\ s[w.phase].end \in Nat /\ s[Len(s)].end \in Nat
  BY <1>2, <1>3
<1>8. v.frame <= s[Len(s)].end BY <1>1, <1>3, <1>7
<1>9. CASE w.frame = s[w.phase].end
 <2>1. w.phase # Len(s) BY <1>3, <1>7, <1>9
 <2>2. v.phase = w.phase + 1 /\ v.phase \in 2 .. Len(s) /\ v.phase \in 1 .. Len(s) /\ v.phase - 1 = w.phase /\ v.phase # 1
   BY <1>1, <1>2, <1>7, <1>9, <2>1
 <2>3. Begin(v) = s[w.phase].end /\ s[w.phase].end < s[v.phase].end /\ s[v.phase].end \in Nat
   BY <1>2, <1>5, <2>2
 <2>4. v.phase \in DOMAIN s /\ v.frame >= Begin(v) /\ v.frame <= s[v.phase].end
   BY <1>1, <1>2, <1>3, <1>7, <1>9, <2>2, <2>3
 <2> QED BY <1>6, <1>8, <2>4 DEF v
<1>10. CASE w.frame # s[w.phase].end
 <2>1. v.phase = w.phase /\ Begin(v) = Begin(w) BY <1>1, <1>4, <1>5, <1>10
 <2>2. Begin(w) \in Nat
  <3>1. CASE w.phase = 1 BY <1>4, <3>1
  <3>2. CASE w.phase # 1
   <4>1. w.phase - 1 \in 1 .. Len(s) BY <1>7, <1>2, <3>2
   <4>2. Begin(w) = s[w.phase - 1].end BY <1>4, <3>2
   <4> QED BY <1>2, <4>1, <4>2
  <3> QED BY <3>1, <3>2
 <2>3. v.phase \in DOMAIN s /\ v.frame >= Begin(v) /\ v.frame <= s[v.phase].end
   BY <1>1, <1>3, <1>7, <1>10, <2>1, <2>2
 <2> QED BY <1>6, <1>8, <2>3 DEF v
<1> QED BY <1>9, <1>10 DEF v

----
\* The worlds that follow one another.
Tupled(s, n) == s = [i \in 1 .. n |-> s[i]]
Longer(w, ws, k) == Append(ws, Step(ws[k]))
Unfolds(ws, w, n) == Tupled(ws, n + 1) /\ ws[1] = w /\ \A k \in 1 .. n : ws[k + 1] = Step(ws[k])

Prolongs(t, s, n, e) == Tupled(t, n + 1) /\ t[n + 1] = e /\ \A i \in 1 .. n : t[i] = s[i]

LEMMA AppendIs ==
  ASSUME NEW n \in Nat, NEW s, Tupled(s, n), NEW e
  PROVE  Prolongs(Append(s, e), s, n, e)
<1> DEFINE S == {s[i] : i \in 1 .. n} \union {e}
           t == Append(s, e)
<1>1. s \in [1 .. n -> S] BY DEF Tupled
<1>2. e \in S OBVIOUS
<1> HIDE DEF S
<1>3. s \in Seq(S) /\ Len(s) = n BY <1>1
<1>4. t \in Seq(S) /\ Len(t) = n + 1 /\ t[n + 1] = e /\ \A i \in 1 .. n : t[i] = s[i] BY <1>2, <1>3
<1> HIDE DEF t
<1>5. t = [i \in 1 .. n + 1 |-> t[i]] BY <1>4
<1> QED BY <1>4, <1>5 DEF Tupled, Prolongs, t

LEMMA FuturesAre ==
  ASSUME NEW w, NEW n \in Nat
  PROVE  Unfolds(Futures(w, n), w, n)
<1> DEFINE Solves(f) == f = [t \in 0 .. n |-> IF t = 0 THEN << w >> ELSE Longer(w, f[t - 1], t)]
<1>2. \E f : Solves(f)
 <2> DEFINE Agrees(m, f) == f[0] = << w >> /\ \A k \in 1 .. m : f[k] = Longer(w, f[k - 1], k)
            S == {m \in 0 .. n : \E f : f = [k \in 0 .. m |-> f[k]] /\ Agrees(m, f)}
 <2>1. 0 \in S
  <3> DEFINE e == [k \in 0 .. 0 |-> << w >>]
  <3>1. Agrees(0, e) /\ e = [k \in 0 .. 0 |-> e[k]] OBVIOUS
  <3> HIDE DEF e, Agrees
  <3> QED BY <3>1
 <2>2. ASSUME NEW m \in 0 .. n - 1, m \in S PROVE m + 1 \in S
  <3>1. PICK f : f = [k \in 0 .. m |-> f[k]] /\ Agrees(m, f) BY <2>2
  <3> DEFINE g == [k \in 0 .. m + 1 |-> IF k = m + 1 THEN Longer(w, f[m], m + 1) ELSE f[k]]
  <3>2. ASSUME NEW k \in 1 .. m + 1 PROVE g[k] = Longer(w, g[k - 1], k)
   <4>1. CASE k = m + 1
    <5>1. k - 1 = m /\ m \in 0 .. m + 1 /\ m # m + 1 /\ m + 1 \in 0 .. m + 1 BY <4>1
    <5>2. g[m] = f[m] /\ g[m + 1] = Longer(w, f[m], m + 1) BY <5>1
    <5> QED BY <4>1, <5>1, <5>2
   <4>2. CASE k # m + 1
    <5>1. k \in 1 .. m /\ k - 1 # m + 1 /\ k \in 0 .. m + 1 /\ k - 1 \in 0 .. m + 1 BY <4>2
    <5>2. g[k] = f[k] /\ g[k - 1] = f[k - 1] BY <4>2, <5>1
    <5> QED BY <3>1, <5>1, <5>2
   <4> QED BY <4>1, <4>2
  <3>3. g[0] = f[0] /\ g = [k \in 0 .. m + 1 |-> g[k]]
   <4>1. 0 \in 0 .. m + 1 /\ 0 # m + 1 OBVIOUS
   <4> QED BY <4>1
  <3>4. Agrees(m + 1, g) BY <3>1, <3>2, <3>3
  <3>5. m + 1 \in 0 .. n OBVIOUS
  <3> HIDE DEF g, Agrees
  <3> QED BY <3>3, <3>4, <3>5
 <2> HIDE DEF S
 <2>3. n \in S
  <3>1. \A m \in 0 .. n : m \in S BY <2>1, <2>2, CountUp
  <3> QED BY <3>1
 <2>4. PICK f : f = [k \in 0 .. n |-> f[k]] /\ Agrees(n, f) BY <2>3 DEF S
 <2>5. ASSUME NEW k \in 0 .. n PROVE f[k] = IF k = 0 THEN << w >> ELSE Longer(w, f[k - 1], k)
  <3>1. CASE k = 0 BY <2>4, <3>1
  <3>2. CASE k # 0
   <4>1. k \in 1 .. n BY <3>2
   <4>2. f[k] = Longer(w, f[k - 1], k) BY <2>4, <4>1
   <4> QED BY <3>2, <4>2, Zenon
  <3> QED BY <3>1, <3>2
 <2>6. Solves(f) BY <2>4, <2>5
 <2> HIDE DEF Solves
 <2> QED BY <2>6
<1> DEFINE g == CHOOSE h : Solves(h)
<1>3. Futures(w, n) = g[n] BY DEF Futures, Longer
<1> HIDE DEF Solves
<1>4. Solves(g) BY <1>2, Zenon
<1> HIDE DEF g
<1>5. g[0] = << w >> /\ \A t \in 1 .. n : g[t] = Longer(w, g[t - 1], t) BY <1>4 DEF Solves
<1> DEFINE T == {t \in 0 .. n : Unfolds(g[t], w, t)}
<1>6. 0 \in T
 <2>1. Tupled(<< w >>, 0 + 1) /\ << w >>[1] = w BY DEF Tupled
 <2> QED BY <1>5, <2>1 DEF Unfolds
<1>7. ASSUME NEW t \in 0 .. n - 1, t \in T PROVE t + 1 \in T
 <2>1. t + 1 \in 1 .. n /\ (t + 1) - 1 = t /\ t + 1 \in 0 .. n /\ t + 1 \in Nat /\ t \in Nat OBVIOUS
 <2> DEFINE old == g[t]
            new == g[t + 1]
 <2>2. new = Append(old, Step(old[t + 1])) BY <1>5, <2>1 DEF Longer
 <2>3. Tupled(old, t + 1) /\ old[1] = w /\ \A k \in 1 .. t : old[k + 1] = Step(old[k]) BY <1>7 DEF Unfolds
 <2> HIDE DEF old, new
 <2>4. /\ Tupled(new, (t + 1) + 1) /\ new[(t + 1) + 1] = Step(old[t + 1])
       /\ \A i \in 1 .. t + 1 : new[i] = old[i]
  <3> DEFINE m == t + 1
             e == Step(old[t + 1])
  <3>1. m \in Nat /\ Tupled(old, m) /\ new = Append(old, e) BY <2>1, <2>2, <2>3
  <3> HIDE DEF m, e
  <3>2. m \in Nat /\ Tupled(old, m) BY <3>1
  <3>3. Prolongs(Append(old, e), old, m, e) BY <3>2, AppendIs
  <3>4. Prolongs(new, old, m, e) BY <3>1, <3>3
  <3> QED BY <3>4 DEF m, e, Prolongs
 <2>5. ASSUME NEW k \in 1 .. t + 1 PROVE new[k + 1] = Step(new[k])
  <3>1. CASE k = t + 1 BY <2>4, <3>1
  <3>2. CASE k # t + 1
   <4>1. k \in 1 .. t /\ k + 1 \in 1 .. t + 1 BY <2>1, <3>2
   <4>2. new[k + 1] = old[k + 1] /\ new[k] = old[k] BY <2>4, <4>1
   <4> QED BY <2>3, <4>1, <4>2
  <3> QED BY <3>1, <3>2
 <2>6. new[1] = w BY <2>1, <2>3, <2>4
 <2> QED BY <2>1, <2>4, <2>5, <2>6 DEF Unfolds, new
<1> HIDE DEF T
<1>8. \A t \in 0 .. n : t \in T BY <1>6, <1>7, CountUp
<1>9. Unfolds(g[n], w, n) BY <1>8 DEF T
<1> QED BY <1>3, <1>9

\* They all are worlds of the same definition, one frame apart.
LEMMA WorldsFollow ==
  ASSUME NEW w, World(w), NEW n \in Nat, NEW ws, Unfolds(ws, w, n)
  PROVE  \A k \in 0 .. n : World(ws[k + 1]) /\ ws[k + 1].def = w.def /\ ws[k + 1].frame = w.frame + k
<1> DEFINE T == {k \in 0 .. n : World(ws[k + 1]) /\ ws[k + 1].def = w.def /\ ws[k + 1].frame = w.frame + k}
<1>1. w.frame \in Nat BY DEF World
<1>2. 0 \in T BY <1>1 DEF Unfolds
<1>3. ASSUME NEW k \in 0 .. n - 1, k \in T PROVE k + 1 \in T
 <2>1. k + 1 \in 1 .. n /\ k + 1 \in 0 .. n /\ k \in Nat OBVIOUS
 <2> DEFINE old == ws[k + 1]
            new == ws[(k + 1) + 1]
 <2>2. new = Step(old) BY <2>1 DEF Unfolds
 <2>3. World(old) /\ old.def = w.def /\ old.frame = w.frame + k BY <1>3
 <2> HIDE DEF old, new
 <2>4. World(new) /\ new.def = w.def /\ new.frame = old.frame + 1 BY <2>2, <2>3, StepIs
 <2>5. new.frame = w.frame + (k + 1) BY <1>1, <2>1, <2>3, <2>4
 <2> QED BY <2>1, <2>4, <2>5 DEF new
<1> HIDE DEF T
<1>4. \A k \in 0 .. n : k \in T BY <1>2, <1>3, CountUp
<1> QED BY <1>4 DEF T

LEMMA CheckpointIs ==
  ASSUME NEW d \in Definitions, NEW seed
  PROVE  World(Checkpoint(d, seed)) /\ Checkpoint(d, seed).def = d
  BY DEF Checkpoint, World, WorldFields

----
\* The nearest of some places, the first by rows among those as near.
NearerTo(d, p, q) == d[p] < d[q] \/ (d[p] = d[q] /\ (p[2] < q[2] \/ (p[2] = q[2] /\ p[1] <= q[1])))
Strictly(d, p, q) == d[p] < d[q] \/ (d[p] = d[q] /\ (p[2] < q[2] \/ (p[2] = q[2] /\ p[1] < q[1])))

LEMMA NearestExists ==
  ASSUME NEW S, S \subseteq Int \X Int, IsFiniteSet(S), S # {}, NEW d, d \in [S -> Int]
  PROVE  \E p \in S : \A q \in S : NearerTo(d, p, q)
<1> DEFINE R == {x \in S \X S : Strictly(d, x[1], x[2])}
           place == [g \in S |-> 1 + Cardinality({h \in S : <<h, g>> \in R})]
<1>1. \A p \in S : p[1] \in Int /\ p[2] \in Int /\ d[p] \in Int /\ p = <<p[1], p[2]>> OBVIOUS
<1>2. Orders(R, S)
 <2>1. \A p, q \in S : <<p, q>> \in R <=> Strictly(d, p, q) OBVIOUS
 <2> HIDE DEF R
 <2>2. \A p \in S : <<p, p>> \notin R BY <1>1, <2>1 DEF Strictly
 <2>3. ASSUME NEW p \in S, NEW q \in S, p # q PROVE <<p, q>> \in R \/ <<q, p>> \in R
  <3>1. p[1] # q[1] \/ p[2] # q[2] BY <1>1, <2>3
  <3>2. p[1] \in Int /\ p[2] \in Int /\ d[p] \in Int /\ q[1] \in Int /\ q[2] \in Int /\ d[q] \in Int BY <1>1
  <3>3. Strictly(d, p, q) \/ Strictly(d, q, p) BY <3>1, <3>2 DEF Strictly
  <3> QED BY <2>1, <3>3
 <2>4. ASSUME NEW p \in S, NEW q \in S, NEW r \in S, <<p, q>> \in R, <<q, r>> \in R PROVE <<p, r>> \in R
  <3>1. Strictly(d, p, q) /\ Strictly(d, q, r) BY <2>1, <2>4
  <3>2. /\ p[1] \in Int /\ p[2] \in Int /\ d[p] \in Int /\ q[1] \in Int /\ q[2] \in Int /\ d[q] \in Int
        /\ r[1] \in Int /\ r[2] \in Int /\ d[r] \in Int
    BY <1>1
  <3>3. Strictly(d, p, r) BY <3>1, <3>2 DEF Strictly
  <3> QED BY <2>1, <3>3
 <2> QED BY <2>2, <2>3, <2>4 DEF Orders
<1> HIDE DEF R
<1>3. Cardinality(S) \in Nat /\ Cardinality(S) # 0 BY FS_CardinalityType, FS_EmptySet
<1>4. \E p \in S : place[p] = 1
 <2>1. place = [g \in S |-> 1 + Cardinality({h \in S : <<h, g>> \in R})] OBVIOUS
 <2> HIDE DEF place
 <2>2. \A i \in 1 .. Cardinality(S) : \E p \in S : place[p] = i BY <1>2, <2>1, PlacesTaken
 <2>3. 1 \in 1 .. Cardinality(S) BY <1>3
 <2> QED BY <2>2, <2>3
<1>5. PICK p \in S : place[p] = 1 BY <1>4
<1>6. \A q \in S : <<q, p>> \notin R
 <2> DEFINE Back == {h \in S : <<h, p>> \in R}
 <2>1. IsFiniteSet(Back) /\ 1 + Cardinality(Back) = 1 BY <1>5, FS_Subset
 <2>2. Cardinality(Back) \in Nat BY <2>1, FS_CardinalityType
 <2> HIDE DEF Back
 <2>3. Back = {} BY <2>1, <2>2, FS_EmptySet
 <2> QED BY <2>3 DEF Back
<1>7. ASSUME NEW q \in S PROVE NearerTo(d, p, q)
 <2>1. p[1] \in Int /\ p[2] \in Int /\ d[p] \in Int /\ q[1] \in Int /\ q[2] \in Int /\ d[q] \in Int BY <1>1
 <2>2. CASE p = q BY <2>1, <2>2 DEF NearerTo
 <2>3. CASE p # q
  <3>1. <<p, q>> \in R BY <1>2, <1>6, <2>3 DEF Orders
  <3>2. Strictly(d, p, q) BY <3>1 DEF R
  <3> QED BY <2>1, <3>2 DEF NearerTo, Strictly
 <2> QED BY <2>2, <2>3
<1> QED BY <1>7

LEMMA RefugeIs ==
  ASSUME NEW frames, NEW from \in Positions, Refuges(frames, from) # {}
  PROVE  Refuge(frames, from) \in Refuges(frames, from) /\ Refuge(frames, from) \in Positions
<1> DEFINE S == Refuges(frames, from)
           d == [p \in S |-> Distance(p, from)]
           Best1(p) == p \in S /\ \A q \in S : NearerTo(d, p, q)
<1>1. S \subseteq Positions BY DEF Refuges
<1>2. Positions \subseteq Int \X Int BY BeamPlanAssumption DEF Positions
<1>3. IsFiniteSet(S) BY <1>1, PositionsCount, FS_Subset
<1>4. d \in [S -> Int]
 <2>1. \A p \in S : Distance(p, from) \in Int BY <1>1, <1>2, DistanceCounts
 <2> HIDE DEF S
 <2> QED BY <2>1
<1> HIDE DEF S
<1>5. Refuge(frames, from) = CHOOSE p \in S : \A q \in S : NearerTo(d, p, q)
 <2>1. \A p, q \in S : NearerTo(d, p, q) <=>
          \/ Distance(p, from) < Distance(q, from)
          \/ Distance(p, from) = Distance(q, from) /\ (p[2] < q[2] \/ (p[2] = q[2] /\ p[1] <= q[1]))
   BY DEF NearerTo
 <2> QED BY <2>1 DEF Refuge, S
<1> HIDE DEF d
<1>6. Refuge(frames, from) = CHOOSE p : Best1(p) BY <1>5
<1>7. \E p : Best1(p) BY <1>1, <1>2, <1>3, <1>4, NearestExists DEF S
<1> HIDE DEF Best1
<1>8. Best1(CHOOSE p : Best1(p)) BY <1>7, Zenon
<1> QED BY <1>1, <1>6, <1>8 DEF Best1, S

LEMMA GreedyActs ==
  ASSUME NEW w, NEW given \in Actions, player \in Positions, options.goal \in Positions
  PROVE  Greedy(w, given) \in Actions
<1> DEFINE S == {a \in Actions : ~Collision(w, Advance(player, a))}
           d == [a \in S |-> Distance(Advance(player, a), options.goal)]
           Best1(a) == a \in S /\ \A b \in S : NearerTo(d, a, b)
<1>1. S \subseteq Actions /\ Actions \subseteq Int \X Int BY DEF Actions
<1>2. IsFiniteSet(S) BY <1>1, ActionsFinite, FS_Subset
<1>3. d \in [S -> Int]
 <2>1. options.goal \in Int \X Int BY BeamPlanAssumption DEF Positions
 <2>2. \A a \in S : Distance(Advance(player, a), options.goal) \in Int
   BY <1>1, <2>1, AdvanceStays, DistanceCounts
 <2> HIDE DEF S
 <2> QED BY <2>2
<1> HIDE DEF S
<1>4. Greedy(w, given) = IF S = {} THEN given ELSE CHOOSE a \in S : \A b \in S : NearerTo(d, a, b)
 <2> DEFINE far(a) == Distance(Advance(player, a), options.goal)
            Closer(a, b) == far(a) < far(b) \/ (far(a) = far(b) /\ (a[2] < b[2] \/ (a[2] = b[2] /\ a[1] <= b[1])))
 <2>1. \A a, b \in S : NearerTo(d, a, b) <=> Closer(a, b) BY DEF NearerTo
 <2>2. Greedy(w, given) = IF S = {} THEN given ELSE CHOOSE a \in S : \A b \in S : Closer(a, b) BY DEF Greedy, S
 <2> HIDE DEF Closer, d
 <2>3. (CHOOSE a \in S : \A b \in S : Closer(a, b)) = CHOOSE a \in S : \A b \in S : NearerTo(d, a, b) BY <2>1
 <2> QED BY <2>2, <2>3
<1> HIDE DEF d
<1>5. CASE S = {} BY <1>4, <1>5
<1>6. CASE S # {}
 <2>1. Greedy(w, given) = CHOOSE a : Best1(a) BY <1>4, <1>6
 <2>2. \E a : Best1(a) BY <1>1, <1>2, <1>3, <1>6, NearestExists
 <2> HIDE DEF Best1
 <2>3. Best1(CHOOSE a : Best1(a)) BY <2>2, Zenon
 <2> QED BY <1>1, <2>1, <2>3 DEF Best1
<1> QED BY <1>5, <1>6

----
\* A replay of one more action is one more step of a replay.
Following(start, s, f) == f = [k \in 0 .. Len(s) |-> IF k = 0 THEN start ELSE Replay1(f[k - 1], s[k], k)]

LEMMA ReplayedIs ==
  ASSUME NEW start, NEW s \in Seq(Actions)
  PROVE  \E f : Following(start, s, f) /\ Replayed(start, s) = f[Len(s)]
<1> DEFINE n == Len(s)
           Solves(f) == f = [k \in 0 .. n |-> IF k = 0 THEN start ELSE Replay1(f[k - 1], s[k], k)]
<1>1. n \in Nat OBVIOUS
<1>2. \E f : Solves(f)
 <2> DEFINE Agrees(m, f) == f[0] = start /\ \A k \in 1 .. m : f[k] = Replay1(f[k - 1], s[k], k)
            S == {m \in 0 .. n : \E f : f = [k \in 0 .. m |-> f[k]] /\ Agrees(m, f)}
 <2> HIDE DEF n
 <2>1. 0 \in S
  <3> DEFINE e == [k \in 0 .. 0 |-> start]
  <3>1. Agrees(0, e) /\ e = [k \in 0 .. 0 |-> e[k]] OBVIOUS
  <3> HIDE DEF e, Agrees
  <3> QED BY <1>1, <3>1
 <2>2. ASSUME NEW m \in 0 .. n - 1, m \in S PROVE m + 1 \in S
  <3>1. PICK f : f = [k \in 0 .. m |-> f[k]] /\ Agrees(m, f) BY <2>2
  <3> DEFINE g == [k \in 0 .. m + 1 |-> IF k = m + 1 THEN Replay1(f[m], s[m + 1], m + 1) ELSE f[k]]
  <3>2. ASSUME NEW k \in 1 .. m + 1 PROVE g[k] = Replay1(g[k - 1], s[k], k)
   <4>1. CASE k = m + 1
    <5>1. k - 1 = m /\ m \in 0 .. m + 1 /\ m # m + 1 /\ m + 1 \in 0 .. m + 1 BY <4>1
    <5>2. g[m] = f[m] /\ g[m + 1] = Replay1(f[m], s[m + 1], m + 1) BY <5>1
    <5> QED BY <4>1, <5>1, <5>2
   <4>2. CASE k # m + 1
    <5>1. k \in 1 .. m /\ k - 1 # m + 1 /\ k \in 0 .. m + 1 /\ k - 1 \in 0 .. m + 1 BY <4>2
    <5>2. g[k] = f[k] /\ g[k - 1] = f[k - 1] BY <4>2, <5>1
    <5> QED BY <3>1, <5>1, <5>2
   <4> QED BY <4>1, <4>2
  <3>3. g[0] = f[0] /\ g = [k \in 0 .. m + 1 |-> g[k]]
   <4>1. 0 \in 0 .. m + 1 /\ 0 # m + 1 OBVIOUS
   <4> QED BY <4>1
  <3>4. Agrees(m + 1, g) BY <3>1, <3>2, <3>3
  <3>5. m + 1 \in 0 .. n BY <1>1
  <3> HIDE DEF g, Agrees
  <3> QED BY <3>3, <3>4, <3>5
 <2> HIDE DEF S
 <2>3. n \in S
  <3>1. \A m \in 0 .. n : m \in S BY <1>1, <2>1, <2>2, CountUp
  <3> QED BY <1>1, <3>1
 <2>4. PICK f : f = [k \in 0 .. n |-> f[k]] /\ Agrees(n, f) BY <2>3 DEF S
 <2>5. ASSUME NEW k \in 0 .. n PROVE f[k] = IF k = 0 THEN start ELSE Replay1(f[k - 1], s[k], k)
  <3>1. CASE k = 0 BY <2>4, <3>1
  <3>2. CASE k # 0
   <4>1. k \in 1 .. n BY <1>1, <3>2
   <4>2. f[k] = Replay1(f[k - 1], s[k], k) BY <2>4, <4>1
   <4> QED BY <3>2, <4>2, Zenon
  <3> QED BY <3>1, <3>2
 <2>6. Solves(f) BY <2>4, <2>5
 <2> HIDE DEF Solves
 <2> QED BY <2>6
<1> DEFINE g == CHOOSE h : Solves(h)
<1>3. Replayed(start, s) = g[n] BY DEF Replayed
<1>4. \A f : Solves(f) <=> Following(start, s, f) BY DEF Following
<1> HIDE DEF Solves
<1>5. Solves(g) BY <1>2, Zenon
<1> HIDE DEF g
<1>6. Following(start, s, g) BY <1>4, <1>5
<1> QED BY <1>3, <1>6 DEF n

LEMMA ReplayedNothing ==
  ASSUME NEW start
  PROVE  Replayed(start, << >>) = start
<1>1. << >> \in Seq(Actions) /\ Len(<< >>) = 0 OBVIOUS
<1>2. PICK f : Following(start, << >>, f) /\ Replayed(start, << >>) = f[Len(<< >>)] BY <1>1, ReplayedIs
<1>3. f = [k \in 0 .. 0 |-> IF k = 0 THEN start ELSE Replay1(f[k - 1], << >>[k], k)] BY <1>1, <1>2 DEF Following
<1>4. f[0] = start BY <1>3
<1> QED BY <1>1, <1>2, <1>4

LEMMA ReplayedFurther ==
  ASSUME NEW start, NEW s \in Seq(Actions), NEW a \in Actions
  PROVE  Replayed(start, Append(s, a)) = Replay1(Replayed(start, s), a, Len(s) + 1)
<1> DEFINE n == Len(s)
           t == Append(s, a)
<1>1. n \in Nat /\ t \in Seq(Actions) /\ Len(t) = n + 1 /\ t[n + 1] = a /\ \A k \in 1 .. n : t[k] = s[k] OBVIOUS
<1>2. PICK f : Following(start, s, f) /\ Replayed(start, s) = f[n] BY ReplayedIs
<1> HIDE DEF t
<1>3. PICK g : Following(start, t, g) /\ Replayed(start, t) = g[n + 1] BY <1>1, ReplayedIs
<1> HIDE DEF n
<1>4. f[0] = start /\ \A k \in 1 .. n : f[k] = Replay1(f[k - 1], s[k], k)
 <2>1. f = [k \in 0 .. n |-> IF k = 0 THEN start ELSE Replay1(f[k - 1], s[k], k)] BY <1>2 DEF Following, n
 <2> QED BY <1>1, <2>1
<1>5. g[0] = start /\ \A k \in 1 .. n + 1 : g[k] = Replay1(g[k - 1], t[k], k)
 <2>1. g = [k \in 0 .. n + 1 |-> IF k = 0 THEN start ELSE Replay1(g[k - 1], t[k], k)]
   BY <1>1, <1>3 DEF Following
 <2>2. g[0] = start BY <1>1, <2>1
 <2>3. ASSUME NEW k \in 1 .. n + 1 PROVE g[k] = Replay1(g[k - 1], t[k], k)
  <3>1. k \in 0 .. n + 1 /\ k # 0 BY <1>1
  <3> QED BY <2>1, <3>1
 <2> QED BY <2>2, <2>3
<1> DEFINE T == {k \in 0 .. n : f[k] = g[k]}
<1>6. 0 \in T BY <1>1, <1>4, <1>5
<1>7. ASSUME NEW k \in 0 .. n - 1, k \in T PROVE k + 1 \in T
 <2>1. k + 1 \in 1 .. n /\ k + 1 \in 1 .. n + 1 /\ (k + 1) - 1 = k /\ k + 1 \in 0 .. n BY <1>1
 <2>2. f[k + 1] = Replay1(f[k], s[k + 1], k + 1) /\ g[k + 1] = Replay1(g[k], t[k + 1], k + 1)
   BY <1>4, <1>5, <2>1
 <2>3. f[k] = g[k] /\ t[k + 1] = s[k + 1] BY <1>1, <1>7, <2>1
 <2> QED BY <2>1, <2>2, <2>3
<1> HIDE DEF T
<1>8. \A k \in 0 .. n : k \in T BY <1>1, <1>6, <1>7, CountUp
<1>9. f[n] = g[n] BY <1>1, <1>8 DEF T
<1>10. n + 1 \in 1 .. n + 1 /\ (n + 1) - 1 = n BY <1>1
<1>11. g[n + 1] = Replay1(g[n], a, n + 1) BY <1>1, <1>5, <1>10
<1> QED BY <1>2, <1>3, <1>9, <1>11 DEF t, n

----
\* The beam of a retry is one that what is left can pay for.
LEMMA RetryAffordable ==
  ASSUME NEW n \in Nat, n >= 1, NEW beam \in Nat, NEW left \in Nat, RecoveryBeam(n, beam, left) > 0
  PROVE  RecoveryBeam(n, beam, left) \in Nat /\ 9 + 9 * (RecoveryBeam(n, beam, left) * (n - 1)) <= left
<1> DEFINE b == RecoveryBeam(n, beam, left)
<1>1. b = IF left < 9 * n THEN 0 ELSE IF n = 1 THEN beam ELSE Min({beam, (left \div 9 - 1) \div (n - 1)})
  BY DEF RecoveryBeam, Branching
<1>2. b > 0 OBVIOUS
<1> HIDE DEF b
<1>3. ~(left < 9 * n) BY <1>1, <1>2
<1>4. CASE n = 1
 <2>1. b = beam /\ n - 1 = 0 BY <1>1, <1>3, <1>4
 <2>2. b * (n - 1) = 0 BY <2>1
 <2> QED BY <1>3, <1>4, <2>1, <2>2 DEF b
<1>5. CASE n # 1
 <2> DEFINE q == left \div 9
            m == n - 1
 <2>1. q \in Nat /\ 9 * q <= left /\ left < 9 * q + 9 OBVIOUS
 <2>2. m \in Nat /\ m >= 1 /\ m + 1 = n BY <1>5
 <2> HIDE DEF q, m
 <2>3. q >= n /\ q - 1 \in Nat BY <1>3, <2>1, <2>2
 <2> DEFINE p == q - 1
            e == p \div m
 <2>4. e \in Nat /\ m * e <= p
  <3>1. p \in Nat BY <2>3
  <3> HIDE DEF p
  <3> QED BY <2>2, <3>1
 <2>5. b = Min({beam, e}) BY <1>1, <1>3, <1>5 DEF q, m
 <2> HIDE DEF p, e
 <2>6. b \in {beam, e} /\ b <= e
  <3>1. {beam, e} \subseteq Nat /\ {beam, e} # {} BY <2>4
  <3>2. Min({beam, e}) \in {beam, e} /\ \A k \in {beam, e} : Min({beam, e}) <= k BY <3>1, MinOf
  <3> QED BY <2>5, <3>2
 <2>7. b \in Nat BY <2>4, <2>6
 <2> DEFINE d == e - b
 <2>8. d \in Nat /\ e = b + d BY <2>4, <2>6, <2>7
 <2> HIDE DEF d
 <2>9. m * (b + d) = b * m + d * m /\ b * m \in Nat /\ d * m \in Nat BY <2>2, <2>7, <2>8
 <2> DEFINE u == b * m
 <2>10. u \in Nat /\ u <= p BY <2>3, <2>4, <2>8, <2>9 DEF p
 <2>11. b * (n - 1) = u BY DEF m
 <2> HIDE DEF u
 <2>12. 9 + 9 * u <= left BY <2>1, <2>3, <2>10 DEF p
 <2> QED BY <2>7, <2>11, <2>12 DEF b
<1> QED BY <1>4, <1>5

----
\* A player who walks through the coming worlds and is never hit.
Walk(F, at, w, p, actions) ==
    /\ F[0] = w /\ at[0] = p
    /\ \A k \in 1 .. Len(actions) :
          /\ F[k] = Step(F[k - 1]) /\ at[k] = Advance(at[k - 1], actions[k])
          /\ at[k] \in Positions /\ at[k] \notin Blocked(F[k])
Safely(w, p, actions) == \E F, at : Walk(F, at, w, p, actions)

LEMMA WalkTaken ==
  ASSUME NEW w, NEW p, NEW actions \in Seq(Actions), Safely(w, p, actions), NEW n \in 1 .. Len(actions)
  PROVE  /\ SubSeq(actions, 1, n) \in Seq(Actions) /\ Len(SubSeq(actions, 1, n)) = n
         /\ Safely(w, p, SubSeq(actions, 1, n))
<1> DEFINE pre == SubSeq(actions, 1, n)
<1>1. pre \in Seq(Actions) /\ Len(pre) = n /\ \A k \in 1 .. n : pre[k] = actions[k] OBVIOUS
<1> HIDE DEF pre
<1>2. PICK F, at : Walk(F, at, w, p, actions) BY DEF Safely
<1>3. \A k \in 1 .. n : k \in 1 .. Len(actions) OBVIOUS
<1>4. Walk(F, at, w, p, pre) BY <1>1, <1>2, <1>3 DEF Walk
<1> QED BY <1>1, <1>4 DEF Safely, pre

LEMMA WalkOn ==
  ASSUME NEW w, NEW p, NEW actions \in Seq(Actions), actions # << >>, Safely(w, p, actions)
  PROVE  /\ ~Collision(Step(w), Advance(p, Head(actions)))
         /\ Safely(Step(w), Advance(p, Head(actions)), Tail(actions))
<1>1. /\ Len(actions) \in Nat /\ Len(actions) >= 1 /\ Head(actions) = actions[1] /\ Len(Tail(actions)) = Len(actions) - 1
      /\ \A k \in 1 .. Len(actions) - 1 : Tail(actions)[k] = actions[k + 1]
  OBVIOUS
<1>2. PICK F, at : Walk(F, at, w, p, actions) BY DEF Safely
<1>3. F[0] = w /\ at[0] = p BY <1>2 DEF Walk
<1>4. \A k \in 1 .. Len(actions) : F[k] = Step(F[k - 1]) /\ at[k] = Advance(at[k - 1], actions[k]) /\ at[k] \in Positions /\ at[k] \notin Blocked(F[k])
  BY <1>2 DEF Walk
<1>5. 1 \in 1 .. Len(actions) /\ 1 - 1 = 0 BY <1>1
<1>6. F[1] = Step(w) /\ at[1] = Advance(p, Head(actions)) /\ at[1] \in Positions /\ at[1] \notin Blocked(F[1])
  BY <1>1, <1>3, <1>4, <1>5
<1>7. ~Collision(F[1], at[1]) BY <1>6 DEF Blocked
<1> DEFINE n == Len(actions) - 1
           G == [k \in 0 .. n |-> F[k + 1]]
           to == [k \in 0 .. n |-> at[k + 1]]
           rest == Tail(actions)
<1>8. n \in Nat /\ Len(rest) = n /\ \A k \in 1 .. n : rest[k] = actions[k + 1] BY <1>1
<1>9. G[0] = F[1] /\ to[0] = at[1] BY <1>8
<1>10. ASSUME NEW k \in 1 .. n
       PROVE  G[k] = Step(G[k - 1]) /\ to[k] = Advance(to[k - 1], rest[k]) /\ to[k] \in Positions /\ to[k] \notin Blocked(G[k])
 <2>1. k \in 0 .. n /\ k - 1 \in 0 .. n /\ (k - 1) + 1 = k /\ k + 1 \in 1 .. Len(actions) /\ (k + 1) - 1 = k
   BY <1>8
 <2>2. G[k] = F[k + 1] /\ G[k - 1] = F[k] /\ to[k] = at[k + 1] /\ to[k - 1] = at[k] BY <2>1
 <2>3. F[k + 1] = Step(F[k]) /\ at[k + 1] = Advance(at[k], actions[k + 1]) /\ at[k + 1] \in Positions /\ at[k + 1] \notin Blocked(F[k + 1])
   BY <1>4, <2>1
 <2>4. rest[k] = actions[k + 1] BY <1>8
 <2> HIDE DEF G, to, rest, n
 <2> QED BY <2>2, <2>3, <2>4
<1> HIDE DEF G, to, rest, n
<1>11. Walk(G, to, F[1], at[1], rest) BY <1>8, <1>9, <1>10 DEF Walk
<1>12. Safely(F[1], at[1], rest) BY <1>11 DEF Safely
<1> QED BY <1>6, <1>7, <1>12 DEF rest

\* A forecast is the future: a path that survives it is a safe walk.
LEMMA ForecastIs ==
  ASSUME NEW w, World(w), w.frame < Duration(w.def), NEW horizon \in Nat, horizon >= 1
  PROVE  /\ Forecast(w, horizon) \in Seq(SUBSET Positions)
         /\ Len(Forecast(w, horizon)) \in Nat /\ Len(Forecast(w, horizon)) >= 1
         /\ \A p \in Positions, actions \in Seq(Actions) :
               Len(actions) = Len(Forecast(w, horizon)) /\ Survives(Forecast(w, horizon), p, actions)
               => Safely(w, p, actions)
<1> DEFINE h == Horizon(w, horizon)
           ws == Futures(w, h)
           frames == [t \in 1 .. h |-> Blocked(ws[t + 1])]
<1>1. Forecast(w, horizon) = frames BY DEF Forecast
<1>2. h \in Nat /\ h >= 1
 <2> DEFINE left == Duration(w.def) - w.frame
 <2>1. left \in Nat /\ left >= 1
  <3>1. Duration(w.def) \in Nat /\ w.frame \in Nat BY DefinitionIs DEF World
  <3> QED BY <3>1
 <2> HIDE DEF left
 <2>2. Min({horizon, left}) \in {horizon, left}
  <3>1. {horizon, left} \subseteq Nat /\ {horizon, left} # {} BY <2>1
  <3> QED BY <3>1, MinOf
 <2>3. h = Min({horizon, left}) BY DEF Horizon, left
 <2> HIDE DEF h
 <2> QED BY <2>1, <2>2, <2>3
<1> HIDE DEF h
<1>3. Unfolds(ws, w, h) BY <1>2, FuturesAre
<1> HIDE DEF ws
<1>4. \A t \in 1 .. h : frames[t] = Blocked(ws[t + 1]) /\ Blocked(ws[t + 1]) \in SUBSET Positions BY DEF Blocked
<1>5. frames \in Seq(SUBSET Positions) /\ Len(frames) = h
 <2>1. frames \in [1 .. h -> SUBSET Positions] BY <1>4
 <2> HIDE DEF frames
 <2> QED BY <1>2, <2>1
<1> HIDE DEF frames
<1>6. ASSUME NEW p \in Positions, NEW actions \in Seq(Actions), Len(actions) = h, Survives(frames, p, actions)
      PROVE  Safely(w, p, actions)
 <2> DEFINE at == Route(p, actions)
            F == [k \in 0 .. h |-> ws[k + 1]]
 <2>1. at[0] = p /\ \A t \in 0 .. h : at[t] \in Positions BY <1>6, RouteIs
 <2>2. \A t \in 1 .. h : at[t] = Advance(at[t - 1], actions[t]) BY <1>6, RouteIs
 <2>3. \A t \in 1 .. h : at[t] \notin frames[t]
  <3>1. DOMAIN actions = 1 .. h BY <1>6
  <3> QED BY <1>6, <3>1 DEF Survives
 <2>4. F[0] = w BY <1>2, <1>3 DEF Unfolds
 <2> HIDE DEF at
 <2>5. ASSUME NEW k \in 1 .. h
       PROVE  F[k] = Step(F[k - 1]) /\ at[k] = Advance(at[k - 1], actions[k]) /\ at[k] \in Positions /\ at[k] \notin Blocked(F[k])
  <3>1. k \in 0 .. h /\ k - 1 \in 0 .. h /\ (k - 1) + 1 = k BY <1>2
  <3>2. F[k] = ws[k + 1] /\ F[k - 1] = ws[k] BY <3>1
  <3>3. ws[k + 1] = Step(ws[k]) BY <1>3 DEF Unfolds
  <3>4. at[k] \notin Blocked(ws[k + 1]) BY <1>4, <2>3
  <3> HIDE DEF F
  <3> QED BY <2>1, <2>2, <3>1, <3>2, <3>3, <3>4
 <2> HIDE DEF F
 <2>6. Walk(F, at, w, p, actions) BY <1>6, <2>1, <2>4, <2>5 DEF Walk
 <2> QED BY <2>6 DEF Safely
<1> QED BY <1>1, <1>2, <1>5, <1>6

----
\* What a decision does.
Deciding ==
    /\ World(world) /\ world.frame < Duration(world.def) /\ player \in Positions
    /\ options \in Runs /\ chosen \in Seq(Actions)
Posed(r) ==
    Question(r) /\ r.frames = Forecast(world, options.horizon) /\ r.start = player
Decided ==
    \/ /\ stage' = "execute" /\ outcome' = outcome
       /\ chosen' \in Seq(Actions) /\ chosen' # << >> /\ Safely(world, player, chosen')
    \/ stage' = "replay" /\ outcome' = "search_limit" /\ chosen' = chosen

LEMMA RunIs ==
  ASSUME Deciding
  PROVE  /\ options.horizon \in Nat /\ options.horizon >= 1 /\ options.beam \in Nat /\ options.beam >= 1 /\ options.limit \in Nat
         /\ options.commit \in Nat /\ options.commit >= 1 /\ options.goal \in Positions
  BY ScenarioAssumption DEF Deciding

LEMMA AcceptIs ==
  ASSUME Deciding, NEW r, Posed(r), NEW answer, answer = Plan(r), Accept(answer)
  PROVE  Decided
<1>1. Truthful(r, answer) /\ (answer.status = "found" => answer.actions \in Seq(Actions))
  BY PlanTruthful DEF Posed
<1>2. CASE answer.status # "found" BY <1>2 DEF Accept, Decided
<1>3. CASE answer.status = "found"
 <2> DEFINE actions == answer.actions
            frames == Forecast(world, options.horizon)
            n == Min({Len(actions), options.commit})
 <2>1. /\ frames \in Seq(SUBSET Positions) /\ Len(frames) \in Nat /\ Len(frames) >= 1
       /\ \A p \in Positions, acts \in Seq(Actions) :
             Len(acts) = Len(frames) /\ Survives(frames, p, acts) => Safely(world, p, acts)
   BY RunIs, ForecastIs DEF Deciding
 <2>2. actions \in Seq(Actions) /\ Len(actions) = Len(frames) /\ Survives(frames, player, actions)
   BY <1>1, <1>3 DEF Truthful, Posed
 <2>3. chosen' = SubSeq(actions, 1, n) /\ stage' = "execute" /\ outcome' = outcome BY <1>3 DEF Accept, Taking
 <2> HIDE DEF actions, frames
 <2>4. Safely(world, player, actions) BY <2>1, <2>2 DEF Deciding
 <2>5. n \in 1 .. Len(actions)
  <3>1. Len(actions) \in Nat /\ Len(actions) >= 1 /\ options.commit \in Nat /\ options.commit >= 1
    BY <2>1, <2>2, RunIs
  <3>2. {Len(actions), options.commit} \subseteq Nat /\ {Len(actions), options.commit} # {} BY <3>1
  <3>3. n \in {Len(actions), options.commit} /\ \A k \in {Len(actions), options.commit} : n <= k BY <3>2, MinOf
  <3> HIDE DEF n
  <3> QED BY <3>1, <3>3
 <2> HIDE DEF n
 <2>6. chosen' \in Seq(Actions) /\ Len(chosen') = n /\ Safely(world, player, chosen')
   BY <2>2, <2>3, <2>4, <2>5, WalkTaken
 <2>7. chosen' # << >> BY <2>5, <2>6
 <2> QED BY <2>3, <2>6, <2>7 DEF Decided
<1> QED BY <1>2, <1>3

Asked(frames, goal, beam, limit) ==
    [supported |-> TRUE, epoch |-> world.frame, expected |-> world.frame, frames |-> frames,
     start |-> player, goal |-> goal, terminal |-> Positions, beam |-> beam, limit |-> limit]

LEMMA AskedIs ==
  ASSUME Deciding, NEW goal \in Positions, NEW beam \in Nat, NEW limit \in Nat, NEW frames, frames = Forecast(world, options.horizon)
  PROVE  /\ Posed(Asked(frames, goal, beam, limit)) /\ Question(Asked(frames, goal, beam, limit))
         /\ Ask(frames, goal, beam, limit) = Plan(Asked(frames, goal, beam, limit))
         /\ Asked(frames, goal, beam, limit).limit = limit /\ Asked(frames, goal, beam, limit).beam = beam
         /\ Asked(frames, goal, beam, limit).frames = frames
<1>1. frames \in Seq(SUBSET Positions) BY RunIs, ForecastIs DEF Deciding
<1>2. goal \in Int \X Int BY BeamPlanAssumption DEF Positions
<1> DEFINE r == Asked(frames, goal, beam, limit)
<1>3. r.frames = frames /\ r.goal = goal /\ r.beam = beam /\ r.limit = limit /\ r.start = player BY DEF Asked
<1>4. Ask(frames, goal, beam, limit) = Plan(r) BY DEF Ask, Asked
<1> HIDE DEF r
<1>5. Question(r) BY <1>1, <1>2, <1>3 DEF Question
<1> QED BY <1>3, <1>4, <1>5 DEF Posed, r

LEMMA RollDecides ==
  ASSUME Deciding, retry # "expansion_limit", Try(Forecast(world, options.horizon))
  PROVE  Decided /\ spent' <= options.limit /\ retry' # "expansion_limit"
<1> DEFINE frames == Forecast(world, options.horizon)
           q == Asked(frames, options.goal, options.beam, options.limit)
           one == Ask(frames, options.goal, options.beam, options.limit)
           left == options.limit - one.expansions
           beam == RecoveryBeam(Len(frames), options.beam, left)
<1>1. options.limit \in Nat /\ options.beam \in Nat /\ options.beam >= 1 /\ options.goal \in Positions BY RunIs
<1>2. Recover(frames, one, left, beam) BY DEF Try, Attempt
<1>3. frames \in Seq(SUBSET Positions) /\ Len(frames) \in Nat /\ Len(frames) >= 1
  BY RunIs, ForecastIs DEF Deciding
<1>4. frames = Forecast(world, options.horizon) OBVIOUS
<1> HIDE DEF frames
<1>5. Posed(q) /\ Question(q) /\ one = Plan(q) /\ q.limit = options.limit BY <1>1, <1>4, AskedIs
<1> HIDE DEF q, one
<1>6. Truthful(q, one) /\ one.expansions \in Nat BY <1>5, PlanTruthful
<1>7. one.expansions <= options.limit /\ left \in Nat
 <2>1. one.expansions <= options.limit BY <1>5, <1>6 DEF Truthful
 <2> QED BY <1>1, <1>6, <2>1
<1>8. one.expansions + left = options.limit BY <1>1, <1>6
<1> HIDE DEF left
<1>9. CASE spent' = one.expansions /\ retry' = "none" /\ Accept(one) BY <1>5, <1>7, <1>9, AcceptIs
<1>10. CASE beam > 0 /\ Refuges(frames, player) # {} /\ Retry(one, Ask(frames, Refuge(frames, player), beam, left))
 <2>1. beam \in Nat /\ 9 + 9 * (beam * (Len(frames) - 1)) <= left BY <1>1, <1>3, <1>7, <1>10, RetryAffordable
 <2>2. Refuge(frames, player) \in Positions BY <1>10, RefugeIs DEF Deciding
 <2> DEFINE refuge == Refuge(frames, player)
            s == Asked(frames, refuge, beam, left)
            two == Ask(frames, refuge, beam, left)
 <2>3. spent' = one.expansions + two.expansions /\ retry' = two.status /\ Accept(two) BY <1>10 DEF Retry
 <2> HIDE DEF refuge, beam
 <2>4. Posed(s) /\ Question(s) /\ two = Plan(s) /\ s.limit = left /\ s.beam = beam /\ s.frames = frames
   BY <1>4, <1>7, <2>1, <2>2, AskedIs DEF refuge
 <2> HIDE DEF s, two
 <2>5. Truthful(s, two) /\ two.expansions \in Nat BY <2>4, PlanTruthful
 <2>6. two.expansions <= left BY <2>4, <2>5 DEF Truthful
 <2>7. Affordable(s) BY <2>1, <2>4 DEF Affordable
 <2>8. two.status # "expansion_limit" BY <2>4, <2>7, NeverShort
 <2>9. Decided BY <2>3, <2>4, AcceptIs
 <2>10. spent' <= options.limit BY <1>1, <1>6, <1>7, <1>8, <2>3, <2>5, <2>6
 <2> QED BY <2>3, <2>8, <2>9, <2>10
<1> QED BY <1>2, <1>9, <1>10 DEF Recover

----
\* The run.
RunInv ==
    /\ World(world) /\ World(first.world) /\ world.def = first.world.def /\ options \in Runs
    /\ ValidCursor(world, TRUE) /\ player \in Positions
    /\ stage \in {"decide", "execute", "replay", "done"}
    /\ stage \in {"decide", "execute"} => outcome = "none" /\ world.frame < Duration(world.def)
    /\ chosen \in Seq(Actions) /\ taken \in Seq(Actions)
    /\ stage = "execute" => chosen # << >>
    /\ world.frame = first.world.frame + Len(taken)
    /\ Replayed(Start(first), taken) = Executed
    /\ outcome = "survived" => world.frame = Duration(world.def)
    /\ options.strategy = "rolling_beam" =>
          /\ outcome # "collision" /\ spent <= options.limit
          /\ stage = "execute" => Safely(world, player, chosen)
    /\ retry # "expansion_limit"

Replied == Question(request) /\ result \in {Unanswered, Plan(request)}

RunSpec ==
    /\ BeamInit /\ ScenarioInit
    /\ [][(Answer /\ UNCHANGED scenarioVars) \/ (ScenarioNext /\ UNCHANGED planVars)]_<<scenarioVars, planVars>>

LEMMA StartPlace == <<(Columns + 1) \div 2, Rows>> \in Positions
<1>1. Columns \in Nat /\ Columns >= 1 /\ Rows \in Nat /\ Rows >= 1 BY BeamPlanAssumption
<1>2. (Columns + 1) \div 2 \in 1 .. Columns BY <1>1
<1> QED BY <1>1, <1>2 DEF Positions

LEMMA RunStarts == BeamInit /\ ScenarioInit => RunInv /\ Replied
<1> SUFFICES ASSUME BeamInit, ScenarioInit PROVE RunInv /\ Replied OBVIOUS
<1>1. Replied BY BeamPlanAssumption DEF BeamInit, Replied
<1>2. PICK d \in Definitions, seed \in Seeds, age \in Ages, run \in Runs : age < Duration(d) /\ ScenarioFrom(d, seed, age, run)
  BY DEF ScenarioInit
<1> DEFINE c == Checkpoint(d, seed)
           ws == Futures(c, age)
<1>3. World(c) /\ age \in Nat BY CheckpointIs, ScenarioAssumption
<1>4. first.world = ws[age + 1] /\ first.player = <<(Columns + 1) \div 2, Rows>> BY <1>2 DEF ScenarioFrom
<1>5. /\ options = run /\ ValidCursor(first.world, FALSE) /\ world = first.world /\ player = first.player
      /\ stage = "decide" /\ chosen = << >> /\ taken = << >> /\ outcome = "none" /\ spent = 0 /\ retry = "none"
  BY <1>2 DEF ScenarioFrom
<1> HIDE DEF c
<1>6. Unfolds(ws, c, age) BY <1>3, FuturesAre
<1> HIDE DEF ws
<1>7. World(ws[age + 1]) BY <1>3, <1>6, WorldsFollow
<1>8. World(first.world) /\ World(world) /\ world.frame \in Nat BY <1>4, <1>5, <1>7 DEF World
<1>9. ValidCursor(world, TRUE) /\ world.frame < Duration(world.def) BY <1>5 DEF ValidCursor
<1>10. player \in Positions BY <1>4, <1>5, StartPlace
<1>11. Replayed(Start(first), << >>) = Start(first) BY ReplayedNothing
<1>12. Executed = Start(first) BY <1>5 DEF Executed, Start
<1>13. << >> \in Seq(Actions) /\ Len(<< >>) = 0 OBVIOUS
<1>14. options.limit \in Nat BY <1>5, ScenarioAssumption
<1>15. world.frame = first.world.frame + Len(taken) BY <1>5, <1>8, <1>13
<1>16. Replayed(Start(first), taken) = Executed BY <1>5, <1>11, <1>12
<1>17. RunInv
 <2>1. stage \in {"decide", "execute", "replay", "done"} /\ stage # "execute" /\ outcome # "survived" /\ outcome # "collision" /\ retry # "expansion_limit"
   BY <1>5
 <2>2. options \in Runs /\ world.def = first.world.def /\ chosen \in Seq(Actions) /\ taken \in Seq(Actions) /\ spent <= options.limit
   BY <1>5, <1>13, <1>14
 <2> QED BY <1>5, <1>8, <1>9, <1>10, <1>15, <1>16, <2>1, <2>2 DEF RunInv
<1> QED BY <1>1, <1>17

LEMMA DecidingIs == RunInv /\ stage = "decide" => Deciding
  BY DEF RunInv, Deciding

LEMMA RollKept == RunInv /\ Roll => RunInv'
<1> SUFFICES ASSUME RunInv, Roll PROVE RunInv' OBVIOUS
<1>1. /\ stage = "decide" /\ Try(Forecast(world, options.horizon))
      /\ first' = first /\ options' = options /\ world' = world /\ player' = player /\ taken' = taken
  BY DEF Roll
<1>2. Deciding /\ retry # "expansion_limit" /\ outcome = "none" BY <1>1, DecidingIs DEF RunInv
<1>3. Decided /\ spent' <= options.limit /\ retry' # "expansion_limit" BY <1>1, <1>2, RollDecides
<1>4. Executed' = Executed BY <1>1, <1>2, <1>3 DEF Executed, Decided
<1>5. Replayed(Start(first), taken)' = Executed' BY <1>1, <1>4 DEF RunInv
<1>6. CASE stage' = "execute" /\ outcome' = outcome
           /\ chosen' \in Seq(Actions) /\ chosen' # << >> /\ Safely(world, player, chosen')
  BY <1>1, <1>2, <1>3, <1>5, <1>6 DEF RunInv
<1>7. CASE stage' = "replay" /\ outcome' = "search_limit" /\ chosen' = chosen
  BY <1>1, <1>2, <1>3, <1>5, <1>7 DEF RunInv
<1> QED BY <1>3, <1>6, <1>7 DEF Decided

LEMMA SingleKept == RunInv /\ Single => RunInv'
<1> SUFFICES ASSUME RunInv, Single PROVE RunInv' OBVIOUS
<1> DEFINE only == << <<0, 0>> >>
           n == Min({Len(only), options.commit})
<1>1. /\ stage = "decide" /\ options.strategy # "rolling_beam" /\ Taking(only)
      /\ first' = first /\ options' = options /\ world' = world /\ player' = player /\ taken' = taken
      /\ spent' = spent /\ retry' = retry
  BY DEF Single
<1>2. Deciding /\ outcome = "none" BY <1>1, DecidingIs DEF RunInv
<1>3. chosen' = SubSeq(only, 1, n) /\ stage' = "execute" /\ outcome' = outcome BY <1>1 DEF Taking
<1>4. n = 1
 <2>1. Len(only) = 1 /\ options.commit \in Nat /\ options.commit >= 1 BY <1>2, RunIs
 <2>2. {1, options.commit} \subseteq Nat /\ {1, options.commit} # {} BY <2>1
 <2>3. Min({1, options.commit}) \in {1, options.commit} /\ \A k \in {1, options.commit} : Min({1, options.commit}) <= k
   BY <2>2, MinOf
 <2>4. n = Min({1, options.commit}) BY <2>1
 <2> HIDE DEF n
 <2> QED BY <2>1, <2>3, <2>4
<1> HIDE DEF n
<1>5. chosen' \in Seq(Actions) /\ chosen' # << >>
 <2>1. only \in Seq(Actions) /\ Len(only) = 1 BY DEF Actions
 <2> HIDE DEF only
 <2>2. SubSeq(only, 1, 1) \in Seq(Actions) /\ Len(SubSeq(only, 1, 1)) = 1 BY <2>1
 <2>3. chosen' = SubSeq(only, 1, 1) BY <1>3, <1>4
 <2>4. chosen' \in Seq(Actions) /\ Len(chosen') = 1 BY <2>2, <2>3
 <2>5. Len(<< >>) = 0 OBVIOUS
 <2> QED BY <2>4, <2>5
<1>6. Executed' = Executed BY <1>1, <1>3 DEF Executed
<1>7. Replayed(Start(first), taken)' = Executed' BY <1>1, <1>6 DEF RunInv
<1> QED BY <1>1, <1>2, <1>3, <1>5, <1>7 DEF RunInv

\* One frame of a run.
LEMMA ExecuteKept == RunInv /\ Execute => RunInv'
<1> SUFFICES ASSUME RunInv, Execute PROVE RunInv' OBVIOUS
<1> DEFINE next == Step(world)
           action == IF options.strategy = "greedy" THEN Greedy(next, Head(chosen)) ELSE Head(chosen)
           to == Advance(player, action)
           struck == Collision(next, to)
           over == next.frame = Duration(next.def)
<1>1. stage = "execute" /\ first' = first /\ options' = options /\ spent' = spent /\ retry' = retry
  BY DEF Execute
<1>2. /\ world' = next /\ player' = to /\ taken' = Append(taken, action) /\ chosen' = Tail(chosen)
      /\ outcome' = IF struck THEN "collision" ELSE IF over THEN "survived" ELSE outcome
      /\ stage' = IF struck \/ over THEN "replay" ELSE IF Len(chosen) = 1 THEN "decide" ELSE stage
  BY DEF Execute, Play, Move, Arrive
<1>3. /\ World(world) /\ World(first.world) /\ world.def = first.world.def /\ options \in Runs
      /\ ValidCursor(world, TRUE) /\ player \in Positions
      /\ outcome = "none" /\ world.frame < Duration(world.def)
      /\ chosen \in Seq(Actions) /\ taken \in Seq(Actions) /\ chosen # << >>
      /\ world.frame = first.world.frame + Len(taken)
      /\ Replayed(Start(first), taken) = Executed
      /\ options.strategy = "rolling_beam" => spent <= options.limit /\ Safely(world, player, chosen)
      /\ retry # "expansion_limit"
  BY <1>1 DEF RunInv
<1>4. World(next) /\ next.def = world.def /\ next.frame = world.frame + 1 /\ ValidCursor(next, TRUE)
  BY <1>3, StepIs, CursorStays
<1>5. Head(chosen) \in Actions /\ Tail(chosen) \in Seq(Actions) /\ Len(Tail(chosen)) = Len(chosen) - 1 /\ Len(chosen) \in Nat
  BY <1>3
<1>6. options.goal \in Positions /\ options.limit \in Nat BY <1>3, ScenarioAssumption
<1> HIDE DEF next
<1>7. action \in Actions
 <2>1. CASE options.strategy = "greedy"
  <3>1. action = Greedy(next, Head(chosen)) BY <2>1
  <3> HIDE DEF action
  <3> QED BY <1>3, <1>5, <1>6, <3>1, GreedyActs
 <2>2. CASE options.strategy # "greedy" BY <1>5, <2>2
 <2> QED BY <2>1, <2>2
<1>8. ASSUME options.strategy = "rolling_beam" PROVE ~struck /\ Safely(next, to, Tail(chosen))
 <2>1. action = Head(chosen) BY <1>8
 <2>2. ~Collision(next, Advance(player, Head(chosen))) /\ Safely(next, Advance(player, Head(chosen)), Tail(chosen))
   BY <1>3, <1>8, WalkOn DEF next
 <2> HIDE DEF action
 <2> QED BY <2>1, <2>2
<1> HIDE DEF action
<1>9. to \in Positions BY <1>3, <1>7, AdvanceStays
<1>10. Append(taken, action) \in Seq(Actions) /\ Len(Append(taken, action)) = Len(taken) + 1 /\ Len(taken) \in Nat
  BY <1>3, <1>7
<1>11. Replayed(Start(first), Append(taken, action)) = [world |-> next, player |-> to, done |-> Len(taken) + 1, dead |-> IF struck THEN next.frame ELSE 0]
 <2>1. Replayed(Start(first), Append(taken, action)) = Replay1(Executed, action, Len(taken) + 1)
   BY <1>3, <1>7, ReplayedFurther
 <2>2. Executed.dead = 0 /\ Executed.world = world /\ Executed.player = player BY <1>3 DEF Executed
 <2> HIDE DEF to, struck
 <2>3. Replay1(Executed, action, Len(taken) + 1) = Arrival(next, to, Len(taken) + 1)
   BY <2>2 DEF Replay1, next, to
 <2> QED BY <2>1, <2>3 DEF Arrival, struck
<1> HIDE DEF to, struck, over
<1>12. outcome' = "collision" <=> struck BY <1>2, <1>3
<1>13. Executed' = [world |-> next, player |-> to, done |-> Len(taken) + 1, dead |-> IF struck THEN next.frame ELSE 0]
  BY <1>2, <1>10, <1>12 DEF Executed
<1>14. Replayed(Start(first), taken)' = Executed' BY <1>1, <1>2, <1>11, <1>13
<1>15. world'.frame = first'.world.frame + Len(taken')
 <2>1. world.frame \in Nat /\ first.world.frame \in Nat BY <1>3 DEF World
 <2>2. next.frame = world.frame + 1 /\ world.frame = first.world.frame + Len(taken) BY <1>3, <1>4
 <2>3. next.frame = first.world.frame + (Len(taken) + 1) BY <1>10, <2>1, <2>2
 <2> QED BY <1>1, <1>2, <1>10, <2>3
<1>16. outcome' = "survived" => world'.frame = Duration(world'.def) BY <1>2, <1>3 DEF over
<1>17. stage' \in {"decide", "execute"} => outcome' = "none" /\ world'.frame < Duration(world'.def)
 <2>1. ASSUME stage' \in {"decide", "execute"} PROVE ~struck /\ ~over BY <1>2, <2>1
 <2>2. next.frame <= Duration(next.def) /\ next.frame \in Nat /\ Duration(next.def) \in Nat
   BY <1>4, DefinitionIs DEF ValidCursor, World
 <2>3. ~over => next.frame < Duration(next.def) BY <2>2 DEF over
 <2> QED BY <1>2, <1>3, <2>1, <2>3
<1>18. stage' \in {"decide", "execute", "replay", "done"} BY <1>1, <1>2
<1>19. stage' = "execute" => chosen' # << >> BY <1>1, <1>2, <1>5
<1>20. options.strategy = "rolling_beam" => outcome' # "collision" /\ spent' <= options.limit /\ Safely(world', player', chosen')
  BY <1>1, <1>2, <1>3, <1>8, <1>12
<1>21. /\ World(world') /\ World(first'.world) /\ world'.def = first'.world.def /\ options' \in Runs
       /\ ValidCursor(world', TRUE) /\ player' \in Positions /\ chosen' \in Seq(Actions) /\ taken' \in Seq(Actions)
       /\ retry' # "expansion_limit" /\ options' = options
  BY <1>1, <1>2, <1>3, <1>4, <1>5, <1>9, <1>10
<1> QED BY <1>14, <1>15, <1>16, <1>17, <1>18, <1>19, <1>20, <1>21 DEF RunInv

LEMMA VerifyKept == RunInv /\ Verify => RunInv'
<1> SUFFICES ASSUME RunInv, Verify PROVE RunInv' OBVIOUS
<1>1. /\ stage' = IF Replayed(Start(first), taken) = Executed THEN "done" ELSE "thrown"
      /\ first' = first /\ options' = options /\ world' = world /\ player' = player /\ chosen' = chosen
      /\ taken' = taken /\ outcome' = outcome /\ spent' = spent /\ retry' = retry
  BY DEF Verify
<1>2. Replayed(Start(first), taken) = Executed BY DEF RunInv
<1>3. stage' = "done" BY <1>1, <1>2
<1>4. Executed' = Executed BY <1>1 DEF Executed
<1> QED BY <1>1, <1>2, <1>3, <1>4 DEF RunInv

LEMMA RunKept ==
  RunInv /\ [(Answer /\ UNCHANGED scenarioVars) \/ (ScenarioNext /\ UNCHANGED planVars)]_<<scenarioVars, planVars>> => RunInv'
<1>1. RunInv /\ UNCHANGED scenarioVars => RunInv'
 <2> SUFFICES ASSUME RunInv, UNCHANGED scenarioVars PROVE RunInv' OBVIOUS
 <2>1. /\ first' = first /\ options' = options /\ world' = world /\ player' = player /\ chosen' = chosen
       /\ taken' = taken /\ outcome' = outcome /\ spent' = spent /\ retry' = retry /\ stage' = stage
   BY DEF scenarioVars
 <2>2. Executed' = Executed BY <2>1 DEF Executed
 <2> QED BY <2>1, <2>2 DEF RunInv
<1>2. RunInv /\ ScenarioNext => RunInv' BY RollKept, SingleKept, ExecuteKept, VerifyKept DEF ScenarioNext
<1> QED BY <1>1, <1>2

LEMMA AnsweredKept ==
  Replied /\ [(Answer /\ UNCHANGED scenarioVars) \/ (ScenarioNext /\ UNCHANGED planVars)]_<<scenarioVars, planVars>> => Replied'
<1>1. Replied /\ Answer => Replied' BY DEF Replied, Answer
<1>2. Replied /\ UNCHANGED planVars => Replied' BY DEF Replied, planVars
<1> QED BY <1>1, <1>2

LEMMA RunIsHonest == RunInv /\ Replied => HonestRun
<1> SUFFICES ASSUME RunInv, Replied PROVE HonestRun OBVIOUS
<1>1. Truthful(request, result)
 <2>1. CASE result = Unanswered
  <3>1. result.expansions = 0 /\ result.status = "unanswered" /\ request.limit \in Nat
    BY <2>1 DEF Unanswered, Failed, Replied, Question
  <3> QED BY <3>1 DEF Truthful
 <2>2. CASE result = Plan(request) BY <2>2, PlanTruthful DEF Replied
 <2> QED BY <2>1, <2>2 DEF Replied
<1>2. outcome = "survived" => Len(taken) = Duration(world.def) - first.world.frame
 <2>1. first.world.frame \in Nat /\ Len(taken) \in Nat /\ world.frame = first.world.frame + Len(taken)
   BY DEF RunInv, World
 <2> QED BY <2>1 DEF RunInv
<1> QED BY <1>1, <1>2 DEF RunInv, HonestRun

\* A run is honest.
THEOREM RunHonest == RunSpec => []HonestRun
<1>1. BeamInit /\ ScenarioInit => RunInv /\ Replied BY RunStarts
<1>2. RunInv /\ Replied /\ [(Answer /\ UNCHANGED scenarioVars) \/ (ScenarioNext /\ UNCHANGED planVars)]_<<scenarioVars, planVars>>
      => (RunInv /\ Replied)'
  BY RunKept, AnsweredKept
<1>3. RunInv /\ Replied => HonestRun BY RunIsHonest
<1> QED BY <1>1, <1>2, <1>3, PTL DEF RunSpec
====
