---- MODULE BulletSlots ----
(* The free list of the bullet pool (th08::bullet::Slots): a bitmap in     *)
(* words, a cursor and a count of the free slots.  A spawn reserves a slot *)
(* at once and moves the cursor only when it is finished; the bullet it    *)
(* initialises may spawn children in between, so spawns nest.              *)
EXTENDS CircularPool, Sequences

CONSTANTS
    Words,      \* words in the bitmap (24 in the code)
    Bits,       \* bits in a word (64 in the code)
    MaxNesting  \* bound: spawns open at a time

ASSUME SlotsAssumption == Words \in Nat \ {0} /\ Bits \in Nat \ {0} /\ MaxNesting \in Nat

Capacity == Words * Bits
Slot == 0..Capacity - 1
Word == 0..Words - 1
Bit == 0..Bits - 1

VARIABLES
    freeBits,   \* for each word, the bits of its free slots
    slotCursor,
    available,  \* how many slots the list believes free
    spawning    \* slots whose spawn is not finished, the innermost last

slotVars == <<freeBits, slotCursor, available, spawning>>

IsFree(i) == i % Bits \in freeBits[i \div Bits]
FreeSlots == {i \in Slot : IsFree(i)}
FirstBit(bits) == CHOOSE b \in bits : \A c \in bits : b <= c

(* A list made from a known occupancy and cursor; nothing is being spawned. *)
SlotsInit ==
    \E occupied \in SUBSET Slot :
        /\ freeBits = [w \in Word |-> {b \in Bit : w * Bits + b \notin occupied}]
        /\ available = Capacity - Cardinality(occupied)
        /\ slotCursor \in Slot
        /\ spawning = << >>

(* Where next() looks, in order: the bits of the cursor's word from the    *)
(* cursor up, every other word once around, the bits below the cursor.     *)
Look(step) ==
    LET word == slotCursor \div Bits
        high == {b \in Bit : b >= slotCursor % Bits}
        w    == (word + step) % Words
    IN  CASE step = 0     -> freeBits[word] \cap high
          [] step = Words -> freeBits[word] \ high
          [] OTHER        -> freeBits[w]
(* next(): the slot it returns, or none.  The count is asked first. *)
Next1 ==
    IF available = 0 THEN {}
    ELSE {((slotCursor \div Bits + step) % Words) * Bits + FirstBit(Look(step)) :
            step \in {s \in 0..Words : Look(s) # {} /\ \A t \in 0..s - 1 : Look(t) = {}}}

(* reserve(): the slot is taken, the cursor stays. *)
Reserve ==
    /\ Len(spawning) < MaxNesting
    /\ \E i \in Next1 :
        /\ freeBits' = [freeBits EXCEPT ![i \div Bits] = @ \ {i % Bits}]
        /\ spawning' = Append(spawning, i)
    /\ available' = available - 1
    /\ UNCHANGED slotCursor

(* finish_spawn(): the innermost spawn ends; its slot decides the cursor.  *)
FinishSpawn ==
    /\ spawning # << >>
    /\ slotCursor' = (spawning[Len(spawning)] + 1) % Capacity
    /\ spawning' = SubSeq(spawning, 1, Len(spawning) - 1)
    /\ UNCHANGED <<freeBits, available>>

(* A release that does not ask whether the slot is taken.                  *)
ReleaseTwice(i) ==
    /\ i \notin {spawning[k] : k \in DOMAIN spawning}
    /\ freeBits' = [freeBits EXCEPT ![i \div Bits] = @ \cup {i % Bits}]
    /\ available' = available + 1
    /\ UNCHANGED <<slotCursor, spawning>>
(* release(): a bullet is deactivated, or a caller says so again of a slot *)
(* that is free already, which only returns false.                         *)
Release(i) ==
    /\ i \notin {spawning[k] : k \in DOMAIN spawning}
    /\ IF IsFree(i) THEN UNCHANGED <<freeBits, available>>
       ELSE /\ freeBits' = [freeBits EXCEPT ![i \div Bits] = @ \cup {i % Bits}]
            /\ available' = available + 1
    /\ UNCHANGED <<slotCursor, spawning>>

SlotsNext == Reserve \/ FinishSpawn \/ \E i \in Slot : Release(i)

----
(* The bitmap, the count and the open spawns tell one story in every state *)
(* a nest of spawns and releases can reach: the count is the number of     *)
(* free bits (a wrong zero would report a full pool), every spawn in       *)
(* progress owns a slot of its own, and the word-by-word search finds the  *)
(* slot a lap over single slots from the cursor would find, or none.       *)
SlotsConsistent ==
    /\ available = Cardinality(FreeSlots)
    /\ \A j, k \in DOMAIN spawning :
        ~IsFree(spawning[j]) /\ (spawning[j] = spawning[k] => j = k)
    /\ Next1 = NextFree(Capacity, FreeSlots, slotCursor)
====
