---- MODULE CommandBridge ----
(***************************************************************************)
(* The mapped command file of include/th08/shadow_bridge.hpp: one writer   *)
(* (the planner, publish) and one reader (the game's input hook, read)     *)
(* share 32-bit words and nothing else.  Every load and every store of a   *)
(* word is a step of its own, so a publication and a copy interleave word  *)
(* by word, and the writer may die between any two of its stores.          *)
(*                                                                         *)
(* A slot is a mark and a body: words 1..3 are origin, epoch and           *)
(* first_change, word 4 is the count, word 4+i is input i.  The content of *)
(* a word other than the count is abstracted to the generation whose       *)
(* publication stored it: the case in which any two plans differ in every  *)
(* word, so that a mixed copy is always visible.                           *)
(*                                                                         *)
(* Loads and stores are acquire and release on aligned words of an x86     *)
(* host (shadow_bridge.hpp lines 50-55), which keeps loads in order and    *)
(* stores in order: the interleaving of whole words is what can happen.    *)
(***************************************************************************)
EXTENDS Integers

CONSTANTS Capacity,       \* most inputs of a plan (128 in the code)
          Strides,        \* how far a generation is ahead of the last one
          MaxGeneration   \* bound: generations published

ASSUME CapacityAssumption == Capacity \in Nat \ {0}
ASSUME StridesAssumption ==
  Strides \subseteq {n \in Nat : n > 0 /\ n % 2 = 0}
ASSUME MaxGenerationAssumption == MaxGeneration \in Nat

VARIABLES
  published,  \* header word Published
  mark,       \* first word of each slot: the generation, odd while it is written
  body,       \* the words of each slot that follow the mark
  sent,       \* history: the count each generation was published with
  wgen,       \* writer: the generation being published, 0 outside publish
  wpos,       \* writer: 0 = mark next, k = word k next, then seal, then announce
  rpc,        \* reader: which load comes next
  rgen,       \* reader: the generation it started from
  rpos,       \* reader: the next word to copy
  rbuf,       \* reader: the local copy (Plan p of read)
  held        \* the owner's private plan (out of read)

shared == <<published, mark, body, sent>>
writer == <<wgen, wpos>>
reader == <<rpc, rgen, rpos, rbuf, held>>
vars == <<shared, writer, reader>>

HeaderWords == 4
CountWord == 4
Slots == 0 .. 1
Words == 1 .. HeaderWords + Capacity
NoPlan == [generation |-> 0, words |-> <<>>]
ReaderSteps == {"published", "mark", "words", "mark_again", "published_again"}

Slot(generation) == (generation \div 2) % 2
Marked(generation) == generation + 1          \* generation | 1, of an even number
LastWord(count) == HeaderWords + count

(* The word a publication of g with count c stores at position k. *)
WordOf(g, c, k) == IF k = CountWord THEN c ELSE g
PlanOf(g, c) == [generation |-> g,
                 words |-> [k \in 1 .. LastWord(c) |-> WordOf(g, c, k)]]

Init == /\ published = 0
        /\ mark = [s \in Slots |-> 0]
        /\ body = [s \in Slots |-> [k \in Words |-> 0]]
        /\ sent = [g \in 1 .. MaxGeneration |-> 0]
        /\ wgen = 0
        /\ wpos = 0
        /\ rpc = "published"
        /\ rgen = 0
        /\ rpos = 1
        /\ rbuf = [k \in Words |-> 0]
        /\ held = NoPlan

----
(* publish: the checks, then the stores in program order.  A plan that is  *)
(* not valid, or not newer than Published, throws and stores nothing.      *)

BeginPublish(stride, count) ==
  /\ wgen = 0
  /\ published + stride <= MaxGeneration
  /\ wgen' = published + stride
  /\ wpos' = 0
  /\ sent' = [sent EXCEPT ![published + stride] = count]
  /\ UNCHANGED <<published, mark, body, reader>>

MarkSlot ==
  /\ wgen # 0
  /\ wpos = 0
  /\ mark' = [mark EXCEPT ![Slot(wgen)] = Marked(wgen)]
  /\ wpos' = 1
  /\ UNCHANGED <<published, body, sent, wgen, reader>>

StoreWord ==
  /\ wgen # 0
  /\ wpos \in 1 .. LastWord(sent[wgen])
  /\ body' = [body EXCEPT ![Slot(wgen)][wpos] = WordOf(wgen, sent[wgen], wpos)]
  /\ wpos' = wpos + 1
  /\ UNCHANGED <<published, mark, sent, wgen, reader>>

(* A version in which the mark stays odd after the last word. *)
LeaveMarked ==
  /\ wgen # 0
  /\ wpos = LastWord(sent[wgen]) + 1
  /\ wpos' = wpos + 1
  /\ UNCHANGED <<published, mark, body, sent, wgen, reader>>

SealSlot ==
  /\ wgen # 0
  /\ wpos = LastWord(sent[wgen]) + 1
  /\ mark' = [mark EXCEPT ![Slot(wgen)] = wgen]
  /\ wpos' = wpos + 1
  /\ UNCHANGED <<published, body, sent, wgen, reader>>

Announce ==
  /\ wgen # 0
  /\ wpos = LastWord(sent[wgen]) + 2
  /\ published' = wgen
  /\ wgen' = 0
  /\ wpos' = 0
  /\ UNCHANGED <<mark, body, sent, reader>>
----
(* read: every early return leaves the out plan alone; the owner calls     *)
(* read again at its next input.                                           *)

GiveUp == /\ rpc' = "published"
          /\ UNCHANGED <<shared, writer, rgen, rpos, rbuf, held>>

LoadPublished ==
  /\ rpc = "published"
  /\ published # 0 /\ published % 2 = 0
  /\ rgen' = published
  /\ rpc' = "mark"
  /\ UNCHANGED <<shared, writer, rpos, rbuf, held>>

LoadMark ==
  /\ rpc = "mark"
  /\ IF mark[Slot(rgen)] = rgen
     THEN /\ rpc' = "words"
          /\ rpos' = 1
          /\ UNCHANGED <<shared, writer, rgen, rbuf, held>>
     ELSE GiveUp

LoadWord ==
  /\ rpc = "words"
  /\ LET word == body[Slot(rgen)][rpos]
         count == IF rpos = CountWord THEN word ELSE rbuf[CountWord]
     IN IF rpos = CountWord /\ word \notin 1 .. Capacity
        THEN GiveUp
        ELSE /\ rbuf' = [rbuf EXCEPT ![rpos] = word]
             /\ IF rpos > CountWord /\ rpos = LastWord(count)
                THEN rpc' = "mark_again" /\ rpos' = rpos
                ELSE rpc' = "words" /\ rpos' = rpos + 1
             /\ UNCHANGED <<shared, writer, rgen, held>>

(* A version in which the slot is not examined again after the copy. *)
TrustTheCopy ==
  /\ rpc = "mark_again"
  /\ rpc' = "published_again"
  /\ UNCHANGED <<shared, writer, rgen, rpos, rbuf, held>>

RecheckMark ==
  /\ rpc = "mark_again"
  /\ IF mark[Slot(rgen)] = rgen
     THEN /\ rpc' = "published_again"
          /\ UNCHANGED <<shared, writer, rgen, rpos, rbuf, held>>
     ELSE GiveUp

(* A version in which a copy already overtaken by a newer announcement is  *)
(* returned.                                                               *)
ReturnOvertaken ==
  /\ rpc = "published_again"
  /\ held' = [generation |-> rgen,
              words |-> [k \in 1 .. LastWord(rbuf[CountWord]) |-> rbuf[k]]]
  /\ rpc' = "published"
  /\ UNCHANGED <<shared, writer, rgen, rpos, rbuf>>

RecheckPublished ==
  /\ rpc = "published_again"
  /\ IF published = rgen
     THEN /\ held' = [generation |-> rgen,
                      words |-> [k \in 1 .. LastWord(rbuf[CountWord]) |-> rbuf[k]]]
          /\ rpc' = "published"
          /\ UNCHANGED <<shared, writer, rgen, rpos, rbuf>>
     ELSE GiveUp
----
Writer == \/ \E stride \in Strides, count \in 1 .. Capacity :
               BeginPublish(stride, count)
          \/ MarkSlot
          \/ StoreWord
          \/ SealSlot
          \/ Announce

Reader == \/ LoadPublished
          \/ LoadMark
          \/ LoadWord
          \/ RecheckMark
          \/ RecheckPublished

Next == Writer \/ Reader

(* The owner's input hook runs on every frame.  The planner is another     *)
(* process: it may be killed inside publish, so nothing is assumed of it.  *)
Spec == Init /\ [][Next]_vars /\ WF_vars(Reader)
----
Generations == {g \in 1 .. MaxGeneration : g % 2 = 0}
WordValues == 0 .. MaxGeneration + Capacity
IsPlan(p) == \/ p = NoPlan
             \/ \E c \in 1 .. Capacity :
                  p \in [generation : Generations, words : [1 .. LastWord(c) -> WordValues]]

(* Types of the shared words, of both program counters and of the copies.  *)
TypeOK ==
  /\ published \in Generations \cup {0}
  /\ mark \in [Slots -> 0 .. MaxGeneration + 1]
  /\ body \in [Slots -> [Words -> WordValues]]
  /\ sent \in [1 .. MaxGeneration -> 0 .. Capacity]
  /\ wgen \in Generations \cup {0}
  /\ wpos \in 0 .. HeaderWords + Capacity + 2
  /\ rpc \in ReaderSteps
  /\ rgen \in Generations \cup {0}
  /\ rpos \in Words
  /\ rbuf \in [Words -> WordValues]
  /\ IsPlan(held)

(* The owner never holds a mixture: its private copy carries exactly the   *)
(* words of the one publication its generation names, whatever the writer  *)
(* did to the slot while the copy was being made (lines 86-113).           *)
NoTornPlan == held.generation # 0 => held = PlanOf(held.generation, sent[held.generation])

(* The slots and marks are invisible: to its users the bridge is the       *)
(* register of PlanRegister, a copy returning the newest plan announced    *)
(* and never an older one than a previous copy.                            *)
Latest == IF published = 0 THEN NoPlan ELSE PlanOf(published, sent[published])
Register == INSTANCE PlanRegister WITH latest <- Latest
AtomicRegister == Register!Spec

(* A plan once announced reaches the owner, or a newer one does, whatever  *)
(* the other process does: it may publish on, or die inside publish.  The  *)
(* one exception is a writer that skips a generation and so overwrites the *)
(* slot just announced; the planner always takes the next one, which lies  *)
(* in the other slot (lines 69-71, tools/shadow_online.cpp lines 286, 808).*)
OverwritingAnnounced == wgen # 0 /\ Slot(wgen) = Slot(published)
AnnouncedPlanArrives ==
  \A g \in Generations :
    (published = g) ~> (held.generation >= g \/ OverwritingAnnounced)
====
