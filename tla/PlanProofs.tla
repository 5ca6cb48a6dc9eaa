---- MODULE PlanProofs ----
(***************************************************************************)
(* Plans, from the search that makes one to the copy its owner executes.   *)
(*                                                                         *)
(* The bridge: for every capacity, every set of strides and every number   *)
(* of generations the owner never holds a mixture of two publications, and *)
(* the bridge implements the register of PlanRegister.                     *)
(*                                                                         *)
(* The online policy: for every set of worlds and options a decision is    *)
(* what its certificate says it is, and a plan that waited is executed     *)
(* only where the model foresaw that it would arrive.                      *)
(*                                                                         *)
(* The recorded planner: for every recording, search and schedule of its   *)
(* branches a refinement is certified over the recording it names, and     *)
(* every update begun is charged.                                          *)
(***************************************************************************)
EXTENDS CommandBridge, OnlinePolicy, RecordedPlanner, FiniteSetTheorems, SequenceTheorems,
        WellFoundedInduction, TLAPS

----
\* The bridge.
\* What a slot may look like: never written, complete under the generation
\* it names, or open under the writer's mark.
Holds(s, g) ==
  /\ sent[g] \in 1 .. Capacity
  /\ \A k \in 1 .. LastWord(sent[g]) : body[s][k] = WordOf(g, sent[g], k)

SlotInv ==
  \A s \in Slots :
    \/ mark[s] = 0
    \/ /\ mark[s] \in Generations
       /\ mark[s] <= published \/ mark[s] = wgen
       /\ Holds(s, mark[s])
    \/ /\ wgen # 0
       /\ s = Slot(wgen)
       /\ mark[s] = Marked(wgen)
       /\ wpos \in 1 .. LastWord(sent[wgen]) + 1

WriterInv ==
  /\ published # 0 => sent[published] \in 1 .. Capacity
  /\ wgen # 0 =>
       /\ wgen > published
       /\ sent[wgen] \in 1 .. Capacity
       /\ wpos \in 0 .. LastWord(sent[wgen]) + 2
       /\ wpos \in 1 .. LastWord(sent[wgen]) + 1 =>
            /\ mark[Slot(wgen)] = Marked(wgen)
            /\ \A k \in 1 .. LastWord(sent[wgen]) :
                 k < wpos => body[Slot(wgen)][k] = WordOf(wgen, sent[wgen], k)

\* The words copied so far are those of rgen for as long as the slot still
\* carries rgen's mark; once it does not, it never will again.
Copied(last) == \A k \in 1 .. last : rbuf[k] = WordOf(rgen, sent[rgen], k)

ReaderInv ==
  /\ rgen <= published
  /\ rpc # "published" => rgen # 0
  /\ rpc = "words" =>
       /\ \/ rpos <= CountWord
          \/ rbuf[CountWord] \in 1 .. Capacity /\ rpos <= LastWord(rbuf[CountWord])
       /\ mark[Slot(rgen)] = rgen => Copied(rpos - 1)
  /\ rpc \in {"mark_again", "published_again"} =>
       rbuf[CountWord] \in 1 .. Capacity
  /\ rpc = "mark_again" /\ mark[Slot(rgen)] = rgen => Copied(LastWord(sent[rgen]))
  /\ rpc = "published_again" => Copied(LastWord(sent[rgen]))

HeldInv ==
  \/ held = NoPlan
  \/ /\ held.generation \in 1 .. published
     /\ sent[held.generation] \in 1 .. Capacity
     /\ held = PlanOf(held.generation, sent[held.generation])

IInv == TypeOK /\ SlotInv /\ WriterInv /\ ReaderInv /\ HeldInv
----
LEMMA SlotIsSlot == ASSUME NEW g \in Nat PROVE Slot(g) \in Slots
BY DEF Slot, Slots

LEMMA InitInv == Init => IInv
BY CapacityAssumption, MaxGenerationAssumption, SlotIsSlot
DEF Init, IInv, TypeOK, SlotInv, WriterInv, ReaderInv, HeldInv, Slots, Words, WordValues,
    ReaderSteps, IsPlan, NoPlan, HeaderWords, Generations

\* No publication under way carries a generation the reader could hold.
LEMMA WriterAhead ==
  ASSUME IInv, wgen # 0
  PROVE  /\ wgen \in Nat /\ published \in Nat /\ rgen \in Nat
         /\ wgen > published /\ wgen # rgen /\ Marked(wgen) # rgen
         /\ wgen # published /\ Slot(wgen) \in Slots
         /\ LastWord(sent[wgen]) \in Nat /\ sent[wgen] \in 1 .. Capacity
<1>1. /\ wgen \in Nat /\ published \in Nat /\ rgen \in Nat
      /\ wgen \in Generations
  BY MaxGenerationAssumption DEF IInv, TypeOK, Generations
<1>2. wgen > published /\ rgen <= published /\ sent[wgen] \in 1 .. Capacity BY DEF IInv, WriterInv, ReaderInv
<1>3. Slot(wgen) \in Slots BY <1>1, SlotIsSlot
<1>4. LastWord(sent[wgen]) \in Nat BY <1>2, CapacityAssumption DEF LastWord, HeaderWords
<1> QED BY <1>1, <1>2, <1>3, <1>4 DEF Marked

LEMMA BeginPublishInv ==
  ASSUME IInv, NEW stride \in Strides, NEW count \in 1 .. Capacity,
         BeginPublish(stride, count)
  PROVE  IInv'
<1> DEFINE g == published + stride
<1>0. /\ g \in Generations /\ g > published
 <2>1. published \in Nat /\ published % 2 = 0
  <3>1. published \in Generations \cup {0} BY DEF IInv, TypeOK
  <3>2. 0 % 2 = 0 OBVIOUS
  <3> QED BY <3>1, <3>2, MaxGenerationAssumption DEF Generations
 <2>2. stride \in Nat /\ stride > 0 /\ stride % 2 = 0 BY StridesAssumption
 <2>3. g <= MaxGeneration BY DEF BeginPublish
 <2>4. g % 2 = 0 BY <2>1, <2>2
 <2> QED BY <2>1, <2>2, <2>3, <2>4, MaxGenerationAssumption DEF Generations
<1>1. /\ g \in Generations /\ g > published
      /\ sent' = [sent EXCEPT ![g] = count]
      /\ wgen = 0 /\ wgen' = g /\ wpos' = 0
      /\ UNCHANGED <<published, mark, body, reader>>
  BY <1>0 DEF BeginPublish
<1>2. \A h \in 1 .. MaxGeneration : h # g => sent'[h] = sent[h] BY <1>1 DEF IInv, TypeOK
<1>3. sent'[g] = count BY <1>1 DEF IInv, TypeOK, Generations
<1>4. TypeOK'
 <2>1. sent' \in [1 .. MaxGeneration -> 0 .. Capacity]
  <3>1. sent \in [1 .. MaxGeneration -> 0 .. Capacity] BY DEF IInv, TypeOK
  <3>2. count \in 0 .. Capacity BY CapacityAssumption
  <3> QED BY <1>1, <3>1, <3>2
 <2>2. wpos' \in 0 .. HeaderWords + Capacity + 2 BY <1>1, CapacityAssumption DEF HeaderWords
 <2>3. IsPlan(held)' BY <1>1 DEF IInv, TypeOK, reader
 <2> QED BY <1>1, <2>1, <2>2, <2>3 DEF IInv, TypeOK, reader
<1>5. SlotInv'
 <2> SUFFICES ASSUME NEW s \in Slots PROVE SlotInv!(s)' BY DEF SlotInv
 <2>1. mark[s] = 0 \/ (mark[s] \in Generations /\ mark[s] <= published /\ Holds(s, mark[s]))
   BY <1>1 DEF IInv, SlotInv, Generations, TypeOK
 <2>2. mark[s] # 0 => mark[s] # g /\ mark[s] \in 1 .. MaxGeneration BY <1>1, <2>1 DEF Generations, IInv, TypeOK
 <2>3. mark[s] # 0 => Holds(s, mark[s])' BY <1>1, <1>2, <2>1, <2>2 DEF Holds
 <2> QED BY <1>1, <2>1, <2>2, <2>3
<1>6. WriterInv'
  BY <1>1, <1>2, <1>3, CapacityAssumption DEF IInv, WriterInv, TypeOK, Generations, LastWord, HeaderWords
<1>7. ReaderInv'
 <2>1. rgen # 0 => sent'[rgen] = sent[rgen] BY <1>1, <1>2 DEF IInv, TypeOK, ReaderInv, Generations
 <2> QED BY <1>1, <2>1 DEF IInv, ReaderInv, Copied, reader, ReaderSteps
<1>8. HeldInv'
 <2>1. held # NoPlan => held.generation \in 1 .. MaxGeneration /\ held.generation # g
   BY <1>1, MaxGenerationAssumption DEF IInv, HeldInv, TypeOK, Generations
 <2> QED BY <1>1, <1>2, <2>1 DEF IInv, HeldInv, PlanOf, reader
<1> QED BY <1>4, <1>5, <1>6, <1>7, <1>8 DEF IInv

\* The writer's stores do not disturb the reader: none of them brings back
\* a mark the reader could be waiting for.
LEMMA ReaderUndisturbed ==
  ASSUME IInv, UNCHANGED <<sent, reader>>, published' >= published,
         published' \in Nat,
         \A s \in Slots : mark'[s] = rgen => mark[s] = rgen
  PROVE  ReaderInv' /\ HeldInv'
<1>1. published \in Nat /\ rgen \in Nat /\ Slot(rgen) \in Slots
 <2>1. published \in Nat /\ rgen \in Nat BY MaxGenerationAssumption DEF IInv, TypeOK, Generations
 <2> QED BY <2>1, SlotIsSlot
<1>2. ReaderInv' BY <1>1 DEF IInv, ReaderInv, Copied, reader
<1>3. HeldInv'
 <2>1. held' = held /\ sent' = sent BY DEF reader
 <2>2. CASE held = NoPlan BY <2>1, <2>2 DEF HeldInv
 <2>3. CASE held # NoPlan
  <3>1. held.generation \in 1 .. published' BY <1>1, <2>3 DEF IInv, HeldInv
  <3> QED BY <2>1, <2>3, <3>1 DEF IInv, HeldInv, PlanOf, LastWord, WordOf
 <2> QED BY <2>2, <2>3
<1> QED BY <1>2, <1>3

LEMMA MarkSlotInv == ASSUME IInv, MarkSlot PROVE IInv'
<1> DEFINE t == Slot(wgen)
<1>1. /\ wgen # 0 /\ wpos = 0 /\ wpos' = 1
      /\ mark' = [mark EXCEPT ![t] = Marked(wgen)]
      /\ UNCHANGED <<published, body, sent, wgen, reader>>
  BY DEF MarkSlot
<1>2. mark \in [Slots -> 0 .. MaxGeneration + 1] BY DEF IInv, TypeOK
<1>3. TypeOK'
 <2>1. Marked(wgen) \in 0 .. MaxGeneration + 1
   BY <1>1, MaxGenerationAssumption DEF IInv, TypeOK, Generations, Marked
 <2>2. mark' \in [Slots -> 0 .. MaxGeneration + 1] BY <1>1, <1>2, <2>1
 <2>3. wpos' \in 0 .. HeaderWords + Capacity + 2 BY <1>1, CapacityAssumption DEF HeaderWords
 <2>4. IsPlan(held)' BY <1>1 DEF IInv, TypeOK, reader
 <2> QED BY <1>1, <2>2, <2>3, <2>4 DEF IInv, TypeOK, reader
<1>4. SlotInv'
 <2> SUFFICES ASSUME NEW s \in Slots PROVE SlotInv!(s)' BY DEF SlotInv
 <2>1. CASE s = t BY <1>1, <1>2, <2>1, WriterAhead
 <2>2. CASE s # t
  <3>1. mark'[s] = mark[s] BY <1>1, <1>2, <2>2
  <3> QED BY <1>1, <2>2, <3>1 DEF IInv, SlotInv, Holds
 <2> QED BY <2>1, <2>2
<1>5. WriterInv'
 <2>1. mark'[t] = Marked(wgen) BY <1>1, <1>2, WriterAhead
 <2> QED BY <1>1, <2>1, WriterAhead DEF IInv, WriterInv
<1>6. ReaderInv' /\ HeldInv'
 <2>1. \A s \in Slots : mark'[s] = rgen => mark[s] = rgen BY <1>1, <1>2, WriterAhead
 <2> QED BY <1>1, <2>1, WriterAhead, ReaderUndisturbed
<1> QED BY <1>3, <1>4, <1>5, <1>6 DEF IInv

LEMMA StoreWordInv == ASSUME IInv, StoreWord PROVE IInv'
<1> DEFINE t == Slot(wgen)
           c == sent[wgen]
<1>1. /\ wgen # 0 /\ wpos \in 1 .. LastWord(c) /\ wpos' = wpos + 1
      /\ body' = [body EXCEPT ![t][wpos] = WordOf(wgen, c, wpos)]
      /\ UNCHANGED <<published, mark, sent, wgen, reader>>
  BY DEF StoreWord
<1>2. body \in [Slots -> [Words -> WordValues]] BY DEF IInv, TypeOK
<1>3. /\ wpos \in Words /\ WordOf(wgen, c, wpos) \in WordValues
      /\ wpos + 1 \in 0 .. HeaderWords + Capacity + 2
 <2>1. wgen \in 1 .. MaxGeneration /\ c \in 1 .. Capacity BY <1>1, WriterAhead DEF IInv, TypeOK, Generations
 <2> QED BY <1>1, <2>1, CapacityAssumption, MaxGenerationAssumption
         DEF LastWord, HeaderWords, Words, WordOf, WordValues
<1>4. body' \in [Slots -> [Words -> WordValues]] BY <1>1, <1>2, <1>3
<1>5. TypeOK'
 <2>1. IsPlan(held)' BY <1>1 DEF IInv, TypeOK, reader
 <2> QED BY <1>1, <1>3, <1>4, <2>1 DEF IInv, TypeOK, reader
<1>6. mark[t] = Marked(wgen) BY <1>1, WriterAhead DEF IInv, WriterInv
<1>7. SlotInv'
 <2> SUFFICES ASSUME NEW s \in Slots PROVE SlotInv!(s)' BY DEF SlotInv
 <2>1. CASE s = t
  <3>1. wpos' \in 1 .. LastWord(c) + 1 BY <1>1, WriterAhead
  <3> QED BY <1>1, <1>6, <2>1, <3>1
 <2>2. CASE s # t
  <3>1. body'[s] = body[s] BY <1>1, <1>2, <2>2
  <3> QED BY <1>1, <2>2, <3>1 DEF IInv, SlotInv, Holds
 <2> QED BY <2>1, <2>2
<1>8. WriterInv'
 <2>1. wpos' \in 0 .. LastWord(c) + 2 BY <1>1, WriterAhead
 <2>2. \A k \in 1 .. LastWord(c) : k < wpos' => body'[t][k] = WordOf(wgen, c, k)
  <3> SUFFICES ASSUME NEW k \in 1 .. LastWord(c), k < wpos'
               PROVE  body'[t][k] = WordOf(wgen, c, k)
    OBVIOUS
  <3>1. t \in Slots /\ k \in Words BY WriterAhead, <1>1, CapacityAssumption DEF Words, LastWord, HeaderWords
  <3>2. CASE k = wpos BY <1>1, <1>2, <1>3, <3>1, <3>2
  <3>3. CASE k # wpos
   <4>1. k < wpos BY <1>1, <3>3, WriterAhead
   <4>2. body[t][k] = WordOf(wgen, c, k) BY <1>1, <4>1, WriterAhead DEF IInv, WriterInv
   <4> QED BY <1>1, <1>2, <1>3, <3>1, <3>3, <4>2
  <3> QED BY <3>2, <3>3
 <2> QED BY <1>1, <1>6, <2>1, <2>2, WriterAhead DEF IInv, WriterInv
<1>9. ReaderInv' /\ HeldInv' BY <1>1, WriterAhead, ReaderUndisturbed
<1> QED BY <1>5, <1>7, <1>8, <1>9 DEF IInv

LEMMA SealSlotInv == ASSUME IInv, SealSlot PROVE IInv'
<1> DEFINE t == Slot(wgen)
           c == sent[wgen]
<1>1. /\ wgen # 0 /\ wpos = LastWord(c) + 1 /\ wpos' = LastWord(c) + 2
      /\ mark' = [mark EXCEPT ![t] = wgen]
      /\ UNCHANGED <<published, body, sent, wgen, reader>>
  BY WriterAhead DEF SealSlot
<1>2. mark \in [Slots -> 0 .. MaxGeneration + 1] BY DEF IInv, TypeOK
<1>3. wgen \in Generations /\ wgen \in 1 .. MaxGeneration BY <1>1 DEF IInv, TypeOK, Generations
<1>4. TypeOK'
 <2>0. wgen \in 0 .. MaxGeneration + 1 BY <1>3, MaxGenerationAssumption
 <2>1. mark' \in [Slots -> 0 .. MaxGeneration + 1] BY <1>1, <1>2, <2>0
 <2>2. wpos' \in 0 .. HeaderWords + Capacity + 2
   BY <1>1, WriterAhead, CapacityAssumption DEF HeaderWords, LastWord
 <2>3. IsPlan(held)' BY <1>1 DEF IInv, TypeOK, reader
 <2> QED BY <1>1, <2>1, <2>2, <2>3 DEF IInv, TypeOK, reader
<1>5. Holds(t, wgen)
 <2>1. wpos \in 1 .. LastWord(c) + 1 /\ wpos \in Nat BY <1>1, WriterAhead DEF LastWord, HeaderWords
 <2>2. \A k \in 1 .. LastWord(c) : body[t][k] = WordOf(wgen, c, k)
   BY <1>1, <2>1, WriterAhead DEF IInv, WriterInv
 <2> QED BY <1>1, <2>2, WriterAhead DEF Holds
<1>6. SlotInv'
 <2> SUFFICES ASSUME NEW s \in Slots PROVE SlotInv!(s)' BY DEF SlotInv
 <2>1. CASE s = t
  <3>1. mark'[s] = wgen BY <1>1, <1>2, <2>1
  <3>2. Holds(s, wgen)' BY <1>1, <1>5, <2>1 DEF Holds
  <3> QED BY <1>1, <1>3, <3>1, <3>2
 <2>2. CASE s # t
  <3>1. mark'[s] = mark[s] BY <1>1, <1>2, <2>2
  <3> QED BY <1>1, <2>2, <3>1 DEF IInv, SlotInv, Holds
 <2> QED BY <2>1, <2>2
<1>7. WriterInv'
 <2>1. wpos' \in 0 .. LastWord(c) + 2 /\ ~ (wpos' \in 1 .. LastWord(c) + 1) BY <1>1, WriterAhead
 <2> QED BY <1>1, <2>1, WriterAhead DEF IInv, WriterInv
<1>8. ReaderInv' /\ HeldInv'
 <2>1. \A s \in Slots : mark'[s] = rgen => mark[s] = rgen BY <1>1, <1>2, WriterAhead
 <2> QED BY <1>1, <2>1, WriterAhead, ReaderUndisturbed
<1> QED BY <1>4, <1>6, <1>7, <1>8 DEF IInv

LEMMA AnnounceInv == ASSUME IInv, Announce PROVE IInv'
<1> DEFINE c == sent[wgen]
<1>1. /\ wgen # 0 /\ wpos = LastWord(c) + 2
      /\ published' = wgen /\ wgen' = 0 /\ wpos' = 0
      /\ UNCHANGED <<mark, body, sent, reader>>
  BY DEF Announce
<1>2. TypeOK'
 <2>1. wgen \in Generations BY <1>1 DEF IInv, TypeOK
 <2>2. 0 \in 0 .. HeaderWords + Capacity + 2 BY CapacityAssumption DEF HeaderWords
 <2>3. IsPlan(held)' BY <1>1 DEF IInv, TypeOK, reader
 <2> QED BY <1>1, <2>1, <2>2, <2>3 DEF IInv, TypeOK, reader
<1>3. SlotInv'
 <2> SUFFICES ASSUME NEW s \in Slots PROVE SlotInv!(s)' BY DEF SlotInv
 <2>1. mark[s] = 0 \/ (mark[s] \in Generations /\ Holds(s, mark[s])
                       /\ (mark[s] <= published \/ mark[s] = wgen))
  <3>1. ~ (wpos \in 1 .. LastWord(c) + 1) BY <1>1, WriterAhead
  <3> QED BY <3>1 DEF IInv, SlotInv
 <2>2. mark[s] # 0 => mark[s] <= wgen BY <1>1, <2>1, WriterAhead, MaxGenerationAssumption DEF Generations
 <2>3. mark[s] # 0 => Holds(s, mark[s])' BY <1>1, <2>1 DEF Holds
 <2> QED BY <1>1, <2>1, <2>2, <2>3
<1>4. WriterInv' BY <1>1, WriterAhead DEF IInv, WriterInv
<1>5. ReaderInv' /\ HeldInv'
 <2>1. published' >= published /\ published' \in Nat BY <1>1, WriterAhead
 <2> QED BY <1>1, <2>1, ReaderUndisturbed
<1> QED BY <1>2, <1>3, <1>4, <1>5 DEF IInv
----
\* The reader leaves the shared words and the writer alone: what each of
\* its steps owes is only its own part of the invariant.
LEMMA WriterUndisturbed ==
  ASSUME IInv, UNCHANGED <<shared, writer>>
  PROVE  SlotInv' /\ WriterInv'
BY DEF IInv, SlotInv, WriterInv, Holds, shared, writer

\* A slot that still carries rgen's mark holds the whole of rgen.
LEMMA MarkMeansComplete ==
  ASSUME IInv, rgen # 0, mark[Slot(rgen)] = rgen
  PROVE  Slot(rgen) \in Slots /\ Holds(Slot(rgen), rgen) /\ rgen \in 1 .. MaxGeneration
<1>1. rgen \in Nat /\ rgen \in 1 .. MaxGeneration BY MaxGenerationAssumption DEF IInv, TypeOK, Generations
<1>2. Slot(rgen) \in Slots BY <1>1, SlotIsSlot
<1>3. wgen # 0 => mark[Slot(rgen)] # Marked(wgen) BY WriterAhead
<1> QED BY <1>1, <1>2, <1>3 DEF IInv, SlotInv

LEMMA HeldUndisturbed ==
  ASSUME IInv, UNCHANGED <<shared, held>>
  PROVE  HeldInv' /\ IsPlan(held)'
<1>1. held' = held /\ sent' = sent /\ published' = published BY DEF shared
<1>2. IsPlan(held)' BY <1>1 DEF IInv, TypeOK
<1>3. HeldInv' BY <1>1 DEF IInv, HeldInv, PlanOf, LastWord, WordOf
<1> QED BY <1>2, <1>3

LEMMA GiveUpInv == ASSUME IInv, GiveUp PROVE IInv'
<1>1. /\ rpc' = "published"
      /\ UNCHANGED <<shared, writer, rgen, rpos, rbuf, held>>
  BY DEF GiveUp
<1>2. SlotInv' /\ WriterInv' BY <1>1, WriterUndisturbed
<1>3. HeldInv' /\ IsPlan(held)' BY <1>1, HeldUndisturbed
<1>4. TypeOK' BY <1>1, <1>3 DEF IInv, TypeOK, shared, writer, ReaderSteps
<1>5. ReaderInv' BY <1>1 DEF IInv, ReaderInv, shared
<1> QED BY <1>2, <1>3, <1>4, <1>5 DEF IInv

LEMMA LoadPublishedInv == ASSUME IInv, LoadPublished PROVE IInv'
<1>1. /\ published # 0 /\ rgen' = published /\ rpc' = "mark"
      /\ UNCHANGED <<shared, writer, rpos, rbuf, held>>
  BY DEF LoadPublished
<1>2. SlotInv' /\ WriterInv' BY <1>1, WriterUndisturbed
<1>3. HeldInv' /\ IsPlan(held)' BY <1>1, HeldUndisturbed
<1>4. TypeOK' BY <1>1, <1>3 DEF IInv, TypeOK, shared, writer, ReaderSteps
<1>5. ReaderInv'
 <2>1. published \in Nat BY MaxGenerationAssumption DEF IInv, TypeOK, Generations
 <2> QED BY <1>1, <2>1 DEF IInv, ReaderInv, shared
<1> QED BY <1>2, <1>3, <1>4, <1>5 DEF IInv

LEMMA LoadMarkInv == ASSUME IInv, LoadMark PROVE IInv'
<1> SUFFICES ASSUME mark[Slot(rgen)] = rgen,
                    rpc = "mark", rpc' = "words", rpos' = 1,
                    UNCHANGED <<shared, writer, rgen, rbuf, held>>
             PROVE  IInv'
  BY GiveUpInv DEF LoadMark
<1>1. SlotInv' /\ WriterInv' BY WriterUndisturbed
<1>2. HeldInv' /\ IsPlan(held)' BY HeldUndisturbed
<1>3. TypeOK'
 <2>1. 1 \in Words BY CapacityAssumption DEF Words, HeaderWords
 <2> QED BY <1>2, <2>1 DEF IInv, TypeOK, shared, writer, ReaderSteps
<1>4. ReaderInv'
 <2>1. Copied(rpos - 1)' BY DEF Copied
 <2> QED BY <2>1 DEF IInv, ReaderInv, shared, CountWord
<1> QED BY <1>1, <1>2, <1>3, <1>4 DEF IInv

\* The copy loop: the count is validated the moment it is read, and a word
\* read while the slot still carries rgen's mark is a word of rgen.
LEMMA LoadWordInv == ASSUME IInv, LoadWord PROVE IInv'
<1> DEFINE t == Slot(rgen)
           word == body[t][rpos]
           count == IF rpos = CountWord THEN word ELSE rbuf[CountWord]
<1>1. CASE rpos = CountWord /\ word \notin 1 .. Capacity BY <1>1, GiveUpInv DEF LoadWord
<1>2. CASE ~(rpos = CountWord /\ word \notin 1 .. Capacity)
 <2>1. /\ rpc = "words"
       /\ rbuf' = [rbuf EXCEPT ![rpos] = word]
       /\ IF rpos > CountWord /\ rpos = LastWord(count)
          THEN rpc' = "mark_again" /\ rpos' = rpos
          ELSE rpc' = "words" /\ rpos' = rpos + 1
       /\ UNCHANGED <<shared, writer, rgen, held>>
   BY <1>2 DEF LoadWord
 <2>2. /\ rpos \in Words /\ rpos \in Nat /\ rbuf \in [Words -> WordValues]
       /\ CountWord \in Words
   BY CapacityAssumption DEF IInv, TypeOK, Words, HeaderWords, CountWord
 <2>3. t \in Slots /\ word \in WordValues
  <3>1. rgen \in Nat BY MaxGenerationAssumption DEF IInv, TypeOK, Generations
  <3>2. t \in Slots BY <3>1, SlotIsSlot
  <3> QED BY <2>2, <3>2 DEF IInv, TypeOK
 <2>4. /\ rbuf' \in [Words -> WordValues] /\ rbuf'[rpos] = word
       /\ \A k \in Words : k # rpos => rbuf'[k] = rbuf[k]
   BY <2>1, <2>2, <2>3
 <2>5. rpos >= CountWord =>
         /\ rbuf'[CountWord] = count /\ count \in 1 .. Capacity
         /\ rpos = CountWord \/ rpos <= LastWord(count)
   BY <1>2, <2>1, <2>2, <2>4 DEF IInv, ReaderInv, CountWord
 <2>6. rpc' = "words" => rpos' \in Words
   BY <2>1, <2>2, <2>5, CapacityAssumption DEF Words, LastWord, HeaderWords, CountWord
 <2>7. SlotInv' /\ WriterInv' BY <2>1, WriterUndisturbed
 <2>8. HeldInv' /\ IsPlan(held)' BY <2>1, HeldUndisturbed
 <2>9. TypeOK' BY <2>1, <2>2, <2>4, <2>6, <2>8 DEF IInv, TypeOK, shared, writer, ReaderSteps
 <2>10. ASSUME mark[t] = rgen
        PROVE  /\ \A k \in 1 .. rpos : rbuf'[k] = WordOf(rgen, sent[rgen], k)
               /\ rpos >= CountWord => count = sent[rgen]
  <3>1. Holds(t, rgen) BY <2>1, <2>10, MarkMeansComplete DEF IInv, ReaderInv
  <3>2. rpos <= LastWord(sent[rgen]) /\ (rpos > CountWord => count = sent[rgen])
   <4>1. rpos > CountWord => rbuf[CountWord] = sent[rgen]
     BY <2>1, <2>2, <2>10 DEF IInv, ReaderInv, Copied, WordOf, CountWord
   <4>2. sent[rgen] \in 1 .. Capacity BY <3>1 DEF Holds
   <4>3. rpos <= CountWord => rpos <= LastWord(sent[rgen])
     BY <2>2, <4>2, CapacityAssumption DEF LastWord, HeaderWords, CountWord
   <4>4. rpos > CountWord => rpos <= LastWord(rbuf[CountWord]) BY <2>1, <2>2 DEF IInv, ReaderInv, CountWord
   <4> QED BY <2>2, <4>1, <4>3, <4>4 DEF CountWord
  <3>3. word = WordOf(rgen, sent[rgen], rpos) BY <2>2, <3>1, <3>2 DEF Holds, Words
  <3>4. \A k \in 1 .. rpos - 1 : rbuf[k] = WordOf(rgen, sent[rgen], k)
    BY <2>1, <2>10 DEF IInv, ReaderInv, Copied
  <3>5. \A k \in 1 .. rpos - 1 : k \in Words /\ k # rpos BY <2>2, CapacityAssumption DEF Words, HeaderWords
  <3>6. \A k \in 1 .. rpos : rbuf'[k] = WordOf(rgen, sent[rgen], k) BY <2>2, <2>4, <3>3, <3>4, <3>5
  <3>7. rpos = CountWord => count = sent[rgen] BY <3>3 DEF WordOf
  <3> QED BY <2>2, <3>2, <3>6, <3>7 DEF CountWord
 <2>11. ReaderInv'
  <3>1. CASE rpos > CountWord /\ rpos = LastWord(count)
   <4>1. rpc' = "mark_again" /\ rpos' = rpos BY <2>1, <3>1
   <4>2. (mark[t] = rgen)' => Copied(LastWord(sent[rgen]))'
     BY <2>1, <2>2, <2>10, <3>1 DEF Copied, shared, CountWord
   <4> QED BY <2>1, <2>5, <4>1, <4>2, <3>1, <2>2 DEF IInv, ReaderInv, shared, CountWord
  <3>2. CASE ~(rpos > CountWord /\ rpos = LastWord(count))
   <4>1. rpc' = "words" /\ rpos' = rpos + 1 BY <2>1, <3>2
   <4>2. (mark[t] = rgen)' => Copied(rpos - 1)' BY <2>1, <2>2, <2>10, <4>1 DEF Copied, shared
   <4>3. \/ rpos' <= CountWord
         \/ rbuf'[CountWord] \in 1 .. Capacity /\ rpos' <= LastWord(rbuf'[CountWord])
     BY <2>2, <2>5, <3>2, <4>1, CapacityAssumption DEF LastWord, HeaderWords, CountWord
   <4> QED BY <2>1, <4>1, <4>2, <4>3 DEF IInv, ReaderInv, shared
  <3> QED BY <3>1, <3>2
 <2> QED BY <2>7, <2>8, <2>9, <2>11 DEF IInv
<1> QED BY <1>1, <1>2

LEMMA RecheckMarkInv == ASSUME IInv, RecheckMark PROVE IInv'
<1> SUFFICES ASSUME rpc = "mark_again", mark[Slot(rgen)] = rgen,
                    rpc' = "published_again",
                    UNCHANGED <<shared, writer, rgen, rpos, rbuf, held>>
             PROVE  IInv'
  BY GiveUpInv DEF RecheckMark
<1>1. SlotInv' /\ WriterInv' BY WriterUndisturbed
<1>2. HeldInv' /\ IsPlan(held)' BY HeldUndisturbed
<1>3. TypeOK' BY <1>2 DEF IInv, TypeOK, shared, writer, ReaderSteps
<1>4. ReaderInv' BY DEF IInv, ReaderInv, Copied, shared
<1> QED BY <1>1, <1>2, <1>3, <1>4 DEF IInv

\* The copy the reader is about to return is the publication of rgen.
LEMMA CopyIsPlan ==
  ASSUME IInv, rpc = "published_again"
  PROVE  /\ rgen \in Generations /\ rgen \in 1 .. published
         /\ sent[rgen] \in 1 .. Capacity
         /\ [generation |-> rgen,
             words |-> [k \in 1 .. LastWord(rbuf[CountWord]) |-> rbuf[k]]]
              = PlanOf(rgen, sent[rgen])
         /\ PlanOf(rgen, sent[rgen]) \in
              [generation : Generations, words : [1 .. LastWord(sent[rgen]) -> WordValues]]
<1>1. /\ rgen # 0 /\ rgen \in Generations /\ rgen \in 1 .. published
      /\ rgen \in 1 .. MaxGeneration
  BY MaxGenerationAssumption DEF IInv, TypeOK, ReaderInv, Generations
<1>2. /\ sent[rgen] \in 0 .. Capacity /\ rbuf[CountWord] \in 1 .. Capacity
      /\ Copied(LastWord(sent[rgen]))
  BY <1>1 DEF IInv, TypeOK, ReaderInv
<1>3. rbuf[CountWord] = sent[rgen]
  BY <1>2, CapacityAssumption DEF Copied, WordOf, CountWord, LastWord, HeaderWords
<1>4. [k \in 1 .. LastWord(rbuf[CountWord]) |-> rbuf[k]]
        = [k \in 1 .. LastWord(sent[rgen]) |-> WordOf(rgen, sent[rgen], k)]
  BY <1>2, <1>3 DEF Copied
<1>5. \A k \in 1 .. LastWord(sent[rgen]) : WordOf(rgen, sent[rgen], k) \in WordValues
  BY <1>1, <1>2, CapacityAssumption, MaxGenerationAssumption DEF WordOf, WordValues
<1> QED BY <1>1, <1>2, <1>3, <1>4, <1>5 DEF PlanOf

LEMMA RecheckPublishedInv == ASSUME IInv, RecheckPublished PROVE IInv'
<1> SUFFICES ASSUME rpc = "published_again", published = rgen,
                    held' = [generation |-> rgen,
                      words |-> [k \in 1 .. LastWord(rbuf[CountWord]) |-> rbuf[k]]],
                    rpc' = "published",
                    UNCHANGED <<shared, writer, rgen, rpos, rbuf>>
             PROVE  IInv'
  BY GiveUpInv DEF RecheckPublished
<1>1. held' = PlanOf(rgen, sent[rgen]) BY CopyIsPlan
<1>2. SlotInv' /\ WriterInv' BY WriterUndisturbed
<1>3. IsPlan(held)'
 <2>1. sent[rgen] \in 1 .. Capacity BY CopyIsPlan
 <2>2. held' \in [generation : Generations, words : [1 .. LastWord(sent[rgen]) -> WordValues]]
   BY <1>1, CopyIsPlan
 <2> QED BY <2>1, <2>2 DEF IsPlan
<1>4. HeldInv'
 <2>1. held'.generation = rgen BY <1>1 DEF PlanOf
 <2>2. published' = published /\ sent' = sent BY DEF shared
 <2>3. held' = PlanOf(held.generation, sent[held.generation])' BY <1>1, <2>1, <2>2 DEF PlanOf, LastWord, WordOf
 <2> QED BY <2>1, <2>2, <2>3, CopyIsPlan DEF HeldInv
<1>5. TypeOK' BY <1>3 DEF IInv, TypeOK, shared, writer, ReaderSteps
<1>6. ReaderInv' BY DEF IInv, ReaderInv, shared
<1> QED BY <1>2, <1>4, <1>5, <1>6 DEF IInv

LEMMA UnchangedInv == ASSUME IInv, UNCHANGED vars PROVE IInv'
<1>1. SlotInv' /\ WriterInv' BY WriterUndisturbed DEF vars
<1>2. HeldInv' /\ IsPlan(held)' BY HeldUndisturbed DEF vars, reader
<1>3. TypeOK' BY <1>2 DEF IInv, TypeOK, vars, shared, writer, reader
<1>4. ReaderInv' BY DEF IInv, ReaderInv, Copied, vars, shared, writer, reader
<1> QED BY <1>1, <1>2, <1>3, <1>4 DEF IInv

LEMMA NextInv == ASSUME IInv, [Next]_vars PROVE IInv'
<1>1. CASE \E stride \in Strides, count \in 1 .. Capacity : BeginPublish(stride, count) BY <1>1, BeginPublishInv
<1>2. CASE MarkSlot BY <1>2, MarkSlotInv
<1>3. CASE StoreWord BY <1>3, StoreWordInv
<1>4. CASE SealSlot BY <1>4, SealSlotInv
<1>5. CASE Announce BY <1>5, AnnounceInv
<1>6. CASE LoadPublished BY <1>6, LoadPublishedInv
<1>7. CASE LoadMark BY <1>7, LoadMarkInv
<1>8. CASE LoadWord BY <1>8, LoadWordInv
<1>9. CASE RecheckMark BY <1>9, RecheckMarkInv
<1>10. CASE RecheckPublished BY <1>10, RecheckPublishedInv
<1>11. CASE UNCHANGED vars BY <1>11, UnchangedInv
<1> QED BY <1>1, <1>2, <1>3, <1>4, <1>5, <1>6, <1>7, <1>8, <1>9, <1>10, <1>11
        DEF Next, Writer, Reader

LEMMA Inductive == Spec => []IInv
<1>1. Init => IInv BY InitInv
<1>2. IInv /\ [Next]_vars => IInv' BY NextInv
<1> QED BY <1>1, <1>2, PTL DEF Spec
----
\* Every word, both program counters and the copies keep their types, for
\* any capacity, strides and number of generations.
THEOREM TypeCorrect == Spec => []TypeOK
<1>1. IInv => TypeOK BY DEF IInv
<1> QED BY <1>1, Inductive, PTL

\* The owner never holds a mixture of two publications: the word-by-word
\* copy of read (lines 88-113) returns one plan, as it was published.
THEOREM NoTorn == Spec => []NoTornPlan
<1>1. IInv => NoTornPlan BY DEF IInv, HeldInv, NoTornPlan, NoPlan
<1> QED BY <1>1, Inductive, PTL

\* Every step of the bridge is a step of the register or invisible: only
\* Announce changes the newest plan, only the last step of read takes it.
LEMMA StepRefines ==
  ASSUME IInv, [Next]_vars
  PROVE  [Register!Next]_<<Latest, held>>
<1> USE DEF Register!Next
<1>1. CASE UNCHANGED <<published, held>> /\ \A g \in 1 .. MaxGeneration : g <= published => sent'[g] = sent[g]
 <2>1. published # 0 => published \in 1 .. MaxGeneration /\ published <= published
   BY MaxGenerationAssumption DEF IInv, TypeOK, Generations
 <2> QED BY <1>1, <2>1 DEF Latest, PlanOf, LastWord, WordOf
<1>2. CASE UNCHANGED <<shared, held>> BY <1>2 DEF Latest, PlanOf, LastWord, WordOf, shared
<1>3. CASE \E stride \in Strides, count \in 1 .. Capacity : BeginPublish(stride, count)
 <2>1. PICK stride \in Strides, count \in 1 .. Capacity : BeginPublish(stride, count) BY <1>3
 <2>2. sent \in [1 .. MaxGeneration -> 0 .. Capacity] /\ published \in Nat
   BY MaxGenerationAssumption DEF IInv, TypeOK, Generations
 <2>3. published + stride > published BY <2>2, StridesAssumption
 <2>4. \A g \in 1 .. MaxGeneration : g <= published => sent'[g] = sent[g]
  <3>1. sent' = [sent EXCEPT ![published + stride] = count] BY <2>1 DEF BeginPublish
  <3>2. published + stride \in Nat BY <2>2, StridesAssumption
  <3> QED BY <2>2, <2>3, <3>1, <3>2
 <2> QED BY <1>1, <2>1, <2>4 DEF BeginPublish, reader
<1>4. CASE MarkSlot \/ StoreWord \/ SealSlot BY <1>1, <1>4 DEF MarkSlot, StoreWord, SealSlot, reader
<1>5. CASE Announce
 <2>1. published' = wgen /\ wgen # 0 /\ sent' = sent /\ held' = held BY <1>5 DEF Announce, reader
 <2>2. wgen \in Nat /\ published \in Nat /\ wgen > published BY <2>1, WriterAhead
 <2>3. Latest.generation = published /\ Latest'.generation = wgen BY <2>1 DEF Latest, PlanOf, NoPlan
 <2> QED BY <2>1, <2>2, <2>3 DEF Register!Publish
<1>6. CASE LoadPublished \/ LoadMark \/ LoadWord \/ RecheckMark \/ GiveUp
  BY <1>2, <1>6 DEF LoadPublished, LoadMark, LoadWord, RecheckMark, GiveUp
<1>7. CASE RecheckPublished
 <2>1. CASE published = rgen
  <3>1. held' = PlanOf(rgen, sent[rgen]) BY <1>7, <2>1, CopyIsPlan DEF RecheckPublished
  <3>2. rgen > 0 /\ published # 0 BY <1>7, <2>1, CopyIsPlan DEF RecheckPublished, Generations
  <3>3. held' = Latest /\ Latest.generation > 0 BY <2>1, <3>1, <3>2 DEF Latest, PlanOf
  <3>4. UNCHANGED shared BY <1>7, <2>1 DEF RecheckPublished
  <3>5. Latest' = Latest BY <3>4 DEF Latest, PlanOf, LastWord, WordOf, shared
  <3> QED BY <3>3, <3>5 DEF Register!Take
 <2>2. CASE published # rgen BY <1>6, <1>7, <2>2 DEF RecheckPublished
 <2> QED BY <2>1, <2>2
<1>8. CASE UNCHANGED vars BY <1>2, <1>8 DEF vars, reader
<1> QED BY <1>3, <1>4, <1>5, <1>6, <1>7, <1>8 DEF Next, Writer, Reader

\* The two slots, their marks and the word-by-word copy implement one
\* atomic register, for every capacity and every history of generations.
THEOREM ImplementsRegister == Spec => AtomicRegister
<1>1. Init => Register!Init BY DEF Init, Register!Init, Latest, NoPlan, Register!NoPlan
<1>2. IInv /\ [Next]_vars => [Register!Next]_<<Latest, held>> BY StepRefines
<1> QED BY <1>1, <1>2, Inductive, PTL DEF Spec, AtomicRegister, Register!Spec

----
\* The online policy.
\* A non-empty set of naturals has a least element.
Below1 == {pair \in Nat \X Nat : pair[1] < pair[2]}

LEMMA LeastElement ==
  ASSUME NEW S, S \subseteq Nat, S # {}
  PROVE  \E n \in S : \A m \in S : n <= m
<1>1. IsWellFoundedOn(Below1, Nat) BY NatLessThanWellFounded, Zenon DEF Below1, OpToRel
<1>2. PICK n \in S : \A m \in S : ~ (<<m, n>> \in Below1) BY <1>1, WFMin
<1>3. ASSUME NEW m \in S PROVE n <= m
 <2>1. m \in Nat /\ n \in Nat /\ <<m, n>> \in Nat \X Nat OBVIOUS
 <2>2. ~ (m < n) BY <1>2, <2>1 DEF Below1
 <2> QED BY <2>1, <2>2
<1> QED BY <1>3

----
\* Counting up to n, and functions defined along the way.
LEMMA UpTo ==
  ASSUME NEW n \in Nat, NEW S, 0 \in S, \A k \in 0 .. n - 1 : k \in S => k + 1 \in S
  PROVE  \A k \in 0 .. n : k \in S
<1> DEFINE Out == {k \in 0 .. n : k \notin S}
<1>1. ASSUME Out # {} PROVE FALSE
 <2>1. PICK k \in Out : \A j \in Out : k <= j
  <3>1. Out \subseteq Nat OBVIOUS
  <3> QED BY <1>1, <3>1, LeastElement
 <2>2. k \in 0 .. n /\ k # 0 /\ k - 1 \in 0 .. n - 1 /\ k - 1 \in 0 .. n /\ (k - 1) + 1 = k BY <2>1
 <2>3. k - 1 \notin Out BY <2>1, <2>2
 <2> QED BY <2>1, <2>2, <2>3
<1> QED BY <1>1

Stepper(step, n, V) == step \in [(1 .. n) \X V -> V]
Follows(f, base, step, n, V) ==
    f \in [0 .. n -> V] /\ f[0] = base /\ \A k \in 1 .. n : f[k] = step[<<k, f[k - 1]>>]

LEMMA Recursion ==
  ASSUME NEW n \in Nat, NEW V, NEW base \in V, NEW step, Stepper(step, n, V)
  PROVE  \E f : Follows(f, base, step, n, V)
<1> USE DEF Stepper
<1> DEFINE Fits(m, f) == f[0] = base /\ \A k \in 1 .. m : f[k] = step[<<k, f[k - 1]>>]
           S == {m \in 0 .. n : \E f \in [0 .. m -> V] : Fits(m, f)}
<1>1. 0 \in S
 <2> DEFINE e == [k \in 0 .. 0 |-> base]
 <2>1. Fits(0, e) /\ e \in [0 .. 0 -> V] OBVIOUS
 <2> HIDE DEF e, Fits
 <2> QED BY <2>1
<1>2. ASSUME NEW m \in 0 .. n - 1, m \in S PROVE m + 1 \in S
 <2>1. PICK f \in [0 .. m -> V] : Fits(m, f) BY <1>2
 <2> DEFINE g == [k \in 0 .. m + 1 |-> IF k = m + 1 THEN step[<<m + 1, f[m]>>] ELSE f[k]]
 <2>2. step[<<m + 1, f[m]>>] \in V OBVIOUS
 <2>3. g \in [0 .. m + 1 -> V] BY <2>2
 <2>4. \A k \in 1 .. m + 1 : g[k] = step[<<k, g[k - 1]>>]
  <3> TAKE k \in 1 .. m + 1
  <3>1. CASE k = m + 1
   <4>1. k - 1 = m /\ m \in 0 .. m + 1 /\ m # m + 1 BY <3>1
   <4>2. g[m] = f[m] /\ g[m + 1] = step[<<m + 1, f[m]>>] BY <4>1
   <4> QED BY <3>1, <4>1, <4>2
  <3>2. CASE k # m + 1
   <4>1. k \in 1 .. m /\ k - 1 \in 0 .. m /\ k - 1 # m + 1 /\ k \in 0 .. m + 1 /\ k - 1 \in 0 .. m + 1 BY <3>2
   <4>2. g[k] = f[k] /\ g[k - 1] = f[k - 1] BY <3>2, <4>1
   <4> QED BY <2>1, <4>1, <4>2
  <3> QED BY <3>1, <3>2
 <2>5. g[0] = f[0] OBVIOUS
 <2>6. Fits(m + 1, g) BY <2>1, <2>4, <2>5
 <2> HIDE DEF g, Fits
 <2> QED BY <2>3, <2>6
<1> HIDE DEF S
<1>3. \A m \in 0 .. n : m \in S BY <1>1, <1>2, UpTo
<1>4. n \in S BY <1>3
<1>5. PICK f \in [0 .. n -> V] : Fits(n, f) BY <1>4 DEF S
<1>6. Follows(f, base, step, n, V) BY <1>5 DEF Follows
<1> HIDE DEF Fits
<1> QED BY <1>6

----
\* Where a proposal leads.
Given(now, moves, n) == \A k \in 1 .. n : InputAt(now, moves, k) \in Inputs
Walk(at, p, now, moves, n) ==
    /\ at \in [0 .. n -> Cells] /\ at[0] = p
    /\ \A k \in 1 .. n : at[k] = Move(at[k - 1], InputAt(now, moves, k))

LEMMA MoveCell == ASSUME NEW p \in Cells, NEW i \in Inputs PROVE Move(p, i) \in Cells
  BY PolicySearchAssumption DEF Move, Cells, Inputs

LEMMA Walks ==
  ASSUME NEW n \in Nat, NEW p \in Cells, NEW now, NEW moves, Given(now, moves, n)
  PROVE  Walk(Positions(p, now, moves, n), p, now, moves, n)
<1> DEFINE Settles(f) == f = [k \in 0 .. n |-> IF k = 0 THEN p ELSE Move(f[k - 1], InputAt(now, moves, k))]
           step == [q \in (1 .. n) \X Cells |-> Move(q[2], InputAt(now, moves, q[1]))]
<1>1. Stepper(step, n, Cells)
 <2>1. ASSUME NEW q \in (1 .. n) \X Cells PROVE Move(q[2], InputAt(now, moves, q[1])) \in Cells
   BY MoveCell DEF Given
 <2> QED BY <2>1 DEF Stepper
<1> HIDE DEF step
<1>2. PICK f : Follows(f, p, step, n, Cells) BY <1>1, Recursion
<1>3. \A k \in 1 .. n : f[k] = Move(f[k - 1], InputAt(now, moves, k))
 <2> TAKE k \in 1 .. n
 <2>1. <<k, f[k - 1]>> \in (1 .. n) \X Cells BY <1>2 DEF Follows
 <2>2. f[k] = step[<<k, f[k - 1]>>] BY <1>2 DEF Follows
 <2> QED BY <2>1, <2>2 DEF step
<1>4. Settles(f) BY <1>2, <1>3 DEF Follows
<1>5. Positions(p, now, moves, n) = CHOOSE at : Settles(at) BY DEF Positions
<1> DEFINE at == CHOOSE g : Settles(g)
<1> HIDE DEF Settles
<1>6. Settles(at) BY <1>4, Zenon
<1> HIDE DEF at
<1>7. at[0] = p /\ \A k \in 1 .. n : at[k] = Move(at[k - 1], InputAt(now, moves, k)) BY <1>6 DEF Settles
<1>8. at = [k \in 0 .. n |-> at[k]] BY <1>6 DEF Settles
<1> DEFINE S == {k \in 0 .. n : at[k] \in Cells}
<1>9. 0 \in S BY <1>7
<1>10. ASSUME NEW k \in 0 .. n - 1, k \in S PROVE k + 1 \in S
 <2>1. k + 1 \in 1 .. n /\ (k + 1) - 1 = k /\ k + 1 \in 0 .. n OBVIOUS
 <2>2. at[k + 1] = Move(at[k], InputAt(now, moves, k + 1)) BY <1>7, <2>1
 <2> QED BY <1>10, <2>1, <2>2, MoveCell DEF Given
<1>11. \A k \in 0 .. n : k \in S
 <2> HIDE DEF S
 <2> QED BY <1>9, <1>10, UpTo
<1>12. at \in [0 .. n -> Cells] BY <1>8, <1>11
<1> QED BY <1>5, <1>7, <1>12 DEF Walk, at

\* Two proposals that give the same inputs up to n lead the same way.
SameInputs(now, moves, others, n) == \A k \in 1 .. n : InputAt(now, moves, k) = InputAt(now, others, k)

LEMMA WalksAgree ==
  ASSUME NEW n \in Nat, NEW m \in Nat, n <= m, NEW p, NEW now, NEW moves, NEW others, NEW f, NEW g,
         Walk(f, p, now, moves, n), Walk(g, p, now, others, m), SameInputs(now, moves, others, n)
  PROVE  \A k \in 0 .. n : f[k] = g[k]
<1> DEFINE S == {k \in 0 .. n : f[k] = g[k]}
<1>1. 0 \in S BY DEF Walk
<1>2. ASSUME NEW k \in 0 .. n - 1, k \in S PROVE k + 1 \in S
 <2>1. k + 1 \in 1 .. n /\ k + 1 \in 1 .. m /\ (k + 1) - 1 = k /\ k + 1 \in 0 .. n OBVIOUS
 <2>2. f[k + 1] = Move(f[k], InputAt(now, moves, k + 1)) /\ g[k + 1] = Move(g[k], InputAt(now, others, k + 1))
   BY <2>1 DEF Walk
 <2> QED BY <1>2, <2>1, <2>2 DEF SameInputs
<1> HIDE DEF S
<1>3. \A k \in 0 .. n : k \in S BY <1>1, <1>2, UpTo
<1> QED BY <1>3 DEF S

LEMMA SafeAlike ==
  ASSUME NEW n \in Nat, NEW m \in Nat, n <= m, NEW p \in Cells, NEW now, NEW moves, NEW others, NEW frames,
         Given(now, moves, n), Given(now, others, m), SameInputs(now, moves, others, n), Safe(frames, p, now, others, m)
  PROVE  Safe(frames, p, now, moves, n)
<1> DEFINE f == Positions(p, now, moves, n)
           g == Positions(p, now, others, m)
<1>1. Walk(f, p, now, moves, n) /\ Walk(g, p, now, others, m) BY Walks
<1>2. \A k \in 1 .. m : g[k] \notin frames[k] BY DEF Safe
<1>3. (\A k \in 1 .. n : f[k] \notin frames[k]) => Safe(frames, p, now, moves, n) BY DEF Safe
<1> HIDE DEF f, g
<1>4. \A k \in 0 .. n : f[k] = g[k] BY <1>1, WalksAgree
<1>5. \A k \in 1 .. n : f[k] \notin frames[k] BY <1>2, <1>4
<1> QED BY <1>3, <1>5

LEMMA SafeShorter ==
  ASSUME NEW n \in Nat, NEW m \in Nat, n <= m, NEW p \in Cells, NEW now, NEW moves, NEW frames,
         Given(now, moves, m), Safe(frames, p, now, moves, m)
  PROVE  Safe(frames, p, now, moves, n)
<1>1. Given(now, moves, n) /\ SameInputs(now, moves, moves, n) BY DEF Given, SameInputs
<1> QED BY <1>1, SafeAlike

LEMMA SafeAtOnce ==
  ASSUME NEW p, NEW now, NEW moves, NEW frames
  PROVE  Safe(frames, p, now, moves, 0)
  BY DEF Safe

\* A proposal is a sequence of inputs, and not empty.
Proposal(moves) == moves \in Seq(Inputs) /\ moves # << >>

LEMMA ProposalGives ==
  ASSUME NEW now \in Inputs, NEW moves, Proposal(moves), NEW n \in Nat
  PROVE  Given(now, moves, n)
<1>1. Len(moves) \in Nat /\ Len(moves) >= 1 BY DEF Proposal
<1>2. ASSUME NEW k \in 1 .. n, k # 1 PROVE Min({k - 1, Len(moves)}) \in 1 .. Len(moves)
 <2>1. k - 1 \in Nat /\ k - 1 >= 1 BY <1>2
 <2> QED BY <1>1, <2>1 DEF Min
<1>3. \A i \in 1 .. Len(moves) : moves[i] \in Inputs BY DEF Proposal
<1> QED BY <1>2, <1>3 DEF Given, InputAt
----
\* The greatest and the least of a set.
LEMMA GreatestOf ==
  ASSUME NEW S, NEW a \in Int, S \subseteq Int, S # {}, \A k \in S : k <= a
  PROVE  Max(S) \in S /\ \A k \in S : k <= Max(S)
<1> DEFINE T == {a - k : k \in S}
<1>1. T \subseteq Nat /\ T # {} OBVIOUS
<1>2. PICK n \in T : \A m \in T : n <= m BY <1>1, LeastElement
<1>3. PICK k \in S : n = a - k BY <1>2
<1>4. \A j \in S : k >= j BY <1>2, <1>3
<1> DEFINE Top(y) == y \in S /\ \A z \in S : y >= z
<1>5. Max(S) = CHOOSE y \in S : \A z \in S : y >= z BY DEF Max
<1>6. Top(CHOOSE y : Top(y))
 <2>1. Top(k) BY <1>3, <1>4
 <2> HIDE DEF Top
 <2> QED BY <2>1, Zenon
<1>7. Max(S) = CHOOSE y : Top(y) BY <1>5
<1>8. Top(Max(S)) BY <1>6, <1>7
<1> QED BY <1>8

LEMMA LeastOf ==
  ASSUME NEW S, S \subseteq Nat, S # {}
  PROVE  Min(S) \in S /\ \A k \in S : Min(S) <= k
<1> DEFINE Bottom(y) == y \in S /\ \A z \in S : y <= z
<1>1. PICK n \in S : \A m \in S : n <= m BY LeastElement
<1>2. Min(S) = CHOOSE y \in S : \A z \in S : y <= z BY DEF Min
<1>3. Bottom(CHOOSE y : Bottom(y))
 <2>1. Bottom(n) BY <1>1
 <2> HIDE DEF Bottom
 <2> QED BY <2>1, Zenon
<1>4. Min(S) = CHOOSE y : Bottom(y) BY <1>2
<1>5. Bottom(Min(S)) BY <1>3, <1>4
<1> QED BY <1>5

\* What Depth says is true.
LEMMA DepthHolds ==
  ASSUME NEW frames, NEW p, NEW now, NEW moves, NEW n \in Nat
  PROVE  /\ Depth(frames, p, now, moves, n) \in 0 .. n
         /\ Safe(frames, p, now, moves, Depth(frames, p, now, moves, n))
<1> DEFINE S == {k \in 0 .. n : Safe(frames, p, now, moves, k)}
<1>1. 0 \in S BY SafeAtOnce
<1>2. Max(S) \in S
 <2>1. S \subseteq Int /\ (\A k \in S : k <= n) /\ n \in Int OBVIOUS
 <2>2. S # {} BY <1>1
 <2> HIDE DEF S
 <2> QED BY <2>1, <2>2, GreatestOf
<1>3. Depth(frames, p, now, moves, n) = Max(S) BY DEF Depth
<1> QED BY <1>2, <1>3
----
\* In a finite set with a strict order every place is taken.
Orders(R, S) ==
    /\ \A g \in S : <<g, g>> \notin R
    /\ \A g, h \in S : g # h => <<g, h>> \in R \/ <<h, g>> \in R
    /\ \A f, g, h \in S : <<f, g>> \in R /\ <<g, h>> \in R => <<f, h>> \in R

LEMMA PlacesTaken ==
  ASSUME NEW S, IsFiniteSet(S), NEW R, Orders(R, S), NEW place,
         place = [g \in S |-> 1 + Cardinality({h \in S : <<h, g>> \in R})]
  PROVE  \A i \in 1 .. Cardinality(S) : \E g \in S : place[g] = i
<1> DEFINE Before1(g) == {h \in S : <<h, g>> \in R}
           n == Cardinality(S)
<1>1. n \in Nat BY FS_CardinalityType
<1>2. ASSUME NEW g \in S PROVE IsFiniteSet(Before1(g)) /\ Cardinality(Before1(g)) \in Nat /\ Cardinality(Before1(g)) < n
 <2>1. Before1(g) \in SUBSET S /\ g \notin Before1(g) /\ Before1(g) # S BY DEF Orders
 <2> HIDE DEF Before1
 <2>2. IsFiniteSet(Before1(g)) /\ Cardinality(Before1(g)) <= n /\ Cardinality(Before1(g)) # n BY <2>1, FS_Subset
 <2>3. Cardinality(Before1(g)) \in Nat BY <2>2, FS_CardinalityType
 <2> QED BY <1>1, <2>2, <2>3
<1>3. ASSUME NEW g \in S, NEW h \in S, <<g, h>> \in R PROVE Cardinality(Before1(g)) < Cardinality(Before1(h))
 <2>1. Before1(g) \in SUBSET Before1(h) /\ g \in Before1(h) /\ g \notin Before1(g) BY <1>3 DEF Orders
 <2>2. /\ IsFiniteSet(Before1(h)) /\ Cardinality(Before1(h)) \in Nat /\ Cardinality(Before1(g)) \in Nat BY <1>2
 <2>3. Before1(g) # Before1(h) BY <2>1
 <2> HIDE DEF Before1
 <2>4. Cardinality(Before1(g)) <= Cardinality(Before1(h)) /\ Cardinality(Before1(h)) # Cardinality(Before1(g))
   BY <2>1, <2>2, <2>3, FS_Subset
 <2> QED BY <2>2, <2>4
<1>4. \A g \in S : place[g] = 1 + Cardinality(Before1(g)) OBVIOUS
<1>5. place \in [S -> 1 .. n]
 <2>1. \A g \in S : place[g] \in 1 .. n
  <3> HIDE DEF Before1, n
  <3> QED BY <1>1, <1>2, <1>4
 <2>2. place = [g \in S |-> place[g]] OBVIOUS
 <2> QED BY <2>1, <2>2
<1>6. ASSUME NEW g \in S, NEW h \in S, place[g] = place[h] PROVE g = h
 <2>1. Cardinality(Before1(g)) \in Nat /\ Cardinality(Before1(h)) \in Nat BY <1>2
 <2>2. Cardinality(Before1(g)) = Cardinality(Before1(h))
  <3>1. place[g] = 1 + Cardinality(Before1(g)) /\ place[h] = 1 + Cardinality(Before1(h)) BY <1>4
  <3> HIDE DEF Before1
  <3> QED BY <1>6, <2>1, <3>1
 <2>3. ASSUME g # h PROVE FALSE
  <3>1. <<g, h>> \in R \/ <<h, g>> \in R BY <2>3 DEF Orders
  <3>2. Cardinality(Before1(g)) < Cardinality(Before1(h)) \/ Cardinality(Before1(h)) < Cardinality(Before1(g))
    BY <1>3, <3>1
  <3> HIDE DEF Before1
  <3> QED BY <2>1, <2>2, <3>2
 <2> QED BY <2>3
<1>7. place \in Injection(S, 1 .. n) BY <1>5, <1>6 DEF Injection, IsInjective
<1>8. IsFiniteSet(1 .. n) /\ Cardinality(1 .. n) = n
 <2>1. 1 \in Int /\ n \in Int /\ (~(1 > n) \/ n = 0) BY <1>1
 <2>2. n \in Int /\ 1 \in Int BY <1>1
 <2>3. IsFiniteSet(1 .. n) /\ Cardinality(1 .. n) = IF 1 > n THEN 0 ELSE n - 1 + 1 BY <2>2, FS_Interval
 <2> HIDE DEF n
 <2> QED BY <1>1, <2>1, <2>3
<1>9. place \in Surjection(S, 1 .. n)
 <2> HIDE DEF n
 <2> QED BY <1>7, <1>8, FS_Injection DEF n
<1> QED BY <1>9 DEF Surjection
----
\* The layers of a search.  A node follows from its parent by its input,
\* and is not on a cell that is deadly then.
NodeSet == [x : Cells, parent : Nat, act : Inputs, score : Nat]
Follower(g, cur) == g.parent \in DOMAIN cur /\ g.x = Move(cur[g.parent].x, g.act)

LEMMA FiniteInputs == IsFiniteSet(Inputs)
<1>1. Inputs = -1 .. 1 BY DEF Inputs
<1>2. -1 \in Int /\ 1 \in Int OBVIOUS
<1> QED BY <1>1, <1>2, FS_Interval

LEMMA AwayCounts == ASSUME NEW p \in Cells, NEW q \in Int PROVE Away(p, q) \in Nat
  BY PolicySearchAssumption DEF Away, Cells

LEMMA SuccessorsAre ==
  ASSUME NEW cur \in Seq(NodeSet), NEW j, NEW pref \in Int
  PROVE  /\ Successors(cur, j, pref) \subseteq NodeSet
         /\ \A g \in Successors(cur, j, pref) : Follower(g, cur)
         /\ \A g, h \in Successors(cur, j, pref) : g.parent = h.parent /\ g.act = h.act => g = h
         /\ IsFiniteSet(Successors(cur, j, pref))
<1> DEFINE made(q) == Node(Move(cur[q[1]].x, q[2]), q[1], q[2], cur[q[1]].score + Away(Move(cur[q[1]].x, q[2]), pref))
           D == (DOMAIN cur) \X Inputs
           nodes == Successors(cur, j, pref)
<1>1. \A g \in nodes : \E q \in D : g = made(q) BY DEF Successors
<1>2. ASSUME NEW q \in D
      PROVE  /\ made(q) \in NodeSet /\ Follower(made(q), cur)
             /\ made(q).parent = q[1] /\ made(q).act = q[2]
 <2>1. q[1] \in DOMAIN cur /\ q[2] \in Inputs /\ cur[q[1]] \in NodeSet /\ q[1] \in Nat OBVIOUS
 <2>2. Move(cur[q[1]].x, q[2]) \in Cells BY <2>1, MoveCell DEF NodeSet
 <2>3. Away(Move(cur[q[1]].x, q[2]), pref) \in Nat BY <2>2, AwayCounts
 <2>4. cur[q[1]].score + Away(Move(cur[q[1]].x, q[2]), pref) \in Nat BY <2>1, <2>3 DEF NodeSet
 <2> QED BY <2>1, <2>2, <2>4 DEF Node, NodeSet, Follower
<1>3. nodes \subseteq NodeSet /\ \A g \in nodes : Follower(g, cur)
 <2> HIDE DEF nodes, made, D
 <2> QED BY <1>1, <1>2
<1>4. ASSUME NEW g \in nodes, NEW h \in nodes, g.parent = h.parent, g.act = h.act PROVE g = h
 <2>1. PICK q \in D : g = made(q) BY <1>1
 <2>2. PICK r \in D : h = made(r) BY <1>1
 <2>3. g.parent = q[1] /\ g.act = q[2] /\ h.parent = r[1] /\ h.act = r[2]
  <3> HIDE DEF made
  <3> QED BY <2>1, <2>2, <1>2
 <2>4. q = r
  <3>1. q[1] = r[1] /\ q[2] = r[2] BY <2>3, <1>4
  <3>2. PICK a \in DOMAIN cur, b \in Inputs : q = <<a, b>> OBVIOUS
  <3>3. PICK c \in DOMAIN cur, d \in Inputs : r = <<c, d>> OBVIOUS
  <3> HIDE DEF made
  <3> QED BY <3>1, <3>2, <3>3
 <2> QED BY <2>1, <2>2, <2>4
<1>5. IsFiniteSet(D)
 <2>1. DOMAIN cur = 1 .. Len(cur) /\ Len(cur) \in Int /\ 1 \in Int OBVIOUS
 <2>2. IsFiniteSet(DOMAIN cur) BY <2>1, FS_Interval
 <2> QED BY <2>2, FiniteInputs, FS_Product
<1>6. IsFiniteSet(nodes)
 <2> DEFINE key == [g \in nodes |-> <<g.parent, g.act>>]
 <2>1. \A g \in nodes : <<g.parent, g.act>> \in D
  <3> HIDE DEF nodes
  <3> QED BY <1>3 DEF Follower, NodeSet
 <2>2. key \in Injection(nodes, D)
  <3> HIDE DEF nodes, D
  <3>1. key \in [nodes -> D] BY <2>1
  <3>2. \A a, b \in nodes : key[a] = key[b] => a = b BY <1>4
  <3> QED BY <3>1, <3>2 DEF Injection, IsInjective
 <2> HIDE DEF key, nodes, D
 <2> QED BY <1>5, <2>2, FS_Injection
<1> QED BY <1>3, <1>4, <1>6

LEMMA InputsOrdered == OrderOf(0) = 1 /\ OrderOf(-1) = 2 /\ OrderOf(1) = 3
<1>1. DOMAIN InputOrder = {1, 2, 3} /\ InputOrder[1] = 0 /\ InputOrder[2] = -1 /\ InputOrder[3] = 1
  BY DEF InputOrder
<1> QED BY <1>1 DEF OrderOf

LEMMA CheaperOrders ==
  ASSUME NEW S, S \subseteq NodeSet, \A g, h \in S : g.parent = h.parent /\ g.act = h.act => g = h
  PROVE  Orders({q \in S \X S : Cheaper(q[1], q[2])}, S)
<1> DEFINE R == {q \in S \X S : Cheaper(q[1], q[2])}
<1>1. \A g, h \in S : <<g, h>> \in R <=> Cheaper(g, h) OBVIOUS
<1>2. \A g \in S : g.score \in Nat /\ g.parent \in Nat /\ g.act \in Inputs /\ OrderOf(g.act) \in 1 .. 3
  BY InputsOrdered DEF NodeSet, Inputs
<1>3. \A i, k \in Inputs : OrderOf(i) = OrderOf(k) => i = k BY InputsOrdered DEF Inputs
<1>4. \A g \in S : ~Cheaper(g, g) BY <1>2 DEF Cheaper, Earlier
<1>5. ASSUME NEW g \in S, NEW h \in S, g # h PROVE Cheaper(g, h) \/ Cheaper(h, g)
 <2>1. g.parent # h.parent \/ OrderOf(g.act) # OrderOf(h.act) BY <1>2, <1>3, <1>5
 <2> QED BY <1>2, <2>1 DEF Cheaper, Earlier
<1>6. ASSUME NEW f \in S, NEW g \in S, NEW h \in S, Cheaper(f, g), Cheaper(g, h) PROVE Cheaper(f, h)
  BY <1>2, <1>6 DEF Cheaper, Earlier
<1> HIDE DEF R
<1> QED BY <1>1, <1>4, <1>5, <1>6 DEF Orders

\* The best of a layer are nodes of it.
LEMMA CheapestAre ==
  ASSUME NEW S, S \subseteq NodeSet, IsFiniteSet(S), NEW beam \in Nat,
         \A g, h \in S : g.parent = h.parent /\ g.act = h.act => g = h
  PROVE  Cheapest(S, beam) \in Seq(S)
<1> DEFINE R == {q \in S \X S : Cheaper(q[1], q[2])}
           place == [g \in S |-> 1 + Cardinality({h \in S : Cheaper(h, g)})]
           n == Cardinality(S)
           count == Min({beam, n})
<1>1. n \in Nat BY FS_CardinalityType
<1>2. count \in Nat /\ count <= n BY <1>1 DEF Min
<1>3. place = [g \in S |-> 1 + Cardinality({h \in S : <<h, g>> \in R})]
 <2>1. \A g \in S : {h \in S : Cheaper(h, g)} = {h \in S : <<h, g>> \in R} OBVIOUS
 <2> QED BY <2>1
<1>4. Orders(R, S) BY CheaperOrders
<1> HIDE DEF R, place
<1>5. \A i \in 1 .. n : \E g \in S : place[g] = i BY <1>3, <1>4, PlacesTaken
<1>6. ASSUME NEW i \in 1 .. count PROVE (CHOOSE g \in S : place[g] = i) \in S
 <2>1. \E g \in S : place[g] = i
  <3>1. i \in 1 .. n BY <1>1, <1>2
  <3> QED BY <1>5, <3>1
 <2> QED BY <2>1
<1>7. Cheapest(S, beam) = [i \in 1 .. count |-> CHOOSE g \in S : place[g] = i] BY DEF Cheapest, InPlace, place
<1> HIDE DEF count
<1> QED BY <1>2, <1>6, <1>7

\* What one layer makes of the one before.
Grows(cur, next, frame) == next \in Seq(NodeSet) /\ \A i \in DOMAIN next : Follower(next[i], cur) /\ next[i].x \notin frame
Obeys(next, input) == \A i \in DOMAIN next : next[i].act = input

LEMMA NextLayerGrows ==
  ASSUME NEW cur \in Seq(NodeSet), NEW j, NEW horizon, NEW frame, NEW o, NEW pref \in Int, NEW beam \in Nat
  PROVE  Grows(cur, NextLayer(cur, j, horizon, frame, o, pref, beam), frame)
<1> DEFINE All == Successors(cur, j, pref)
           S == {g \in FirstOfKey(All, Retains(j, horizon, o.headings)) : g.x \notin frame}
<1>1. /\ All \subseteq NodeSet /\ IsFiniteSet(All)
      /\ \A g \in All : Follower(g, cur)
      /\ \A g, h \in All : g.parent = h.parent /\ g.act = h.act => g = h
  BY SuccessorsAre
<1>2. S \subseteq All /\ \A g \in S : g.x \notin frame BY DEF FirstOfKey
<1>3. NextLayer(cur, j, horizon, frame, o, pref, beam) = Cheapest(S, beam) BY DEF NextLayer
<1> HIDE DEF S, All
<1>4. IsFiniteSet(S) BY <1>1, <1>2, FS_Subset
<1>5. Cheapest(S, beam) \in Seq(S)
 <2>1. S \subseteq NodeSet /\ \A g, h \in S : g.parent = h.parent /\ g.act = h.act => g = h BY <1>1, <1>2
 <2> QED BY <1>4, <2>1, CheapestAre
<1>6. \A i \in DOMAIN Cheapest(S, beam) : Cheapest(S, beam)[i] \in S BY <1>5
<1>7. Cheapest(S, beam) \in Seq(NodeSet)
 <2>1. S \subseteq NodeSet BY <1>1, <1>2
 <2> QED BY <1>5, <2>1
<1> QED BY <1>1, <1>2, <1>3, <1>6, <1>7 DEF Grows

LEMMA ForcedLayerGrows ==
  ASSUME NEW cur \in Seq(NodeSet), cur # << >>, NEW input \in Inputs, NEW frame
  PROVE  Grows(cur, ForcedLayer(cur, input, frame), frame) /\ Obeys(ForcedLayer(cur, input, frame), input)
<1>1. 1 \in DOMAIN cur /\ cur[1] \in NodeSet OBVIOUS
<1>2. Move(cur[1].x, input) \in Cells BY <1>1, MoveCell DEF NodeSet
<1> DEFINE made == Node(Move(cur[1].x, input), 1, input, cur[1].score)
<1>3. made \in NodeSet /\ Follower(made, cur) /\ made.x = Move(cur[1].x, input) /\ made.act = input
  BY <1>1, <1>2 DEF Node, NodeSet, Follower
<1>4. ForcedLayer(cur, input, frame) = IF Move(cur[1].x, input) \in frame THEN << >> ELSE << made >>
  BY DEF ForcedLayer
<1> HIDE DEF made
<1> QED BY <1>3, <1>4 DEF Grows, Obeys
----
\* The layers found so far: each grows from the one before, and obeys the
\* input it was given.
Layered(L, frames, p, now, forced) ==
    /\ L \in Seq(Seq(NodeSet)) /\ L # << >>
    /\ L[1] = << Node(Move(p, now), 0, now, 0) >>
    /\ \A j \in 2 .. Len(L) :
          /\ Grows(L[j - 1], L[j], frames[j])
          /\ j - 1 <= Len(forced) => Obeys(L[j], forced[j - 1])

Grew(after, L, j, frames, horizon, forced, o, pref, beam) ==
    j = Len(L) + 1 /\ after = Grown(L, L[j - 1], j, frames, horizon, forced, o, pref, beam)

LEMMA GrownStays ==
  ASSUME NEW frames, NEW p, NEW now, NEW forced \in Seq(Inputs), NEW horizon, NEW o, NEW pref \in Int, NEW beam \in Nat,
         NEW L, Layered(L, frames, p, now, forced), NEW j \in Nat,
         NEW after, Grew(after, L, j, frames, horizon, forced, o, pref, beam)
  PROVE  Layered(after, frames, p, now, forced) /\ Len(after) = j
<1> USE DEF Grew
<1> DEFINE cur == L[j - 1]
           next == IF cur = << >> THEN << >>
                   ELSE IF j - 1 <= Len(forced) THEN ForcedLayer(cur, forced[j - 1], frames[j])
                   ELSE NextLayer(cur, j - 1, horizon, frames[j], o, pref, beam)
           M == Append(L, next)
<1>1. L \in Seq(Seq(NodeSet)) /\ L # << >> /\ Len(L) \in Nat /\ Len(L) >= 1 /\ j - 1 = Len(L) /\ j - 1 \in DOMAIN L
  BY DEF Layered
<1>2. cur \in Seq(NodeSet) BY <1>1
<1>3. Grows(cur, next, frames[j]) /\ (j - 1 <= Len(forced) => Obeys(next, forced[j - 1]))
 <2>1. CASE cur = << >> BY <2>1 DEF Grows, Obeys
 <2>2. CASE cur # << >> /\ j - 1 <= Len(forced)
  <3>1. forced[j - 1] \in Inputs BY <1>1, <2>2
  <3>2. next = ForcedLayer(cur, forced[j - 1], frames[j]) BY <2>2
  <3> HIDE DEF cur, next
  <3> QED BY <1>2, <2>2, <3>1, <3>2, ForcedLayerGrows
 <2>3. CASE cur # << >> /\ ~(j - 1 <= Len(forced))
  <3>1. next = NextLayer(cur, j - 1, horizon, frames[j], o, pref, beam) BY <2>3
  <3> HIDE DEF cur, next
  <3> QED BY <1>2, <2>3, <3>1, NextLayerGrows
 <2> QED BY <2>1, <2>2, <2>3
<1>4. Grown(L, L[j - 1], j, frames, horizon, forced, o, pref, beam) = M BY DEF Grown
<1>5. next \in Seq(NodeSet) BY <1>3 DEF Grows
<1> HIDE DEF next
<1>6. M \in Seq(Seq(NodeSet)) /\ M # << >> /\ Len(M) = j /\ M[j] = next /\ \A k \in 1 .. j - 1 : M[k] = L[k]
 <2>1. M \in Seq(Seq(NodeSet)) /\ Len(M) = Len(L) + 1 /\ M[Len(L) + 1] = next BY <1>1, <1>5
 <2>2. \A k \in 1 .. Len(L) : M[k] = L[k] BY <1>1, <1>5
 <2> HIDE DEF M
 <2>3. M # << >> BY <1>1, <2>1
 <2> QED BY <1>1, <2>1, <2>2, <2>3
<1>7. M[1] = L[1] BY <1>1, <1>6
<1>8. ASSUME NEW k \in 2 .. Len(M)
      PROVE  Grows(M[k - 1], M[k], frames[k]) /\ (k - 1 <= Len(forced) => Obeys(M[k], forced[k - 1]))
 <2>1. CASE k = j
  <3>1. M[k] = next /\ M[k - 1] = cur BY <1>1, <1>6, <2>1
  <3> QED BY <1>3, <2>1, <3>1
 <2>2. CASE k # j
  <3>1. k \in 2 .. Len(L) /\ M[k] = L[k] /\ M[k - 1] = L[k - 1] BY <1>1, <1>6, <2>2
  <3> QED BY <3>1 DEF Layered
 <2> QED BY <2>1, <2>2
<1> HIDE DEF M, cur
<1>9. Layered(M, frames, p, now, forced) BY <1>6, <1>7, <1>8 DEF Layered
<1> QED BY <1>4, <1>6, <1>9

LEMMA LayersAre ==
  ASSUME NEW frames, NEW p \in Cells, NEW now \in Inputs, NEW forced \in Seq(Inputs),
         NEW horizon \in Nat, horizon >= 1, NEW o, NEW pref \in Int, NEW beam \in Nat
  PROVE  /\ Layered(Layers(frames, horizon, p, now, forced, o, pref, beam), frames, p, now, forced)
         /\ Len(Layers(frames, horizon, p, now, forced, o, pref, beam)) = horizon
<1> DEFINE first == << << Node(Move(p, now), 0, now, 0) >> >>
           Next1(before, j) == Grown(before, before[j - 1], j, frames, horizon, forced, o, pref, beam)
           Good(L, j) == Layered(L, frames, p, now, forced) /\ Len(L) = j
           Settles(f) == f = [j \in 1 .. horizon |-> IF j = 1 THEN first ELSE Next1(f[j - 1], j)]
           V == {L \in Seq(Seq(NodeSet)) : Layered(L, frames, p, now, forced)}
           step == [q \in (1 .. horizon - 1) \X V |-> IF Len(q[2]) = q[1] THEN Next1(q[2], q[1] + 1) ELSE q[2]]
<1>1. Good(first, 1)
 <2>1. Node(Move(p, now), 0, now, 0) \in NodeSet BY MoveCell DEF Node, NodeSet
 <2> QED BY <2>1 DEF Layered
<1>2. ASSUME NEW j \in 1 .. horizon - 1, NEW L, Good(L, j) PROVE Good(Next1(L, j + 1), j + 1)
 <2>1. ASSUME NEW k \in Nat, k = j + 1 PROVE Good(Next1(L, k), k)
  <3>1. Layered(L, frames, p, now, forced) /\ k = Len(L) + 1 BY <1>2, <2>1
  <3> DEFINE after == Next1(L, k)
  <3>2. Grew(after, L, k, frames, horizon, forced, o, pref, beam) BY <3>1 DEF Grew
  <3> HIDE DEF after
  <3>3. Layered(after, frames, p, now, forced) /\ Len(after) = k BY <3>1, <3>2, GrownStays
  <3> QED BY <3>3 DEF after
 <2> HIDE DEF Good, Next1
 <2>2. j + 1 \in Nat OBVIOUS
 <2> QED BY <2>1, <2>2
<1>3. first \in V BY <1>1 DEF Layered
<1>4. Stepper(step, horizon - 1, V)
 <2>1. ASSUME NEW q \in (1 .. horizon - 1) \X V
       PROVE  (IF Len(q[2]) = q[1] THEN Next1(q[2], q[1] + 1) ELSE q[2]) \in V
  <3>1. q[1] \in 1 .. horizon - 1 /\ q[2] \in V OBVIOUS
  <3>2. Good(q[2], q[1]) => Good(Next1(q[2], q[1] + 1), q[1] + 1)
   <4> HIDE DEF Good, Next1, V
   <4> QED BY <3>1, <1>2
  <3> HIDE DEF Next1
  <3> QED BY <3>1, <3>2 DEF Layered
 <2> HIDE DEF Next1, V
 <2> QED BY <2>1 DEF Stepper
<1> HIDE DEF V, first, Next1
<1>5. PICK g : Follows(g, first, step, horizon - 1, V)
 <2> HIDE DEF step
 <2> QED BY <1>3, <1>4, Recursion
<1>6. \A k \in 0 .. horizon - 1 : Good(g[k], k + 1)
 <2> DEFINE S == {k \in 0 .. horizon - 1 : Good(g[k], k + 1)}
 <2>1. 0 \in S
  <3> HIDE DEF Good
  <3> QED BY <1>1, <1>5 DEF Follows
 <2>2. ASSUME NEW k \in 0 .. (horizon - 1) - 1, k \in S PROVE k + 1 \in S
  <3>1. k + 1 \in 1 .. horizon - 1 /\ (k + 1) - 1 = k /\ k + 1 \in 0 .. horizon - 1 OBVIOUS
  <3>2. g[k + 1] = step[<<k + 1, g[k]>>] /\ g[k] \in V
   <4>1. k \in 0 .. horizon - 1 BY <3>1
   <4> HIDE DEF step
   <4> QED BY <1>5, <3>1, <4>1 DEF Follows
  <3>3. Good(g[k], k + 1) BY <2>2
  <3>4. step[<<k + 1, g[k]>>] = Next1(g[k], (k + 1) + 1) BY <3>1, <3>2, <3>3
  <3> HIDE DEF Good
  <3> QED BY <1>2, <3>1, <3>2, <3>3, <3>4
 <2> HIDE DEF S
 <2>3. \A k \in 0 .. horizon - 1 : k \in S
  <3>1. horizon - 1 \in Nat OBVIOUS
  <3> QED BY <2>1, <2>2, <3>1, UpTo
 <2> QED BY <2>3 DEF S
<1>7. \E f : Settles(f)
 <2> DEFINE f == [j \in 1 .. horizon |-> g[j - 1]]
 <2>1. f[1] = first BY <1>5 DEF Follows
 <2>2. ASSUME NEW j \in 1 .. horizon, j # 1 PROVE f[j] = Next1(f[j - 1], j)
  <3>1. j - 1 \in 1 .. horizon - 1 /\ (j - 1) - 1 \in 0 .. horizon - 1 /\ ((j - 1) - 1) + 1 = j - 1 /\ (j - 1) + 1 = j
    BY <2>2
  <3>2. g[j - 1] = step[<<j - 1, g[(j - 1) - 1]>>] /\ g[(j - 1) - 1] \in V BY <1>5, <3>1 DEF Follows
  <3>3. Len(g[(j - 1) - 1]) = j - 1 BY <1>6, <3>1
  <3>4. step[<<j - 1, g[(j - 1) - 1]>>] = Next1(g[(j - 1) - 1], j) BY <3>1, <3>2, <3>3
  <3>5. f[j] = g[j - 1] /\ f[j - 1] = g[(j - 1) - 1] BY <3>1
  <3> QED BY <3>2, <3>4, <3>5
 <2>3. Settles(f)
  <3>1. f = [j \in 1 .. horizon |-> f[j]] OBVIOUS
  <3>2. \A j \in 1 .. horizon : f[j] = IF j = 1 THEN first ELSE Next1(f[j - 1], j) BY <2>1, <2>2
  <3> HIDE DEF f
  <3> QED BY <3>1, <3>2
 <2> HIDE DEF f, Settles
 <2> QED BY <2>3
<1> DEFINE grown == CHOOSE f : Settles(f)
<1>8. Layers(frames, horizon, p, now, forced, o, pref, beam) = grown[horizon] BY DEF Layers, first, Next1
<1> HIDE DEF Settles
<1>9. Settles(grown) BY <1>7, Zenon
<1> HIDE DEF grown
<1>10. grown[1] = first /\ \A j \in 2 .. horizon : grown[j] = Next1(grown[j - 1], j) BY <1>9 DEF Settles
<1> DEFINE T == {k \in 0 .. horizon - 1 : Good(grown[k + 1], k + 1)}
<1> HIDE DEF Good
<1>11. 0 \in T BY <1>1, <1>10
<1>12. ASSUME NEW k \in 0 .. (horizon - 1) - 1, k \in T PROVE k + 1 \in T
 <2>1. (k + 1) + 1 \in 2 .. horizon /\ k + 1 \in 1 .. horizon - 1 /\ ((k + 1) + 1) - 1 = k + 1 /\ k + 1 \in 0 .. horizon - 1
   OBVIOUS
 <2>2. grown[(k + 1) + 1] = Next1(grown[k + 1], (k + 1) + 1) BY <1>10, <2>1
 <2> QED BY <1>2, <1>12, <2>1, <2>2
<1> HIDE DEF T
<1>13. \A k \in 0 .. horizon - 1 : k \in T
 <2>1. horizon - 1 \in Nat OBVIOUS
 <2> QED BY <1>11, <1>12, <2>1, UpTo
<1>14. Good(grown[horizon], horizon) BY <1>13 DEF T
<1> QED BY <1>8, <1>14 DEF Good
----
\* The path to a node: a place in every layer, each the parent of the next.
Placed(place, L, d) ==
    /\ place \in [1 .. d -> Nat]
    /\ \A j \in 1 .. d : place[j] \in DOMAIN L[j]
    /\ \A j \in 1 .. d - 1 : place[j] = L[j + 1][place[j + 1]].parent
Along(place, L, d) == [j \in 1 .. d - 1 |-> L[j + 1][place[j + 1]].act]

LEMMA PathPlaced ==
  ASSUME NEW L \in Seq(Seq(NodeSet)), NEW d \in 1 .. Len(L), NEW n \in DOMAIN L[d],
         \A j \in 2 .. Len(L) : \A i \in DOMAIN L[j] : L[j][i].parent \in DOMAIN L[j - 1]
  PROVE  \E place : Placed(place, L, d) /\ PathTo(L, d, n) = Along(place, L, d)
<1> DEFINE Settles(f) == f = [j \in 1 .. d |-> IF j = d THEN n ELSE L[j + 1][f[j + 1]].parent]
           e == d - 1
           step == [q \in (1 .. e) \X Nat |-> IF q[2] \in DOMAIN L[(d - q[1]) + 1] THEN L[(d - q[1]) + 1][q[2]].parent ELSE 0]
<1>1. e \in Nat /\ n \in Nat /\ d \in Nat /\ Len(L) \in Nat /\ d <= Len(L) /\ d >= 1
 <2>1. Len(L) \in Nat /\ L[d] \in Seq(NodeSet) OBVIOUS
 <2> QED BY <2>1
<1>2. ASSUME NEW j \in 1 .. Len(L), NEW i \in DOMAIN L[j] PROVE L[j][i].parent \in Nat /\ i \in Nat
 <2>1. L[j] \in Seq(NodeSet) OBVIOUS
 <2>2. L[j][i] \in NodeSet /\ i \in Nat BY <2>1
 <2> QED BY <2>2 DEF NodeSet
<1>3. Stepper(step, e, Nat)
 <2>1. ASSUME NEW k \in 1 .. e, NEW m \in Nat, m \in DOMAIN L[(d - k) + 1] PROVE L[(d - k) + 1][m].parent \in Nat
  <3>1. (d - k) + 1 \in 1 .. Len(L) OBVIOUS
  <3> QED BY <1>2, <2>1, <3>1
 <2>2. \A q \in (1 .. e) \X Nat : q[1] \in 1 .. e /\ q[2] \in Nat OBVIOUS
 <2>3. \A q \in (1 .. e) \X Nat : (IF q[2] \in DOMAIN L[(d - q[1]) + 1] THEN L[(d - q[1]) + 1][q[2]].parent ELSE 0) \in Nat
  <3> HIDE DEF e
  <3> QED BY <2>1, <2>2
 <2> HIDE DEF e
 <2> QED BY <2>3 DEF Stepper
<1>4. PICK g : Follows(g, n, step, e, Nat)
 <2> HIDE DEF step, e
 <2> QED BY <1>1, <1>3, Recursion
<1>5. \A k \in 0 .. e : g[k] \in DOMAIN L[d - k]
 <2> DEFINE S == {k \in 0 .. e : g[k] \in DOMAIN L[d - k]}
 <2>1. 0 \in S BY <1>4 DEF Follows
 <2>2. ASSUME NEW k \in 0 .. e - 1, k \in S PROVE k + 1 \in S
  <3>1. k + 1 \in 1 .. e /\ (k + 1) - 1 = k /\ k + 1 \in 0 .. e /\ (d - (k + 1)) + 1 = d - k /\ k \in 0 .. e
        /\ d - k \in 2 .. Len(L) /\ (d - k) - 1 = d - (k + 1)
    BY <1>1
  <3>2. g[k + 1] = step[<<k + 1, g[k]>>] /\ g[k] \in Nat
   <4> HIDE DEF step, e
   <4> QED BY <1>4, <3>1 DEF Follows
  <3>3. g[k] \in DOMAIN L[d - k] BY <2>2
  <3>4. step[<<k + 1, g[k]>>] = L[d - k][g[k]].parent BY <3>1, <3>2, <3>3
  <3>5. L[d - k][g[k]].parent \in DOMAIN L[d - (k + 1)] BY <3>1, <3>3
  <3> QED BY <3>1, <3>2, <3>4, <3>5
 <2> HIDE DEF S, e
 <2>3. \A k \in 0 .. e : k \in S BY <1>1, <2>1, <2>2, UpTo
 <2> QED BY <2>3 DEF S
<1>6. \E f : Settles(f)
 <2> DEFINE f == [j \in 1 .. d |-> g[d - j]]
 <2>1. \A j \in 1 .. d : f[j] = IF j = d THEN n ELSE L[j + 1][f[j + 1]].parent
  <3> TAKE j \in 1 .. d
  <3>1. CASE j = d BY <1>4, <3>1 DEF Follows
  <3>2. CASE j # d
   <4>1. d - j \in 1 .. e /\ (d - j) - 1 = d - (j + 1) /\ j + 1 \in 1 .. d /\ d - (d - j) = j /\ d - (j + 1) \in 0 .. e
         /\ d - (d - (j + 1)) = j + 1 /\ (d - (d - j)) + 1 = j + 1
    <5> HIDE DEF step, f, Settles
    <5>1. d \in Nat /\ j \in Nat /\ j >= 1 /\ j + 1 <= d /\ e = d - 1 BY <1>1, <3>2
    <5> HIDE DEF e
    <5> QED BY ONLY <5>1
   <4>2. f[j] = g[d - j] /\ f[j + 1] = g[d - (j + 1)] BY <4>1
   <4>3. g[d - j] = step[<<d - j, g[d - (j + 1)]>>] /\ g[d - (j + 1)] \in Nat
    <5> HIDE DEF step, e
    <5> QED BY <1>4, <4>1 DEF Follows
   <4>4. g[d - (j + 1)] \in DOMAIN L[j + 1] BY <1>5, <4>1
   <4>5. step[<<d - j, g[d - (j + 1)]>>] = L[j + 1][g[d - (j + 1)]].parent BY <4>1, <4>3, <4>4
   <4> HIDE DEF f
   <4> QED BY <3>2, <4>2, <4>3, <4>5
  <3> QED BY <3>1, <3>2
 <2>2. f = [j \in 1 .. d |-> f[j]] OBVIOUS
 <2> HIDE DEF f
 <2>3. Settles(f) BY <2>1, <2>2
 <2> HIDE DEF Settles
 <2> QED BY <2>3
<1> DEFINE place == CHOOSE f : Settles(f)
<1>7. PathTo(L, d, n) = [j \in 1 .. d - 1 |-> L[j + 1][place[j + 1]].act] BY DEF PathTo
<1> HIDE DEF Settles
<1>8. Settles(place) BY <1>6, Zenon
<1> HIDE DEF place
<1>9. place[d] = n /\ (\A j \in 1 .. d - 1 : place[j] = L[j + 1][place[j + 1]].parent) /\ place = [j \in 1 .. d |-> place[j]]
 <2>1. d \in 1 .. d /\ \A j \in 1 .. d - 1 : j \in 1 .. d /\ j # d BY <1>1
 <2>2. place = [j \in 1 .. d |-> IF j = d THEN n ELSE L[j + 1][place[j + 1]].parent] BY <1>8 DEF Settles
 <2>3. \A j \in 1 .. d : place[j] = IF j = d THEN n ELSE L[j + 1][place[j + 1]].parent BY <2>2
 <2>4. place = [j \in 1 .. d |-> place[j]] BY <2>2
 <2> QED BY <2>1, <2>3, <2>4
<1> DEFINE T == {k \in 0 .. e : place[d - k] \in DOMAIN L[d - k]}
<1>10. 0 \in T BY <1>9
<1>11. ASSUME NEW k \in 0 .. e - 1, k \in T PROVE k + 1 \in T
 <2>1. k + 1 \in 0 .. e /\ (d - (k + 1)) + 1 = d - k /\ d - (k + 1) \in 1 .. d - 1 /\ d - k \in 2 .. Len(L) /\ (d - k) - 1 = d - (k + 1)
   BY <1>1
 <2>2. place[d - (k + 1)] = L[d - k][place[d - k]].parent BY <1>9, <2>1
 <2>3. L[d - k][place[d - k]].parent \in DOMAIN L[d - (k + 1)] BY <1>11, <2>1
 <2> QED BY <2>1, <2>2, <2>3
<1>12. \A k \in 0 .. e : k \in T
 <2> HIDE DEF T, e
 <2> QED BY <1>1, <1>10, <1>11, UpTo
<1>13. \A j \in 1 .. d : place[j] \in DOMAIN L[j]
 <2> TAKE j \in 1 .. d
 <2>1. d - j \in 0 .. e /\ d - (d - j) = j OBVIOUS
 <2> QED BY <1>12, <2>1
<1>14. place \in [1 .. d -> Nat]
 <2>1. \A j \in 1 .. d : place[j] \in Nat
  <3> TAKE j \in 1 .. d
  <3>1. j \in 1 .. Len(L) OBVIOUS
  <3> QED BY <1>2, <1>13, <3>1
 <2> QED BY <1>9, <2>1
<1>15. Placed(place, L, d) BY <1>9, <1>13, <1>14 DEF Placed
<1> QED BY <1>7, <1>15 DEF Along

\* A path keeps out of every deadly cell, and obeys the inputs forced.
Route(place, L, d, now) == IF Along(place, L, d) = << >> THEN << now >> ELSE Along(place, L, d)

LEMMA PathSafe ==
  ASSUME NEW frames, NEW p \in Cells, NEW now \in Inputs, NEW forced \in Seq(Inputs),
         NEW L, Layered(L, frames, p, now, forced), Move(p, now) \notin frames[1],
         NEW d \in 1 .. Len(L), NEW place, Placed(place, L, d), NEW moves,
         moves = Route(place, L, d, now)
  PROVE  /\ Proposal(moves)
         /\ Safe(frames, p, now, moves, d)
         /\ \A j \in 1 .. d - 1 : j <= Len(forced) => moves[j] = forced[j]
         /\ d > 1 => Len(moves) = d - 1
<1> USE DEF Route
<1> DEFINE path == Along(place, L, d)
<1>1. L \in Seq(Seq(NodeSet)) /\ d \in Nat BY DEF Layered
<1>2. ASSUME NEW j \in 1 .. d PROVE place[j] \in DOMAIN L[j] /\ L[j][place[j]] \in NodeSet /\ L[j] \in Seq(NodeSet)
 <2>1. L[j] \in Seq(NodeSet) BY <1>1
 <2> QED BY <2>1 DEF Placed
<1>3. path \in [1 .. d - 1 -> Inputs]
 <2>1. \A j \in 1 .. d - 1 : L[j + 1][place[j + 1]].act \in Inputs
  <3> TAKE j \in 1 .. d - 1
  <3>1. j + 1 \in 1 .. d OBVIOUS
  <3> QED BY <1>2, <3>1 DEF NodeSet
 <2> QED BY <2>1 DEF Along
<1>4. path \in Seq(Inputs) /\ Len(path) = d - 1
 <2>1. d - 1 \in Nat OBVIOUS
 <2> HIDE DEF path
 <2> QED BY <1>3, <2>1
<1>5. \A j \in 1 .. d - 1 : path[j] = L[j + 1][place[j + 1]].act BY DEF Along
<1> HIDE DEF path
<1>6. Proposal(moves) BY <1>4 DEF Proposal, path
<1>7. d > 1 => moves = path BY <1>4 DEF path
<1>8. \A k \in 1 .. d : InputAt(now, moves, k) = IF k = 1 THEN now ELSE path[k - 1]
 <2> TAKE k \in 1 .. d
 <2>1. CASE k = 1 BY <2>1 DEF InputAt
 <2>2. CASE k # 1
  <3>1. moves = path /\ Len(moves) = d - 1 /\ k - 1 \in Nat /\ k - 1 <= d - 1 /\ d - 1 \in Nat
   <4>1. d > 1 /\ k - 1 \in Nat /\ k - 1 <= d - 1 /\ d - 1 \in Nat BY <1>1, <2>2
   <4> QED BY <1>4, <1>7, <4>1
  <3>2. Min({k - 1, d - 1}) = k - 1 BY <3>1 DEF Min
  <3> QED BY <2>2, <3>1, <3>2 DEF InputAt
 <2> QED BY <2>1, <2>2
<1> DEFINE at == Positions(p, now, moves, d)
<1>9. Walk(at, p, now, moves, d)
 <2>1. Given(now, moves, d) BY <1>1, <1>6, ProposalGives
 <2> QED BY <1>1, <2>1, Walks
<1>10. Safe(frames, p, now, moves, d) = \A k \in 1 .. d : at[k] \notin frames[k] BY DEF Safe
<1> HIDE DEF at
<1> DEFINE S == {k \in 0 .. d - 1 : at[k + 1] = L[k + 1][place[k + 1]].x}
<1>11. at[1] = Move(p, now) /\ L[1][place[1]].x = Move(p, now)
 <2>1. 1 \in 1 .. d /\ 1 - 1 = 0 OBVIOUS
 <2>2. at[1] = Move(p, now) BY <1>8, <1>9, <2>1 DEF Walk
 <2>3. L[1] = << Node(Move(p, now), 0, now, 0) >> /\ place[1] \in DOMAIN L[1] BY <1>2, <2>1 DEF Layered
 <2>4. place[1] = 1 BY <2>3
 <2> QED BY <2>2, <2>3, <2>4 DEF Node
<1>12. 0 \in S BY <1>11
<1>13. ASSUME NEW k \in 0 .. (d - 1) - 1
       PROVE  /\ L[k + 2][place[k + 2]].x = Move(L[k + 1][place[k + 1]].x, path[k + 1])
              /\ L[k + 2][place[k + 2]].x \notin frames[k + 2]
              /\ k + 1 <= Len(forced) => path[k + 1] = forced[k + 1]
 <2>1. k + 2 \in 2 .. Len(L) /\ (k + 2) - 1 = k + 1 /\ k + 2 \in 1 .. d /\ k + 1 \in 1 .. d - 1 /\ (k + 1) + 1 = k + 2
   BY <1>1
 <2>2. Grows(L[k + 1], L[k + 2], frames[k + 2]) /\ (k + 1 <= Len(forced) => Obeys(L[k + 2], forced[k + 1]))
  <3> DEFINE j == k + 2
  <3>1. j \in 2 .. Len(L) /\ j - 1 = k + 1 BY <2>1
  <3> HIDE DEF j
  <3>2. Grows(L[j - 1], L[j], frames[j]) /\ (j - 1 <= Len(forced) => Obeys(L[j], forced[j - 1]))
    BY <3>1 DEF Layered
  <3> QED BY <3>1, <3>2 DEF j
 <2>3. place[k + 2] \in DOMAIN L[k + 2] /\ place[k + 1] = L[k + 2][place[k + 2]].parent BY <1>2, <2>1 DEF Placed
 <2>4. path[k + 1] = L[k + 2][place[k + 2]].act BY <1>5, <2>1
 <2> QED BY <2>2, <2>3, <2>4 DEF Grows, Obeys, Follower
<1>14. ASSUME NEW k \in 0 .. (d - 1) - 1, k \in S PROVE k + 1 \in S
 <2>1. k + 2 \in 1 .. d /\ (k + 2) - 1 = k + 1 /\ k + 2 # 1 /\ (k + 1) + 1 = k + 2 /\ k + 1 \in 0 .. d - 1
   OBVIOUS
 <2>2. at[k + 2] = Move(at[k + 1], path[k + 1])
  <3>1. at[k + 2] = Move(at[(k + 2) - 1], InputAt(now, moves, k + 2)) /\ InputAt(now, moves, k + 2) = path[(k + 2) - 1]
    BY <1>8, <1>9, <2>1 DEF Walk
  <3> QED BY <2>1, <3>1
 <2> QED BY <1>13, <1>14, <2>1, <2>2
<1>15. \A k \in 0 .. d - 1 : k \in S
 <2>1. d - 1 \in Nat OBVIOUS
 <2> HIDE DEF S
 <2> QED BY <1>12, <1>14, <2>1, UpTo
<1>16. \A k \in 1 .. d : at[k] \notin frames[k]
 <2> TAKE k \in 1 .. d
 <2>1. CASE k = 1 BY <1>11, <2>1
 <2>2. CASE k # 1
  <3>1. k - 1 \in 0 .. d - 1 /\ (k - 1) + 1 = k /\ k - 2 \in 0 .. (d - 1) - 1 /\ (k - 2) + 2 = k BY <2>2
  <3>2. at[k] = L[k][place[k]].x BY <1>15, <3>1
  <3>3. L[(k - 2) + 2][place[(k - 2) + 2]].x \notin frames[(k - 2) + 2] BY <1>13, <3>1
  <3> QED BY <3>1, <3>2, <3>3
 <2> QED BY <2>1, <2>2
<1>17. \A j \in 1 .. d - 1 : j <= Len(forced) => moves[j] = forced[j]
 <2> TAKE j \in 1 .. d - 1
 <2>1. j - 1 \in 0 .. (d - 1) - 1 /\ (j - 1) + 1 = j /\ d > 1 BY <1>1
 <2>2. j <= Len(forced) => path[j] = forced[j] BY <1>13, <2>1
 <2> QED BY <1>7, <2>1, <2>2
<1> QED BY <1>4, <1>6, <1>7, <1>10, <1>16, <1>17
----
\* The endpoint chosen is a place of the last layer.
LEMMA TailCounts ==
  ASSUME NEW frames, NEW p, NEW tail \in Nat
  PROVE  TailDepth(frames, p, tail) \in 0 .. tail
<1> DEFINE stretched == [k \in 1 .. tail |-> frames[Horizon + k]]
           S == {Depth(stretched, p, i, << i >>, tail) : i \in Inputs}
<1>1. S \subseteq 0 .. tail
 <2> HIDE DEF stretched
 <2> QED BY DepthHolds
<1>2. S # {}
 <2>1. 0 \in Inputs BY DEF Inputs
 <2> QED BY <2>1
<1>3. TailDepth(frames, p, tail) = Max(S) BY DEF TailDepth
<1> HIDE DEF S
<1>4. Max(S) \in S
 <2>1. S \subseteq Int /\ (\A k \in S : k <= tail) /\ tail \in Int BY <1>1
 <2> QED BY <1>2, <2>1, GreatestOf
<1> QED BY <1>1, <1>3, <1>4

LEMMA LongestIs ==
  ASSUME NEW last \in Seq(NodeSet), last # << >>, NEW bound \in Nat, NEW tail \in [DOMAIN last -> 0 .. bound]
  PROVE  Longest(last, tail) \in DOMAIN last
<1> DEFINE D == DOMAIN last
           farthest == {n \in D : \A m \in D : tail[m] <= tail[n]}
           scores == {last[n].score : n \in farthest}
           top == {n \in farthest : \A m \in farthest : last[n].score <= last[m].score}
<1>1. D \subseteq Nat /\ D # {} /\ \A n \in D : last[n].score \in Nat
 <2>1. \A n \in D : last[n] \in NodeSet OBVIOUS
 <2> QED BY <2>1 DEF NodeSet
<1> HIDE DEF D
<1>2. farthest # {}
 <2> DEFINE T == {tail[n] : n \in D}
 <2>1. T \subseteq Int /\ T # {} /\ (\A k \in T : k <= bound) /\ bound \in Int BY <1>1 DEF D
 <2> HIDE DEF T
 <2>2. Max(T) \in T /\ \A k \in T : k <= Max(T) BY <2>1, GreatestOf
 <2>3. PICK n \in D : tail[n] = Max(T) BY <2>2 DEF T
 <2>4. \A m \in D : tail[m] <= tail[n] BY <2>2, <2>3 DEF T
 <2> QED BY <2>3, <2>4
<1>3. top # {}
 <2>1. scores \subseteq Nat /\ scores # {} BY <1>1, <1>2
 <2> HIDE DEF scores, farthest
 <2>2. PICK s \in scores : \A t \in scores : s <= t BY <2>1, LeastElement
 <2>3. PICK n \in farthest : last[n].score = s BY <2>2 DEF scores
 <2>4. \A m \in farthest : last[n].score <= last[m].score BY <2>2, <2>3 DEF scores
 <2> QED BY <2>3, <2>4
<1>4. Longest(last, tail) = Min(top) BY DEF Longest, CheapestOf, D
<1>5. top \subseteq Nat /\ top \subseteq D BY <1>1
<1> HIDE DEF top
<1> QED BY <1>3, <1>4, <1>5, LeastOf DEF D

LEMMA EndpointIs ==
  ASSUME NEW frames, NEW last \in Seq(NodeSet), last # << >>, NEW full, NEW o, o.tail \in Nat
  PROVE  Endpoint(frames, last, full, o) \in DOMAIN last
<1> DEFINE tail == [n \in DOMAIN last |-> IF full THEN TailDepth(frames, last[n].x, o.tail) ELSE 0]
<1>1. tail \in [DOMAIN last -> 0 .. o.tail]
 <2>1. \A n \in DOMAIN last : (IF full THEN TailDepth(frames, last[n].x, o.tail) ELSE 0) \in 0 .. o.tail
   BY TailCounts
 <2> QED BY <2>1
<1>2. Endpoint(frames, last, full, o) = Longest(last, tail) BY DEF Endpoint
<1> HIDE DEF tail
<1> QED BY <1>1, <1>2, LongestIs

LEMMA DeepestIs ==
  ASSUME NEW L \in Seq(Seq(NodeSet)), L # << >>, L[1] # << >>
  PROVE  Deepest(L) \in 1 .. Len(L) /\ L[Deepest(L)] # << >>
<1> DEFINE S == {j \in DOMAIN L : L[j] # << >>}
<1>1. Len(L) \in Int /\ Len(L) >= 1 /\ DOMAIN L = 1 .. Len(L) OBVIOUS
<1>2. S \subseteq Int /\ (\A k \in S : k <= Len(L)) /\ 1 \in S BY <1>1
<1>3. S # {} BY <1>2
<1>4. Max(S) \in S
 <2> HIDE DEF S
 <2> QED BY <1>1, <1>2, <1>3, GreatestOf
<1> QED BY <1>1, <1>4 DEF Deepest

\* A search proposes what survives as long as it says, and obeys the
\* inputs it was given.
LEMMA SearchSafe ==
  ASSUME NEW frames, NEW horizon \in Nat, horizon >= 1, NEW p \in Cells, NEW now \in Inputs, NEW forced \in Seq(Inputs),
         NEW o, o.tail \in Nat, NEW pref \in Int, NEW beam \in Nat, NEW s,
         s = Search(frames, horizon, p, now, forced, o, pref, beam)
  PROVE  /\ Proposal(s.moves) /\ s.depth \in 0 .. horizon
         /\ Safe(frames, p, now, s.moves, s.depth)
         /\ s.depth > 1 => Len(s.moves) = s.depth - 1
         /\ s.depth <= 1 => Len(s.moves) = 1
         /\ \A j \in 1 .. s.depth - 1 : j <= Len(forced) => s.moves[j] = forced[j]
<1>1. CASE Move(p, now) \in frames[1]
 <2>1. s.moves = << now >> /\ s.depth = 0 BY <1>1 DEF Search
 <2> QED BY <2>1, SafeAtOnce DEF Proposal
<1>2. CASE Move(p, now) \notin frames[1]
 <2> DEFINE L == Layers(frames, horizon, p, now, forced, o, pref, beam)
            d == Deepest(L)
            full == o.tail > 0 /\ d = Len(L) /\ Len(L) = Horizon
            n == Endpoint(frames, L[d], full, o)
            path == PathTo(L, d, n)
 <2>1. s.moves = (IF path = << >> THEN << now >> ELSE path) /\ s.depth = d
   BY <1>2 DEF Search, Ended, EndedAt, Proposed
 <2>2. Layered(L, frames, p, now, forced) /\ Len(L) = horizon BY LayersAre
 <2> HIDE DEF L
 <2>3. L \in Seq(Seq(NodeSet)) /\ L # << >> /\ L[1] # << >> BY <2>2 DEF Layered
 <2>4. d \in 1 .. Len(L) /\ L[d] # << >> BY <2>3, DeepestIs
 <2> HIDE DEF d, full
 <2>5. n \in DOMAIN L[d]
  <3>1. L[d] \in Seq(NodeSet) BY <2>3, <2>4
  <3> QED BY <2>4, <3>1, EndpointIs
 <2> HIDE DEF n
 <2>6. \A j \in 2 .. Len(L) : \A i \in DOMAIN L[j] : L[j][i].parent \in DOMAIN L[j - 1]
   BY <2>2 DEF Layered, Grows, Follower
 <2>7. PICK place : Placed(place, L, d) /\ path = Along(place, L, d) BY <2>3, <2>4, <2>5, <2>6, PathPlaced
 <2> HIDE DEF path
 <2>8. /\ Proposal(s.moves) /\ Safe(frames, p, now, s.moves, d)
       /\ \A j \in 1 .. d - 1 : j <= Len(forced) => s.moves[j] = forced[j]
       /\ d > 1 => Len(s.moves) = d - 1
  <3> DEFINE moves == s.moves
  <3>1. moves = Route(place, L, d, now) BY <2>1, <2>7 DEF Route
  <3> HIDE DEF moves
  <3>2. /\ Proposal(moves) /\ Safe(frames, p, now, moves, d)
        /\ \A j \in 1 .. d - 1 : j <= Len(forced) => moves[j] = forced[j]
        /\ d > 1 => Len(moves) = d - 1
   <4>1. Placed(place, L, d) /\ Layered(L, frames, p, now, forced) /\ d \in 1 .. Len(L) BY <2>2, <2>4, <2>7
   <4> QED BY ONLY <1>2, <3>1, <4>1, PathSafe, p \in Cells, now \in Inputs, forced \in Seq(Inputs)
  <3> QED BY <3>2 DEF moves
 <2>9. d = 1 => Along(place, L, d) = << >> BY DEF Along
 <2> QED BY <2>1, <2>2, <2>4, <2>7, <2>8, <2>9
<1> QED BY <1>1, <1>2

----
\* The fallbacks: each proposes what survives as long as it says, and
\* replaces what it is given only by what survives longer.
Sound(frames, p, now, r, n) ==
    Proposal(r.moves) /\ r.depth \in 0 .. n /\ Safe(frames, p, now, r.moves, r.depth)

LEMMA WarmedSound ==
  ASSUME NEW frames, NEW p \in Cells, NEW now \in Inputs, NEW kept, NEW at, NEW r,
         kept.moves \in Seq(Inputs), Sound(frames, p, now, r, Horizon)
  PROVE  /\ Sound(frames, p, now, Warmed(frames, p, now, kept, at, r), Horizon)
         /\ Warmed(frames, p, now, kept, at, r).depth >= r.depth
<1> DEFINE better == WarmPath(frames, p, now, kept)
<1>0. Horizon \in Nat /\ Horizon >= 2 BY PolicySearchAssumption
<1>1. CASE ~WarmApplies(r, kept, at, now) \/ ~(better.depth > r.depth)
 <2>1. Warmed(frames, p, now, kept, at, r) = r BY <1>1 DEF Warmed, Unless
 <2> QED BY <1>0, <2>1 DEF Sound
<1>2. CASE WarmApplies(r, kept, at, now) /\ better.depth > r.depth
 <2> DEFINE stretched == [k \in 1 .. Horizon |-> kept.moves[Min({k, Len(kept.moves)})]]
            d == Depth(frames, p, now, Tail(stretched), Horizon)
 <2>1. Warmed(frames, p, now, kept, at, r) = better BY <1>2 DEF Warmed, Unless
 <2>2. better.moves = SubSeq(Tail(stretched), 1, d - 1) /\ better.depth = d BY DEF WarmPath
 <2>3. Len(kept.moves) \in Nat /\ Len(kept.moves) >= 1 /\ kept.moves # << >> BY <1>2 DEF WarmApplies
 <2>4. stretched \in Seq(Inputs) /\ Len(stretched) = Horizon
  <3>1. \A k \in 1 .. Horizon : Min({k, Len(kept.moves)}) \in 1 .. Len(kept.moves) BY <2>3 DEF Min
  <3>2. \A k \in 1 .. Horizon : kept.moves[Min({k, Len(kept.moves)})] \in Inputs BY <3>1
  <3>3. stretched \in [1 .. Horizon -> Inputs] BY <3>2
  <3> HIDE DEF stretched
  <3> QED BY <1>0, <3>3
 <2> HIDE DEF stretched
 <2> DEFINE rest == Tail(stretched)
 <2>5. rest \in Seq(Inputs) /\ Len(rest) = Horizon - 1 BY <1>0, <2>4
 <2> HIDE DEF rest
 <2>6. d \in 0 .. Horizon /\ Safe(frames, p, now, rest, d) BY <1>0, DepthHolds DEF rest
 <2>7. d >= 2
  <3>1. r.depth \in 0 .. Horizon /\ r.depth # 0 BY <1>2 DEF Sound, WarmApplies
  <3> QED BY <1>0, <1>2, <2>2, <2>6, <3>1
 <2> HIDE DEF d
 <2>8. better.moves = SubSeq(rest, 1, d - 1) BY <2>2 DEF rest
 <2> HIDE DEF better
 <2> DEFINE moves == SubSeq(rest, 1, d - 1)
 <2>9. moves \in Seq(Inputs) /\ Len(moves) = d - 1 /\ \A k \in 1 .. d - 1 : moves[k] = rest[k]
   BY <1>0, <2>5, <2>6, <2>7
 <2> HIDE DEF moves
 <2>10. Proposal(moves) /\ Proposal(rest)
  <3>1. Len(moves) \in Nat /\ Len(moves) >= 1 /\ Len(rest) \in Nat /\ Len(rest) >= 1
    BY <1>0, <2>5, <2>6, <2>7, <2>9
  <3> QED BY <2>5, <2>9, <3>1 DEF Proposal
 <2>11. SameInputs(now, moves, rest, d)
  <3>1. ASSUME NEW k \in 1 .. d, k # 1 PROVE moves[Min({k - 1, d - 1})] = rest[Min({k - 1, Horizon - 1})]
   <4>1. Min({k - 1, d - 1}) = k - 1 /\ Min({k - 1, Horizon - 1}) = k - 1 /\ k - 1 \in 1 .. d - 1
     BY <1>0, <2>6, <3>1 DEF Min
   <4> QED BY <2>9, <4>1
  <3> QED BY <2>5, <2>9, <3>1 DEF SameInputs, InputAt
 <2>12. Safe(frames, p, now, moves, d)
  <3>1. d \in Nat /\ d <= d BY <2>6
  <3>2. Given(now, moves, d) /\ Given(now, rest, d) BY <2>10, <3>1, ProposalGives
  <3> QED BY <2>6, <2>11, <3>1, <3>2, SafeAlike
 <2>13. better.moves = moves /\ better.depth = d BY <2>2, <2>8 DEF moves
 <2>14. r.depth \in Int BY DEF Sound
 <2> QED BY <1>2, <2>1, <2>6, <2>10, <2>12, <2>13, <2>14 DEF Sound
<1> QED BY <1>1, <1>2

LEMMA HeldPathSound ==
  ASSUME NEW frames, NEW p \in Cells, NEW now \in Inputs, NEW input \in Inputs
  PROVE  Sound(frames, p, now, HeldPath(frames, p, now, input), Horizon)
<1> DEFINE d == Depth(frames, p, now, << input >>, Horizon)
           moves == [k \in 1 .. Max({1, d - 1}) |-> input]
<1>1. d \in 0 .. Horizon /\ Safe(frames, p, now, << input >>, d) /\ d \in Nat
  BY PolicySearchAssumption, DepthHolds
<1>2. HeldPath(frames, p, now, input).moves = moves /\ HeldPath(frames, p, now, input).depth = d BY DEF HeldPath
<1> HIDE DEF d
<1>3. Max({1, d - 1}) = IF d - 1 >= 1 THEN d - 1 ELSE 1 BY <1>1 DEF Max
<1>4. moves \in Seq(Inputs) /\ Len(moves) >= 1 /\ \A k \in 1 .. Len(moves) : moves[k] = input
 <2> DEFINE m == Max({1, d - 1})
 <2>1. m \in Nat /\ m >= 1 BY <1>1, <1>3
 <2>2. moves = [k \in 1 .. m |-> input] OBVIOUS
 <2> HIDE DEF m, moves
 <2>3. moves \in [1 .. m -> Inputs] /\ \A k \in 1 .. m : moves[k] = input BY <2>2
 <2>4. moves \in Seq(Inputs) /\ Len(moves) = m BY <2>1, <2>3
 <2> QED BY <2>1, <2>3, <2>4
<1> HIDE DEF moves
<1>5. Proposal(moves) /\ Proposal(<< input >>) BY <1>4 DEF Proposal
<1>6. SameInputs(now, moves, << input >>, d)
 <2>1. ASSUME NEW k \in 1 .. d, k # 1 PROVE moves[Min({k - 1, Len(moves)})] = input /\ << input >>[Min({k - 1, 1})] = input
  <3>1. Min({k - 1, Len(moves)}) \in 1 .. Len(moves) /\ Min({k - 1, 1}) = 1 BY <1>1, <1>4, <2>1 DEF Min
  <3> QED BY <1>4, <3>1
 <2> QED BY <2>1 DEF SameInputs, InputAt
<1>7. Safe(frames, p, now, moves, d)
 <2>1. Given(now, moves, d) /\ Given(now, << input >>, d) /\ d <= d BY <1>1, <1>5, ProposalGives
 <2> QED BY <1>1, <1>6, <2>1, SafeAlike
<1> QED BY <1>1, <1>2, <1>5, <1>7 DEF Sound

LEMMA HeldSound ==
  ASSUME NEW frames, NEW p \in Cells, NEW now \in Inputs, NEW r, Sound(frames, p, now, r, Horizon)
  PROVE  /\ Sound(frames, p, now, Held(frames, p, now, r), Horizon)
         /\ Held(frames, p, now, r).depth >= r.depth
<1> DEFINE path == [i \in 1 .. Len(InputOrder) |-> HeldPath(frames, p, now, InputOrder[i])]
           top == Max({path[i].depth : i \in DOMAIN path})
           at == {i \in DOMAIN path : path[i].depth = top}
           first == Min(at)
<1>1. DOMAIN path = 1 .. 3 /\ \A i \in 1 .. 3 : InputOrder[i] \in Inputs /\ path[i] = HeldPath(frames, p, now, InputOrder[i])
  BY DEF InputOrder, Inputs
<1>2. \A i \in 1 .. 3 : Sound(frames, p, now, path[i], Horizon)
 <2> HIDE DEF path
 <2> QED BY <1>1, HeldPathSound
<1>3. Held(frames, p, now, r) = IF r.depth \in {0, Horizon} THEN r ELSE IF top > r.depth THEN path[first] ELSE r
  BY DEF Held, Unless
<1> HIDE DEF path
<1>4. Horizon \in Int /\ r.depth \in Int BY PolicySearchAssumption DEF Sound
<1>5. top \in {path[i].depth : i \in DOMAIN path}
 <2> DEFINE S == {path[i].depth : i \in DOMAIN path}
 <2>1. S \subseteq Int /\ (\A k \in S : k <= Horizon) /\ path[1].depth \in S BY <1>1, <1>2, <1>4 DEF Sound
 <2>2. S # {} BY <2>1
 <2> HIDE DEF S
 <2> QED BY <1>4, <2>1, <2>2, GreatestOf DEF S
<1>6. first \in 1 .. 3 /\ path[first].depth = top
 <2>1. at \subseteq Nat /\ at # {}
  <3> HIDE DEF top
  <3> QED BY <1>1, <1>5
 <2>2. Min(at) \in at
  <3> HIDE DEF at
  <3> QED BY <2>1, LeastOf
 <2> QED BY <1>1, <2>2
<1> HIDE DEF first, top
<1>7. Sound(frames, p, now, path[first], Horizon) BY <1>2, <1>6
<1>8. top \in Int BY <1>6, <1>7 DEF Sound
<1>9. CASE r.depth \notin {0, Horizon} /\ top > r.depth
 <2>1. Held(frames, p, now, r) = path[first] BY <1>3, <1>9
 <2> QED BY <1>4, <1>6, <1>7, <1>8, <1>9, <2>1
<1>10. CASE ~(r.depth \notin {0, Horizon} /\ top > r.depth)
 <2>1. Held(frames, p, now, r) = r BY <1>3, <1>10
 <2> QED BY <1>4, <2>1
<1> QED BY <1>9, <1>10
----
\* The online policy and the keys of its search, one step of either at a
\* time.
PolicySpec ==
    /\ PolicyInit /\ KeysInit
    /\ [][(PolicyNext /\ UNCHANGED keyVars) \/ (KeysNext /\ UNCHANGED policyVars)]_<<policyVars, keyVars>>

\* An executor keeps a plan of inputs, and a pending plan that is due as
\* many updates after its search began as inputs were committed.
Shaped(e) ==
    e \in [moves : {e.moves}, offset : {e.offset}, pending : {e.pending}, epoch : {e.epoch}, freeAt : {e.freeAt},
           anchored : {e.anchored}, lastUpdate : {e.lastUpdate}, stage : {e.stage}, expected : {e.expected},
           lastInput : {e.lastInput}]
Promised(e) ==
    e.pending.present =>
        /\ Proposal(e.pending.moves) /\ e.pending.forced \in Seq(Inputs) /\ Len(e.pending.forced) = opt.lag
        /\ e.pending.origin \in Nat /\ e.pending.due = e.pending.origin + opt.lag
ExecutorTyped(e) == Shaped(e) /\ e.moves \in Seq(Inputs) /\ e.offset \in Nat /\ Promised(e)

PolicyTyped ==
    /\ opt \in Options /\ turn \in {"decide", "play"} /\ update \in Nat /\ x \in Cells /\ latched \in Inputs
    /\ previous.moves \in Seq(Inputs) /\ Proposal(decision.moves)
    /\ ExecutorTyped(executor) /\ executor.lastUpdate \in Nat /\ since \in Seq(Inputs)

\* While a plan is pending and no observation was missed, the inputs
\* latched since its search began are the ones it was searched behind.
Faithful(inputs, p) == \A i \in 1 .. Len(inputs) : inputs[i] = p.forced[i]
Waiting ==
    LET p == executor.pending
        late == update - executor.lastUpdate
    IN  /\ late >= 0 /\ (turn = "decide" => late >= 1)
        /\ p.present => executor.anchored
        /\ p.present /\ turn = "play" /\ late = 0 =>
              Len(since) = update - p.origin /\ Len(since) < opt.lag /\ Faithful(since, p)
        /\ p.present /\ turn = "decide" /\ late = 1 =>
              /\ Len(since) = update - p.origin /\ Len(since) \in 1 .. opt.lag /\ since[Len(since)] = latched
              /\ \A i \in 1 .. Len(since) - 1 : since[i] = p.forced[i]

LEMMA PolicyNumbers ==
  ASSUME NEW o \in Options
  PROVE  /\ o.lag \in Nat /\ o.tail \in Nat /\ o.beam \in Nat /\ o.rescueBeam \in Nat
         /\ o.lag > 0 => o.check \in 2 .. Horizon /\ o.rescue \in 2 .. Horizon
         /\ Horizon \in Nat /\ Horizon >= 2 /\ Preferred \in Int
  BY OnlinePolicyAssumption, PolicySearchAssumption DEF Cells

\* What is followed of a plan is a proposal, and the plan itself at first.
LEMMA FollowedProposes ==
  ASSUME NEW moves, Proposal(moves), NEW offset \in Nat
  PROVE  Proposal(Followed(moves, offset))
<1> DEFINE n == Len(moves)
           m == Max({1, n - offset})
<1>1. n \in Nat /\ n >= 1 /\ \A i \in 1 .. n : moves[i] \in Inputs BY DEF Proposal
<1>2. m \in Nat /\ m >= 1
 <2> HIDE DEF n
 <2> QED BY <1>1 DEF Max
<1>3. \A k \in 1 .. m : Min({offset + k, n}) \in 1 .. n
 <2> HIDE DEF m, n
 <2> QED BY <1>1, <1>2 DEF Min
<1>4. Followed(moves, offset) = [k \in 1 .. m |-> moves[Min({offset + k, n})]] BY DEF Followed
<1> HIDE DEF m, n
<1>5. Followed(moves, offset) \in [1 .. m -> Inputs] BY <1>1, <1>3, <1>4
<1>6. Followed(moves, offset) \in Seq(Inputs) /\ Len(Followed(moves, offset)) = m BY <1>2, <1>5
<1> QED BY <1>2, <1>6 DEF Proposal

LEMMA FollowedAtFirst ==
  ASSUME NEW frames, NEW p \in Cells, NEW now \in Inputs, NEW moves, Proposal(moves), NEW n \in Nat,
         Safe(frames, p, now, moves, n)
  PROVE  Safe(frames, p, now, Followed(moves, 0), n)
<1> DEFINE m == Len(moves)
           same == Followed(moves, 0)
<1>1. m \in Nat /\ m >= 1 /\ moves \in Seq(Inputs) BY DEF Proposal
<1>2. Max({1, m - 0}) = m /\ \A k \in 1 .. m : Min({0 + k, m}) = k
 <2> HIDE DEF m
 <2> QED BY <1>1 DEF Max, Min
<1>3. same = [k \in 1 .. m |-> moves[k]]
 <2>1. same = [k \in 1 .. Max({1, m - 0}) |-> moves[Min({0 + k, m})]] BY DEF Followed
 <2> HIDE DEF m, same
 <2> QED BY <1>2, <2>1
<1>4. same = moves
 <2>1. moves = [k \in 1 .. m |-> moves[k]] BY <1>1
 <2> HIDE DEF m, same
 <2> QED BY <1>3, <2>1
<1> QED BY <1>4

\* What is left of the executor when it has looked back.
Kept(e) ==
    e.pending.present =>
        /\ e.pending = executor.pending /\ Len(since) = update - e.pending.origin
        /\ Len(since) \in 1 .. opt.lag /\ Faithful(since, e.pending)

LEMMA LooksBack ==
  ASSUME PolicyTyped, Waiting, turn = "decide"
  PROVE  ExecutorTyped(Prefixed(Anchored(executor))) /\ Kept(Prefixed(Anchored(executor)))
<1> DEFINE a == Anchored(executor)
           e == Prefixed(a)
<1>1. ExecutorTyped(executor) /\ update \in Nat /\ executor.lastUpdate \in Nat BY DEF PolicyTyped
<1>2. /\ Shaped(a) /\ a.moves \in Seq(Inputs) /\ a.offset \in Nat
      /\ a.pending = executor.pending \/ a.pending = Unplanned
 <2>1. CASE executor.anchored /\ ~Matches(executor)
  <3>1. Shaped(a) /\ a.moves = << >> /\ a.offset = 0 /\ a.pending = Unplanned
    BY <1>1, <2>1 DEF Anchored, Dropped, ExecutorTyped, Shaped
  <3> HIDE DEF a
  <3> QED BY <3>1
 <2>2. CASE executor.anchored /\ Matches(executor) /\ Present(executor)
  <3>1. Shaped(a) /\ a.moves = executor.moves /\ a.offset = executor.offset + 1 /\ a.pending = executor.pending
    BY <1>1, <2>2 DEF Anchored, ExecutorTyped, Shaped
  <3> HIDE DEF a
  <3> QED BY <1>1, <3>1 DEF ExecutorTyped
 <2>3. CASE ~executor.anchored \/ (Matches(executor) /\ ~Present(executor))
  <3>1. a = executor BY <2>3 DEF Anchored
  <3> HIDE DEF a
  <3> QED BY <1>1, <3>1 DEF ExecutorTyped
 <2> QED BY <2>1, <2>2, <2>3
<1>3. a.pending.present => a.pending = executor.pending /\ (executor.anchored => update = executor.lastUpdate + 1)
  BY <1>1, <1>2 DEF Anchored, Dropped, Present, Matches, Unplanned, ExecutorTyped, Shaped
<1> HIDE DEF a
<1>4. Shaped(e) /\ e.moves = a.moves /\ e.offset = a.offset BY <1>2 DEF Prefixed, Dropped, Shaped
<1>5. e.pending.present => /\ e.pending = a.pending
                           /\ update - a.pending.origin <= Len(a.pending.forced)
                           /\ latched = a.pending.forced[update - a.pending.origin]
  BY <1>2 DEF Prefixed, Dropped, Unplanned, Shaped
<1> HIDE DEF e
<1>6. ASSUME e.pending.present PROVE e.pending = executor.pending /\ Kept(e)
 <2>1. e.pending = executor.pending /\ executor.pending.present BY <1>3, <1>5, <1>6
 <2>2. update = executor.lastUpdate + 1 BY <1>3, <1>5, <1>6, <2>1 DEF Waiting
 <2>3. /\ Len(since) = update - executor.pending.origin /\ Len(since) \in 1 .. opt.lag /\ since[Len(since)] = latched
       /\ \A i \in 1 .. Len(since) - 1 : since[i] = executor.pending.forced[i]
   BY <1>1, <2>1, <2>2 DEF Waiting
 <2>4. latched = executor.pending.forced[Len(since)] BY <1>3, <1>5, <1>6, <2>1, <2>3
 <2>5. Len(since) \in Nat BY DEF PolicyTyped
 <2>6. Faithful(since, executor.pending)
  <3>1. \A i \in 1 .. Len(since) : i # Len(since) => i \in 1 .. Len(since) - 1 BY <2>5
  <3> QED BY <2>3, <2>4, <3>1 DEF Faithful
 <2> QED BY <2>1, <2>3, <2>6 DEF Kept
<1>7. Promised(e) BY <1>1, <1>6 DEF ExecutorTyped, Promised
<1>8. Kept(e) BY <1>6 DEF Kept
<1> QED BY <1>2, <1>4, <1>7, <1>8 DEF ExecutorTyped, e, a

\* What was checked is what the plan followed survives.
Vouched(f, c) ==
    /\ Present(c.state) => c.checked = Checked(f, c.state.moves, c.state.offset)
    /\ ~Present(c.state) => c.checked = -1

LEMMA AdoptionVouched ==
  ASSUME PolicyTyped, opt.lag > 0, NEW f, NEW e, ExecutorTyped(e), NEW c, c = Adopted(f, e)
  PROVE  /\ ExecutorTyped(c.state) /\ Vouched(f, c)
         /\ c.adopted = TRUE => e.pending.present /\ update >= e.pending.due
         /\ c.state.pending.present => c.state.pending = e.pending /\ update < e.pending.due
<1> DEFINE checked == IF Present(e) THEN Checked(f, e.moves, e.offset) ELSE -1
           candidate == IF Arrived(e) THEN Checked(f, e.pending.moves, 0) ELSE -1
<1>0. opt.check \in 2 .. Horizon /\ Horizon \in Nat /\ update \in Nat /\ opt.lag \in Nat
  BY PolicyNumbers DEF PolicyTyped
<1>1. CASE ~Due(e)
 <2>1. c = WithCheck(e, checked, FALSE, checked) BY <1>1 DEF Adopted
 <2>2. c.state = e /\ c.checked = checked /\ c.adopted = FALSE BY <2>1 DEF WithCheck
 <2>3. e.pending.present => update < e.pending.due BY <1>0, <1>1 DEF Due, ExecutorTyped, Promised
 <2> QED BY <2>2, <2>3 DEF Vouched
<1>2. CASE Due(e) /\ candidate >= opt.check
 <2> DEFINE s == [e EXCEPT !.moves = e.pending.moves, !.offset = 0, !.pending = Unplanned]
 <2>1. c = WithCheck(s, candidate, TRUE, candidate) BY <1>2 DEF Adopted
 <2>2. /\ Shaped(s) /\ s.moves = e.pending.moves /\ s.offset = 0 /\ s.pending = Unplanned
   BY DEF ExecutorTyped, Shaped
 <2>3. c.state = s /\ c.checked = candidate BY <2>1 DEF WithCheck
 <2> HIDE DEF s
 <2>4. Proposal(e.pending.moves) /\ e.pending.present BY <1>2 DEF ExecutorTyped, Promised, Due
 <2>5. ExecutorTyped(s) /\ ~s.pending.present BY <2>2, <2>4 DEF ExecutorTyped, Promised, Unplanned, Proposal
 <2>6. Present(s)
  <3>1. Len(e.pending.moves) > 0 BY <2>4 DEF Proposal
  <3> QED BY <2>2, <3>1 DEF Present
 <2>7. Arrived(e) BY <1>0, <1>2
 <2>8. candidate = Checked(f, s.moves, s.offset) BY <2>2, <2>7
 <2> HIDE DEF candidate
 <2> QED BY <1>2, <2>3, <2>4, <2>5, <2>6, <2>8 DEF Vouched, Due
<1>3. CASE Due(e) /\ ~(candidate >= opt.check)
 <2> DEFINE s == Dropped(e)
 <2>1. c = WithCheck(s, checked, FALSE, checked) BY <1>3 DEF Adopted
 <2>2. /\ Shaped(s) /\ s.moves = e.moves /\ s.offset = e.offset /\ s.pending = Unplanned
   BY DEF ExecutorTyped, Shaped, Dropped
 <2>3. c.state = s /\ c.checked = checked /\ c.adopted = FALSE BY <2>1 DEF WithCheck
 <2> HIDE DEF s
 <2>4. ExecutorTyped(s) /\ ~s.pending.present BY <2>2 DEF ExecutorTyped, Promised, Unplanned
 <2>5. Present(s) = Present(e) /\ Checked(f, s.moves, s.offset) = Checked(f, e.moves, e.offset)
   BY <2>2 DEF Present
 <2> QED BY <2>3, <2>4, <2>5 DEF Vouched
<1> QED BY <1>1, <1>2, <1>3
\* What is rescued is followed, and survives as long as is said of it.
Followable(f, r) ==
    /\ Proposal(r.state.moves) /\ r.checked \in Nat
    /\ Safe(f, x, latched, Followed(r.state.moves, r.state.offset), r.checked)

LEMMA RescueFollows ==
  ASSUME PolicyTyped, opt.lag > 0, NEW f, NEW c, ExecutorTyped(c.state), Vouched(f, c),
         c = [state |-> c.state, checked |-> c.checked, adopted |-> c.adopted, floor |-> c.floor],
         NEW r, r = Rescued(f, c)
  PROVE  /\ ExecutorTyped(r.state) /\ Followable(f, r) /\ r.checked >= c.checked
         /\ r.state.pending.present => r.state.pending = c.state.pending
<1>0. /\ opt.check \in 2 .. Horizon /\ opt.rescue \in 2 .. Horizon /\ Horizon \in Nat /\ opt.tail \in Nat
      /\ opt.rescueBeam \in Nat /\ Preferred \in Int /\ x \in Cells /\ latched \in Inputs
  BY PolicyNumbers DEF PolicyTyped
<1>1. ASSUME Present(c.state)
      PROVE  /\ Proposal(c.state.moves) /\ c.checked \in Nat
             /\ Safe(f, x, latched, Followed(c.state.moves, c.state.offset), c.checked)
 <2>1. c.state.moves \in Seq(Inputs) /\ c.state.offset \in Nat /\ Len(c.state.moves) > c.state.offset
   BY <1>1 DEF Present, ExecutorTyped
 <2>2. c.state.moves # << >> BY <2>1
 <2>3. c.checked = Depth(f, x, latched, Followed(c.state.moves, c.state.offset), opt.check)
   BY <1>1 DEF Vouched, Checked
 <2>4. opt.check \in Nat BY <1>0
 <2>5. c.checked \in 0 .. opt.check /\ Safe(f, x, latched, Followed(c.state.moves, c.state.offset), c.checked)
   BY <2>3, <2>4, DepthHolds
 <2> QED BY <2>1, <2>2, <2>4, <2>5 DEF Proposal
<1>2. CASE Sustained(c)
 <2>1. r = c /\ Present(c.state) BY <1>2 DEF Rescued, Sustained
 <2> QED BY <1>1, <2>1 DEF Followable
<1>3. CASE ~Sustained(c)
 <2> DEFINE rescue == Search(f, opt.rescue, x, latched, << >>, opt, Preferred, opt.rescueBeam)
            dropped == [Dropped(c.state) EXCEPT !.epoch = @ + 1, !.freeAt = update]
            filled == [dropped EXCEPT !.moves = rescue.moves, !.offset = 0]
 <2>1. r = RescuedBy(c, rescue, dropped) BY <1>3 DEF Rescued
 <2>2. Proposal(rescue.moves) /\ rescue.depth \in Nat /\ Safe(f, x, latched, rescue.moves, rescue.depth)
  <3>1. << >> \in Seq(Inputs) /\ opt.rescue \in Nat /\ opt.rescue >= 1 BY <1>0
  <3> HIDE DEF rescue
  <3>2. Proposal(rescue.moves) /\ rescue.depth \in 0 .. opt.rescue /\ Safe(f, x, latched, rescue.moves, rescue.depth)
    BY <1>0, <3>1, SearchSafe DEF rescue
  <3> QED BY <3>1, <3>2
 <2> HIDE DEF rescue
 <2>3. Shaped(dropped) /\ dropped.moves = c.state.moves /\ dropped.offset = c.state.offset /\ dropped.pending = Unplanned
   BY DEF Dropped, ExecutorTyped, Shaped
 <2>4. Shaped(filled) /\ filled.moves = rescue.moves /\ filled.offset = 0 /\ filled.pending = Unplanned
  <3> HIDE DEF dropped
  <3> QED BY <2>3 DEF Shaped
 <2> HIDE DEF dropped, filled
 <2>5. ExecutorTyped(dropped) /\ ExecutorTyped(filled) /\ ~dropped.pending.present /\ ~filled.pending.present
   BY <2>2, <2>3, <2>4 DEF ExecutorTyped, Promised, Unplanned, Proposal
 <2>6. CASE ~Present(c.state) \/ rescue.depth >= c.checked
  <3>1. r.state = filled /\ r.checked = rescue.depth BY <2>1, <2>6 DEF RescuedBy, filled
  <3>2. Safe(f, x, latched, Followed(filled.moves, filled.offset), rescue.depth)
    BY <1>0, <2>2, <2>4, FollowedAtFirst
  <3>3. rescue.depth >= c.checked BY <2>2, <2>6 DEF Vouched
  <3> QED BY <2>2, <2>4, <2>5, <3>1, <3>2, <3>3 DEF Followable
 <2>7. CASE Present(c.state) /\ ~(rescue.depth >= c.checked)
  <3>1. r.state = dropped /\ r.checked = c.checked BY <2>1, <2>7 DEF RescuedBy
  <3> QED BY <1>1, <2>3, <2>5, <2>7, <3>1 DEF Followable
 <2> QED BY <2>6, <2>7
<1> QED BY <1>2, <1>3

\* A search started behind the committed inputs makes a plan pending only
\* for what it finds beyond them.
LEMMA PlanPending ==
  ASSUME PolicyTyped, opt.lag > 0, NEW f, NEW r, ExecutorTyped(r.state), Proposal(r.state.moves), NEW e, e = Planned(f, r)
  PROVE  /\ ExecutorTyped(e) /\ e.moves = r.state.moves /\ e.offset = r.state.offset
         /\ e.pending.present => e.pending = r.state.pending \/ e.pending.origin = update
<1>0. /\ opt.lag \in Nat /\ opt.beam \in Nat /\ opt.tail \in Nat /\ Horizon \in Nat /\ Horizon >= 1 /\ Preferred \in Int
      /\ x \in Cells /\ latched \in Inputs /\ update \in Nat
  BY PolicyNumbers DEF PolicyTyped
<1>1. CASE ~Starts(r) BY <1>1 DEF Planned
<1>2. CASE Starts(r)
 <2> DEFINE s == r.state
            forced == [k \in 1 .. opt.lag |-> s.moves[Min({s.offset + k, Len(s.moves)})]]
            full == Search(f, Horizon, x, latched, forced, opt, Preferred, opt.beam)
            plan == [present |-> TRUE, moves |-> SubSeq(full.moves, opt.lag + 1, Len(full.moves)),
                     forced |-> forced, origin |-> update, due |-> update + opt.lag, epoch |-> s.epoch,
                     arrival |-> Arrival(forced)]
 <2>1. e = Pending(s, forced, full) BY <1>2 DEF Planned, Behind
 <2>2. Shaped(s) /\ s.moves \in Seq(Inputs) /\ s.offset \in Nat /\ Len(s.moves) \in Nat /\ Len(s.moves) >= 1
   BY DEF ExecutorTyped, Proposal
 <2>3. forced \in Seq(Inputs) /\ Len(forced) = opt.lag
  <3>1. \A k \in 1 .. opt.lag : Min({s.offset + k, Len(s.moves)}) \in 1 .. Len(s.moves)
   <4> HIDE DEF s
   <4> QED BY SMTT(40), <1>0, <2>2 DEF Min
  <3>2. forced \in [1 .. opt.lag -> Inputs]
   <4> HIDE DEF s
   <4> QED BY <2>2, <3>1
  <3> HIDE DEF forced, s
  <3>3. forced \in Seq(Inputs) BY <1>0, <3>2
  <3>4. DOMAIN forced = 1 .. opt.lag BY <3>2
  <3> QED BY <1>0, <3>3, <3>4
 <2> HIDE DEF forced
 <2>4. Proposal(full.moves) BY <1>0, <2>3, SearchSafe
 <2> HIDE DEF full
 <2>5. CASE Len(full.moves) > opt.lag
  <3>1. Proposal(plan.moves)
   <4> DEFINE rest == SubSeq(full.moves, opt.lag + 1, Len(full.moves))
   <4>1. full.moves \in Seq(Inputs) /\ Len(full.moves) \in Nat BY <2>4 DEF Proposal
   <4>2. rest \in Seq(Inputs) /\ Len(rest) = Len(full.moves) - opt.lag BY <1>0, <2>5, <4>1
   <4>3. rest # << >>
    <5> HIDE DEF rest
    <5> QED BY <1>0, <2>5, <4>1, <4>2
   <4>4. plan.moves = rest OBVIOUS
   <4> HIDE DEF rest, plan
   <4> QED BY <4>2, <4>3, <4>4 DEF Proposal
  <3>2. e = [s EXCEPT !.freeAt = update + opt.lag, !.pending = plan] BY <2>1, <2>5 DEF Pending
  <3>3. plan.forced = forced /\ plan.origin = update /\ plan.due = update + opt.lag OBVIOUS
  <3> HIDE DEF plan, s
  <3>4. Shaped(e) /\ e.moves = s.moves /\ e.offset = s.offset /\ e.pending = plan BY <2>2, <3>2 DEF Shaped
  <3>5. ExecutorTyped(e) BY <1>0, <2>2, <2>3, <3>1, <3>3, <3>4 DEF ExecutorTyped, Promised
  <3> QED BY <3>3, <3>4, <3>5 DEF s
 <2>6. CASE ~(Len(full.moves) > opt.lag)
  <3>1. e = [s EXCEPT !.freeAt = update + opt.lag, !.pending = s.pending] BY <2>1, <2>6 DEF Pending
  <3>2. Shaped(e) /\ e.moves = s.moves /\ e.offset = s.offset /\ e.pending = s.pending
   <4> HIDE DEF s, plan
   <4> QED BY <2>2, <3>1 DEF Shaped
  <3>3. ExecutorTyped(e) BY <2>2, <3>2 DEF ExecutorTyped, Promised
  <3> QED BY <3>2, <3>3
 <2> QED BY <2>5, <2>6
<1> QED BY <1>1, <1>2

----
\* What a decision says of itself.
Told ==
    turn = "play" /\ decision # NoDecision =>
        /\ Safe(forecast, x, latched, decision.moves, decision.depth)
        /\ decision.depth >= decision.floor
        /\ decision.adopted => decision.behind = decision.forced
        /\ decision.used <= decision.indexed
PolicyInv == PolicyTyped /\ Waiting /\ Told

LEMMA LagStep ==
  ASSUME PolicyInv, turn = "decide", turn' = "play", opt.lag > 0, NEW f, forecast' = f, LagDecide(f),
         UNCHANGED <<opt, update, x, latched, stage>>
  PROVE  PolicyInv'
<1> DEFINE e == Prefixed(Anchored(executor))
           c == Adopted(f, e)
           r == Rescued(f, c)
           p == Planned(f, r)
           reads == Reads(~Sustained(c), Starts(r))
           told == [moves |-> Followed(r.state.moves, r.state.offset), depth |-> Min({r.checked, opt.check}),
                    floor |-> Min({Max({0, c.checked}), opt.check}),
                    adopted |-> c.adopted, forced |-> executor.pending.forced, behind |-> since,
                    indexed |-> Indexed(Starts(r)), used |-> reads]
<1>0. /\ opt.check \in 2 .. Horizon /\ opt.rescue \in 2 .. Horizon /\ Horizon \in Nat /\ opt.tail \in Nat /\ opt.lag \in Nat
      /\ x \in Cells /\ latched \in Inputs /\ update \in Nat
  BY PolicyNumbers DEF PolicyTyped, PolicyInv
<1>1. /\ executor' = Executed(p) /\ decision' = told
      /\ since' = (IF p.pending.present /\ p.pending.origin = update THEN << >> ELSE since)
      /\ previous' = previous
  BY DEF LagDecide
<1>2. ExecutorTyped(e) /\ Kept(e) BY LooksBack DEF PolicyInv
<1>3. c = [state |-> c.state, checked |-> c.checked, adopted |-> c.adopted, floor |-> c.floor]
 <2>1. \E s, k, a, b : c = WithCheck(s, k, a, b) BY DEF Adopted
 <2> HIDE DEF c
 <2> QED BY <2>1 DEF WithCheck
<1> HIDE DEF e
<1>4. /\ ExecutorTyped(c.state) /\ Vouched(f, c)
      /\ c.adopted = TRUE => e.pending.present /\ update >= e.pending.due
      /\ c.state.pending.present => c.state.pending = e.pending /\ update < e.pending.due
  BY <1>2, AdoptionVouched DEF PolicyInv
<1> HIDE DEF c
<1>5. /\ ExecutorTyped(r.state) /\ Followable(f, r) /\ r.checked >= c.checked
      /\ r.state.pending.present => r.state.pending = c.state.pending
  BY <1>3, <1>4, RescueFollows DEF PolicyInv
<1> HIDE DEF r
<1>6. /\ ExecutorTyped(p) /\ p.moves = r.state.moves /\ p.offset = r.state.offset
      /\ p.pending.present => p.pending = r.state.pending \/ p.pending.origin = update
  BY <1>5, PlanPending DEF PolicyInv, Followable
<1> HIDE DEF p
<1>7. /\ Shaped(executor') /\ executor'.moves = p.moves /\ executor'.offset = p.offset /\ executor'.pending = p.pending
      /\ executor'.anchored = TRUE /\ executor'.lastUpdate = update
  BY <1>1, <1>6 DEF Executed, ExecutorTyped, Shaped
<1>8. Proposal(told.moves) BY <1>5, FollowedProposes DEF Followable, ExecutorTyped
<1>9. PolicyTyped'
 <2>1. ExecutorTyped(executor)'
  <3>1. Promised(executor)' BY <1>6, <1>7 DEF Promised, ExecutorTyped
  <3> QED BY <1>6, <1>7, <3>1 DEF ExecutorTyped, Shaped
 <2>2. since' \in Seq(Inputs) BY <1>1 DEF PolicyInv, PolicyTyped
 <2>3. Proposal(decision.moves)' BY <1>1, <1>8 DEF Proposal
 <2> QED BY <1>0, <1>1, <1>7, <2>1, <2>2, <2>3 DEF PolicyInv, PolicyTyped
<1>10. ASSUME p.pending.present
       PROVE  Len(since') = update - p.pending.origin /\ Len(since') < opt.lag /\ Faithful(since', p.pending)
 <2>1. CASE p.pending.origin = update BY <1>0, <1>1, <1>10, <2>1 DEF Faithful
 <2>2. CASE p.pending.origin # update
  <3>1. p.pending = r.state.pending /\ r.state.pending = c.state.pending /\ c.state.pending = e.pending
        /\ update < e.pending.due
    BY <1>4, <1>5, <1>6, <1>10, <2>2
  <3>2. e.pending.present /\ since' = since BY <1>1, <1>10, <2>2, <3>1
  <3>3. Len(since) = update - e.pending.origin /\ Faithful(since, e.pending) BY <1>2, <3>2 DEF Kept
  <3>4. e.pending.due = e.pending.origin + opt.lag /\ e.pending.origin \in Nat
    BY <1>2, <3>2 DEF ExecutorTyped, Promised
  <3> QED BY <1>0, <3>1, <3>2, <3>3, <3>4
 <2> QED BY <2>1, <2>2
<1>11. Waiting' BY <1>0, <1>7, <1>10 DEF Waiting, Faithful
<1>12. Told'
 <2>1. r.checked \in Nat /\ c.checked \in Int
  <3>1. c.checked \in Int
   <4>1. Present(c.state) => c.checked \in Int
    <5>1. opt.check \in Nat BY <1>0
    <5> QED BY <1>4, <5>1, DepthHolds DEF Vouched, Checked
   <4> QED BY <1>4, <4>1 DEF Vouched
  <3> QED BY <1>5, <3>1 DEF Followable
 <2>2. told.depth = Min({r.checked, opt.check}) /\ told.depth \in Nat /\ told.depth <= r.checked
   BY <1>0, <2>1 DEF Min
 <2>3. Safe(f, x, latched, told.moves, told.depth)
  <3>1. Given(latched, told.moves, r.checked) BY <1>0, <1>8, <2>1, ProposalGives
  <3>2. Safe(f, x, latched, told.moves, r.checked) BY <1>5 DEF Followable
  <3> HIDE DEF told
  <3> QED BY <1>0, <2>1, <2>2, <3>1, <3>2, SafeShorter
 <2>4. told.depth >= told.floor
  <3>1. Max({0, c.checked}) \in Nat /\ Max({0, c.checked}) <= r.checked BY <1>5, <2>1 DEF Max
  <3> QED BY <1>0, <2>1, <3>1 DEF Min
 <2>5. ASSUME told.adopted = TRUE PROVE told.behind = told.forced
  <3>1. e.pending.present /\ update >= e.pending.due BY <1>4, <2>5
  <3>2. e.pending = executor.pending /\ Len(since) = update - e.pending.origin /\ Len(since) \in 1 .. opt.lag
        /\ Faithful(since, e.pending)
    BY <1>2, <3>1 DEF Kept
  <3>3. /\ e.pending.due = e.pending.origin + opt.lag /\ e.pending.origin \in Nat
        /\ e.pending.forced \in Seq(Inputs) /\ Len(e.pending.forced) = opt.lag
    BY <1>2, <3>1 DEF ExecutorTyped, Promised
  <3>4. since \in Seq(Inputs) BY DEF PolicyInv, PolicyTyped
  <3>5. Len(since) = opt.lag BY <1>0, <3>1, <3>2, <3>3
  <3>6. since = e.pending.forced BY <3>2, <3>3, <3>4, <3>5, SeqEqual DEF Faithful
  <3> QED BY <3>2, <3>6
 <2>6. c.adopted \in BOOLEAN
  <3>1. Adopted(f, e).adopted \in BOOLEAN BY DEF Adopted, WithCheck
  <3> QED BY <3>1 DEF c
 <2>7. told.used <= told.indexed
  <3> DEFINE starts == Starts(r)
             most == Max({opt.check, opt.rescue})
  <3>1. most \in Nat /\ most >= opt.check /\ most >= opt.rescue /\ most <= Horizon BY <1>0 DEF Max
  <3>2. Prepared \in {most, Horizon + opt.tail} BY DEF Prepared
  <3>3. reads = (IF starts THEN Horizon ELSE IF ~Sustained(c) THEN most ELSE opt.check) BY DEF Reads
  <3>4. told.used = reads /\ told.indexed = Indexed(starts) OBVIOUS
  <3>5. Indexed(starts) = (IF starts THEN Max({Prepared, Horizon}) ELSE Prepared) BY DEF Indexed
  <3> HIDE DEF reads, told, most, starts
  <3>6. Prepared \in Nat /\ Prepared >= most BY <1>0, <3>1, <3>2
  <3>7. Max({Prepared, Horizon}) >= Horizon BY <1>0, <3>6 DEF Max
  <3>8. CASE starts BY <3>3, <3>4, <3>5, <3>7, <3>8
  <3>9. CASE ~starts BY <1>0, <3>1, <3>3, <3>4, <3>5, <3>6, <3>9
  <3> QED BY <3>8, <3>9
 <2>8. told.adopted = c.adopted OBVIOUS
 <2> HIDE DEF told
 <2> QED BY <1>1, <2>3, <2>4, <2>5, <2>6, <2>7, <2>8 DEF Told, Safe
<1> QED BY <1>9, <1>11, <1>12 DEF PolicyInv
LEMMA NowStep ==
  ASSUME PolicyInv, turn = "decide", turn' = "play", ~(opt.lag > 0), NEW f, forecast' = f, NowDecide(f),
         UNCHANGED <<opt, update, x, latched, stage>>
  PROVE  PolicyInv'
<1> DEFINE search == Search(f, Horizon, x, latched, << >>, opt, Preferred, opt.beam)
           warmed == IF opt.warm THEN Warmed(f, x, latched, previous, update, search) ELSE search
           result == IF opt.held THEN Held(f, x, latched, warmed) ELSE warmed
           told == [NoDecision EXCEPT !.moves = result.moves, !.depth = result.depth, !.floor = search.depth,
                                      !.indexed = Horizon + opt.tail, !.used = Horizon + opt.tail]
<1>0. /\ Horizon \in Nat /\ Horizon >= 1 /\ opt.tail \in Nat /\ opt.beam \in Nat /\ Preferred \in Int
      /\ x \in Cells /\ latched \in Inputs /\ update \in Nat /\ previous.moves \in Seq(Inputs)
  BY PolicyNumbers DEF PolicyTyped, PolicyInv
<1>1. /\ decision' = told /\ previous' = (IF opt.warm THEN [moves |-> result.moves, update |-> update] ELSE previous)
      /\ executor' = executor /\ since' = since
  BY DEF NowDecide
<1>2. Sound(f, x, latched, search, Horizon)
 <2>1. << >> \in Seq(Inputs) OBVIOUS
 <2> HIDE DEF search
 <2>2. Proposal(search.moves) /\ search.depth \in 0 .. Horizon /\ Safe(f, x, latched, search.moves, search.depth)
   BY <1>0, <2>1, SearchSafe DEF search
 <2> QED BY <2>2 DEF Sound
<1> HIDE DEF search
<1>3. search.depth \in Int BY <1>0, <1>2 DEF Sound
<1>4. Sound(f, x, latched, warmed, Horizon) /\ warmed.depth >= search.depth BY <1>0, <1>2, <1>3, WarmedSound
<1> HIDE DEF warmed
<1>5. Sound(f, x, latched, result, Horizon) /\ result.depth >= warmed.depth
 <2>1. warmed.depth \in Int BY <1>0, <1>4 DEF Sound
 <2> QED BY <1>0, <1>4, <2>1, HeldSound
<1> HIDE DEF result
<1>6. Proposal(result.moves) /\ Safe(f, x, latched, result.moves, result.depth) /\ result.depth >= search.depth
 <2>1. warmed.depth \in Int /\ result.depth \in Int BY <1>0, <1>4, <1>5 DEF Sound
 <2> QED BY <1>3, <1>4, <1>5, <2>1 DEF Sound
<1>7. /\ told.moves = result.moves /\ told.depth = result.depth /\ told.floor = search.depth /\ told.adopted = FALSE
      /\ told.used = Horizon + opt.tail /\ told.indexed = Horizon + opt.tail
  BY DEF NoDecision
<1> HIDE DEF told
<1>8. PolicyTyped'
 <2>1. ExecutorTyped(executor)' BY <1>1 DEF PolicyInv, PolicyTyped, ExecutorTyped, Shaped, Promised
 <2>2. Proposal(decision.moves)' BY <1>1, <1>6, <1>7 DEF Proposal
 <2>3. previous'.moves \in Seq(Inputs) BY <1>0, <1>1, <1>6 DEF Proposal
 <2> QED BY <1>0, <1>1, <2>1, <2>2, <2>3 DEF PolicyInv, PolicyTyped
<1>9. Waiting'
 <2>1. update - executor.lastUpdate >= 1 /\ executor.lastUpdate \in Nat /\ update - executor.lastUpdate # 0
   BY <1>0 DEF PolicyInv, Waiting, PolicyTyped
 <2> QED BY <1>0, <1>1, <2>1 DEF PolicyInv, Waiting
<1>10. Told' BY <1>0, <1>1, <1>6, <1>7 DEF Told, Safe
<1> QED BY <1>8, <1>9, <1>10 DEF PolicyInv

\* The game latches an input.
LEMMA LatchStep ==
  ASSUME PolicyInv, turn = "play", NEW i \in Inputs, Latch(i), x' \in Cells
  PROVE  PolicyInv'
<1>1. /\ latched' = i /\ since' = (IF executor.pending.present THEN Append(since, i) ELSE << >>)
      /\ update' = update + 1 /\ turn' = "decide" /\ decision' = NoDecision
      /\ opt' = opt /\ previous' = previous /\ executor' = executor
  BY DEF Latch
<1>2. /\ since \in Seq(Inputs) /\ update \in Nat /\ executor.lastUpdate \in Nat /\ ExecutorTyped(executor)
      /\ opt \in Options /\ opt.lag \in Nat
  BY PolicyNumbers DEF PolicyInv, PolicyTyped
<1>3. PolicyTyped'
 <2>1. ExecutorTyped(executor)' BY <1>1, <1>2 DEF ExecutorTyped, Shaped, Promised
 <2>2. since' \in Seq(Inputs) BY <1>1, <1>2
 <2>3. Proposal(decision.moves)' BY <1>1 DEF Proposal, NoDecision, Inputs
 <2> QED BY <1>1, <1>2, <2>1, <2>2, <2>3 DEF PolicyInv, PolicyTyped
<1>4. Waiting'
 <2>1. update - executor.lastUpdate >= 0 /\ (executor.pending.present => executor.anchored)
   BY <1>2 DEF PolicyInv, Waiting
 <2>2. update' - executor'.lastUpdate >= 1 BY <1>1, <1>2, <2>1
 <2>3. ASSUME executor'.pending.present, update' - executor'.lastUpdate = 1
       PROVE  /\ Len(since') = update' - executor'.pending.origin /\ Len(since') \in 1 .. opt'.lag
              /\ since'[Len(since')] = latched'
              /\ \A k \in 1 .. Len(since') - 1 : since'[k] = executor'.pending.forced[k]
  <3>1. executor.pending.present /\ update - executor.lastUpdate = 0 BY <1>1, <1>2, <2>3
  <3>2. Len(since) = update - executor.pending.origin /\ Len(since) < opt.lag /\ Faithful(since, executor.pending)
    BY <1>2, <3>1 DEF PolicyInv, Waiting
  <3>3. executor.pending.origin \in Nat BY <1>2, <3>1 DEF ExecutorTyped, Promised
  <3>4. /\ since' = Append(since, i) /\ Len(since') = Len(since) + 1 /\ since'[Len(since) + 1] = i
        /\ \A k \in 1 .. Len(since) : since'[k] = since[k]
    BY <1>1, <1>2, <3>1
  <3>5. Len(since) \in Nat BY <1>2
  <3>6. update' = update + 1 /\ executor' = executor /\ opt' = opt /\ latched' = i /\ opt.lag \in Nat /\ update \in Nat
    BY <1>1, <1>2
  <3>7. Len(since') = update' - executor'.pending.origin BY <3>2, <3>3, <3>4, <3>6
  <3>8. Len(since') \in 1 .. opt'.lag BY <3>2, <3>4, <3>5, <3>6
  <3>9. since'[Len(since')] = latched' BY <3>4, <3>6
  <3>10. ASSUME NEW k \in 1 .. Len(since') - 1 PROVE since'[k] = executor'.pending.forced[k]
   <4>1. k \in 1 .. Len(since) BY <3>4, <3>5
   <4>2. since'[k] = since[k] /\ since[k] = executor.pending.forced[k] BY <3>2, <3>4, <4>1 DEF Faithful
   <4> QED BY <3>6, <4>2
  <3> QED BY <3>7, <3>8, <3>9, <3>10
 <2>4. turn' = "decide" /\ turn' # "play" /\ update' - executor'.lastUpdate >= 0
       /\ (executor'.pending.present => executor'.anchored)
   BY <1>1, <1>2, <2>1, <2>2
 <2> QED BY <2>2, <2>3, <2>4 DEF Waiting
<1>5. Told' BY <1>1 DEF Told
<1> QED BY <1>3, <1>4, <1>5 DEF PolicyInv

LEMMA PolicyStarts == PolicyInit => PolicyInv
<1> SUFFICES ASSUME PolicyInit PROVE PolicyInv OBVIOUS
<1>1. /\ opt \in Options /\ turn = "decide" /\ update = 1 /\ x = Start /\ latched = 0
      /\ previous.moves = << >> /\ executor = NoExecutor /\ decision = NoDecision /\ since = << >>
  BY DEF PolicyInit
<1>2. ~executor.pending.present /\ executor.moves = << >> /\ executor.offset = 0 /\ executor.lastUpdate = 0
  BY <1>1 DEF NoExecutor, Unplanned
<1>3. Shaped(executor) BY <1>1 DEF Shaped, NoExecutor
<1>4. PolicyTyped
  BY <1>1, <1>2, <1>3, OnlinePolicyAssumption DEF PolicyTyped, ExecutorTyped, Promised, Proposal, NoDecision, Inputs
<1>5. Waiting BY <1>1, <1>2 DEF Waiting
<1>6. Told BY <1>1 DEF Told
<1> QED BY <1>4, <1>5, <1>6 DEF PolicyInv

LEMMA PolicyStep == PolicyInv /\ PolicyNext => PolicyInv'
<1> SUFFICES ASSUME PolicyInv, PolicyNext PROVE PolicyInv' OBVIOUS
<1>0. x \in Cells /\ latched \in Inputs /\ update \in Nat /\ executor.lastUpdate \in Nat /\ Proposal(decision.moves)
  BY DEF PolicyInv, PolicyTyped
<1>1. Move(x, latched) \in Cells /\ Head(decision.moves) \in Inputs BY <1>0, MoveCell DEF Proposal
<1>2. CASE Decide
 <2>1. /\ turn = "decide" /\ turn' = "play" /\ UNCHANGED <<opt, update, x, latched, stage>>
       /\ \E f \in Forecasts : forecast' = f /\ (IF opt.lag > 0 THEN LagDecide(f) ELSE NowDecide(f))
   BY <1>2 DEF Decide
 <2>2. PICK f \in Forecasts : forecast' = f /\ (IF opt.lag > 0 THEN LagDecide(f) ELSE NowDecide(f)) BY <2>1
 <2>3. CASE opt.lag > 0 BY <2>1, <2>2, <2>3, LagStep
 <2>4. CASE ~(opt.lag > 0) BY <2>1, <2>2, <2>4, NowStep
 <2> QED BY <2>3, <2>4
<1>3. CASE ObserveOnly
 <2>1. /\ turn = "decide" /\ turn' = "play" /\ decision' = NoDecision
       /\ UNCHANGED <<opt, update, x, latched, stage, forecast, previous, executor, since>>
   BY <1>3 DEF ObserveOnly
 <2>2. PolicyTyped'
   BY <2>1 DEF PolicyInv, PolicyTyped, ExecutorTyped, Shaped, Promised, Proposal, NoDecision, Inputs
 <2>3. Waiting'
  <3>1. update - executor.lastUpdate >= 1 /\ update - executor.lastUpdate # 0
    BY <1>0, <2>1 DEF PolicyInv, Waiting
  <3> QED BY <1>0, <2>1, <3>1 DEF PolicyInv, Waiting
 <2> QED BY <2>1, <2>2, <2>3 DEF PolicyInv, Told
<1>4. CASE Follow
 <2>1. turn = "play" /\ Latch(Head(decision.moves)) /\ x' = Move(x, latched) BY <1>4 DEF Follow
 <2> QED BY <1>1, <2>1, LatchStep
<1>5. CASE Override
 <2>1. turn = "play" /\ (\E i \in Inputs : Latch(i)) /\ x' = Move(x, latched) BY <1>5 DEF Override
 <2> QED BY <1>1, <2>1, LatchStep
<1>6. CASE Displace
 <2>1. turn = "play" /\ Latch(Head(decision.moves)) /\ x' \in Cells BY <1>6 DEF Displace
 <2> QED BY <1>1, <2>1, LatchStep
<1>7. CASE Handoff
 <2>1. turn = "play" /\ Latch(Head(decision.moves)) /\ x' = Move(x, latched) BY <1>7 DEF Handoff
 <2> QED BY <1>1, <2>1, LatchStep
<1> QED BY <1>2, <1>3, <1>4, <1>5, <1>6, <1>7 DEF PolicyNext
----
\* Remainders on the cycle of the grid.
LEMMA ModRange ==
  ASSUME NEW R \in Nat \ {0}, NEW a \in Int
  PROVE  a % R \in 0 .. R - 1 /\ a \div R \in Int /\ a = R * (a \div R) + (a % R)
<1> DEFINE d == a \div R
           m == a % R
<1>1. d \in Int /\ m \in 0 .. R - 1 /\ a = R * d + m OBVIOUS
<1> HIDE DEF d, m
<1>2. m \in 0 .. R - 1 /\ d \in Int /\ a = R * d + m BY <1>1
<1> QED BY <1>2 DEF d, m

LEMMA OnCycle ==
  ASSUME NEW a \in Int
  PROVE  a % Cycle \in 0 .. Cycle - 1 /\ a \div Cycle \in Int /\ a = Cycle * (a \div Cycle) + (a % Cycle)
<1>1. Cycle \in Nat \ {0} BY ProposalKeysAssumption
<1> QED BY <1>1, ModRange

LEMMA ModUnique ==
  ASSUME NEW R \in Nat \ {0}, NEW q \in Int, NEW r \in 0 .. R - 1
  PROVE  (R * q + r) % R = r
<1> DEFINE a == R * q + r
           d == a \div R
           m == a % R
<1>0. a \in Int /\ a = R * q + r OBVIOUS
<1> HIDE DEF a
<1>1. d \in Int /\ m \in 0 .. R - 1 /\ a = R * d + m BY <1>0, ModRange
<1> HIDE DEF d, m
<1>2. R * (q - d) = m - r BY <1>0, <1>1
<1>3. q - d \in Int /\ m - r < R /\ m - r > -R BY <1>1
<1>4. CASE q - d >= 1
 <2>1. R * (q - d) >= R BY <1>3, <1>4
 <2> QED BY <1>2, <1>3, <2>1
<1>5. CASE q - d <= -1
 <2>1. R * (q - d) <= -R BY <1>3, <1>5
 <2> QED BY <1>2, <1>3, <2>1
<1>6. CASE q - d = 0
 <2>1. R * (q - d) = 0 BY <1>6
 <2>2. m = r BY <1>1, <1>2, <2>1
 <2> QED BY <2>2 DEF m, a
<1> QED BY <1>3, <1>4, <1>5, <1>6

LEMMA CycleUnique ==
  ASSUME NEW q \in Int, NEW r \in 0 .. Cycle - 1
  PROVE  (Cycle * q + r) % Cycle = r
<1>1. Cycle \in Nat \ {0} BY ProposalKeysAssumption
<1> QED BY <1>1, ModUnique

\* A column of the rectangle stands for one cell of the grid.
LEMMA ColumnOf ==
  ASSUME NEW place \in Int, NEW base \in Int, NEW m \in 0 .. Cycle - 1
  PROVE  (m + base) % Cycle = place % Cycle <=> m = (place - base) % Cycle
<1>0. Cycle \in Nat \ {0} BY ProposalKeysAssumption
<1> DEFINE a == (m + base) % Cycle
           b == place % Cycle
           c == (place - base) % Cycle
           d == (m + base) \div Cycle
           e == place \div Cycle
           f == (place - base) \div Cycle
<1>1. m + base \in Int /\ place - base \in Int OBVIOUS
<1>2. a \in 0 .. Cycle - 1 /\ d \in Int /\ m + base = Cycle * d + a BY <1>1, OnCycle
<1>3. b \in 0 .. Cycle - 1 /\ e \in Int /\ place = Cycle * e + b BY OnCycle
<1>4. c \in 0 .. Cycle - 1 /\ f \in Int /\ place - base = Cycle * f + c BY <1>1, OnCycle
<1> HIDE DEF d, e, f
<1>5. ASSUME a = b PROVE m = c
 <2>1. place - base = Cycle * (e - d) + m
  <3> HIDE DEF a, b, c
  <3> QED BY <1>0, <1>2, <1>3, <1>5
 <2>2. (Cycle * (e - d) + m) % Cycle = m
  <3>1. e - d \in Int BY <1>2, <1>3
  <3> QED BY <3>1, CycleUnique
 <2> QED BY <2>1, <2>2
<1>6. ASSUME m = c PROVE a = b
 <2>1. m + base = Cycle * (e - f) + b
  <3> HIDE DEF a, b, c
  <3> QED BY <1>0, <1>3, <1>4, <1>6
 <2>2. (Cycle * (e - f) + b) % Cycle = b
  <3>1. e - f \in Int BY <1>3, <1>4
  <3> HIDE DEF b
  <3> QED BY <1>3, <3>1, CycleUnique
 <2> QED BY <2>1, <2>2
<1> QED BY <1>5, <1>6

\* The marks of the rectangle are the keys of the grid.
KeyOf(m, base) == <<(m[1] + base) % Cycle, m[2]>>
Bitmap(k) == k \in [base : {k.base}, columns : {k.columns}, retain : {k.retain}, marked : {k.marked}]
KeysMatch ==
    /\ Bitmap(keys)
    /\ keys.base \in 0 .. Cycle - 1 /\ keys.columns \in 1 .. Cycle
    /\ \A m \in keys.marked : m = <<m[1], m[2]>> /\ m[1] \in 0 .. keys.columns - 1
    /\ \A y : y \in whole <=> \E m \in keys.marked : y = KeyOf(m, keys.base)
    /\ \A k \in whole : k = <<k[1], k[2]>> /\ k[1] \in 0 .. Cycle - 1
KeysInv == KeysMatch /\ KeysExact

LEMMA ResetMatches ==
  ASSUME NEW low \in Places, NEW high \in Places, NEW retain, Reset(low, high, retain)
  PROVE  KeysInv'
<1>0. Cycle \in Nat \ {0} /\ low \in Int /\ high \in Int BY ProposalKeysAssumption
<1>1. low % Cycle \in 0 .. Cycle - 1 BY <1>0
<1>2. /\ keys'.marked = {} /\ keys'.base \in 0 .. Cycle - 1 /\ keys'.columns \in 1 .. Cycle
      /\ Bitmap(keys')
 <2>1. CASE low > high
  <3>1. keys' = [base |-> 0, columns |-> Cycle, retain |-> retain, marked |-> {}] BY <2>1 DEF Reset
  <3> QED BY <1>0, <3>1 DEF Bitmap
 <2>2. CASE ~(low > high)
  <3>1. keys' = [base |-> low % Cycle, columns |-> IF high - low + 1 < Cycle THEN high - low + 1 ELSE Cycle,
                 retain |-> retain, marked |-> {}]
    BY <2>2 DEF Reset
  <3>2. (IF high - low + 1 < Cycle THEN high - low + 1 ELSE Cycle) \in 1 .. Cycle BY <1>0, <2>2
  <3> QED BY <1>1, <3>1, <3>2 DEF Bitmap
 <2> QED BY <2>1, <2>2
<1>3. whole' = {} /\ fresh' = <<TRUE, TRUE>> BY DEF Reset
<1> QED BY <1>2, <1>3 DEF KeysInv, KeysMatch, KeysExact

LEMMA FirstMatches ==
  ASSUME KeysMatch, NEW place \in Places, NEW heading, First(place, heading)
  PROVE  KeysInv'
<1> DEFINE near == (place - keys.base) % Cycle
           inside == near < keys.columns
           k == IF inside THEN keys ELSE Expanded(keys)
           channel == IF keys.retain THEN heading ELSE 0
           spot == IF inside THEN near ELSE place % Cycle
           flag == <<spot, channel>>
           key == <<place % Cycle, channel>>
<1>0. Cycle \in Nat \ {0} /\ place \in Int /\ keys.base \in Int /\ keys.columns \in 1 .. Cycle
  BY ProposalKeysAssumption DEF KeysMatch
<1>1. keys' = [k EXCEPT !.marked = @ \union {flag}] /\ whole' = whole \union {key}
      /\ fresh' = <<flag \notin k.marked, key \notin whole>>
  BY DEF First
<1>2. near \in 0 .. Cycle - 1 /\ place % Cycle \in 0 .. Cycle - 1
 <2>1. place - keys.base \in Int BY <1>0
 <2> QED BY <1>0, <2>1, OnCycle
<1>3. KeyOf(flag, k.base) = key
 <2>1. CASE inside
  <3>1. (near + keys.base) % Cycle = place % Cycle
   <4> HIDE DEF near
   <4> QED BY <1>0, <1>2, ColumnOf DEF near
  <3> QED BY <2>1, <3>1 DEF KeyOf
 <2>2. CASE ~inside
  <3>1. k.base = 0 BY <2>2 DEF Expanded, KeysMatch, Bitmap
  <3>2. spot = place % Cycle BY <2>2
  <3>3. ((place % Cycle) + 0) % Cycle = place % Cycle
   <4> DEFINE r == place % Cycle
   <4>1. (Cycle * 0 + r) % Cycle = r
    <5> HIDE DEF r
    <5> QED BY <1>2, CycleUnique DEF r
   <4>2. Cycle * 0 + r = r + 0
    <5> HIDE DEF r
    <5> QED BY <1>0, <1>2 DEF r
   <4> QED BY <4>1, <4>2
  <3> QED BY <3>1, <3>2, <3>3 DEF KeyOf
 <2> QED BY <2>1, <2>2
<1>4. /\ Bitmap(k)
      /\ k.base \in 0 .. Cycle - 1 /\ k.columns \in 1 .. Cycle /\ spot \in 0 .. k.columns - 1
      /\ \A m \in k.marked : m = <<m[1], m[2]>> /\ m[1] \in 0 .. k.columns - 1
      /\ \A y : y \in whole <=> \E m \in k.marked : y = KeyOf(m, k.base)
 <2>1. CASE inside BY <1>0, <1>2, <2>1 DEF KeysMatch
 <2>2. CASE ~inside
  <3>1. k.base = 0 /\ k.columns = Cycle
        /\ Bitmap(k)
    BY <2>2 DEF Expanded, KeysMatch, Bitmap
  <3>2. k.marked = {KeyOf(m, keys.base) : m \in keys.marked} BY <2>2 DEF Expanded, KeysMatch, KeyOf, Bitmap
  <3>3. ASSUME NEW m \in keys.marked
        PROVE  LET n == KeyOf(m, keys.base)
               IN  n = <<n[1], n[2]>> /\ n[1] \in 0 .. Cycle - 1 /\ KeyOf(n, 0) = n
   <4>1. m[1] + keys.base \in Int BY <1>0 DEF KeysMatch
   <4> DEFINE r == (m[1] + keys.base) % Cycle
   <4>2. r \in 0 .. Cycle - 1 BY <4>1, OnCycle
   <4>3. KeyOf(m, keys.base) = <<r, m[2]>> BY DEF KeyOf
   <4> HIDE DEF r
   <4>4. (Cycle * 0 + r) % Cycle = r BY <4>2, CycleUnique
   <4>5. Cycle * 0 + r = r + 0 BY <1>0, <4>2
   <4>6. (r + 0) % Cycle = r BY <4>4, <4>5
   <4>7. KeyOf(<<r, m[2]>>, 0) = <<r, m[2]>> BY <4>6 DEF KeyOf
   <4> QED BY <4>2, <4>3, <4>7
  <3>4. \A y : y \in whole <=> \E m \in keys.marked : y = KeyOf(m, keys.base) BY DEF KeysMatch
  <3>5. spot \in 0 .. k.columns - 1 BY <1>2, <2>2, <3>1
  <3>6. 0 \in 0 .. Cycle - 1 /\ Cycle \in 1 .. Cycle BY <1>0
  <3> HIDE DEF k, spot
  <3>7. \A n \in k.marked : n = <<n[1], n[2]>> /\ n[1] \in 0 .. Cycle - 1 /\ KeyOf(n, 0) = n BY <3>2, <3>3
  <3>8. \A y : y \in whole <=> \E n \in k.marked : y = KeyOf(n, 0) BY <3>2, <3>4, <3>7
  <3> QED BY <3>1, <3>5, <3>6, <3>7, <3>8
 <2> QED BY <2>1, <2>2
<1>5. ASSUME NEW m \in k.marked, KeyOf(m, k.base) = key PROVE m = flag
 <2>1. (m[1] + k.base) % Cycle = place % Cycle /\ m[2] = channel BY <1>5 DEF KeyOf
 <2>2. m[1] \in 0 .. Cycle - 1 /\ spot \in 0 .. Cycle - 1 /\ k.base \in Int /\ m = <<m[1], m[2]>>
  <3> HIDE DEF k, spot
  <3> QED BY <1>0, <1>4
 <2>3. (spot + k.base) % Cycle = place % Cycle BY <1>3 DEF KeyOf
 <2> HIDE DEF k, spot, channel
 <2>4. m[1] = (place - k.base) % Cycle /\ spot = (place - k.base) % Cycle BY <1>0, <2>1, <2>2, <2>3, ColumnOf
 <2> QED BY <2>1, <2>2, <2>4
<1>6. key \in whole <=> flag \in k.marked
 <2>1. key \in whole <=> \E m \in k.marked : key = KeyOf(m, k.base) BY <1>4
 <2> HIDE DEF k, flag, key
 <2> QED BY <1>3, <1>5, <2>1
<1>7. KeysExact' BY <1>1, <1>6 DEF KeysExact
<1>8. /\ keys'.base = k.base /\ keys'.columns = k.columns /\ keys'.marked = k.marked \union {flag}
      /\ Bitmap(keys')
 <2> HIDE DEF k, flag
 <2> QED BY <1>1, <1>4 DEF Bitmap
<1>9. flag = <<flag[1], flag[2]>> /\ flag[1] = spot /\ key = <<key[1], key[2]>> /\ key[1] = place % Cycle
  OBVIOUS
<1>10. \A m \in keys'.marked : m = <<m[1], m[2]>> /\ m[1] \in 0 .. keys'.columns - 1
 <2> HIDE DEF k, flag, spot
 <2> QED BY <1>4, <1>8, <1>9
<1>11. \A y : y \in whole' <=> \E m \in keys'.marked : y = KeyOf(m, keys'.base)
 <2> HIDE DEF k, flag, spot, key
 <2>1. whole' = whole \union {key} BY <1>1
 <2>2. keys'.base = k.base /\ keys'.marked = k.marked \union {flag} BY <1>8
 <2> QED BY <1>3, <1>4, <2>1, <2>2
<1>12. \A c \in whole' : c = <<c[1], c[2]>> /\ c[1] \in 0 .. Cycle - 1
 <2>1. \A c \in whole : c = <<c[1], c[2]>> /\ c[1] \in 0 .. Cycle - 1 BY DEF KeysMatch
 <2> HIDE DEF key
 <2> QED BY <1>1, <1>2, <1>9, <2>1
<1>13. KeysMatch'
 <2> HIDE DEF k, flag, spot, key
 <2> QED BY <1>4, <1>8, <1>10, <1>11, <1>12 DEF KeysMatch
<1> QED BY <1>7, <1>13 DEF KeysInv

LEMMA KeysStart == KeysInit => KeysInv
<1>1. Cycle \in Nat \ {0} BY ProposalKeysAssumption
<1> QED BY <1>1 DEF KeysInit, KeysInv, KeysMatch, KeysExact, Bitmap

LEMMA KeysStep == KeysInv /\ KeysNext => KeysInv'
<1>1. ASSUME KeysInv, KeysNext PROVE KeysInv'
 <2>1. CASE \E low \in Places, high \in Places, r \in BOOLEAN : Reset(low, high, r) BY <2>1, ResetMatches
 <2>2. CASE adds < Adds /\ \E p \in Places, h \in Headings : First(p, h) BY <1>1, <2>2, FirstMatches DEF KeysInv
 <2> QED BY <1>1, <2>1, <2>2 DEF KeysNext
<1> QED BY <1>1

\* Whatever the forecasts, the inputs latched and the moments a decision is
\* left out, a decision is what it says: the inputs it proposes survive as
\* many updates as its depth, no fallback made it shallower, a plan that
\* was adopted was searched behind the inputs really latched, no check and
\* no search, a full one behind an index cut short included, reads a frame
\* that is not indexed, and the set of proposals a layer keeps is exact.
THEOREM DecisionHonest == PolicySpec => []HonestDecision
<1> DEFINE Inv == PolicyInv /\ KeysInv
<1>1. PolicyInit /\ KeysInit => Inv BY PolicyStarts, KeysStart
<1>2. Inv /\ [(PolicyNext /\ UNCHANGED keyVars) \/ (KeysNext /\ UNCHANGED policyVars)]_<<policyVars, keyVars>> => Inv'
 <2>1. ASSUME PolicyInv, UNCHANGED policyVars PROVE PolicyInv'
   BY <2>1 DEF policyVars, PolicyInv, PolicyTyped, ExecutorTyped, Shaped, Promised, Proposal, Waiting, Faithful, Told, Safe
 <2>2. ASSUME KeysInv, UNCHANGED keyVars PROVE KeysInv'
   BY <2>2 DEF keyVars, KeysInv, KeysMatch, KeysExact, Bitmap
 <2> QED BY <2>1, <2>2, PolicyStep, KeysStep
<1>3. Inv => HonestDecision BY DEF PolicyInv, KeysInv, Told, HonestDecision
<1> QED BY <1>1, <1>2, <1>3, PTL DEF PolicySpec

----
\* The recorded planner.
TapeStates == {"running", "horizon", "terminal", "death", "step_error", "capacity"}
TapeShape(t) == t \in [frames : 0 .. Recording, danger : {t.danger}, status : TapeStates]
TapesKept ==
    /\ DOMAIN tapes = 1 .. Refinements /\ tapes = [k \in 1 .. Refinements |-> tapes[k]]
    /\ \A k \in 1 .. Refinements : TapeShape(tapes[k]) /\ (tapes[k].status \in {"horizon", "terminal"} => tapes[k].frames >= 1)

\* The tapes searched are those of the rounds before, and of this one once
\* its forecast is complete; none is empty.
SlotsKept ==
    /\ round \in Nat /\ goal \in Nat /\ goal >= 1
    /\ solving \in {"round", "wait"} => slots \subseteq 1 .. round
    /\ solving \in {"wait", "goal", "check"} => round < Refinements
    /\ solving \in {"goal", "check"} => slots \subseteq 1 .. round + 1 /\ slots # {}
    /\ slots \subseteq 1 .. Refinements
    /\ \A s \in slots : tapes[s].frames >= 1

Branched ==
    /\ branch \in [alive : BOOLEAN, exit : {"none", "zero", "nonzero", "signal"}, attempts : Nat, completed : Nat,
                    status : {"running", "horizon", "terminal", "death"}]
    /\ branch.completed <= branch.attempts /\ branch.attempts <= branch.completed + 1 /\ branch.attempts <= Recording
    /\ branch.alive /\ branch.status = "running" => branch.completed < Recording
    /\ solving # "wait" => branch = Nobody

Accounted ==
    /\ work \in [attempts : Nat, completed : Nat, charged : Nat] /\ stepped \in Nat
    /\ stepped = work.attempts + branch.attempts
    /\ work.completed <= work.attempts /\ work.attempts <= work.charged

Asked == solving # "idle" =>
    /\ ask.x \in Cells /\ ask.latched \in Inputs /\ ask.lead \in Seq(Inputs) /\ Len(ask.lead) \in 1 .. Verified - 1

ProposedPath(path) ==
    /\ path.inputs \in Seq(Inputs) /\ Len(path.inputs) = Recording
    /\ SubSeq(path.inputs, 1, Len(ask.lead)) = ask.lead
    /\ Len(ask.lead) + 1 < path.depth /\ path.depth <= Lasting(path.inputs)
WellFormed(list) ==
    /\ Len(list) \in Nat /\ DOMAIN list = 1 .. Len(list) /\ list = [i \in 1 .. Len(list) |-> list[i]]
    /\ \A i \in DOMAIN list : ProposedPath(list[i])
CheckSet == [round : Nat, inputs : Seq(Inputs), completed : Nat, status : {"horizon", "terminal", "death", "fault", "timeout"}]

Proposing ==
    /\ WellFormed(paths)
    /\ solving # "check" => paths = << >>
    /\ paths # << >> => chosen = NoCheck /\ ~faulty

Verdicts ==
    /\ checks \in Seq(CheckSet) /\ longest \in Nat
    /\ \A i \in DOMAIN checks : checks[i].round <= round
    /\ solving \in {"round", "wait"} => \A i \in DOMAIN checks : checks[i].round < round
    /\ solving \in {"goal", "check"} =>
          /\ \A i \in ThisRound : checks[i].completed <= longest
          /\ \/ longest = 0 /\ best = nominal
             \/ \E i \in ThisRound : checks[i].completed = longest /\ checks[i].inputs = SubSeq(best, 1, Verified)

Certified ==
    /\ chosen # NoCheck => checks # << >> /\ chosen = checks[Len(checks)]
    /\ \A i \in DOMAIN checks : Certifies(checks[i]) => checks[i] = chosen

RecordInv == TapesKept /\ SlotsKept /\ Branched /\ Accounted /\ Asked /\ Proposing /\ Verdicts /\ Certified

----
\* How far the tapes searched go.
LEMMA SightedIs ==
  ASSUME TapesKept, SlotsKept, slots # {}
  PROVE  Sighted \in 1 .. Recording
<1> DEFINE S == {tapes[s].frames : s \in slots}
<1>0. Recording \in Int BY RecordedPlannerAssumption
<1>1. \A s \in slots : tapes[s].frames \in 1 .. Recording
 <2> TAKE s \in slots
 <2>1. tapes[s].frames \in 0 .. Recording BY DEF TapesKept, SlotsKept, TapeShape
 <2>2. tapes[s].frames >= 1 BY DEF SlotsKept
 <2> QED BY <1>0, <2>1, <2>2
<1>2. S \subseteq 1 .. Recording /\ S # {} BY <1>1
<1>3. Sighted = Max(S) BY DEF Sighted
<1> HIDE DEF S
<1>4. S \subseteq Int /\ \A k \in S : k <= Recording BY <1>0, <1>2
<1>5. Max(S) \in S BY <1>0, <1>2, <1>4, GreatestOf
<1> QED BY <1>2, <1>3, <1>5

----
\* What a path is worth: the search's own moves and the path they become
\* give the same inputs for as long as the search reached.
LEMMA ExtendedFollows ==
  ASSUME NEW now, NEW moves \in Seq(Inputs), NEW lead \in Seq(Inputs), NEW d \in Nat, d >= 2, Len(moves) = d - 1, d <= Recording,
         lead = ask.lead, \A j \in 1 .. d - 1 : j <= Len(lead) => moves[j] = lead[j]
  PROVE  SameInputs(now, Extended(moves), moves, d)
<1> DEFINE path == Extended(moves)
<1>0. Recording \in Nat BY RecordedPlannerAssumption
<1>1. \A i \in 1 .. Recording : path[i] = IF i <= Len(lead) THEN lead[i] ELSE moves[Min({i, d - 1})]
  BY DEF Extended
<1>2. DOMAIN path = 1 .. Recording /\ Len(path) = Recording
 <2>1. path = [i \in 1 .. Recording |-> IF i <= Len(lead) THEN lead[i] ELSE moves[Min({i, d - 1})]]
   BY DEF Extended
 <2> QED BY <1>0, <2>1
<1> HIDE DEF path
<1>3. ASSUME NEW k \in 1 .. d, k # 1 PROVE InputAt(now, path, k) = InputAt(now, moves, k)
 <2>1. k - 1 \in 1 .. Recording /\ k - 1 \in 1 .. d - 1 /\ k - 1 \in Nat BY <1>0, <1>3
 <2>2. Min({k - 1, Recording}) = k - 1 /\ Min({k - 1, d - 1}) = k - 1 BY <1>0, <2>1 DEF Min
 <2>3. InputAt(now, path, k) = path[k - 1] /\ InputAt(now, moves, k) = moves[k - 1]
   BY <1>2, <1>3, <2>2 DEF InputAt
 <2>4. path[k - 1] = moves[k - 1] BY <1>1, <2>1, <2>2
 <2> QED BY <2>3, <2>4
<1>4. \A k \in 1 .. d : k = 1 => InputAt(now, path, k) = InputAt(now, moves, k) BY DEF InputAt
<1> QED BY <1>3, <1>4 DEF SameInputs, path

LEMMA ExtendedTyped ==
  ASSUME NEW moves \in Seq(Inputs), moves # << >>, ask.lead \in Seq(Inputs)
  PROVE  /\ Extended(moves) \in Seq(Inputs) /\ Len(Extended(moves)) = Recording
         /\ Len(ask.lead) <= Recording => SubSeq(Extended(moves), 1, Len(ask.lead)) = ask.lead
<1> DEFINE lead == ask.lead
           path == Extended(moves)
<1>0. Recording \in Nat /\ Len(moves) \in Nat /\ Len(moves) >= 1 /\ Len(lead) \in Nat
  BY RecordedPlannerAssumption
<1>1. path = [i \in 1 .. Recording |-> IF i <= Len(lead) THEN lead[i] ELSE moves[Min({i, Len(moves)})]]
  BY DEF Extended
<1>2. ASSUME NEW i \in 1 .. Recording PROVE (IF i <= Len(lead) THEN lead[i] ELSE moves[Min({i, Len(moves)})]) \in Inputs
 <2>1. Min({i, Len(moves)}) \in 1 .. Len(moves) BY <1>0 DEF Min
 <2> QED BY <1>0, <2>1
<1>3. path \in [1 .. Recording -> Inputs] BY <1>1, <1>2
<1>4. path \in Seq(Inputs) /\ Len(path) = Recording
 <2> HIDE DEF path
 <2> QED BY <1>0, <1>3
<1>5. ASSUME Len(lead) <= Recording PROVE SubSeq(path, 1, Len(lead)) = lead
 <2>1. \A i \in 1 .. Len(lead) : path[i] = lead[i] BY <1>0, <1>1, <1>5
 <2> HIDE DEF path
 <2> DEFINE cut == SubSeq(path, 1, Len(lead))
 <2>2. cut \in Seq(Inputs) /\ Len(cut) = Len(lead) /\ \A i \in 1 .. Len(lead) : cut[i] = path[i]
   BY <1>0, <1>4, <1>5
 <2> HIDE DEF cut
 <2>3. cut = lead BY <2>1, <2>2, SeqEqual
 <2> QED BY <2>3 DEF cut
<1> QED BY <1>4, <1>5

\* A path that is safe for d updates lasts that long.
LEMMA LastingAtLeast ==
  ASSUME Asked, solving # "idle", TapesKept, SlotsKept, slots # {}, NEW path, Proposal(path), NEW d \in 1 .. Sighted,
         NEW frames, \A k \in 1 .. d : frames[k] = Recorded(k), Safe(frames, ask.x, ask.latched, path, d)
  PROVE  d <= Lasting(path)
<1> DEFINE at == Positions(ask.x, ask.latched, path, Recording)
           own == Positions(ask.x, ask.latched, path, d)
           blocked == {k \in 1 .. Sighted : at[k] \in Recorded(k)}
<1>0. Recording \in Nat /\ ask.x \in Cells /\ ask.latched \in Inputs BY RecordedPlannerAssumption DEF Asked
<1>1. Sighted \in 1 .. Recording BY SightedIs
<1>2. d \in Nat /\ d <= Recording /\ Sighted \in Nat /\ d <= Sighted BY <1>0, <1>1
<1>3. Walk(at, ask.x, ask.latched, path, Recording) /\ Walk(own, ask.x, ask.latched, path, d)
  BY <1>0, <1>2, ProposalGives, Walks
<1>4. \A k \in 1 .. d : own[k] \notin frames[k] BY DEF Safe
<1>5. Lasting(path) = IF blocked = {} THEN Sighted ELSE Min(blocked) - 1 BY DEF Lasting, Sighted
<1> HIDE DEF at, own
<1>6. SameInputs(ask.latched, path, path, d) BY DEF SameInputs
<1>7. \A k \in 0 .. d : own[k] = at[k] BY <1>0, <1>2, <1>3, <1>6, WalksAgree
<1>8. \A k \in blocked : k > d
 <2> SUFFICES ASSUME NEW k \in blocked, k <= d PROVE FALSE BY <1>2
 <2>1. k \in 1 .. d /\ k \in 0 .. d BY <1>2
 <2> QED BY <1>4, <1>7, <2>1
<1>9. blocked \subseteq Nat BY <1>2
<1>10. CASE blocked # {}
 <2> HIDE DEF blocked
 <2>1. Min(blocked) \in blocked BY <1>9, <1>10, LeastOf
 <2>2. Min(blocked) \in Nat /\ Min(blocked) > d BY <1>8, <1>9, <2>1
 <2> QED BY <1>2, <1>5, <1>10, <2>2
<1>11. CASE blocked = {} BY <1>2, <1>5, <1>11
<1> QED BY <1>10, <1>11

----
\* What one search proposes.
LEMMA OnePath ==
  ASSUME RecordInv, solving = "goal", NEW frames, \A k \in 1 .. Sighted : frames[k] = Recorded(k),
         NEW L, Layered(L, frames, ask.x, ask.latched, ask.lead), Len(L) = Sighted, Move(ask.x, ask.latched) \notin frames[1],
         NEW d \in 1 .. Len(L), d > Len(ask.lead) + 1, NEW n \in DOMAIN L[d]
  PROVE  ProposedPath([inputs |-> Extended(PathTo(L, d, n)), depth |-> d])
<1> DEFINE moves == PathTo(L, d, n)
           path == Extended(moves)
<1>0. /\ Recording \in Nat /\ Verified \in Nat /\ Verified <= Recording
      /\ ask.x \in Cells /\ ask.latched \in Inputs /\ ask.lead \in Seq(Inputs) /\ Len(ask.lead) \in 1 .. Verified - 1
  BY RecordedPlannerAssumption DEF RecordInv, Asked
<1>1. slots # {} /\ TapesKept /\ SlotsKept /\ Asked /\ solving # "idle" BY DEF RecordInv, SlotsKept
<1>2. Sighted \in 1 .. Recording BY <1>1, SightedIs
<1>3. d \in Nat /\ d >= 3 /\ d <= Sighted /\ d <= Recording BY <1>0, <1>2
<1>4. L \in Seq(Seq(NodeSet)) /\ \A j \in 2 .. Len(L) : \A i \in DOMAIN L[j] : L[j][i].parent \in DOMAIN L[j - 1]
  BY DEF Layered, Grows, Follower
<1>5. PICK place : Placed(place, L, d) /\ moves = Along(place, L, d) BY <1>4, PathPlaced
<1>6. Along(place, L, d) # << >>
 <2>1. 1 \in DOMAIN Along(place, L, d) BY <1>3 DEF Along
 <2> QED BY <2>1
<1>7. moves = Route(place, L, d, ask.latched) BY <1>5, <1>6 DEF Route
<1> HIDE DEF moves
<1>8. /\ Proposal(moves) /\ Safe(frames, ask.x, ask.latched, moves, d) /\ Len(moves) = d - 1
      /\ \A j \in 1 .. d - 1 : j <= Len(ask.lead) => moves[j] = ask.lead[j]
  BY <1>0, <1>3, <1>5, <1>7, PathSafe
<1>9. SameInputs(ask.latched, path, moves, d) BY <1>0, <1>3, <1>8, ExtendedFollows DEF Proposal
<1>10. path \in Seq(Inputs) /\ Len(path) = Recording /\ SubSeq(path, 1, Len(ask.lead)) = ask.lead
  BY <1>0, <1>8, ExtendedTyped DEF Proposal
<1> HIDE DEF path
<1>11. Proposal(path) BY <1>0, <1>3, <1>10 DEF Proposal
<1>12. Given(ask.latched, path, d) /\ Given(ask.latched, moves, d) BY <1>0, <1>3, <1>8, <1>11, ProposalGives
<1>13. Safe(frames, ask.x, ask.latched, path, d) BY <1>0, <1>3, <1>8, <1>9, <1>12, SafeAlike
<1>14. d \in 1 .. Sighted /\ \A k \in 1 .. d : frames[k] = Recorded(k) BY <1>2, <1>3
<1>15. d <= Lasting(path) BY <1>1, <1>11, <1>13, <1>14, LastingAtLeast
<1> DEFINE e == [inputs |-> path, depth |-> d]
<1>16. e.inputs = path /\ e.depth = d OBVIOUS
<1> HIDE DEF e
<1>17. ProposedPath(e) BY <1>0, <1>10, <1>15, <1>16 DEF ProposedPath
<1> QED BY <1>17 DEF e, moves, path

LEMMA ProposalsAre ==
  ASSUME RecordInv, solving = "goal", goal <= Len(Goals)
  PROVE  WellFormed(Proposals)
<1> DEFINE frames == [j \in 1 .. Sighted |-> Recorded(j)]
           L == Layers(frames, Sighted, ask.x, ask.latched, ask.lead, PlainBeam, Goals[goal], 2)
           d == Deepest(L)
           count == IF goal = 1 THEN Len(L[d]) ELSE 1
<1>0. /\ Recording \in Nat
      /\ ask.x \in Cells /\ ask.latched \in Inputs /\ ask.lead \in Seq(Inputs) /\ Len(ask.lead) \in Nat
      /\ slots # {} /\ TapesKept /\ SlotsKept
  BY RecordedPlannerAssumption DEF RecordInv, Asked, SlotsKept
<1>1. Sighted \in 1 .. Recording BY <1>0, SightedIs
<1>2. Sighted \in Nat /\ Sighted >= 1 BY <1>0, <1>1
<1>3. Goals[goal] \in Int
 <2>1. goal \in 1 .. Len(Goals) BY RecordedPlannerAssumption DEF RecordInv, SlotsKept
 <2>2. Goals[goal] \in Cells BY <2>1, RecordedPlannerAssumption
 <2> QED BY <2>2, PolicySearchAssumption DEF Cells
<1>4. WellFormed(<< >>) BY DEF WellFormed
<1>5. CASE Move(ask.x, ask.latched) \in Recorded(1) BY <1>4, <1>5 DEF Proposals
<1>6. CASE Move(ask.x, ask.latched) \notin Recorded(1)
 <2>1. Proposals = PathsOf(L, d, count) BY <1>6 DEF Proposals, Ending, EndingAt
 <2>2. \A k \in 1 .. Sighted : frames[k] = Recorded(k) OBVIOUS
 <2> HIDE DEF frames
 <2>3. Layered(L, frames, ask.x, ask.latched, ask.lead) /\ Len(L) = Sighted BY <1>0, <1>2, <1>3, LayersAre
 <2> HIDE DEF L
 <2>4. L \in Seq(Seq(NodeSet)) /\ L # << >> /\ L[1] # << >> BY <2>3 DEF Layered
 <2>5. d \in 1 .. Len(L) /\ L[d] # << >> BY <2>4, DeepestIs
 <2> HIDE DEF d
 <2>6. L[d] \in Seq(NodeSet) BY <2>4, <2>5
 <2>7. count \in Nat /\ 1 .. count \subseteq DOMAIN L[d]
  <3>1. Len(L[d]) \in Nat /\ Len(L[d]) >= 1 /\ DOMAIN L[d] = 1 .. Len(L[d]) BY <2>5, <2>6
  <3> QED BY <3>1
 <2> HIDE DEF count
 <2>8. CASE d <= Len(ask.lead) + 1 BY <1>4, <2>1, <2>8 DEF PathsOf
 <2>9. CASE ~(d <= Len(ask.lead) + 1)
  <3> DEFINE list == [i \in 1 .. count |-> [inputs |-> Extended(PathTo(L, d, i)), depth |-> d]]
  <3>1. Proposals = list BY <2>1, <2>9 DEF PathsOf
  <3>2. ASSUME NEW i \in 1 .. count PROVE ProposedPath([inputs |-> Extended(PathTo(L, d, i)), depth |-> d])
   <4>1. i \in DOMAIN L[d] /\ d > Len(ask.lead) + 1 /\ Move(ask.x, ask.latched) \notin frames[1]
     BY <1>0, <1>2, <1>6, <2>2, <2>5, <2>7, <2>9
   <4> QED BY <2>2, <2>3, <2>5, <4>1, OnePath
  <3>3. \A i \in 1 .. count : ProposedPath(list[i]) BY <3>2
  <3>4. DOMAIN list = 1 .. count /\ Len(list) = count /\ list = [i \in 1 .. count |-> list[i]] BY <2>7
  <3> HIDE DEF list
  <3>5. WellFormed(list) BY <2>7, <3>3, <3>4 DEF WellFormed
  <3> QED BY <3>1, <3>5
 <2> QED BY <2>8, <2>9
<1> QED BY <1>5, <1>6

----
LEMMA RecordStarts == RecordInit => RecordInv
<1> SUFFICES ASSUME RecordInit PROVE RecordInv OBVIOUS
<1> USE DEF RecordInit
<1>1. TapesKept
 <2>1. Recording \in Nat BY RecordedPlannerAssumption
 <2>2. \A k \in 1 .. Refinements : TapeShape(tapes[k]) /\ tapes[k].status = "running"
   BY <2>1 DEF NoTape, TapeShape, TapeStates
 <2> QED BY <2>2 DEF TapesKept
<1>2. SlotsKept BY DEF SlotsKept
<1>3. Branched /\ Accounted /\ Asked BY RecordedPlannerAssumption DEF Branched, Accounted, Asked, Nobody, NoWork
<1>4. Proposing BY DEF Proposing, WellFormed
<1>5. Verdicts /\ Certified
 <2>1. checks \in Seq(CheckSet) /\ DOMAIN checks = {} OBVIOUS
 <2> QED BY <2>1 DEF Verdicts, Certified, ThisRound
<1> QED BY <1>1, <1>2, <1>3, <1>4, <1>5 DEF RecordInv

\* What each step makes of the tapes.
LEMMA TapeStep == RecordInv /\ RecordNext => TapesKept'
<1> SUFFICES ASSUME RecordInv, RecordNext PROVE TapesKept' OBVIOUS
<1>0. /\ Recording \in Nat /\ DOMAIN tapes = 1 .. Refinements /\ tapes = [k \in 1 .. Refinements |-> tapes[k]]
      /\ \A k \in 1 .. Refinements :
            /\ tapes[k] \in [frames : 0 .. Recording, danger : {tapes[k].danger}, status : TapeStates]
            /\ tapes[k].status \in {"horizon", "terminal"} => tapes[k].frames >= 1
  BY RecordedPlannerAssumption DEF RecordInv, TapesKept, TapeShape
<1>1. round \in Nat /\ (branch.alive => round + 1 \in 1 .. Refinements)
  BY RecordedPlannerAssumption DEF RecordInv, SlotsKept, Branched, Nobody
<1>2. ASSUME NEW r \in 1 .. Refinements, NEW t, TapeShape(t), t.status \in {"horizon", "terminal"} => t.frames >= 1,
             tapes' = [tapes EXCEPT ![r] = t]
      PROVE  TapesKept'
 <2>1. DOMAIN tapes' = 1 .. Refinements /\ tapes' = [k \in 1 .. Refinements |-> tapes'[k]] BY <1>0, <1>2
 <2>2. \A k \in 1 .. Refinements : tapes'[k] = IF k = r THEN t ELSE tapes[k] BY <1>0, <1>2
 <2>3. \A k \in 1 .. Refinements : TapeShape(tapes'[k]) /\ (tapes'[k].status \in {"horizon", "terminal"} => tapes'[k].frames >= 1)
   BY <1>0, <1>2, <2>2 DEF TapeShape
 <2> QED BY <2>1, <2>3 DEF TapesKept, TapeShape
<1>3. CASE Forecast
 <2>1. round + 1 \in 1 .. Refinements BY <1>1, <1>3, RecordedPlannerAssumption DEF Forecast
 <2> DEFINE t == [tapes[round + 1] EXCEPT !.frames = 0, !.status = "running"]
 <2>2. TapeShape(t) /\ t.status = "running"
  <3>1. tapes[round + 1] \in [frames : 0 .. Recording, danger : {tapes[round + 1].danger}, status : TapeStates]
    BY <1>0, <2>1
  <3>2. t \in [frames : 0 .. Recording, danger : {tapes[round + 1].danger}, status : TapeStates] /\ t.status = "running"
   <4> DEFINE old == tapes[round + 1]
   <4>1. DOMAIN old = {"frames", "danger", "status"} /\ DOMAIN t = DOMAIN old BY <3>1
   <4>2. t = [f \in DOMAIN old |-> IF f = "status" THEN "running" ELSE IF f = "frames" THEN 0 ELSE old[f]]
     BY <3>1
   <4>3. t.frames = 0 /\ t.status = "running" /\ t.danger = old.danger BY <4>1, <4>2
   <4>4. t = [f \in {"frames", "danger", "status"} |-> t[f]] BY <4>1, <4>2
   <4> HIDE DEF t, old
   <4>5. t \in [frames : {t.frames}, danger : {t.danger}, status : {t.status}] BY <4>4
   <4> QED BY <1>0, <4>3, <4>5 DEF TapeStates, old
  <3>3. t.danger = tapes[round + 1].danger BY <3>2
  <3> HIDE DEF t
  <3> QED BY <3>2, <3>3 DEF TapeShape
 <2>3. tapes' = [tapes EXCEPT ![round + 1] = t] BY <1>0, <1>3, <2>1 DEF Forecast
 <2> HIDE DEF t
 <2> QED BY <1>2, <2>1, <2>2, <2>3
<1>4. CASE Record
 <2> DEFINE k == branch.attempts
            at == Trace(nominal)
            status == IF DiesAt(at, k) THEN "death" ELSE IF Ends(k) THEN "terminal"
                      ELSE IF k = Recording THEN "horizon" ELSE "running"
            before == tapes[round + 1].danger
            danger == SubSeq(before, 1, k - 1) \o << Deadly(at, k) >> \o SubSeq(before, k + 1, Len(before))
            t == [frames |-> k, danger |-> danger, status |-> status]
 <2>1. round + 1 \in 1 .. Refinements /\ k \in 1 .. Recording
   BY <1>0, <1>1, <1>4 DEF Record, RecordInv, Branched
 <2>2. tapes' = [tapes EXCEPT ![round + 1] = t] BY <1>0, <1>4, <2>1 DEF Record
 <2>3. status \in TapeStates BY DEF TapeStates
 <2> HIDE DEF status, danger
 <2>4. TapeShape(t) /\ t.frames >= 1 BY <1>0, <2>1, <2>3 DEF TapeShape
 <2> HIDE DEF t
 <2> QED BY <1>2, <2>1, <2>2, <2>4
<1>5. CASE BranchFails
 <2>1. round + 1 \in 1 .. Refinements BY <1>1, <1>5 DEF BranchFails
 <2>2. PICK s \in {"step_error", "capacity"} : tapes' = [tapes EXCEPT ![round + 1].status = s]
   BY <1>5 DEF BranchFails
 <2> DEFINE t == [tapes[round + 1] EXCEPT !.status = s]
 <2>3. TapeShape(t) /\ t.status = s
  <3>1. tapes[round + 1] \in [frames : 0 .. Recording, danger : {tapes[round + 1].danger}, status : TapeStates]
    BY <1>0, <2>1
  <3>2. t \in [frames : 0 .. Recording, danger : {tapes[round + 1].danger}, status : TapeStates] /\ t.status = s
    BY <1>0, <3>1 DEF TapeStates
  <3>3. t.danger = tapes[round + 1].danger BY <3>2
  <3> HIDE DEF t
  <3> QED BY <3>2, <3>3 DEF TapeShape
 <2>4. tapes' = [tapes EXCEPT ![round + 1] = t] BY <1>0, <2>1, <2>2
 <2> HIDE DEF t
 <2> QED BY <1>2, <2>1, <2>3, <2>4
<1>6. CASE ~(Forecast \/ Record \/ BranchFails)
 <2>1. UNCHANGED tapes
   BY <1>6 DEF RecordNext, Ask, Expire, Attempt, BranchExits, BranchDies, Forecasted, Abandoned, Propose, ProposeNothing,
               Check, Examine, Judged, NextGoal, NextRound, Answer
 <2> QED BY <2>1 DEF RecordInv, TapesKept, TapeShape
<1> QED BY <1>3, <1>4, <1>5, <1>6

LEMMA AliveWaits == RecordInv /\ branch.alive => solving = "wait"
<1> SUFFICES ASSUME RecordInv, branch.alive, solving # "wait" PROVE FALSE OBVIOUS
<1>1. branch = Nobody BY DEF RecordInv, Branched
<1>2. Nobody.alive = FALSE BY DEF Nobody
<1> QED BY <1>1, <1>2, Zenon

\* Which tapes are searched.
LEMMA SlotStep == RecordInv /\ RecordNext => SlotsKept'
<1> SUFFICES ASSUME RecordInv, RecordNext PROVE SlotsKept' OBVIOUS
<1>0. /\ Refinements \in Nat /\ Recording \in Nat /\ SlotsKept /\ round \in Nat
      /\ DOMAIN tapes = 1 .. Refinements
  BY RecordedPlannerAssumption DEF RecordInv, SlotsKept, TapesKept
<1>1. ASSUME solving \in {"round", "wait"}, solving' = "wait", UNCHANGED <<round, goal, slots>>, round < Refinements,
             \A s \in slots : tapes'[s].frames = tapes[s].frames
      PROVE  SlotsKept'
  BY <1>0, <1>1 DEF SlotsKept
<1>2. \A s \in slots : solving \in {"round", "wait"} => s # round + 1 /\ s \in DOMAIN tapes
  BY <1>0 DEF SlotsKept
<1>3. CASE Ask BY <1>3, RecordedPlannerAssumption DEF Ask, SlotsKept
<1>4. CASE Forecast
 <2>1. \A s \in slots : tapes'[s] = tapes[s] BY <1>2, <1>4 DEF Forecast
 <2> QED BY <1>1, <1>4, <2>1 DEF Forecast
<1>5. CASE Record \/ BranchFails
 <2>1. solving = "wait" /\ UNCHANGED <<solving, round, goal, slots>> /\ round < Refinements
   BY <1>0, <1>5, AliveWaits DEF Record, BranchFails, BranchOnly, SlotsKept
 <2>2. \A s \in slots : tapes'[s] = tapes[s] BY <1>2, <1>5, <2>1 DEF Record, BranchFails
 <2> QED BY <1>1, <2>1, <2>2
<1>6. CASE Forecasted
 <2>1. solving = "wait" /\ round < Refinements /\ UNCHANGED <<round, tapes>>
   BY <1>0, <1>6 DEF Forecasted, SlotsKept
 <2>2. CASE branch.exit # "zero" \/ Failed(tapes[round + 1])
  <3>1. solving' = "done" /\ UNCHANGED <<slots, goal>> BY <1>6, <2>2 DEF Forecasted
  <3> QED BY <1>0, <2>1, <3>1 DEF SlotsKept
 <2>3. CASE ~(branch.exit # "zero" \/ Failed(tapes[round + 1]))
  <3>1. solving' = "goal" /\ slots' = slots \union {round + 1} /\ goal' = 1 BY <1>6, <2>3 DEF Forecasted
  <3>2. tapes[round + 1].frames >= 1
   <4>1. round + 1 \in 1 .. Refinements BY <1>0, <2>1
   <4>2. tapes[round + 1].frames \in 0 .. Recording BY <4>1 DEF RecordInv, TapesKept, TapeShape
   <4>3. tapes[round + 1].status \in {"horizon", "terminal"} => tapes[round + 1].frames >= 1
     BY <4>1 DEF RecordInv, TapesKept
   <4> QED BY <1>0, <2>3, <4>2, <4>3 DEF Failed
  <3> QED BY <1>0, <2>1, <3>1, <3>2 DEF SlotsKept
 <2> QED BY <2>2, <2>3
<1>7. CASE Attempt \/ BranchExits \/ BranchDies \/ Expire
 <2>1. UNCHANGED <<solving, round, goal, slots, tapes>>
   BY <1>7 DEF Attempt, BranchExits, BranchDies, BranchOnly, Expire
 <2> QED BY <1>0, <2>1 DEF SlotsKept
<1>8. CASE Abandoned \/ Answer
 <2>1. UNCHANGED <<round, goal, slots, tapes>> /\ solving' = "done" BY <1>8 DEF Abandoned, Answer
 <2> QED BY <1>0, <2>1 DEF SlotsKept
<1>9. CASE Propose \/ ProposeNothing \/ Check
 <2>1. UNCHANGED <<round, goal, slots, tapes>> /\ solving \in {"goal", "check"} /\ solving' \in {"goal", "check"}
   BY <1>9 DEF Propose, ProposeNothing, Check, Examine, Judged
 <2> QED BY <1>0, <2>1 DEF SlotsKept
<1>10. CASE NextGoal
 <2>1. UNCHANGED <<round, slots, tapes>> /\ solving = "check" /\ solving' = "goal" /\ goal' = goal + 1
   BY <1>10 DEF NextGoal
 <2> QED BY <1>0, <2>1 DEF SlotsKept
<1>11. CASE NextRound
 <2>1. UNCHANGED <<goal, slots, tapes>> /\ solving = "goal" /\ solving' = "round" /\ round' = round + 1
   BY <1>11 DEF NextRound
 <2> QED BY <1>0, <2>1 DEF SlotsKept
<1> QED BY <1>3, <1>4, <1>5, <1>6, <1>7, <1>8, <1>9, <1>10, <1>11 DEF RecordNext

\* The branch that records, and what it costs.
LEMMA BranchStep == RecordInv /\ RecordNext => Branched' /\ Accounted'
<1> SUFFICES ASSUME RecordInv, RecordNext PROVE Branched' /\ Accounted' OBVIOUS
<1>0. Recording \in Nat /\ Recording >= 1 /\ Branched /\ Accounted BY RecordedPlannerAssumption DEF RecordInv
<1>1. ASSUME branch' = Nobody PROVE Branched' BY <1>0, <1>1 DEF Branched, Nobody
<1>2. CASE Ask BY <1>1, <1>2 DEF Ask, Accounted, Nobody, NoWork
<1>3. CASE Forecast
 <2>1. solving' = "wait" /\ UNCHANGED <<work, stepped>> /\ branch' = [Nobody EXCEPT !.alive = TRUE] /\ branch = Nobody
   BY <1>0, <1>3 DEF Forecast, Branched
 <2>2. branch' = [alive |-> TRUE, exit |-> "none", attempts |-> 0, completed |-> 0, status |-> "running"] /\ branch.attempts = 0
   BY <2>1 DEF Nobody
 <2>3. Branched'
  <3>1. branch' \in [alive : BOOLEAN, exit : {"none", "zero", "nonzero", "signal"}, attempts : Nat, completed : Nat,
                     status : {"running", "horizon", "terminal", "death"}]
    BY <2>2
  <3>2. branch'.attempts = 0 /\ branch'.completed = 0 BY <2>2
  <3>3. Branched' <=> (/\ branch' \in [alive : BOOLEAN, exit : {"none", "zero", "nonzero", "signal"}, attempts : Nat,
                                       completed : Nat, status : {"running", "horizon", "terminal", "death"}]
                       /\ branch'.completed <= branch'.attempts /\ branch'.attempts <= branch'.completed + 1
                       /\ branch'.attempts <= Recording
                       /\ branch'.alive /\ branch'.status = "running" => branch'.completed < Recording
                       /\ solving' # "wait" => branch' = Nobody)
    BY DEF Branched
  <3> QED BY <1>0, <2>1, <3>1, <3>2, <3>3
 <2>4. Accounted' BY <1>0, <2>1, <2>2 DEF Accounted
 <2> QED BY <2>3, <2>4
<1>4. CASE Attempt
 <2>1. branch' = [branch EXCEPT !.attempts = @ + 1] /\ stepped' = stepped + 1 /\ UNCHANGED <<work, solving>>
       /\ branch.alive /\ branch.attempts = branch.completed /\ branch.status = "running"
   BY <1>4 DEF Attempt, BranchOnly
 <2>2. branch.completed < Recording /\ solving = "wait" BY <1>0, <2>1 DEF Branched, Nobody
 <2> QED BY <1>0, <2>1, <2>2 DEF Branched, Accounted
<1>5. CASE Record
 <2> DEFINE k == branch.attempts
            at == Trace(nominal)
            status == IF DiesAt(at, k) THEN "death" ELSE IF Ends(k) THEN "terminal"
                      ELSE IF k = Recording THEN "horizon" ELSE "running"
 <2>1. branch' = [branch EXCEPT !.completed = k, !.status = status] /\ UNCHANGED <<work, stepped, solving>>
       /\ branch.alive /\ k = branch.completed + 1
   BY <1>5 DEF Record, BranchOnly
 <2>2. status \in {"running", "horizon", "terminal", "death"} /\ (status = "running" => k # Recording) OBVIOUS
 <2> HIDE DEF status
 <2>3. branch' \in [alive : BOOLEAN, exit : {"none", "zero", "nonzero", "signal"}, attempts : Nat, completed : Nat,
                    status : {"running", "horizon", "terminal", "death"}]
   BY <1>0, <2>1, <2>2 DEF Branched
 <2>4. branch'.completed = k /\ branch'.attempts = k /\ branch'.status = status /\ solving = "wait"
   BY <1>0, <2>1 DEF Branched, Nobody
 <2> QED BY <1>0, <2>1, <2>2, <2>3, <2>4 DEF Branched, Accounted
<1>6. CASE BranchFails
 <2>1. branch.alive /\ branch.attempts = branch.completed + 1 /\ UNCHANGED <<work, stepped, solving>>
   BY <1>6 DEF BranchFails, BranchOnly
 <2>2. PICK n \in {branch.completed, branch.completed + 1} :
          \/ n = branch.completed /\ branch' = [branch EXCEPT !.alive = FALSE, !.exit = "nonzero"]
          \/ branch' = [branch EXCEPT !.alive = FALSE, !.exit = "nonzero", !.completed = n]
   BY <1>6 DEF BranchFails
 <2>3. DOMAIN branch = {"alive", "exit", "attempts", "completed", "status"} BY <1>0 DEF Branched
 <2>4. /\ branch' = [f \in {"alive", "exit", "attempts", "completed", "status"} |-> branch'[f]]
       /\ branch'.alive = FALSE /\ branch'.exit = "nonzero" /\ branch'.completed = n
       /\ branch'.attempts = branch.attempts /\ branch'.status = branch.status
  <3>1. CASE n = branch.completed /\ branch' = [branch EXCEPT !.alive = FALSE, !.exit = "nonzero"] BY <2>3, <3>1
  <3>2. CASE branch' = [branch EXCEPT !.alive = FALSE, !.exit = "nonzero", !.completed = n] BY <2>3, <3>2
  <3> QED BY <2>2, <3>1, <3>2
 <2>5. branch' \in [alive : BOOLEAN, exit : {"none", "zero", "nonzero", "signal"}, attempts : Nat, completed : Nat,
                    status : {"running", "horizon", "terminal", "death"}]
  <3>1. branch' \in [alive : {branch'.alive}, exit : {branch'.exit}, attempts : {branch'.attempts},
                     completed : {branch'.completed}, status : {branch'.status}]
    BY <2>4
  <3>2. branch.attempts \in Nat /\ n \in Nat /\ branch.status \in {"running", "horizon", "terminal", "death"}
    BY <1>0, <2>2 DEF Branched
  <3>3. /\ branch'.alive \in BOOLEAN /\ branch'.exit \in {"none", "zero", "nonzero", "signal"} /\ branch'.attempts \in Nat
        /\ branch'.completed \in Nat /\ branch'.status \in {"running", "horizon", "terminal", "death"}
    BY <2>4, <3>2
  <3> QED BY <3>1, <3>3
 <2>6. solving = "wait" BY <2>1, AliveWaits
 <2> QED BY <1>0, <2>1, <2>2, <2>4, <2>5, <2>6 DEF Branched, Accounted
<1>7. CASE BranchExits \/ BranchDies
 <2>1. PICK e \in {"zero", "signal"} : branch' = [branch EXCEPT !.alive = FALSE, !.exit = e]
   BY <1>7 DEF BranchExits, BranchDies
 <2>2. UNCHANGED <<work, stepped, solving>> /\ branch.alive BY <1>7 DEF BranchExits, BranchDies, BranchOnly
 <2>3. branch' \in [alive : BOOLEAN, exit : {"none", "zero", "nonzero", "signal"}, attempts : Nat, completed : Nat,
                    status : {"running", "horizon", "terminal", "death"}]
   BY <1>0, <2>1 DEF Branched
 <2>4. branch'.alive = FALSE /\ branch'.completed = branch.completed /\ branch'.attempts = branch.attempts /\ solving = "wait"
   BY <1>0, <2>1, <2>2 DEF Branched, Nobody
 <2> QED BY <1>0, <2>2, <2>3, <2>4 DEF Branched, Accounted
<1>8. CASE Forecasted \/ Abandoned
 <2>1. branch' = Nobody /\ UNCHANGED stepped BY <1>8 DEF Forecasted, Abandoned
 <2>2. PICK cost \in {branch.attempts, Recording} :
          work' = [attempts |-> work.attempts + branch.attempts, completed |-> work.completed + branch.completed,
                   charged |-> work.charged + cost]
   BY <1>8 DEF Forecasted, Abandoned, Charge
 <2>3. Accounted' BY <1>0, <2>1, <2>2 DEF Accounted, Branched, Nobody
 <2> QED BY <1>1, <2>1, <2>3
<1>9. CASE Expire
 <2>1. UNCHANGED <<work, stepped, solving, branch>> BY <1>9 DEF Expire
 <2> QED BY <1>0, <2>1 DEF Branched, Accounted
<1>10. CASE Propose \/ ProposeNothing \/ Check \/ NextGoal \/ NextRound \/ Answer
 <2>1. UNCHANGED <<work, stepped, branch>> /\ solving # "wait"
   BY <1>10 DEF Propose, ProposeNothing, Check, Examine, Judged, NextGoal, NextRound, Answer
 <2>2. branch = Nobody BY <1>0, <2>1 DEF Branched
 <2> QED BY <1>0, <1>1, <2>1, <2>2 DEF Accounted
<1> QED BY <1>2, <1>3, <1>4, <1>5, <1>6, <1>7, <1>8, <1>9, <1>10 DEF RecordNext

LEMMA AskStep == RecordInv /\ RecordNext => Asked'
<1> SUFFICES ASSUME RecordInv, RecordNext PROVE Asked' OBVIOUS
<1>1. CASE Ask
 <2>1. PICK r \in Requests, w \in Worlds : ask' = [world |-> w, x |-> r.x, latched |-> r.latched, lead |-> r.lead]
   BY <1>1 DEF Ask
 <2> QED BY <2>1, RecordedPlannerAssumption DEF Asked
<1>2. CASE ~Ask
 <2>1. UNCHANGED ask /\ (solving = "idle" => solving' = "idle")
   BY <1>2 DEF RecordNext, Expire, Forecast, Attempt, Record, BranchFails, BranchExits, BranchDies, BranchOnly, Forecasted,
               Abandoned, Propose, ProposeNothing, Check, Examine, Judged, NextGoal, NextRound, Answer
 <2> QED BY <2>1 DEF RecordInv, Asked
<1> QED BY <1>1, <1>2

----
\* What verifying a path finds.
Found(check) ==
    /\ check \in CheckSet /\ check.round = round /\ check.inputs = SubSeq(Head(paths).inputs, 1, Verified)
    /\ Judged(Head(paths).inputs, check)

LEMMA HeadProposed ==
  ASSUME WellFormed(paths), paths # << >>
  PROVE  /\ ProposedPath(Head(paths)) /\ Head(paths) = paths[1]
         /\ WellFormed(Tail(paths))
<1>1. Len(paths) \in Nat /\ Len(paths) >= 1 /\ DOMAIN paths = 1 .. Len(paths)
 <2>1. Len(paths) = 0 => paths = << >> BY DEF WellFormed
 <2> QED BY <2>1 DEF WellFormed
<1> DEFINE P == {paths[i] : i \in 1 .. Len(paths)}
           rest == Tail(paths)
<1>2. paths \in Seq(P) BY <1>1 DEF WellFormed
<1>3. Head(paths) = paths[1] BY <1>2
<1>4. Len(rest) = Len(paths) - 1 /\ rest \in Seq(P) /\ \A i \in 1 .. Len(rest) : rest[i] = paths[i + 1]
  BY <1>1, <1>2
<1> HIDE DEF P, rest
<1>5. /\ Len(rest) \in Nat /\ DOMAIN rest = 1 .. Len(rest) /\ rest = [i \in 1 .. Len(rest) |-> rest[i]]
      /\ \A i \in 1 .. Len(rest) : i + 1 \in 1 .. Len(paths)
  BY <1>1, <1>4
<1>6. \A i \in DOMAIN rest : ProposedPath(rest[i]) BY <1>1, <1>4, <1>5 DEF WellFormed
<1>7. WellFormed(rest) BY <1>5, <1>6 DEF WellFormed
<1>8. ProposedPath(paths[1]) BY <1>1 DEF WellFormed
<1> QED BY <1>3, <1>7, <1>8 DEF rest

LEMMA CheckFinds == RecordInv /\ Check => \E check : Found(check)
<1> SUFFICES ASSUME RecordInv, Check PROVE \E check : Found(check) OBVIOUS
<1> DEFINE path == Head(paths).inputs
           truth == Outcome(path, Verified)
           Typed(c) == c \in CheckSet /\ c.round = round /\ c.inputs = SubSeq(path, 1, Verified)
<1>0. Recording \in Nat /\ Verified \in Nat /\ Verified >= 1 /\ Verified <= Recording /\ round \in Nat
  BY RecordedPlannerAssumption DEF RecordInv, SlotsKept
<1>1. path \in Seq(Inputs) /\ Len(path) = Recording
  BY HeadProposed DEF RecordInv, Proposing, ProposedPath, Check
<1>2. Examine(path, truth) BY DEF Check
<1> HIDE DEF path
<1>3. Typed(truth)
 <2> DEFINE at == Trace(SubSeq(path, 1, Verified))
            stops == {k \in 1 .. Verified : DiesAt(at, k) \/ Ends(k)}
            k == IF stops = {} THEN Verified ELSE Min(stops)
            status == IF DiesAt(at, k) THEN "death" ELSE IF Ends(k) THEN "terminal" ELSE "horizon"
 <2>1. truth = [round |-> round, inputs |-> SubSeq(path, 1, Verified), completed |-> k, status |-> status]
   BY DEF Outcome
 <2> HIDE DEF truth
 <2>2. stops \subseteq Nat BY <1>0
 <2> HIDE DEF stops
 <2>3. k \in Nat
  <3>1. stops # {} => Min(stops) \in stops BY <2>2, LeastOf
  <3> QED BY <1>0, <2>2, <3>1
 <2>4. status \in {"horizon", "terminal", "death", "fault", "timeout"} OBVIOUS
 <2>5. SubSeq(path, 1, Verified) \in Seq(Inputs) BY <1>0, <1>1
 <2> HIDE DEF status, k
 <2> QED BY <1>0, <2>1, <2>3, <2>4, <2>5 DEF CheckSet
<1>4. CASE Judged(path, truth)
 <2> HIDE DEF truth
 <2>1. Found(truth) BY <1>3, <1>4 DEF Found, path
 <2> QED BY <2>1
<1>5. CASE ~Judged(path, truth)
 <2>1. PICK status \in {"fault", "timeout"}, k \in {0, truth.completed} :
          Judged(path, [truth EXCEPT !.status = status, !.completed = k])
   BY <1>2, <1>5 DEF Examine
 <2> HIDE DEF truth
 <2> DEFINE check == [truth EXCEPT !.status = status, !.completed = k]
 <2>2. DOMAIN truth = {"round", "inputs", "completed", "status"} /\ truth.completed \in Nat /\ truth.inputs \in Seq(Inputs)
   BY <1>3 DEF CheckSet
 <2>3. /\ check = [f \in {"round", "inputs", "completed", "status"} |-> check[f]]
       /\ check.round = round /\ check.inputs = SubSeq(path, 1, Verified) /\ check.completed = k /\ check.status = status
   BY <1>3, <2>2
 <2> HIDE DEF check
 <2>4. check \in [round : {check.round}, inputs : {check.inputs}, completed : {check.completed}, status : {check.status}]
   BY <2>3
 <2>5. /\ check.round \in Nat /\ check.inputs \in Seq(Inputs) /\ check.completed \in Nat
       /\ check.status \in {"horizon", "terminal", "death", "fault", "timeout"}
   BY <1>0, <1>3, <2>1, <2>2, <2>3
 <2>6. check \in CheckSet BY <2>4, <2>5 DEF CheckSet
 <2>7. Judged(path, check) BY <2>1 DEF check
 <2>8. Found(check) BY <2>3, <2>6, <2>7 DEF Found, path
 <2> QED BY <2>8
<1> QED BY <1>4, <1>5

LEMMA StillWellFormed ==
  ASSUME UNCHANGED <<ask, tapes, slots>>, NEW list, WellFormed(list), paths' = list
  PROVE  WellFormed(paths)'
<1>1. \A p : Lasting(p)' = Lasting(p) BY DEF Lasting, Recorded
<1>2. \A p : ProposedPath(p) => ProposedPath(p)' BY <1>1 DEF ProposedPath
<1>3. WellFormed(list)' BY <1>2 DEF WellFormed
<1> QED BY <1>3 DEF WellFormed

\* What each step makes of the proposals.
LEMMA ProposalStep == RecordInv /\ RecordNext => Proposing'
<1> SUFFICES ASSUME RecordInv, RecordNext PROVE Proposing' OBVIOUS
<1>0. Proposing /\ WellFormed(paths) BY DEF RecordInv, Proposing
<1>1. ASSUME paths' = << >> PROVE Proposing' BY <1>1 DEF Proposing, WellFormed
<1>2. ASSUME UNCHANGED <<ask, tapes, slots>>, NEW list, WellFormed(list), paths' = list PROVE WellFormed(paths)'
  BY <1>2, StillWellFormed
<1>3. CASE Propose
 <2>1. paths' = Proposals /\ UNCHANGED <<ask, tapes, slots, chosen, faulty>> /\ solving' = "check" /\ chosen = NoCheck /\ ~faulty
   BY <1>3 DEF Propose, Going
 <2>2. WellFormed(Proposals) BY <1>3, ProposalsAre DEF Propose
 <2>3. WellFormed(paths)' BY <1>2, <2>1, <2>2
 <2> QED BY <2>1, <2>3 DEF Proposing
<1>4. CASE Check
 <2>1. PICK check : Found(check) BY <1>4, CheckFinds
 <2>2. solving = "check" /\ paths # << >> /\ UNCHANGED <<ask, tapes, slots, solving>>
   BY <1>4, <2>1 DEF Check, Found, Judged
 <2>3. paths' = IF chosen' # NoCheck \/ faulty' THEN << >> ELSE Tail(paths) BY <2>1 DEF Found, Judged
 <2>4. WellFormed(Tail(paths)) BY <1>0, <2>2, HeadProposed
 <2>5. CASE chosen' # NoCheck \/ faulty' BY <1>1, <2>3, <2>5
 <2>6. CASE ~(chosen' # NoCheck \/ faulty')
  <3>1. WellFormed(paths)' BY <1>2, <2>2, <2>3, <2>4, <2>6
  <3> QED BY <2>2, <2>6, <3>1 DEF Proposing
 <2> QED BY <2>5, <2>6
<1>5. CASE Expire
 <2>1. UNCHANGED <<ask, tapes, slots, paths, solving, chosen, faulty>> BY <1>5 DEF Expire
 <2>2. WellFormed(paths)' BY <1>0, <1>2, <2>1
 <2> QED BY <1>0, <2>1, <2>2 DEF Proposing
<1>6. CASE Ask \/ ProposeNothing \/ NextGoal BY <1>1, <1>6 DEF Ask, ProposeNothing, NextGoal
<1>7. CASE Attempt \/ Record \/ BranchFails \/ BranchExits \/ BranchDies
 <2>1. solving = "wait" /\ UNCHANGED paths
   BY <1>7, AliveWaits DEF Attempt, Record, BranchFails, BranchExits, BranchDies, BranchOnly
 <2> QED BY <1>0, <1>1, <2>1 DEF Proposing
<1>8. CASE Forecast \/ Answer \/ Forecasted \/ Abandoned \/ NextRound
 <2>1. solving # "check" /\ UNCHANGED paths BY <1>8 DEF Forecast, Answer, Forecasted, Abandoned, NextRound
 <2> QED BY <1>0, <1>1, <2>1 DEF Proposing
<1> QED BY <1>3, <1>4, <1>5, <1>6, <1>7, <1>8 DEF RecordNext

\* What each step makes of what was verified.
LEMMA NotCertified == ~Certifies(NoCheck)
  BY DEF Certifies, NoCheck

LEMMA JudgedVerdicts ==
  ASSUME RecordInv, solving = "check", solving' = "check", paths # << >>, NEW check, Found(check)
  PROVE  Verdicts' /\ Certified'
<1> DEFINE path == Head(paths).inputs
           n == Len(checks)
<1>1. /\ checks \in Seq(CheckSet) /\ longest \in Nat /\ round \in Nat /\ n \in Nat
      /\ check \in CheckSet /\ check.completed \in Nat /\ check.round = round /\ check.inputs = SubSeq(path, 1, Verified)
  BY DEF RecordInv, Verdicts, SlotsKept, Found, CheckSet
<1>2. /\ checks' = Append(checks, check) /\ UNCHANGED <<round, nominal>>
      /\ best' = IF check.completed > longest THEN path ELSE best
      /\ longest' = Max({longest, check.completed})
      /\ chosen' = IF Certifies(check) THEN check ELSE chosen
  BY DEF Found, Judged
<1> HIDE DEF path
<1>3. /\ checks' \in Seq(CheckSet) /\ Len(checks') = n + 1 /\ checks'[n + 1] = check
      /\ \A i \in 1 .. n : checks'[i] = checks[i]
  BY <1>1, <1>2
<1>4. DOMAIN checks = 1 .. n /\ DOMAIN checks' = 1 .. n + 1 BY <1>1, <1>3
<1>5. longest' = IF check.completed > longest THEN check.completed ELSE longest BY <1>1, <1>2 DEF Max
<1>6. longest' \in Nat /\ longest' >= longest /\ longest' >= check.completed BY <1>1, <1>5
<1>7. \A i \in DOMAIN checks : checks[i].completed \in Nat /\ checks[i].round <= round
 <2>1. \A i \in DOMAIN checks : checks[i] \in CheckSet BY <1>1
 <2> QED BY <2>1 DEF CheckSet, RecordInv, Verdicts
<1>8. /\ \A i \in DOMAIN checks : checks[i].round = round => checks[i].completed <= longest
      /\ \/ longest = 0 /\ best = nominal
         \/ \E i \in DOMAIN checks : /\ checks[i].round = round /\ checks[i].completed = longest
                                     /\ checks[i].inputs = SubSeq(best, 1, Verified)
  BY DEF RecordInv, Verdicts, ThisRound
<1>9. \A i \in DOMAIN checks' : checks'[i].round <= round' /\ (checks'[i].round = round' => checks'[i].completed <= longest')
 <2> TAKE i \in DOMAIN checks'
 <2>1. CASE i = n + 1 BY <1>1, <1>2, <1>3, <1>6, <2>1
 <2>2. CASE i # n + 1
  <3>1. i \in DOMAIN checks /\ checks'[i] = checks[i] BY <1>1, <1>3, <1>4, <2>2
  <3>2. checks[i].completed \in Nat /\ checks[i].round <= round /\ (checks[i].round = round => checks[i].completed <= longest)
    BY <1>7, <1>8, <3>1
  <3> QED BY <1>1, <1>2, <1>6, <3>1, <3>2
 <2> QED BY <2>1, <2>2
<1>10. \/ longest' = 0 /\ best' = nominal'
       \/ \E i \in DOMAIN checks' : /\ checks'[i].round = round' /\ checks'[i].completed = longest'
                                    /\ checks'[i].inputs = SubSeq(best', 1, Verified)
 <2>1. CASE check.completed > longest
  <3>1. n + 1 \in DOMAIN checks'
   <4>1. n + 1 \in 1 .. n + 1 BY <1>1
   <4> QED BY <1>4, <4>1
  <3>2. best' = path /\ longest' = check.completed BY <1>2, <1>5, <2>1
  <3>3. /\ checks'[n + 1].round = round' /\ checks'[n + 1].completed = longest'
        /\ checks'[n + 1].inputs = SubSeq(best', 1, Verified)
    BY <1>1, <1>2, <1>3, <3>2
  <3> QED BY <3>1, <3>3
 <2>2. CASE ~(check.completed > longest)
  <3>1. best' = best /\ longest' = longest /\ \A i \in DOMAIN checks : i \in DOMAIN checks' /\ checks'[i] = checks[i]
    BY <1>1, <1>2, <1>3, <1>4, <1>5, <2>2
  <3> QED BY <1>2, <1>8, <3>1
 <2> QED BY <2>1, <2>2
<1>11. Verdicts' BY <1>3, <1>6, <1>9, <1>10 DEF Verdicts, ThisRound
<1>12. chosen = NoCheck BY DEF RecordInv, Proposing
<1>13. \A i \in DOMAIN checks : ~Certifies(checks[i]) BY <1>12, NotCertified DEF RecordInv, Certified
<1>14. \A i \in DOMAIN checks' : Certifies(checks'[i]) => checks'[i] = chosen'
 <2> TAKE i \in DOMAIN checks'
 <2>1. i = n + 1 \/ (i \in DOMAIN checks /\ checks'[i] = checks[i]) BY <1>1, <1>3, <1>4
 <2> QED BY <1>2, <1>3, <1>13, <2>1
<1>15. chosen' # NoCheck => checks' # << >> /\ chosen' = checks'[Len(checks')]
 <2>1. checks' # << >> BY <1>1, <1>3
 <2> QED BY <1>2, <1>3, <1>12, <2>1
<1>16. Certified' BY <1>14, <1>15 DEF Certified, Certifies, NoCheck
<1> QED BY <1>11, <1>16

LEMMA VerdictStep == RecordInv /\ RecordNext => Verdicts' /\ Certified'
<1> SUFFICES ASSUME RecordInv, RecordNext PROVE Verdicts' /\ Certified' OBVIOUS
<1>0. Verdicts /\ Certified /\ round \in Nat BY DEF RecordInv, SlotsKept
<1>1. ASSUME UNCHANGED <<checks, chosen>> PROVE Certified' BY <1>0, <1>1 DEF Certified, Certifies
<1>2. ASSUME UNCHANGED <<checks, round, longest>>, solving' \notin {"goal", "check"},
             solving' \in {"round", "wait"} => solving \in {"round", "wait"}
      PROVE  Verdicts'
  BY <1>0, <1>2 DEF Verdicts
<1>3. ASSUME UNCHANGED <<checks, round, longest, best, nominal>>, solving \in {"goal", "check"}, solving' \in {"goal", "check"}
      PROVE  Verdicts'
  BY <1>0, <1>3 DEF Verdicts, ThisRound
<1>4. CASE Ask
 <2>1. checks' = << >> /\ longest' = 0 /\ chosen' = NoCheck /\ solving' = "round" BY <1>4 DEF Ask
 <2>2. checks' \in Seq(CheckSet) /\ DOMAIN checks' = {} BY <2>1
 <2> QED BY <2>1, <2>2 DEF Verdicts, Certified, NoCheck
<1>5. CASE Forecast \/ Answer \/ Abandoned
 <2>1. UNCHANGED <<checks, round, longest, chosen>> /\ solving \in {"round", "wait"} /\ solving' \in {"wait", "done"}
   BY <1>5 DEF Forecast, Answer, Abandoned
 <2> QED BY <1>1, <1>2, <2>1
<1>6. CASE Attempt \/ Record \/ BranchFails \/ BranchExits \/ BranchDies
 <2>1. UNCHANGED <<checks, round, longest, chosen, solving>> /\ solving = "wait"
   BY <1>6, AliveWaits DEF Attempt, Record, BranchFails, BranchExits, BranchDies, BranchOnly
 <2> QED BY <1>1, <1>2, <2>1
<1>7. CASE Expire
 <2>1. UNCHANGED <<checks, round, longest, chosen, solving, best, nominal>> BY <1>7 DEF Expire
 <2> QED BY <1>1, <2>1, <1>0 DEF Verdicts, ThisRound
<1>8. CASE Forecasted
 <2>1. UNCHANGED <<checks, round, nominal, chosen>> /\ solving = "wait" BY <1>8 DEF Forecasted
 <2>2. CASE UNCHANGED longest /\ solving' = "done" BY <1>1, <1>2, <2>1, <2>2
 <2>3. CASE ~(UNCHANGED longest /\ solving' = "done")
  <3>1. longest' = 0 /\ best' = nominal /\ solving' = "goal" BY <1>8, <2>3 DEF Forecasted
  <3>2. \A i \in DOMAIN checks : checks[i].round < round /\ checks[i].round \in Nat
   <4>1. \A i \in DOMAIN checks : checks[i] \in CheckSet BY <1>0 DEF Verdicts
   <4> QED BY <1>0, <2>1, <4>1 DEF Verdicts, CheckSet
  <3>3. ThisRound' = {} BY <1>0, <2>1, <3>2 DEF ThisRound
  <3>4. Verdicts' BY <1>0, <2>1, <3>1, <3>3 DEF Verdicts
  <3> QED BY <1>1, <2>1, <3>4
 <2> QED BY <2>2, <2>3
<1>9. CASE Propose \/ ProposeNothing \/ NextGoal
 <2>1. UNCHANGED <<checks, round, longest, best, nominal, chosen>> /\ solving \in {"goal", "check"} /\ solving' \in {"goal", "check"}
   BY <1>9 DEF Propose, ProposeNothing, NextGoal
 <2> QED BY <1>1, <1>3, <2>1
<1>10. CASE Check
 <2>1. PICK check : Found(check) BY <1>10, CheckFinds
 <2>2. solving = "check" /\ solving' = "check" /\ paths # << >> BY <1>10, <2>1 DEF Check, Found, Judged
 <2> QED BY <2>1, <2>2, JudgedVerdicts
<1>11. CASE NextRound
 <2>1. UNCHANGED <<checks, longest, chosen>> /\ round' = round + 1 /\ solving' = "round" /\ solving = "goal"
   BY <1>11 DEF NextRound
 <2>2. \A i \in DOMAIN checks : checks[i].round <= round /\ checks[i].round \in Nat
  <3>1. \A i \in DOMAIN checks : checks[i] \in CheckSet BY <1>0 DEF Verdicts
  <3> QED BY <1>0, <3>1 DEF Verdicts, CheckSet
 <2>3. \A i \in DOMAIN checks' : checks'[i].round < round' /\ checks'[i].round <= round' BY <1>0, <2>1, <2>2
 <2>4. Verdicts' BY <1>0, <2>1, <2>3 DEF Verdicts
 <2> QED BY <1>1, <2>1, <2>4
<1> QED BY <1>4, <1>5, <1>6, <1>7, <1>8, <1>9, <1>10, <1>11 DEF RecordNext

LEMMA RecordHonest == RecordInv => HonestRefinement
<1> SUFFICES ASSUME RecordInv PROVE HonestRefinement OBVIOUS
<1>1. solving = "check" => \A i \in DOMAIN paths :
         /\ SubSeq(paths[i].inputs, 1, Len(ask.lead)) = ask.lead
         /\ Len(ask.lead) + 1 < paths[i].depth /\ paths[i].depth <= Lasting(paths[i].inputs)
  BY DEF RecordInv, Proposing, WellFormed, ProposedPath
<1>2. solving \in {"done", "round", "goal", "check"} => stepped <= work.charged /\ work.completed <= stepped
  BY DEF RecordInv, Branched, Accounted, Nobody
<1>3. chosen # NoCheck => chosen = Last(checks) BY DEF RecordInv, Certified, Last
<1> QED BY <1>1, <1>2, <1>3 DEF RecordInv, Verdicts, Certified, HonestRefinement

RecordedSpec == RecordInit /\ [][RecordNext]_recordVars

\* What the recorded planner proposes begins with the lead and is free of
\* every recorded danger as far as its search said; the path that lasted
\* longest is the next nominal; the first that certifies is returned; and
\* every update begun is charged: for every field, world, request, number
\* of rounds and horizon, wherever a branch fails and the deadline falls.
THEOREM RefinementHonest == RecordedSpec => []HonestRefinement
<1>1. RecordInit => RecordInv BY RecordStarts
<1>2. RecordInv /\ [RecordNext]_recordVars => RecordInv'
 <2>1. RecordInv /\ RecordNext => RecordInv'
   BY TapeStep, SlotStep, BranchStep, AskStep, ProposalStep, VerdictStep DEF RecordInv
 <2>2. RecordInv /\ UNCHANGED recordVars => RecordInv'
  <3> SUFFICES ASSUME RecordInv, UNCHANGED recordVars PROVE RecordInv' OBVIOUS
  <3>1. TapesKept' /\ SlotsKept' /\ Branched' /\ Accounted' /\ Asked'
    BY DEF RecordInv, recordVars, TapesKept, TapeShape, SlotsKept, Branched, Accounted, Asked
  <3>2. Proposing' BY StillWellFormed DEF RecordInv, recordVars, Proposing
  <3>3. Verdicts' /\ Certified' BY DEF RecordInv, recordVars, Verdicts, ThisRound, Certified, Certifies
  <3> QED BY <3>1, <3>2, <3>3 DEF RecordInv
 <2> QED BY <2>1, <2>2
<1>3. RecordInv => HonestRefinement BY RecordHonest
<1> QED BY <1>1, <1>2, <1>3, PTL DEF RecordedSpec
====
