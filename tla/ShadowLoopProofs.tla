---- MODULE ShadowLoopProofs ----
(***************************************************************************)
(* For every set of inputs, lead, horizon and length of the game: the      *)
(* controller finds the journal complete, what it takes for the owner's    *)
(* next inputs is what the owner executes, and until a plan is rejected    *)
(* the owner executes only what was certified.                             *)
(*                                                                         *)
(* The argument is about the course of the owner: the inputs it has        *)
(* executed and, while no plan is accepted, those it will execute.  A      *)
(* sample that accepts nothing follows the course, so it stays what it is; *)
(* a search takes its lead from it; so a plan agrees with it up to its     *)
(* first change, which is why accepting one in time stays on course.       *)
(***************************************************************************)
EXTENDS ShadowLoop, SequenceTheorems, WellFoundedInduction, TLAPS

End(p) == p.origin + Len(p.inputs)
At(p, n) == p.inputs[n - p.origin]

PlanType == [generation : Nat, origin : Nat, first_change : Nat, inputs : Seq(Inputs)]
PredictionType == [origin : Nat, inputs : Seq(Inputs)]
Busy == {"search", "searched", "decide", "retain", "publish"}
ControllerStep == {"drain", "outcome", "last_drain", "check_journal", "deadline", "rejected",
                   "gate", "halted", "concluded", "truncated"} \cup Busy

Typed ==
  /\ rows \in Seq(Inputs) /\ sampled \in Inputs
  /\ opc \in {"input", "calc", "short", "post", "end", "over"} /\ cpc \in ControllerStep
  /\ active \in PlanType /\ latest \in PlanType /\ plan \in PlanType
  /\ examined \in Nat /\ accepted \in Nat /\ rejected \in Nat /\ generation \in Nat
  /\ drained \in 0 .. Len(rows) /\ queue \in Seq(Inputs)
  /\ previous \in PredictionType
  /\ candidate \in [prediction : PredictionType, unchanged : Nat]
  /\ outcome \in {"Running", "Finished", "Stopped", "Failed"} /\ lastSearch \in Nat

\* No plan and no prediction starts after the receipts the controller has,
\* and a prediction is no longer than the horizon.
Origins ==
  /\ \A p \in {active, latest, plan, previous, candidate.prediction} : p.origin <= drained
  /\ Len(previous.inputs) <= Horizon /\ Len(candidate.prediction.inputs) <= Horizon

\* The plan published last has the controller's generation, and while none
\* has been rejected the owner accepted what it examined; no search starts
\* before that, nor before the first receipt.
Generations ==
  /\ latest.generation = generation /\ examined <= generation
  /\ rejected = 0 => accepted = examined
  /\ cpc \in Busy => drained > 0 /\ (rejected = 0 => examined = generation)
  /\ cpc = "publish" => plan.generation = generation + 2
  /\ drained = 0 => generation = 0
  /\ rows = <<>> => active = NoPlan

\* The course of the owner: what it has executed, then its plan, then the
\* fallback.
Course(n) == CASE n <= Len(rows) -> rows[n]
               [] n > Len(rows) /\ n <= End(active) -> At(active, n)
               [] n > Len(rows) /\ n > End(active)
                    -> IF End(active) > Len(rows) THEN At(active, End(active))
                                                  ELSE rows[Len(rows)]
Follows(p, last) == \A n \in p.origin + 1 .. last : n <= End(p) => At(p, n) = Course(n)

\* The input sampled is the next of the course, and after the end of the
\* plan the owner repeated its last input.
Sampling == opc = "calc" /\ rows # <<>> => sampled = Course(Len(rows) + 1)
Held == \A m, n \in 1 .. Len(rows) : End(active) <= m /\ End(active) <= n => rows[m] = rows[n]

\* While no plan has been rejected: the owner is on its plan's course, and
\* what waits to be examined, is about to be published or was found by the
\* search agrees with the course up to its first change.
OnTheCourse ==
  rejected = 0 =>
    /\ Held
    /\ Follows(active, End(active))
    /\ examined # generation => Follows(latest, latest.first_change - 1)
    /\ cpc = "publish" => Follows(plan, plan.first_change - 1)
    /\ cpc \in {"searched", "decide"} =>
         Follows(candidate.prediction, candidate.prediction.origin + candidate.unchanged)

\* The queue is what is left of the plan the owner executes, or of the one
\* it will accept if it examines it in time; and always of the certificate
\* it came from.
LeftOf(p, q) == q # <<>> => /\ drained - p.origin + Len(q) <= Len(p.inputs)
                            /\ q = SubSeq(p.inputs, drained - p.origin + 1,
                                          drained - p.origin + Len(q))
Queues ==
  /\ rejected = 0 /\ examined = generation /\ cpc \notin {"publish", "halted"}
       => queue = After(active, drained)
  /\ rejected = 0 /\ examined # generation /\ cpc # "halted"
       /\ Len(rows) + 1 < latest.first_change
       => queue = After(latest, drained)
  /\ cpc = "publish" => queue = After(plan, drained) /\ LeftOf(candidate.prediction, queue)
  /\ cpc \notin {"publish", "halted"} => LeftOf(previous, queue)

\* The journal, the sequence posted and the outcome; a row is torn only by
\* the write the owner then fails of.
Journal ==
  /\ sequence = IF opc = "post" THEN Len(rows) - 1 ELSE Len(rows)
  /\ outcome # "Running" => opc = "over"
  /\ cpc \in {"last_drain", "check_journal"} => outcome # "Running"
  /\ cpc = "check_journal" => drained = Len(rows)
  /\ torn => opc = "short" \/ outcome = "Failed"
  /\ cpc = "truncated" => torn /\ outcome = "Failed"
  /\ cpc = "concluded" => ~torn /\ drained = Len(rows) /\ outcome # "Running"

IInv == Typed /\ Origins /\ Generations /\ Sampling /\ OnTheCourse /\ Queues /\ Journal

----
LEMMA Numbers == /\ Lead \in Nat \ {0} /\ Interval \in Nat \ {0}
                 /\ Publish \in Nat /\ Publish > Lead /\ Publish > Interval
                 /\ Horizon \in Nat /\ Publish <= Horizon /\ GameEnd \in Nat \ {0}
BY WindowAssumption, GameEndAssumption

LEMMA Slice ==
  ASSUME NEW S, NEW q \in Seq(S), NEW m \in Nat \ {0}, NEW n \in Int, n <= Len(q)
  PROVE  /\ SubSeq(q, m, n) \in Seq(S)
         /\ Len(SubSeq(q, m, n)) = IF m <= n THEN n - m + 1 ELSE 0
         /\ \A i \in 1 .. n - m + 1 : SubSeq(q, m, n)[i] = q[m + i - 1]
<1>1. m \in Int /\ Len(q) \in Nat BY LenProperties
<1>2. \A i \in m .. n : q[i] \in S BY <1>1, ElementOfSeq
<1> QED BY <1>1, <1>2, SubSeqProperties

\* The inputs of p after update s.
LEMMA Rest ==
  ASSUME NEW p, p.origin \in Nat, p.inputs \in Seq(Inputs), NEW s \in Nat, p.origin <= s
  PROVE  /\ After(p, s) \in Seq(Inputs)
         /\ Len(After(p, s)) = IF s < End(p) THEN End(p) - s ELSE 0
         /\ \A i \in 1 .. Len(After(p, s)) : After(p, s)[i] = At(p, s + i)
<1>1. Len(p.inputs) \in Nat BY LenProperties
<1> DEFINE m == s - p.origin + 1
           l == Len(p.inputs)
<1>2. m \in Nat \ {0} /\ l \in Int /\ l <= Len(p.inputs) BY <1>1
<1>3. /\ SubSeq(p.inputs, m, l) \in Seq(Inputs)
      /\ Len(SubSeq(p.inputs, m, l)) = IF m <= l THEN l - m + 1 ELSE 0
      /\ \A i \in 1 .. l - m + 1 : SubSeq(p.inputs, m, l)[i] = p.inputs[m + i - 1]
 <2> HIDE DEF m, l
 <2> QED BY <1>2, Slice
<1>4. After(p, s) = SubSeq(p.inputs, m, l) BY DEF After
<1>5. Len(After(p, s)) = IF s < End(p) THEN End(p) - s ELSE 0 BY SMTT(30), <1>1, <1>3, <1>4 DEF End
<1>6. ASSUME NEW i \in 1 .. Len(After(p, s)) PROVE After(p, s)[i] = At(p, s + i)
 <2>1. i \in 1 .. l - m + 1 BY <1>1, <1>5 DEF End
 <2>2. m + i - 1 = s + i - p.origin BY <1>1, <2>1
 <2> HIDE DEF m, l
 <2> QED BY SMTT(30), <1>3, <1>4, <2>1, <2>2 DEF At
<1> QED BY <1>3, <1>4, <1>5, <1>6

\* A non-empty set of naturals has a least element.
Before == {pair \in Nat \X Nat : pair[1] < pair[2]}

LEMMA LeastElement ==
  ASSUME NEW S, S \subseteq Nat, S # {}
  PROVE  \E n \in S : \A m \in S : n <= m
<1>1. IsWellFoundedOn(Before, Nat) BY NatLessThanWellFounded, Zenon DEF Before, OpToRel
<1>2. PICK n \in S : \A m \in S : ~ (<<m, n>> \in Before) BY <1>1, WFMin
<1>3. ASSUME NEW m \in S PROVE n <= m
 <2>1. m \in Nat /\ n \in Nat /\ <<m, n>> \in Nat \X Nat OBVIOUS
 <2>2. ~ (m < n) BY <1>2, <2>1 DEF Before
 <2> QED BY <2>1, <2>2
<1> QED BY <1>3

\* The recursion of Extended: the planned inputs, then the last one again.
Repeated(last, planned, i) == IF i <= Len(planned) THEN planned[i]
                           ELSE IF Len(planned) = 0 THEN last ELSE planned[Len(planned)]

LEMMA Extension ==
  ASSUME NEW last, NEW planned, Len(planned) \in Nat, NEW n \in Nat
  PROVE  Extended(last, planned, n) = [i \in 1 .. n |-> Repeated(last, planned, i)]
<1> DEFINE g == [i \in 0 .. n |-> IF i = 0 THEN last ELSE Repeated(last, planned, i)]
           Solves(f) == f = [i \in 0 .. n |-> IF i = 0 THEN last
                                              ELSE IF i <= Len(planned) THEN planned[i]
                                              ELSE Fallback(f[i - 1])]
<1>1. Solves(g)
 <2>1. ASSUME NEW i \in 0 .. n, i # 0, ~(i <= Len(planned))
       PROVE  g[i] = g[i - 1]
  <3>1. i - 1 \in 0 .. n /\ i \in Nat BY <2>1
  <3> QED BY <2>1, <3>1 DEF Repeated
 <2> QED BY <2>1 DEF Repeated, Fallback
<1>2. ASSUME NEW f, Solves(f) PROVE f = g
 <2>1. \A i \in 0 .. n : f[i] = IF i = 0 THEN last
                                ELSE IF i <= Len(planned) THEN planned[i]
                                ELSE Fallback(f[i - 1])
   BY <1>2
 <2>2. \A i \in 0 .. n : g[i] = IF i = 0 THEN last
                                ELSE IF i <= Len(planned) THEN planned[i]
                                ELSE Fallback(g[i - 1])
   BY <1>1
 <2> DEFINE Wrong == {i \in 0 .. n : f[i] # g[i]}
 <2> HIDE DEF g
 <2>3. ASSUME Wrong # {} PROVE FALSE
  <3>1. PICK i \in Wrong : \A j \in Wrong : i <= j
   <4>1. Wrong \subseteq Nat OBVIOUS
   <4> QED BY <2>3, <4>1, LeastElement
  <3>2. i \in 0 .. n /\ i # 0 /\ i - 1 \in 0 .. n /\ i - 1 \notin Wrong BY <2>1, <2>2, <3>1
  <3>3. f[i - 1] = g[i - 1] BY <3>2
  <3> QED BY <2>1, <2>2, <3>1, <3>2, <3>3
 <2>4. \A i \in 0 .. n : f[i] = g[i] BY <2>3
 <2> USE DEF g
 <2>5. f = [i \in 0 .. n |-> g[i]] BY <1>2, <2>1, <2>4
 <2> QED BY <2>5
<1>3. Extended(last, planned, n) = [i \in 1 .. n |-> (CHOOSE f : Solves(f))[i]] BY DEF Extended
<1>4. (CHOOSE f : Solves(f)) = g
 <2> HIDE DEF Solves, g
 <2>1. Solves(CHOOSE f : Solves(f)) BY <1>1, Zenon
 <2> QED BY <1>2, <2>1
<1>5. Extended(last, planned, n) = [i \in 1 .. n |-> g[i]]
 <2> HIDE DEF Solves, g
 <2> QED BY <1>3, <1>4
<1>6. \A i \in 1 .. n : g[i] = Repeated(last, planned, i) OBVIOUS
<1> HIDE DEF g
<1> QED BY <1>5, <1>6

----
\* The sizes and types the proofs below calculate with.
LEMMA Sizes ==
  ASSUME Typed
  PROVE  /\ Len(rows) \in Nat /\ Len(queue) \in Nat /\ drained \in Nat /\ drained <= Len(rows)
         /\ \A n \in 1 .. Len(rows) : rows[n] \in Inputs
         /\ rows = <<>> <=> Len(rows) = 0
         /\ queue = <<>> <=> Len(queue) = 0
BY LenProperties, ElementOfSeq, EmptySeq DEF Typed

LEMMA PlanFacts ==
  ASSUME NEW p \in PlanType \cup PredictionType
  PROVE  /\ p.origin \in Nat /\ p.inputs \in Seq(Inputs) /\ Len(p.inputs) \in Nat
         /\ End(p) \in Nat /\ p.origin <= End(p)
         /\ \A n \in p.origin + 1 .. End(p) : At(p, n) \in Inputs
<1>1. p.origin \in Nat /\ p.inputs \in Seq(Inputs) BY DEF PlanType, PredictionType
<1>2. Len(p.inputs) \in Nat /\ End(p) \in Nat /\ p.origin <= End(p) BY <1>1, LenProperties DEF End
<1>3. ASSUME NEW n \in p.origin + 1 .. End(p) PROVE At(p, n) \in Inputs
 <2>1. n - p.origin \in 1 .. Len(p.inputs) BY <1>1, <1>2 DEF End
 <2> QED BY <1>1, <2>1, ElementOfSeq DEF At
<1> QED BY <1>1, <1>2, <1>3

LEMMA Plans3 ==
  ASSUME Typed, Origins
  PROVE  /\ \A p \in {active, latest, plan, previous, candidate.prediction} :
               p \in PlanType \cup PredictionType /\ p.origin <= drained
         /\ candidate.unchanged \in Nat
BY DEF Typed, Origins

LEMMA SameCourse ==
  ASSUME rows' = rows, active' = active
  PROVE  \A n : Course(n)' = Course(n)
BY DEF Course, End, At

\* What the owner would sample is what the course says, however far ahead.
LEMMA CourseAhead ==
  ASSUME Typed, Origins, rows # <<>>, NEW k \in Nat
  PROVE  \A i \in 1 .. k :
           Extended(rows[Len(rows)], After(active, Len(rows)), k)[i] = Course(Len(rows) + i)
<1> DEFINE s == Len(rows)
           planned == After(active, s)
<1>1. s \in Nat /\ s > 0 /\ active.origin \in Nat /\ active.inputs \in Seq(Inputs)
      /\ active.origin <= s /\ End(active) \in Nat
  BY Sizes, Plans3, PlanFacts
<1>2. /\ Len(planned) = IF s < End(active) THEN End(active) - s ELSE 0
      /\ \A i \in 1 .. Len(planned) : planned[i] = At(active, s + i)
  BY <1>1, Rest
<1>3. Len(planned) \in Nat BY <1>1, <1>2
<1> HIDE DEF planned
<1>4. Extended(rows[s], planned, k) = [i \in 1 .. k |-> Repeated(rows[s], planned, i)] BY <1>3, Extension
<1>5. ASSUME NEW i \in 1 .. k PROVE Repeated(rows[s], planned, i) = Course(s + i)
 <2>1. CASE s < End(active) /\ i <= End(active) - s BY <1>1, <1>2, <2>1 DEF Repeated, Course
 <2>2. CASE s < End(active) /\ ~(i <= End(active) - s)
  <3>1. planned[Len(planned)] = At(active, End(active)) BY <1>1, <1>2, <2>2
  <3>2. s + i > s /\ s + i > End(active) BY <1>1, <2>2
  <3> QED BY <1>1, <1>2, <2>2, <3>1, <3>2 DEF Repeated, Course
 <2>3. CASE ~(s < End(active)) BY <1>1, <1>2, <2>3 DEF Repeated, Course
 <2> QED BY <1>1, <2>1, <2>2, <2>3
<1> QED BY <1>4, <1>5 DEF planned

\* Executing the next input of the course leaves the course what it was.
LEMMA CourseKept ==
  ASSUME Typed, Origins, rows # <<>>, sampled = Course(Len(rows) + 1),
         rows' = Append(rows, sampled), active' = active, NEW n \in Nat \ {0}
  PROVE  Course(n)' = Course(n)
<1> DEFINE s == Len(rows)
<1>1. s \in Nat /\ s > 0 /\ active.origin \in Nat
      /\ active.origin <= s /\ End(active) \in Nat
  BY Sizes, Plans3, PlanFacts
<1>2. /\ Len(rows') = s + 1 /\ rows'[s + 1] = Course(s + 1)
      /\ \A i \in 1 .. s : rows'[i] = rows[i]
  BY AppendProperties DEF Typed
<1>3. End(active)' = End(active) /\ \A i : At(active, i)' = At(active, i) BY DEF End, At
<1>4. CASE n <= s BY <1>1, <1>2, <1>4 DEF Course
<1>5. CASE n = s + 1 BY <1>1, <1>2, <1>5 DEF Course
<1>6. CASE n > s + 1
 <2>1. CASE n <= End(active) BY <1>1, <1>2, <1>3, <1>6, <2>1 DEF Course
 <2>2. CASE n > End(active) /\ End(active) > s + 1 BY <1>1, <1>2, <1>3, <1>6, <2>2 DEF Course
 <2>3. CASE n > End(active) /\ End(active) = s + 1 BY <1>1, <1>2, <1>3, <1>6, <2>3 DEF Course
 <2>4. CASE n > End(active) /\ End(active) <= s BY <1>1, <1>2, <1>3, <1>6, <2>4 DEF Course
 <2> QED BY <1>1, <2>1, <2>2, <2>3, <2>4
<1> QED BY <1>1, <1>4, <1>5, <1>6

----
\* Confirming receipts.
LEMMA SliceOfSlice ==
  ASSUME NEW S, NEW t \in Seq(S), NEW c \in Nat, NEW l \in Nat, c + l <= Len(t), NEW k \in 0 .. l
  PROVE  SubSeq(SubSeq(t, c + 1, c + l), k + 1, l) = SubSeq(t, c + k + 1, c + l)
<1> DEFINE q == SubSeq(t, c + 1, c + l)
<1>1. /\ q \in Seq(S) /\ Len(q) = l
      /\ \A i \in 1 .. l : q[i] = t[c + i]
 <2>1. c + 1 \in Nat \ {0} /\ c + l \in Int OBVIOUS
 <2>2. /\ q \in Seq(S) /\ Len(q) = IF c + 1 <= c + l THEN c + l - (c + 1) + 1 ELSE 0
       /\ \A i \in 1 .. c + l - (c + 1) + 1 : q[i] = t[c + 1 + i - 1]
   BY <2>1, Slice
 <2> HIDE DEF q
 <2> QED BY <2>2
<1> HIDE DEF q
<1>2. /\ SubSeq(q, k + 1, l) \in Seq(S) /\ Len(SubSeq(q, k + 1, l)) = l - k
      /\ \A i \in 1 .. l - k : SubSeq(q, k + 1, l)[i] = q[k + i]
 <2>1. k + 1 \in Nat \ {0} /\ l \in Int /\ l <= Len(q) BY <1>1
 <2>2. /\ SubSeq(q, k + 1, l) \in Seq(S)
       /\ Len(SubSeq(q, k + 1, l)) = IF k + 1 <= l THEN l - (k + 1) + 1 ELSE 0
       /\ \A i \in 1 .. l - (k + 1) + 1 : SubSeq(q, k + 1, l)[i] = q[k + 1 + i - 1]
   BY <1>1, <2>1, Slice
 <2> QED BY <2>2
<1>3. /\ SubSeq(t, c + k + 1, c + l) \in Seq(S) /\ Len(SubSeq(t, c + k + 1, c + l)) = l - k
      /\ \A i \in 1 .. l - k : SubSeq(t, c + k + 1, c + l)[i] = t[c + k + i]
 <2>1. c + k + 1 \in Nat \ {0} /\ c + l \in Int OBVIOUS
 <2>2. /\ SubSeq(t, c + k + 1, c + l) \in Seq(S)
       /\ Len(SubSeq(t, c + k + 1, c + l))
            = IF c + k + 1 <= c + l THEN c + l - (c + k + 1) + 1 ELSE 0
       /\ \A i \in 1 .. c + l - (c + k + 1) + 1 :
             SubSeq(t, c + k + 1, c + l)[i] = t[c + k + 1 + i - 1]
   BY <2>1, Slice
 <2> QED BY <2>2
<1>4. \A i \in 1 .. l - k : SubSeq(q, k + 1, l)[i] = SubSeq(t, c + k + 1, c + l)[i]
 <2>1. ASSUME NEW i \in 1 .. l - k
       PROVE  k + i \in 1 .. l /\ c + (k + i) = c + k + i
   OBVIOUS
 <2> QED BY <1>1, <1>2, <1>3, <2>1
<1>5. SubSeq(q, k + 1, l) = SubSeq(t, c + k + 1, c + l) BY <1>2, <1>3, <1>4, SeqEqual
<1> QED BY <1>5 DEF q

LEMMA ConfirmedTyped ==
  ASSUME Typed, NEW receipts \in Seq(Inputs)
  PROVE  /\ Confirmed(receipts) \in Seq(Inputs) /\ Len(receipts) \in Nat
         /\ Confirmed(receipts) # <<>> =>
              /\ Len(receipts) <= Len(queue)
              /\ Confirmed(receipts) = SubSeq(queue, Len(receipts) + 1, Len(queue))
<1>1. Len(receipts) \in Nat /\ Len(queue) \in Nat /\ queue \in Seq(Inputs) BY LenProperties DEF Typed
<1>2. Len(receipts) + 1 \in Nat \ {0} /\ Len(queue) \in Int /\ Len(queue) <= Len(queue) BY <1>1
<1>3. SubSeq(queue, Len(receipts) + 1, Len(queue)) \in Seq(Inputs) BY <1>1, <1>2, Slice
<1> QED BY <1>1, <1>3, EmptySeq DEF Confirmed

LEMMA ExecutedFacts ==
  ASSUME Typed, NEW m \in Nat, NEW n \in Nat, m <= n, n <= Len(rows)
  PROVE  /\ Executed(m, n) \in Seq(Inputs) /\ Len(Executed(m, n)) = n - m
         /\ \A i \in 1 .. n - m : Executed(m, n)[i] = rows[m + i]
<1>1. m + 1 \in Nat \ {0} /\ n \in Int /\ rows \in Seq(Inputs) BY DEF Typed
<1>2. /\ SubSeq(rows, m + 1, n) \in Seq(Inputs)
      /\ Len(SubSeq(rows, m + 1, n)) = IF m + 1 <= n THEN n - (m + 1) + 1 ELSE 0
      /\ \A i \in 1 .. n - (m + 1) + 1 : SubSeq(rows, m + 1, n)[i] = rows[m + 1 + i - 1]
  BY <1>1, Slice
<1> QED BY <1>2 DEF Executed

\* Receipts that follow p leave what is left of p.
LEMMA ConfirmedRest ==
  ASSUME Typed, NEW p \in PlanType \cup PredictionType, p.origin <= drained,
         queue = After(p, drained),
         \A n \in drained + 1 .. Len(rows) : n <= End(p) => rows[n] = At(p, n)
  PROVE  Confirmed(Executed(drained, Len(rows))) = After(p, Len(rows))
<1> DEFINE s == Len(rows)
           receipts == Executed(drained, s)
<1>1. s \in Nat /\ drained \in Nat /\ drained <= s /\ Len(queue) \in Nat
      /\ p.origin \in Nat /\ p.inputs \in Seq(Inputs) /\ End(p) \in Nat /\ p.origin <= s
  BY Sizes, PlanFacts
<1>2. /\ receipts \in Seq(Inputs) /\ Len(receipts) = s - drained
      /\ \A i \in 1 .. s - drained : receipts[i] = rows[drained + i]
 <2>1. s <= Len(rows) BY <1>1
 <2> HIDE DEF s
 <2> QED BY <1>1, <2>1, ExecutedFacts
<1>3. /\ queue \in Seq(Inputs)
      /\ Len(queue) = IF drained < End(p) THEN End(p) - drained ELSE 0
      /\ \A i \in 1 .. Len(queue) : queue[i] = At(p, drained + i)
  BY <1>1, Rest
<1>4. /\ After(p, s) \in Seq(Inputs)
      /\ Len(After(p, s)) = IF s < End(p) THEN End(p) - s ELSE 0
      /\ \A i \in 1 .. Len(After(p, s)) : After(p, s)[i] = At(p, s + i)
  BY <1>1, Rest
<1> HIDE DEF receipts
<1>5. CASE s - drained > Len(queue)
 <2>1. Len(After(p, s)) = 0 BY <1>1, <1>3, <1>4, <1>5
 <2>2. After(p, s) = <<>> BY <1>4, <2>1, EmptySeq
 <2> QED BY <1>1, <1>2, <1>5, <2>2 DEF Confirmed, receipts
<1>6. CASE s - drained <= Len(queue)
 <2> DEFINE k == s - drained
 <2>1. k \in Nat /\ k <= Len(queue) /\ k = Len(receipts) BY <1>1, <1>2, <1>6
 <2>2. /\ SubSeq(queue, 1, k) \in Seq(Inputs) /\ Len(SubSeq(queue, 1, k)) = k
       /\ \A i \in 1 .. k : SubSeq(queue, 1, k)[i] = queue[i]
  <3>1. 1 \in Nat \ {0} /\ k \in Int BY <2>1
  <3>2. /\ SubSeq(queue, 1, k) \in Seq(Inputs)
        /\ Len(SubSeq(queue, 1, k)) = IF 1 <= k THEN k - 1 + 1 ELSE 0
        /\ \A i \in 1 .. k - 1 + 1 : SubSeq(queue, 1, k)[i] = queue[1 + i - 1]
    BY <1>3, <2>1, <3>1, Slice
  <3> HIDE DEF k
  <3> QED BY <2>1, <3>2
 <2>3. ASSUME NEW i \in 1 .. k PROVE SubSeq(queue, 1, k)[i] = receipts[i]
  <3>1. i \in 1 .. Len(queue) /\ drained + i \in drained + 1 .. s /\ drained + i <= End(p) BY <1>1, <1>3, <2>1
  <3> QED BY <1>2, <1>3, <2>2, <3>1
 <2>4. SubSeq(queue, 1, k) = receipts
  <3> HIDE DEF k
  <3> QED BY <1>2, <2>1, <2>2, <2>3, SeqEqual
 <2>5. /\ SubSeq(queue, k + 1, Len(queue)) \in Seq(Inputs)
       /\ Len(SubSeq(queue, k + 1, Len(queue))) = Len(queue) - k
       /\ \A i \in 1 .. Len(queue) - k : SubSeq(queue, k + 1, Len(queue))[i] = queue[k + i]
  <3> HIDE DEF k
  <3>1. k + 1 \in Nat \ {0} /\ Len(queue) \in Int /\ Len(queue) <= Len(queue) BY <1>1, <2>1
  <3>2. /\ SubSeq(queue, k + 1, Len(queue)) \in Seq(Inputs)
        /\ Len(SubSeq(queue, k + 1, Len(queue)))
             = IF k + 1 <= Len(queue) THEN Len(queue) - (k + 1) + 1 ELSE 0
        /\ \A i \in 1 .. Len(queue) - (k + 1) + 1 :
              SubSeq(queue, k + 1, Len(queue))[i] = queue[k + 1 + i - 1]
    BY <1>3, <3>1, Slice
  <3> QED BY <1>1, <2>1, <3>2
 <2>6. Len(After(p, s)) = Len(queue) - k BY <1>1, <1>3, <1>4, <1>6
 <2>7. ASSUME NEW i \in 1 .. Len(queue) - k
       PROVE  SubSeq(queue, k + 1, Len(queue))[i] = After(p, s)[i]
  <3>1. k + i \in 1 .. Len(queue) /\ drained + (k + i) = s + i BY <1>1, <2>1
  <3> QED BY <1>3, <1>4, <2>5, <2>6, <3>1
 <2>8. SubSeq(queue, k + 1, Len(queue)) = After(p, s)
  <3> HIDE DEF k
  <3> QED BY <1>4, <2>5, <2>6, <2>7, SeqEqual
 <2> QED BY <1>2, <2>1, <2>4, <2>8 DEF Confirmed, receipts
<1> QED BY <1>1, <1>5, <1>6

\* Whatever is left of the queue is still left of the certificate.
LEMMA ConfirmedLeft ==
  ASSUME Typed, Origins, LeftOf(previous, queue), NEW receipts \in Seq(Inputs),
         previous' = previous, drained' = drained + Len(receipts), queue' = Confirmed(receipts)
  PROVE  LeftOf(previous, queue)'
<1> SUFFICES ASSUME queue' # <<>>
             PROVE  /\ drained' - previous.origin + Len(queue') <= Len(previous.inputs)
                    /\ queue' = SubSeq(previous.inputs, drained' - previous.origin + 1,
                                       drained' - previous.origin + Len(queue'))
  BY DEF LeftOf
<1> DEFINE c == drained - previous.origin
           k == Len(receipts)
           l == Len(queue)
<1>1. /\ k \in Nat /\ l \in Nat /\ k <= l /\ c \in Nat
      /\ queue' = SubSeq(queue, k + 1, l)
      /\ previous.inputs \in Seq(Inputs) /\ Len(previous.inputs) \in Nat
      /\ previous.origin \in Nat /\ drained \in Nat
 <2>1. /\ k \in Nat /\ k <= l /\ queue' = SubSeq(queue, k + 1, l) BY ConfirmedTyped
 <2>2. previous \in PredictionType /\ previous.origin <= drained BY DEF Typed, Origins
 <2>3. l \in Nat /\ drained \in Nat BY Sizes
 <2>4. /\ previous.inputs \in Seq(Inputs) /\ Len(previous.inputs) \in Nat
       /\ previous.origin \in Nat
   BY <2>2, PlanFacts
 <2> QED BY <2>1, <2>2, <2>3, <2>4
<1>2. queue # <<>> BY <1>1, SubSeqEmpty, Sizes
<1>3. c + l <= Len(previous.inputs) /\ queue = SubSeq(previous.inputs, c + 1, c + l) BY <1>2 DEF LeftOf
<1>4. drained' - previous.origin = c + k BY <1>1
<1> HIDE DEF c, k, l
<1>5. queue' = SubSeq(previous.inputs, c + k + 1, c + l) BY <1>1, <1>3, SliceOfSlice
<1>6. Len(queue') = l - k
 <2>1. c + k + 1 \in Nat \ {0} /\ c + l \in Int BY <1>1
 <2>2. Len(queue') = IF c + k + 1 <= c + l THEN c + l - (c + k + 1) + 1 ELSE 0 BY <1>1, <1>3, <1>5, <2>1, Slice
 <2> QED BY <1>1, <2>2
<1>7. /\ drained' - previous.origin + 1 = c + k + 1
      /\ drained' - previous.origin + Len(queue') = c + l
  BY <1>1, <1>4, <1>6
<1> QED BY <1>3, <1>5, <1>7
----
\* Searching.
LEMMA QueueOnCourse ==
  ASSUME Typed, Origins, Follows(active, End(active)), queue = After(active, drained)
  PROVE  /\ Len(queue) = IF drained < End(active) THEN End(active) - drained ELSE 0
         /\ \A i \in 1 .. Len(queue) : queue[i] = Course(drained + i)
<1>1. /\ active.origin \in Nat /\ active.inputs \in Seq(Inputs) /\ active.origin <= drained
      /\ End(active) \in Nat /\ drained \in Nat
  BY Sizes, Plans3, PlanFacts
<1>2. /\ Len(queue) = IF drained < End(active) THEN End(active) - drained ELSE 0
      /\ \A i \in 1 .. Len(queue) : queue[i] = At(active, drained + i)
  BY <1>1, Rest
<1>3. ASSUME NEW i \in 1 .. Len(queue) PROVE queue[i] = Course(drained + i)
 <2>1. drained + i \in active.origin + 1 .. End(active) /\ drained + i <= End(active) BY <1>1, <1>2
 <2> QED BY <1>2, <2>1 DEF Follows
<1> QED BY <1>2, <1>3

LEMMA CertificateFacts ==
  ASSUME Typed, drained < GameEnd, NEW fixed \in Seq(Inputs), Len(fixed) <= Horizon,
         NEW p \in Certificates(fixed)
  PROVE  /\ p \in PredictionType /\ p.origin = drained /\ Len(p.inputs) <= Horizon
         /\ Len(p.inputs) \in Nat /\ p.inputs # <<>>
         /\ \A i \in 1 .. Len(fixed) : i <= Len(p.inputs) => p.inputs[i] = fixed[i]
<1>1. /\ drained \in Nat /\ GameEnd \in Nat /\ Horizon \in Nat \ {0} /\ Len(fixed) \in Nat
  BY Sizes, Numbers, LenProperties
<1> DEFINE length == Smaller(Horizon, GameEnd - drained)
<1>2. PICK tail \in [1 .. Horizon - Len(fixed) -> Inputs] :
        p = [origin |-> drained, inputs |-> SubSeq(fixed \o tail, 1, length)]
  BY DEF Certificates
<1>3. length \in Nat \ {0} /\ length <= Horizon BY <1>1 DEF Smaller
<1>4. tail \in Seq(Inputs) /\ Len(tail) = Horizon - Len(fixed) BY <1>1
<1>5. /\ fixed \o tail \in Seq(Inputs) /\ Len(fixed \o tail) = Horizon
      /\ \A i \in 1 .. Len(fixed) : (fixed \o tail)[i] = fixed[i]
  BY <1>1, <1>4, ConcatProperties
<1> DEFINE whole == fixed \o tail
<1> HIDE DEF length, whole
<1>6. /\ SubSeq(whole, 1, length) \in Seq(Inputs) /\ Len(SubSeq(whole, 1, length)) = length
      /\ \A i \in 1 .. length : SubSeq(whole, 1, length)[i] = whole[i]
 <2>1. 1 \in Nat \ {0} /\ length \in Int /\ whole \in Seq(Inputs) /\ length <= Len(whole)
   BY <1>3, <1>5 DEF whole
 <2>2. /\ SubSeq(whole, 1, length) \in Seq(Inputs)
       /\ Len(SubSeq(whole, 1, length)) = IF 1 <= length THEN length - 1 + 1 ELSE 0
       /\ \A i \in 1 .. length - 1 + 1 : SubSeq(whole, 1, length)[i] = whole[1 + i - 1]
   BY <2>1, Slice
 <2> QED BY <1>3, <2>2
<1>7. p.origin = drained /\ p.inputs = SubSeq(whole, 1, length) BY <1>2 DEF whole, length
<1>8. p \in PredictionType
 <2>1. p = [origin |-> drained, inputs |-> p.inputs] BY <1>2
 <2> QED BY <1>1, <1>6, <1>7, <2>1 DEF PredictionType
<1>9. p.inputs # <<>> BY <1>3, <1>6, <1>7, EmptySeq
<1>10. ASSUME NEW i \in 1 .. Len(fixed), i <= Len(p.inputs) PROVE p.inputs[i] = fixed[i]
 <2>1. i \in 1 .. length BY <1>3, <1>6, <1>7, <1>10
 <2> QED BY <1>5, <1>6, <1>7, <2>1 DEF whole
<1> QED BY <1>3, <1>6, <1>7, <1>8, <1>9, <1>10

LEMMA ConsumedFacts ==
  ASSUME Typed, Origins
  PROVE  /\ Consumed \in Nat /\ previous.inputs \in Seq(Inputs) /\ Len(previous.inputs) \in Nat
         /\ previous.origin \in Nat /\ previous.origin <= drained /\ drained \in Nat
         /\ End(previous) - drained = Len(previous.inputs) - Consumed
<1>1. previous \in PredictionType /\ previous.origin <= drained BY DEF Typed, Origins
<1> QED BY <1>1, Sizes, PlanFacts DEF Consumed, End

\* The lead of a fresh search is a sequence of that length, and what the
\* owner will do.
LEMMA LeadTyped ==
  ASSUME Typed, Origins, drained > 0
  PROVE  LET planned == SubSeq(previous.inputs, Consumed + 1, Consumed
                           + Smaller(Len(queue), Len(previous.inputs) - Consumed))
         IN  /\ planned \in Seq(Inputs)
             /\ Prefix = [i \in 1 .. Lead |-> Repeated(rows[drained], planned, i)]
             /\ Prefix \in Seq(Inputs) /\ Len(Prefix) = Lead
<1> DEFINE n == Consumed + Smaller(Len(queue), Len(previous.inputs) - Consumed)
           planned == SubSeq(previous.inputs, Consumed + 1, n)
<1>1. Consumed + 1 \in Nat \ {0} /\ n \in Int /\ n <= Len(previous.inputs) BY ConsumedFacts, Sizes DEF Smaller
<1>2. planned \in Seq(Inputs) BY <1>1, ConsumedFacts, Slice
<1>3. Len(planned) \in Nat /\ \A i \in 1 .. Len(planned) : planned[i] \in Inputs
  BY <1>2, LenProperties, ElementOfSeq
<1>4. Prefix = Extended(rows[drained], planned, Lead) BY DEF Prefix
<1> HIDE DEF planned
<1>5. Prefix = [i \in 1 .. Lead |-> Repeated(rows[drained], planned, i)] BY <1>3, <1>4, Extension, Numbers
<1>6. rows[drained] \in Inputs BY Sizes
<1>7. \A i \in 1 .. Lead : Repeated(rows[drained], planned, i) \in Inputs BY <1>3, <1>6 DEF Repeated
<1>8. Prefix \in Seq(Inputs) /\ Len(Prefix) = Lead BY <1>5, <1>7, Numbers
<1> QED BY <1>2, <1>5, <1>8 DEF planned

LEMMA LeadOnCourse ==
  ASSUME Typed, Origins, drained > 0, Held, Follows(active, End(active)),
         queue = After(active, drained), LeftOf(previous, queue), NEW i \in 1 .. Lead
  PROVE  Prefix[i] = Course(drained + i)
<1> DEFINE s == Len(rows)
           d == drained
<1>1. SubSeq(previous.inputs, Consumed + 1,
             Consumed + Smaller(Len(queue), Len(previous.inputs) - Consumed)) = queue
 <2>1. CASE queue = <<>>
  <3>1. Consumed + Smaller(Len(queue), Len(previous.inputs) - Consumed) < Consumed + 1
        /\ Consumed + 1 \in Int
        /\ Consumed + Smaller(Len(queue), Len(previous.inputs) - Consumed) \in Int
    BY <2>1, ConsumedFacts, Sizes DEF Smaller
  <3> QED BY <2>1, <3>1, SubSeqEmpty
 <2>2. CASE queue # <<>>
  <3>1. /\ Consumed + Len(queue) <= Len(previous.inputs)
        /\ queue = SubSeq(previous.inputs, Consumed + 1, Consumed + Len(queue))
    BY <2>2 DEF LeftOf, Consumed
  <3>2. Smaller(Len(queue), Len(previous.inputs) - Consumed) = Len(queue)
    BY SMTT(30), <3>1, ConsumedFacts, Sizes DEF Smaller
  <3> QED BY <3>1, <3>2
 <2> QED BY <2>1, <2>2
<1>2. Prefix[i] = Repeated(rows[d], queue, i) BY <1>1, LeadTyped
<1>3. /\ Len(queue) = IF d < End(active) THEN End(active) - d ELSE 0
      /\ \A j \in 1 .. Len(queue) : queue[j] = Course(d + j)
  BY QueueOnCourse
<1>4. /\ s \in Nat /\ d \in Nat /\ d > 0 /\ d <= s /\ End(active) \in Nat /\ i \in Nat /\ i > 0
      /\ active.origin \in Nat /\ active.origin <= End(active) /\ active.origin <= d
  BY Sizes, Plans3, PlanFacts, Numbers
<1>5. CASE i <= Len(queue) BY <1>2, <1>3, <1>4, <1>5 DEF Repeated
<1>6. CASE i > Len(queue) /\ Len(queue) = 0
 <2>1. End(active) <= d BY <1>3, <1>4, <1>6
 <2>2. Prefix[i] = rows[d] BY <1>2, <1>4, <1>6 DEF Repeated
 <2>3. CASE d + i <= s
  <3>1. rows[d] = rows[d + i] BY <1>4, <2>1, <2>3 DEF Held
  <3> QED BY <1>4, <2>2, <2>3, <3>1 DEF Course
 <2>4. CASE d + i > s
  <3>1. rows[d] = rows[s] /\ Course(d + i) = rows[s] BY <1>4, <2>1, <2>4 DEF Held, Course
  <3> QED BY <2>2, <3>1
 <2> QED BY <1>4, <2>3, <2>4
<1>7. CASE i > Len(queue) /\ Len(queue) # 0
 <2> DEFINE e == End(active)
 <2>1. Len(queue) = e - d /\ e > d /\ d + i > e BY <1>3, <1>4, <1>7
 <2>2. Prefix[i] = Course(e) BY <1>2, <1>3, <1>4, <1>7, <2>1 DEF Repeated
 <2>3. CASE e > s BY <1>4, <2>1, <2>2, <2>3 DEF Course
 <2>4. CASE e <= s
  <3>1. Course(e) = rows[e] BY <1>4, <2>4 DEF Course
  <3>2. CASE d + i <= s
   <4>1. rows[e] = rows[d + i] BY <1>4, <2>1, <2>4, <3>2 DEF Held
   <4> QED BY <1>4, <2>2, <3>1, <3>2, <4>1 DEF Course
  <3>3. CASE d + i > s
   <4>1. rows[e] = rows[s] /\ Course(d + i) = rows[s] BY <1>4, <2>1, <2>4, <3>3 DEF Held, Course
   <4> QED BY <2>2, <3>1, <4>1
  <3> QED BY <1>4, <3>2, <3>3
 <2> QED BY <1>4, <2>3, <2>4
<1> QED BY <1>3, <1>4, <1>5, <1>6, <1>7

LEMMA LeftFacts ==
  ASSUME Typed, NEW p \in PlanType \cup PredictionType, p.origin <= drained, LeftOf(p, queue)
  PROVE  \A i \in 1 .. Len(queue) : /\ drained + i <= End(p)
                                    /\ queue[i] = At(p, drained + i)
<1> DEFINE c == drained - p.origin
<1>1. /\ Len(queue) \in Nat /\ drained \in Nat /\ p.origin \in Nat /\ c \in Nat
      /\ p.inputs \in Seq(Inputs) /\ Len(p.inputs) \in Nat
  BY Sizes, PlanFacts
<1> SUFFICES ASSUME NEW i \in 1 .. Len(queue)
             PROVE  drained + i <= End(p) /\ queue[i] = At(p, drained + i)
  OBVIOUS
<1>2. queue # <<>> BY <1>1, Sizes
<1>3. c + Len(queue) <= Len(p.inputs) /\ queue = SubSeq(p.inputs, c + 1, c + Len(queue)) BY <1>2 DEF LeftOf
<1> DEFINE l == Len(queue)
<1>4. l \in Nat /\ i \in 1 .. l /\ c + l <= Len(p.inputs) /\ c = drained - p.origin BY <1>1, <1>3
<1>7. queue = SubSeq(p.inputs, c + 1, c + l) BY <1>3
<1> HIDE DEF c, l
<1>5. drained + i <= End(p) /\ drained + i - p.origin = c + i BY SMTT(30), <1>1, <1>4 DEF End
<1>6. queue[i] = p.inputs[c + i]
 <2>1. c + 1 \in Nat \ {0} /\ c + l \in Int BY SMTT(30), <1>1, <1>4
 <2>2. \A j \in 1 .. c + l - (c + 1) + 1 :
         SubSeq(p.inputs, c + 1, c + l)[j] = p.inputs[c + 1 + j - 1]
  <3>1. p.inputs \in Seq(Inputs) /\ c + l <= Len(p.inputs) /\ c \in Nat /\ l \in Nat BY <1>1, <1>4
  <3> QED BY <2>1, <3>1, Slice
 <2>3. i \in 1 .. c + l - (c + 1) + 1 /\ c + 1 + i - 1 = c + i BY SMTT(30), <1>1, <1>4
 <2>4. SubSeq(p.inputs, c + 1, c + l)[i] = p.inputs[c + i] BY <2>2, <2>3
 <2> QED BY <1>7, <2>4
<1>8. At(p, drained + i) = p.inputs[c + i]
 <2>1. At(p, drained + i) = p.inputs[drained + i - p.origin] BY SMTT(30), <1>1, <1>4 DEF At
 <2> QED BY <1>5, <2>1
<1> QED BY <1>5, <1>6, <1>8

LEMMA WarmFacts ==
  ASSUME Typed, Origins, LeftOf(previous, queue), Eligible
  PROVE  LET warm == After(previous, drained)
         IN  /\ warm \in Seq(Inputs) /\ Len(warm) \in Nat /\ Len(warm) <= Horizon
             /\ Len(queue) <= Len(warm)
             /\ Smaller(Len(warm), Publish - Consumed) = Len(queue)
             /\ \A i \in 1 .. Len(queue) : warm[i] = queue[i]
<1> DEFINE warm == After(previous, drained)
<1>1. previous \in PredictionType /\ previous.origin <= drained BY DEF Typed, Origins
<1>2. /\ Consumed \in Nat /\ drained \in Nat /\ previous.origin \in Nat
      /\ previous.inputs \in Seq(Inputs) /\ Len(previous.inputs) \in Nat
      /\ End(previous) - drained = Len(previous.inputs) - Consumed /\ Len(queue) \in Nat
  BY ConsumedFacts, Sizes
<1>3. /\ warm \in Seq(Inputs)
      /\ Len(warm) = IF drained < End(previous) THEN End(previous) - drained ELSE 0
      /\ \A i \in 1 .. Len(warm) : warm[i] = At(previous, drained + i)
  BY <1>1, <1>2, Rest
<1>4. /\ Consumed < Smaller(Len(previous.inputs), Publish)
      /\ Len(queue) = Smaller(Len(previous.inputs), Publish) - Consumed
  BY DEF Eligible
<1>5. End(previous) \in Nat BY <1>2 DEF End
<1>6. Len(warm) = Len(previous.inputs) - Consumed BY <1>2, <1>3, <1>4, <1>5, Numbers DEF Smaller
<1>7. Len(warm) \in Nat /\ Len(warm) <= Horizon BY <1>2, <1>4, <1>6, Numbers DEF Smaller, Origins
<1>8. Len(queue) <= Len(warm) /\ Smaller(Len(warm), Publish - Consumed) = Len(queue)
 <2> HIDE DEF warm
 <2> QED BY <1>2, <1>4, <1>6, Numbers DEF Smaller
<1>9. \A i \in 1 .. Len(queue) : queue[i] = At(previous, drained + i) BY <1>1, LeftFacts
<1> HIDE DEF warm
<1>10. ASSUME NEW i \in 1 .. Len(queue) PROVE warm[i] = queue[i]
 <2>1. i \in 1 .. Len(warm) BY <1>2, <1>7, <1>8
 <2> QED BY <1>3, <1>9, <2>1
<1> QED BY <1>3, <1>7, <1>8, <1>10 DEF warm

\* What a search finds continues what the owner will do.
LEMMA SearchFacts ==
  ASSUME Typed, Origins, LeftOf(previous, queue), drained > 0, drained < GameEnd,
         SearchWarm \/ SearchFresh
  PROVE  /\ candidate' \in [prediction : PredictionType, unchanged : Nat]
         /\ candidate'.prediction.origin = drained
         /\ Len(candidate'.prediction.inputs) <= Horizon
         /\ Held /\ Follows(active, End(active)) /\ queue = After(active, drained)
              => Follows(candidate'.prediction, drained + candidate'.unchanged)
<1>0. drained \in Nat /\ Len(queue) \in Nat BY Sizes
<1>1. ASSUME NEW fixed \in Seq(Inputs), Len(fixed) <= Horizon, NEW k \in Nat, k <= Len(fixed),
             NEW p \in Certificates(fixed), candidate' = [prediction |-> p, unchanged |-> k],
             Held /\ Follows(active, End(active)) /\ queue = After(active, drained)
               => \A i \in 1 .. k : fixed[i] = Course(drained + i)
      PROVE  /\ candidate' \in [prediction : PredictionType, unchanged : Nat]
             /\ candidate'.prediction.origin = drained
             /\ Len(candidate'.prediction.inputs) <= Horizon
             /\ Held /\ Follows(active, End(active)) /\ queue = After(active, drained)
                  => Follows(candidate'.prediction, drained + candidate'.unchanged)
 <2>1. /\ p \in PredictionType /\ p.origin = drained /\ Len(p.inputs) <= Horizon
       /\ Len(p.inputs) \in Nat
       /\ \A i \in 1 .. Len(fixed) : i <= Len(p.inputs) => p.inputs[i] = fixed[i]
   BY <1>1, CertificateFacts
 <2>2. candidate'.prediction = p /\ candidate'.unchanged = k BY <1>1
 <2>3. ASSUME Held, Follows(active, End(active)), queue = After(active, drained),
              NEW n \in p.origin + 1 .. drained + k, n <= End(p)
       PROVE  At(p, n) = Course(n)
  <3>1. n - drained \in 1 .. k /\ n - drained <= Len(p.inputs) /\ drained + (n - drained) = n
        /\ n - drained \in 1 .. Len(fixed)
    BY <1>0, <1>1, <2>1, <2>3, LenProperties DEF End
  <3> QED BY <1>1, <2>1, <2>3, <3>1 DEF At
 <2> QED BY <1>1, <2>1, <2>2, <2>3 DEF Follows
<1>2. CASE SearchWarm
 <2> DEFINE warm == After(previous, drained)
 <2>1. PICK p \in Certificates(warm) :
         candidate' = [prediction |-> p, unchanged |-> Smaller(Len(warm), Publish - Consumed)]
   BY <1>2 DEF SearchWarm
 <2>2. /\ warm \in Seq(Inputs) /\ Len(warm) <= Horizon /\ Len(queue) <= Len(warm)
       /\ Smaller(Len(warm), Publish - Consumed) = Len(queue)
       /\ \A i \in 1 .. Len(queue) : warm[i] = queue[i]
   BY <1>2, WarmFacts DEF SearchWarm
 <2>3. Held /\ Follows(active, End(active)) /\ queue = After(active, drained)
         => \A i \in 1 .. Len(queue) : queue[i] = Course(drained + i)
   BY QueueOnCourse
 <2> HIDE DEF warm
 <2>4. /\ candidate' = [prediction |-> p, unchanged |-> Len(queue)]
       /\ Held /\ Follows(active, End(active)) /\ queue = After(active, drained)
            => \A i \in 1 .. Len(queue) : warm[i] = Course(drained + i)
   BY <2>1, <2>2, <2>3
 <2> QED BY <1>0, <1>1, <2>1, <2>2, <2>4
<1>3. CASE SearchFresh
 <2>1. PICK p \in Certificates(Prefix) : candidate' = [prediction |-> p, unchanged |-> Lead]
   BY <1>3 DEF SearchFresh
 <2>2. Prefix \in Seq(Inputs) /\ Len(Prefix) = Lead /\ Lead \in Nat /\ Lead <= Horizon BY LeadTyped, Numbers
 <2>3. Held /\ Follows(active, End(active)) /\ queue = After(active, drained)
         => \A i \in 1 .. Lead : Prefix[i] = Course(drained + i)
   BY LeadOnCourse
 <2> QED BY <1>1, <2>1, <2>2, <2>3
<1> QED BY <1>2, <1>3

----
\* The initial states.
LEMMA Initially ==
  ASSUME Init
  PROVE  IInv
<1> USE DEF Init, NoPlan, NoPrediction, NoCandidate
<1>1. (CHOOSE i \in Inputs : TRUE) \in Inputs BY InputsAssumption
<1>2. <<>> \in Seq(Inputs) /\ Len(<<>>) = 0 BY EmptySeq
<1>3. Typed BY <1>1, <1>2 DEF Typed, ControllerStep, PlanType, PredictionType
<1>4. Origins BY <1>2, Numbers DEF Origins
<1>5. Generations BY <1>2 DEF Generations, Busy
<1>6. Sampling BY DEF Sampling
<1>7. OnTheCourse BY <1>2 DEF OnTheCourse, Held, Follows, End
<1>8. Queues
 <2>1. After(NoPlan, 0) = <<>> BY <1>2 DEF After
 <2> QED BY <2>1 DEF Queues, LeftOf
<1>9. Journal BY <1>2 DEF Journal
<1> QED BY <1>3, <1>4, <1>5, <1>6, <1>7, <1>8, <1>9 DEF IInv

----
\* The steps of the owner.

\* As long as the owner's plan and its receipts stay, so does its course.
LEMMA SameFollows ==
  ASSUME rows' = rows, active' = active, latest' = latest, plan' = plan, candidate' = candidate
  PROVE  /\ Held' <=> Held
         /\ Follows(active, End(active))' <=> Follows(active, End(active))
         /\ Follows(latest, latest.first_change - 1)' <=> Follows(latest, latest.first_change - 1)
         /\ Follows(plan, plan.first_change - 1)' <=> Follows(plan, plan.first_change - 1)
         /\ Follows(candidate.prediction, candidate.prediction.origin + candidate.unchanged)'
              <=> Follows(candidate.prediction, candidate.prediction.origin + candidate.unchanged)
BY SameCourse DEF Held, Follows, At, End

\* Steps that decide nothing about plans.
LEMMA OwnerGoesOn ==
  ASSUME IInv, UNCHANGED <<rows, examined, active, accepted, rejected, latest, cpc, drained,
                           queue, previous, candidate, generation, lastSearch, plan>>,
         sampled' \in Inputs, opc' \in {"input", "calc", "short", "post", "end", "over"},
         outcome' \in {"Running", "Finished", "Stopped", "Failed"},
         opc' = "calc" /\ rows # <<>> => sampled' = Course(Len(rows) + 1), Journal'
  PROVE  IInv'
<1>1. Typed' BY DEF IInv, Typed, ControllerStep
<1>2. Origins' BY DEF IInv, Origins
<1>3. Generations' BY DEF IInv, Generations
<1>4. Sampling'
 <2>1. Course(Len(rows) + 1)' = Course(Len(rows) + 1) BY SameCourse
 <2> QED BY <2>1 DEF Sampling
<1>5. OnTheCourse' BY SameFollows DEF IInv, OnTheCourse
<1>6. Queues' BY DEF IInv, Queues, LeftOf, After
<1> QED BY <1>1, <1>2, <1>3, <1>4, <1>5, <1>6 DEF IInv

LEMMA QuietOwnerSteps ==
  ASSUME IInv, FirstInput \/ HonourStop \/ Wait \/ Fail \/ Post \/ EndOrGoOn
  PROVE  IInv'
<1> USE DEF IInv, searchVars
<1>1. CASE FirstInput
 <2>1. Journal' BY <1>1 DEF FirstInput, Journal
 <2> QED BY <1>1, <2>1, OwnerGoesOn DEF FirstInput, Typed
<1>2. CASE HonourStop
 <2>1. Journal' BY <1>2 DEF HonourStop, Journal
 <2> QED BY <1>2, <2>1, OwnerGoesOn DEF HonourStop, Typed
<1>3. CASE Wait
 <2>1. Journal' BY <1>3 DEF Wait, Journal
 <2> QED BY <1>3, <2>1, OwnerGoesOn DEF Wait, Typed
<1>4. CASE Post
 <2>1. Journal' BY <1>4 DEF Post, Journal
 <2> QED BY <1>4, <2>1, OwnerGoesOn DEF Post, Typed
<1>5. CASE EndOrGoOn
 <2>1. Journal' BY <1>5 DEF EndOrGoOn, Journal
 <2>2. opc' \in {"over", "input"} /\ outcome' \in {"Running", "Finished", "Stopped", "Failed"}
   BY <1>5 DEF EndOrGoOn, Typed
 <2> QED BY <1>5, <2>1, <2>2, OwnerGoesOn DEF EndOrGoOn, Typed
<1>6. CASE Fail
 <2>1. Journal' BY <1>6 DEF Fail, Journal
 <2> QED BY <1>6, <2>1, OwnerGoesOn DEF Fail, Typed
<1> QED BY <1>1, <1>2, <1>3, <1>4, <1>5, <1>6

\* A write that falls short adds no receipt.
LEMMA ShortWriteStep ==
  ASSUME IInv, Calculate, opc' = "short"
  PROVE  IInv'
<1>1. Typed /\ Journal BY DEF IInv
<1>2. /\ opc = "calc" /\ outcome = "Running"
      /\ UNCHANGED <<rows, sampled, examined, active, latest, sequence, accepted, rejected, outcome,
                     cpc, drained, queue, previous, candidate, generation, lastSearch, plan>>
  BY <1>1 DEF Calculate, searchVars, Journal
<1>3. Journal' BY <1>1, <1>2 DEF Journal
<1> QED BY <1>1, <1>2, <1>3, OwnerGoesOn DEF Typed

\* A receipt follows the course: the course stays what it was.
LEMMA CalculateStep ==
  ASSUME IInv, Calculate, opc' # "short"
  PROVE  IInv'
<1>1. /\ opc = "calc" /\ rows' = Append(rows, sampled) /\ opc' = "post"
      /\ UNCHANGED <<torn, sampled, examined, active, latest, sequence, accepted, rejected, outcome,
                     stopRequested, cpc, drained, queue, previous, candidate, generation,
                     lastSearch, plan>>
  BY DEF Calculate, searchVars
<1>2. Typed /\ Origins /\ Generations /\ Sampling /\ OnTheCourse /\ Queues /\ Journal BY DEF IInv
<1> DEFINE s == Len(rows)
<1>3. /\ s \in Nat /\ drained \in Nat /\ drained <= s /\ (rows = <<>> <=> s = 0)
      /\ active.origin \in Nat /\ End(active) \in Nat /\ active.origin <= drained
  BY <1>2, Sizes, Plans3, PlanFacts
<1>4. /\ rows' \in Seq(Inputs) /\ Len(rows') = s + 1 /\ rows'[s + 1] = sampled
      /\ \A i \in 1 .. s : rows'[i] = rows[i]
  BY <1>1, <1>2, AppendProperties DEF Typed
<1>5. Typed'
 <2>1. drained' \in 0 .. Len(rows') BY <1>1, <1>3, <1>4
 <2> QED BY <1>1, <1>2, <1>4, <2>1 DEF Typed
<1>6. Origins' BY <1>1, <1>2 DEF Origins
<1>7. rows' # <<>> BY <1>3, <1>4
<1>8. Generations' BY <1>1, <1>2, <1>7 DEF Generations
<1>9. Sampling' BY <1>1 DEF Sampling
<1>10. Journal' BY <1>1, <1>2, <1>3, <1>4 DEF Journal
<1>11. Queues'
 <2>1. /\ After(active, drained)' = After(active, drained)
       /\ After(latest, drained)' = After(latest, drained)
       /\ After(plan, drained)' = After(plan, drained)
       /\ LeftOf(previous, queue)' <=> LeftOf(previous, queue)
       /\ LeftOf(candidate.prediction, queue)' <=> LeftOf(candidate.prediction, queue)
   BY <1>1 DEF LeftOf, After
 <2>2. Len(rows)' + 1 < latest'.first_change => s + 1 < latest.first_change
   BY SMTT(30), <1>1, <1>2, <1>3, <1>4 DEF Typed, PlanType
 <2> QED BY <1>1, <1>2, <2>1, <2>2 DEF Queues
<1>12. CASE rows = <<>>
 <2>1. /\ active = NoPlan /\ drained = 0 /\ generation = 0 /\ examined = generation
       /\ cpc \notin Busy
   BY <1>2, <1>3, <1>12 DEF Generations, Typed
 <2>2. End(active)' = 0 /\ active'.origin = 0 BY <1>1, <2>1, EmptySeq DEF End, NoPlan
 <2>3. Held' /\ Follows(active, End(active))' BY <1>3, <1>4, <1>12, <2>2 DEF Held, Follows
 <2> QED BY <1>1, <1>5, <1>6, <1>8, <1>9, <1>10, <1>11, <2>1, <2>3
         DEF IInv, OnTheCourse, Busy
<1>13. CASE rows # <<>>
 <2>1. sampled = Course(s + 1) BY <1>1, <1>2, <1>13 DEF Sampling
 <2>2. \A n \in Nat \ {0} : Course(n)' = Course(n) BY <1>1, <1>2, <1>13, <2>1, CourseKept
 <2>3. ASSUME NEW p \in PlanType \cup PredictionType, NEW last
       PROVE  (\A n \in p.origin + 1 .. last : n <= End(p) => At(p, n) = Course(n)')
                <=> Follows(p, last)
  <3>1. \A n \in p.origin + 1 .. last : n \in Nat \ {0} BY PlanFacts
  <3> QED BY <2>2, <3>1 DEF Follows
 <2>4. ASSUME NEW p \in PlanType \cup PredictionType, NEW last, Follows(p, last)
       PROVE  \A n \in p.origin + 1 .. last : n <= End(p) => At(p, n) = Course(n)'
   BY <2>3, <2>4
 <2>5. /\ Follows(active, End(active)) => Follows(active, End(active))'
       /\ Follows(latest, latest.first_change - 1)
            => Follows(latest, latest.first_change - 1)'
       /\ Follows(plan, plan.first_change - 1) => Follows(plan, plan.first_change - 1)'
       /\ Follows(candidate.prediction, candidate.prediction.origin + candidate.unchanged)
            => Follows(candidate.prediction,
                       candidate.prediction.origin + candidate.unchanged)'
  <3>1. \A p \in {active, latest, plan, candidate.prediction} : p \in PlanType \cup PredictionType
    BY <1>2, Plans3
  <3>2. Follows(active, End(active)) => Follows(active, End(active))'
    BY <1>1, <2>4, <3>1 DEF Follows, At, End
  <3>3. Follows(latest, latest.first_change - 1) => Follows(latest, latest.first_change - 1)'
    BY <1>1, <2>4, <3>1 DEF Follows, At, End
  <3>4. Follows(plan, plan.first_change - 1) => Follows(plan, plan.first_change - 1)'
    BY <1>1, <2>4, <3>1 DEF Follows, At, End
  <3>5. Follows(candidate.prediction, candidate.prediction.origin + candidate.unchanged)
          => Follows(candidate.prediction, candidate.prediction.origin + candidate.unchanged)'
    BY <1>1, <2>4, <3>1 DEF Follows, At, End
  <3> QED BY <3>2, <3>3, <3>4, <3>5
 <2>6. Held => Held'
  <3> SUFFICES ASSUME Held, NEW m \in 1 .. s + 1, NEW n \in 1 .. s + 1,
                      End(active) <= m, End(active) <= n
               PROVE  rows'[m] = rows'[n]
    BY <1>1, <1>4 DEF Held, End
  <3>1. ASSUME NEW k \in 1 .. s, End(active) <= k PROVE rows'[k] = rows'[s + 1]
   <4>1. Course(s + 1) = rows[s] BY <1>3, <3>1 DEF Course
   <4>2. rows[k] = rows[s] BY <1>3, <3>1 DEF Held
   <4> QED BY <1>4, <2>1, <4>1, <4>2
  <3>2. rows'[m] = rows'[s + 1] BY <1>3, <3>1
  <3>3. rows'[n] = rows'[s + 1] BY <1>3, <3>1
  <3> QED BY <3>2, <3>3
 <2>7. OnTheCourse' BY <1>1, <1>2, <2>5, <2>6 DEF OnTheCourse
 <2> QED BY <1>5, <1>6, <1>8, <1>9, <1>10, <1>11, <2>7 DEF IInv
<1> QED BY <1>12, <1>13

\* The next input of the plan, or of a plan that goes beyond it.
LEMMA NextOfActive ==
  ASSUME Typed, Origins, rows # <<>>
  PROVE  /\ NextInput(active) = Course(Len(rows) + 1)
         /\ Course(Len(rows) + 1) \in Inputs
<1>1. NextInput(active) = Course(Len(rows) + 1) BY CourseAhead DEF NextInput
<1>2. /\ Len(rows) \in Nat /\ Len(rows) > 0 /\ active.origin <= Len(rows)
      /\ active.origin \in Nat /\ End(active) \in Nat
      /\ \A n \in 1 .. Len(rows) : rows[n] \in Inputs
      /\ \A n \in active.origin + 1 .. End(active) : At(active, n) \in Inputs
  BY Sizes, Plans3, PlanFacts
<1>3. Course(Len(rows) + 1) \in Inputs BY SMTT(30), <1>2 DEF Course
<1> QED BY <1>1, <1>3

LEMMA NextOfLatest ==
  ASSUME Typed, Origins, rows # <<>>, Len(rows) < End(latest)
  PROVE  NextInput(latest) = At(latest, Len(rows) + 1) /\ NextInput(latest) \in Inputs
<1> DEFINE s == Len(rows)
           left == After(latest, s)
<1>1. /\ s \in Nat /\ latest.origin \in Nat /\ latest.inputs \in Seq(Inputs)
      /\ latest.origin <= s /\ End(latest) \in Nat
      /\ \A n \in latest.origin + 1 .. End(latest) : At(latest, n) \in Inputs
  BY Sizes, Plans3, PlanFacts
<1>2. /\ Len(left) = End(latest) - s
      /\ \A i \in 1 .. Len(left) : left[i] = At(latest, s + i)
  BY <1>1, Rest
<1>3. Len(left) \in Nat /\ Len(left) > 0 BY <1>1, <1>2
<1> HIDE DEF left
<1>4. Extended(rows[s], left, 1) = [i \in 1 .. 1 |-> Repeated(rows[s], left, i)] BY <1>3, Extension
<1>5. NextInput(latest) = left[1] BY <1>3, <1>4 DEF NextInput, Repeated, left
<1>6. left[1] = At(latest, s + 1) /\ s + 1 \in latest.origin + 1 .. End(latest) BY <1>1, <1>2, <1>3
<1> QED BY <1>1, <1>5, <1>6

\* An accepted plan agrees with the receipts up to its first change, which
\* is still to come: the owner is on its course.
LEMMA AcceptStep ==
  ASSUME IInv, rows # <<>>, latest.generation # examined, CompatibleLead(latest),
         opc = "input", opc' = "calc", examined' = latest.generation, active' = latest,
         accepted' = latest.generation, sampled' = NextInput(latest),
         UNCHANGED <<rejected, rows, torn, latest, sequence, outcome, stopRequested, cpc, drained,
                     queue, previous, candidate, generation, lastSearch, plan>>
  PROVE  IInv'
<1>1. Typed /\ Origins /\ Generations /\ Sampling /\ OnTheCourse /\ Queues /\ Journal BY DEF IInv
<1> DEFINE s == Len(rows)
<1>2. /\ s \in Nat /\ s > 0 /\ drained \in Nat /\ drained <= s
      /\ latest.origin \in Nat /\ End(latest) \in Nat /\ latest.origin <= drained
      /\ latest.generation \in Nat /\ latest.first_change \in Nat
      /\ \A n \in 1 .. s : rows[n] \in Inputs
  BY SMTT(30), <1>1, Sizes, Plans3, PlanFacts DEF Typed, PlanType
<1>3. s + 1 < latest.first_change /\ latest.first_change <= End(latest)
  BY DEF CompatibleLead, Timely, Valid, End
<1>4. s + 1 < End(latest) BY <1>2, <1>3
<1>5. Typed' BY <1>1, <1>2, <1>4, NextOfLatest DEF Typed
<1>6. Origins' BY <1>1 DEF Origins
<1>7. examined' = generation /\ examined # generation BY <1>1 DEF Generations
<1>8. Generations' BY <1>1, <1>2, <1>7 DEF Generations
<1>9. /\ \A n \in 1 .. s : Course(n)' = rows[n]
      /\ \A n \in s + 1 .. End(latest) : Course(n)' = At(latest, n)
  BY <1>2 DEF Course, End, At
<1>10. Sampling'
 <2>1. sampled' = At(latest, s + 1) /\ s + 1 \in s + 1 .. End(latest) BY <1>1, <1>2, <1>4, NextOfLatest
 <2>2. Course(s + 1)' = At(latest, s + 1) BY <1>9, <2>1
 <2>3. Course(Len(rows) + 1)' = Course(s + 1)' BY DEF Course, End, At
 <2> QED BY <2>1, <2>2, <2>3 DEF Sampling
<1>11. ASSUME rejected = 0 PROVE cpc \notin Busy BY <1>1, <1>7, <1>11 DEF Generations
<1>12. Held'
 <2>1. \A m \in 1 .. s : ~ (End(latest) <= m) BY <1>2, <1>4
 <2> QED BY <2>1 DEF Held, End
<1>13. ASSUME rejected = 0 PROVE Follows(active, End(active))'
 <2> SUFFICES ASSUME NEW n \in latest.origin + 1 .. End(latest)
              PROVE  At(latest, n) = Course(n)'
   BY DEF Follows, At, End
 <2>1. CASE n <= s
  <3>1. n \in latest.origin + 1 .. latest.first_change - 1 /\ n <= End(latest) /\ n \in 1 .. s
    BY <1>2, <1>3, <2>1
  <3>2. Follows(latest, latest.first_change - 1) BY <1>1, <1>7, <1>13 DEF OnTheCourse
  <3>3. Course(n) = rows[n] BY <2>1 DEF Course
  <3> QED BY <1>9, <3>1, <3>2, <3>3 DEF Follows
 <2>2. CASE n > s BY <1>2, <1>9, <2>2
 <2> QED BY <1>2, <2>1, <2>2
<1>14. OnTheCourse' BY <1>7, <1>11, <1>12, <1>13 DEF OnTheCourse, Busy
<1>15. Queues'
 <2>1. /\ After(active, drained)' = After(latest, drained)
       /\ After(plan, drained)' = After(plan, drained)
       /\ LeftOf(previous, queue)' <=> LeftOf(previous, queue)
       /\ LeftOf(candidate.prediction, queue)' <=> LeftOf(candidate.prediction, queue)
   BY DEF LeftOf, After
 <2> QED BY <1>1, <1>3, <1>7, <2>1 DEF Queues
<1>16. Journal' BY <1>1 DEF Journal
<1> QED BY <1>5, <1>6, <1>8, <1>10, <1>14, <1>15, <1>16 DEF IInv

\* A rejected plan leaves the owner on the plan it has.
LEMMA RejectStep ==
  ASSUME IInv, rows # <<>>, latest.generation # examined,
         opc = "input", opc' = "calc", examined' = latest.generation,
         rejected' = latest.generation, sampled' = NextInput(active),
         UNCHANGED <<active, accepted, rows, torn, latest, sequence, outcome, stopRequested, cpc,
                     drained, queue, previous, candidate, generation, lastSearch, plan>>
  PROVE  IInv'
<1>1. Typed /\ Origins /\ Generations /\ Sampling /\ OnTheCourse /\ Queues /\ Journal BY DEF IInv
<1>2. latest.generation \in Nat /\ latest.generation = generation /\ rejected' # 0
      /\ examined' = generation'
  BY <1>1 DEF Typed, PlanType, Generations
<1>3. sampled' = Course(Len(rows) + 1) /\ sampled' \in Inputs BY <1>1, NextOfActive
<1>4. Typed' BY <1>1, <1>2, <1>3 DEF Typed
<1>5. Origins' BY <1>1 DEF Origins
<1>6. Generations' BY <1>1, <1>2 DEF Generations
<1>7. Sampling'
 <2>1. Course(Len(rows) + 1)' = Course(Len(rows) + 1) BY SameCourse
 <2> QED BY <1>3, <2>1 DEF Sampling
<1>8. OnTheCourse' BY <1>2 DEF OnTheCourse
<1>9. Queues'
 <2>1. /\ After(plan, drained)' = After(plan, drained)
       /\ LeftOf(previous, queue)' <=> LeftOf(previous, queue)
       /\ LeftOf(candidate.prediction, queue)' <=> LeftOf(candidate.prediction, queue)
   BY DEF LeftOf, After
 <2> QED BY <1>1, <1>2, <2>1 DEF Queues
<1>10. Journal' BY <1>1 DEF Journal
<1> QED BY <1>4, <1>5, <1>6, <1>7, <1>8, <1>9, <1>10 DEF IInv

LEMMA SampleStep ==
  ASSUME IInv, SampleInput
  PROVE  IInv'
<1>1. CASE latest.generation = examined
 <2>1. Typed /\ Origins /\ Journal BY DEF IInv
 <2>2. /\ opc = "input" /\ rows # <<>> /\ sampled' = NextInput(active) /\ opc' = "calc"
       /\ UNCHANGED <<examined, active, accepted, rejected, rows, torn, latest, sequence, outcome,
                      stopRequested, cpc, drained, queue, previous, candidate, generation,
                      lastSearch, plan>>
   BY <1>1 DEF SampleInput, searchVars
 <2>3. sampled' = Course(Len(rows) + 1) /\ sampled' \in Inputs BY <2>1, <2>2, NextOfActive
 <2>4. Journal' BY <2>1, <2>2 DEF Journal
 <2> QED BY <2>1, <2>2, <2>3, <2>4, OwnerGoesOn DEF Typed
<1>2. CASE latest.generation # examined /\ CompatibleLead(latest)
  BY <1>2, AcceptStep DEF SampleInput, searchVars
<1>3. CASE latest.generation # examined /\ ~CompatibleLead(latest)
  BY <1>3, RejectStep DEF SampleInput, searchVars
<1> QED BY <1>1, <1>2, <1>3

----
\* The steps of the controller.
LEMMA SameGame ==
  ASSUME UNCHANGED ownerVars
  PROVE  /\ Sampling' <=> Sampling
         /\ Held' <=> Held
         /\ \A n : Course(n)' = Course(n)
         /\ Follows(active, End(active))' <=> Follows(active, End(active))
         /\ After(active, drained') = After(active, drained)'
<1>1. rows' = rows /\ active' = active /\ sampled' = sampled /\ opc' = opc BY DEF ownerVars
<1>2. \A n : Course(n)' = Course(n) BY <1>1, SameCourse
<1>3. Sampling' <=> Sampling
 <2>1. Course(Len(rows) + 1)' = Course(Len(rows) + 1) BY <1>1, SameCourse
 <2> QED BY <1>1, <2>1 DEF Sampling
<1> QED BY <1>1, <1>2, <1>3 DEF Held, Follows, End, At, After

\* Steps that neither follow the journal nor change a plan.
LEMMA Quiet ==
  ASSUME IInv, UNCHANGED ownerVars,
         UNCHANGED <<latest, drained, previous, generation, plan>>,
         candidate' \in {candidate, NoCandidate},
         queue' = queue \/ (queue' = <<>> /\ rejected # 0), lastSearch' \in Nat,
         cpc \notin {"publish", "halted"},
         cpc' \in ControllerStep \ {"searched", "decide", "publish"},
         cpc' \in Busy => drained > 0 /\ (rejected = 0 => examined = generation),
         cpc' \in {"last_drain", "check_journal"} => outcome # "Running",
         cpc' = "check_journal" => drained = Len(rows),
         cpc' = "truncated" => torn /\ outcome = "Failed",
         cpc' = "concluded" => ~torn /\ drained = Len(rows) /\ outcome # "Running"
  PROVE  IInv'
<1>1. Typed /\ Origins /\ Generations /\ Sampling /\ OnTheCourse /\ Queues /\ Journal BY DEF IInv
<1>2. UNCHANGED <<rows, torn, opc, sampled, examined, active, sequence, accepted, rejected, outcome>> BY DEF ownerVars
<1>3. NoCandidate \in [prediction : PredictionType, unchanged : Nat] /\ <<>> \in Seq(Inputs)
      /\ NoCandidate.prediction.origin = 0 /\ Len(NoCandidate.prediction.inputs) = 0
  BY EmptySeq DEF NoCandidate, NoPrediction, PredictionType
<1>4. drained \in Nat BY <1>1, Sizes
<1>5. Typed' BY <1>1, <1>2, <1>3 DEF Typed
<1>6. Origins' BY <1>1, <1>2, <1>3, <1>4, Numbers DEF Origins
<1>7. Generations' BY <1>1, <1>2 DEF Generations
<1>8. Sampling' BY <1>1, SameGame
<1>9. OnTheCourse'
 <2>1. Follows(latest, latest.first_change - 1)' <=> Follows(latest, latest.first_change - 1)
   BY SameGame DEF Follows, At, End
 <2> QED BY <1>1, <1>2, <2>1, SameGame DEF OnTheCourse
<1>10. Queues'
 <2>1. /\ After(active, drained)' = After(active, drained)
       /\ After(latest, drained)' = After(latest, drained)
       /\ LeftOf(previous, queue) => LeftOf(previous, queue)'
   BY <1>2 DEF LeftOf, After
 <2> QED BY <1>1, <1>2, <2>1 DEF Queues, ControllerStep, Busy
<1>11. Journal' BY <1>1, <1>2 DEF Journal
<1> QED BY <1>5, <1>6, <1>7, <1>8, <1>9, <1>10, <1>11 DEF IInv

LEMMA QuietControllerSteps ==
  ASSUME IInv, LoadOutcome \/ CheckJournal \/ Deadline \/ LoadRejected \/ LoadPending
                 \/ SearchFaults
  PROVE  IInv'
<1>1. Typed /\ Generations /\ Journal BY DEF IInv
<1> USE DEF searchVars, ControllerStep, Busy
<1>2. CASE LoadOutcome BY <1>1, <1>2, Quiet DEF LoadOutcome, Typed
<1>3. CASE CheckJournal
 <2>1. /\ drained = Len(rows) /\ drained = sequence /\ outcome # "Running"
       /\ torn => outcome = "Failed"
   BY <1>1, <1>3 DEF CheckJournal, Journal
 <2> QED BY <1>1, <1>3, <2>1, Quiet DEF CheckJournal, Typed
<1>4. CASE Deadline BY <1>1, <1>4, Quiet DEF Deadline, Typed
<1>5. CASE LoadRejected BY <1>1, <1>5, Quiet DEF LoadRejected, Typed
<1>6. CASE LoadPending
 <2>1. cpc' = "search" => drained > 0 /\ (rejected = 0 => examined = generation)
   BY <1>1, <1>6 DEF LoadPending, Pending, Wanted, Generations, Typed
 <2>2. cpc = "gate" /\ cpc' \in {"search", "drain"} /\ lastSearch' \in {lastSearch, drained}
   BY <1>6 DEF LoadPending
 <2>3. drained \in Nat /\ lastSearch \in Nat BY <1>1, Sizes DEF Typed
 <2> QED BY <1>1, <1>6, <2>1, <2>2, <2>3, Quiet DEF LoadPending
<1>7. CASE SearchFaults BY <1>1, <1>7, Quiet DEF SearchFaults, Typed
<1> QED BY <1>2, <1>3, <1>4, <1>5, <1>6, <1>7

\* The receipts that are in the journal and not in the shadow.
LEMMA DrainStep ==
  ASSUME IInv, NEW next \in {"outcome", "check_journal", "decide"}, DrainTo(next),
         drained' = Len(rows), queue' = Confirmed(Executed(drained, Len(rows))), cpc' = next,
         cpc \notin {"publish", "halted"}, cpc' = "decide" => cpc = "searched",
         cpc' = "check_journal" => cpc = "last_drain"
  PROVE  IInv'
<1>1. Typed /\ Origins /\ Generations /\ Sampling /\ OnTheCourse /\ Queues /\ Journal BY DEF IInv
<1>2. /\ UNCHANGED <<rows, torn, opc, sampled, examined, active, sequence, accepted, rejected, outcome>>
      /\ UNCHANGED <<latest, previous, candidate, generation, lastSearch, plan>>
      /\ UNCHANGED ownerVars
  BY DEF DrainTo, ownerVars
<1> DEFINE s == Len(rows)
           receipts == Executed(drained, s)
<1>3. /\ s \in Nat /\ drained \in Nat /\ drained <= s /\ (rows = <<>> <=> s = 0)
      /\ active \in PlanType \cup PredictionType /\ active.origin <= drained
      /\ latest \in PlanType \cup PredictionType /\ latest.origin <= drained
      /\ previous.origin \in Nat /\ active.origin \in Nat /\ latest.origin \in Nat
  BY <1>1, Sizes, Plans3, PlanFacts
<1>4. receipts \in Seq(Inputs) /\ Len(receipts) = s - drained
 <2>1. s <= Len(rows) BY <1>3
 <2> HIDE DEF s
 <2> QED BY <1>1, <1>3, <2>1, ExecutedFacts
<1>5. queue' \in Seq(Inputs) BY <1>1, <1>4, ConfirmedTyped
<1>6. Typed' BY <1>1, <1>2, <1>3, <1>5 DEF Typed, ControllerStep, Busy
<1>7. Origins'
 <2>1. \A p \in {active, latest, plan, previous, candidate.prediction} :
         p.origin \in Nat /\ p.origin <= drained
   BY <1>1, Plans3, PlanFacts
 <2>2. \A p \in {active, latest, plan, previous, candidate.prediction} : p.origin <= s BY <1>3, <2>1
 <2> QED BY <1>1, <1>2, <2>2 DEF Origins
<1>8. Generations' BY <1>1, <1>2, <1>3 DEF Generations, Busy
<1>9. Sampling' BY <1>1, <1>2, SameGame
<1>10. OnTheCourse'
 <2>1. /\ Follows(latest, latest.first_change - 1)'
            <=> Follows(latest, latest.first_change - 1)
       /\ Follows(candidate.prediction, candidate.prediction.origin + candidate.unchanged)'
            <=> Follows(candidate.prediction,
                        candidate.prediction.origin + candidate.unchanged)
   BY <1>2, SameGame DEF Follows, At, End
 <2>2. cpc' # "publish" /\ (cpc' \in {"searched", "decide"} => cpc \in {"searched", "decide"}) OBVIOUS
 <2> QED BY <1>1, <1>2, <2>1, <2>2, SameGame DEF OnTheCourse
<1>11. ASSUME rejected = 0, examined = generation PROVE queue' = After(active, s)
 <2>1. queue = After(active, drained) /\ Follows(active, End(active)) BY <1>1, <1>11 DEF Queues, OnTheCourse
 <2>2. ASSUME NEW n \in drained + 1 .. s, n <= End(active) PROVE rows[n] = At(active, n)
  <3>1. n \in active.origin + 1 .. End(active) /\ n <= s BY <1>1, <1>3, <2>2, PlanFacts
  <3> QED BY <2>1, <2>2, <3>1 DEF Follows, Course
 <2> QED BY <1>1, <1>3, <2>1, <2>2, ConfirmedRest
<1>12. ASSUME rejected = 0, examined # generation, s + 1 < latest.first_change
       PROVE  queue' = After(latest, s)
 <2>1. queue = After(latest, drained) /\ Follows(latest, latest.first_change - 1)
   BY <1>1, <1>12 DEF Queues, OnTheCourse
 <2>2. ASSUME NEW n \in drained + 1 .. s, n <= End(latest) PROVE rows[n] = At(latest, n)
  <3>1. latest.first_change \in Nat BY <1>1 DEF Typed, PlanType
  <3>2. n \in latest.origin + 1 .. latest.first_change - 1 /\ n <= s BY <1>3, <1>12, <3>1
  <3> QED BY <2>1, <2>2, <3>2 DEF Follows, Course
 <2> QED BY <1>1, <1>3, <2>1, <2>2, ConfirmedRest
<1>13. LeftOf(previous, queue)'
 <2>1. LeftOf(previous, queue) BY <1>1 DEF Queues
 <2>2. drained' = drained + Len(receipts) BY <1>3, <1>4
 <2> HIDE DEF receipts
 <2>3. queue' = Confirmed(receipts) BY DEF receipts
 <2> QED BY <1>1, <1>2, <1>4, <2>1, <2>2, <2>3, ConfirmedLeft
<1>14. Queues'
 <2>1. /\ After(active, drained)' = After(active, s)
       /\ After(latest, drained)' = After(latest, s)
   BY <1>2 DEF After
 <2> QED BY <1>2, <1>11, <1>12, <1>13, <2>1 DEF Queues
<1>15. Journal' BY <1>1, <1>2 DEF Journal
<1> QED BY <1>6, <1>7, <1>8, <1>9, <1>10, <1>14, <1>15 DEF IInv

\* A receipt the shadow does not reproduce, or cannot execute.
LEMMA DivergenceStep ==
  ASSUME IInv, NEW last \in drained + 1 .. Len(rows), drained' \in {last - 1, last},
         queue' = Confirmed(Executed(drained, last - 1)), cpc' = "halted",
         cpc \notin {"publish", "halted"},
         UNCHANGED ownerVars, UNCHANGED <<latest, previous, candidate, generation, lastSearch, plan>>
  PROVE  IInv'
<1>1. Typed /\ Origins /\ Generations /\ Sampling /\ OnTheCourse /\ Queues /\ Journal BY DEF IInv
<1>2. UNCHANGED <<rows, torn, opc, sampled, examined, active, sequence, accepted, rejected, outcome>> BY DEF ownerVars
<1>3. /\ Len(rows) \in Nat /\ drained \in Nat /\ drained' \in Nat /\ drained <= drained'
      /\ drained' <= Len(rows) /\ last - 1 \in Nat /\ drained <= last - 1
      /\ last - 1 <= Len(rows) /\ (rows = <<>> <=> Len(rows) = 0)
  BY <1>1, Sizes
<1>4. queue' \in Seq(Inputs) BY <1>1, <1>3, ExecutedFacts, ConfirmedTyped
<1>5. Typed' BY <1>1, <1>2, <1>3, <1>4 DEF Typed, ControllerStep
<1>6. Origins'
 <2>1. \A p \in {active, latest, plan, previous, candidate.prediction} :
         p.origin \in Nat /\ p.origin <= drained
   BY <1>1, Plans3, PlanFacts
 <2>2. \A p \in {active, latest, plan, previous, candidate.prediction} : p.origin <= drained' BY <1>3, <2>1
 <2> QED BY <1>1, <1>2, <2>2 DEF Origins
<1>7. Generations' BY <1>1, <1>2, <1>3 DEF Generations, Busy
<1>8. Sampling' BY <1>1, <1>2, SameGame
<1>9. OnTheCourse'
 <2>1. Follows(latest, latest.first_change - 1)' <=> Follows(latest, latest.first_change - 1)
   BY <1>2, SameGame DEF Follows, At, End
 <2> QED BY <1>1, <1>2, <2>1, SameGame DEF OnTheCourse
<1>10. Queues' BY DEF Queues
<1>11. Journal' BY <1>1, <1>2 DEF Journal
<1> QED BY <1>5, <1>6, <1>7, <1>8, <1>9, <1>10, <1>11 DEF IInv

LEMMA DrainSteps ==
  ASSUME IInv, Drain \/ LastDrain \/ CatchUp
  PROVE  IInv'
<1>1. ASSUME NEW next \in {"outcome", "check_journal", "decide"}, DrainTo(next),
             cpc \notin {"publish", "halted"}, next = "decide" => cpc = "searched",
             next = "check_journal" => cpc = "last_drain"
      PROVE  IInv'
 <2>1. UNCHANGED ownerVars /\ UNCHANGED <<latest, previous, candidate, generation, lastSearch, plan>>
   BY <1>1 DEF DrainTo
 <2>2. CASE /\ drained' = Len(rows) /\ cpc' = next
            /\ queue' = Confirmed(Executed(drained, Len(rows)))
   BY <1>1, <2>2, DrainStep
 <2>3. CASE \E last \in drained + 1 .. Len(rows) :
              /\ drained' \in {last - 1, last} /\ cpc' = "halted"
              /\ queue' = Confirmed(Executed(drained, last - 1))
   BY <1>1, <2>1, <2>3, DivergenceStep
 <2> QED BY <1>1, <2>2, <2>3 DEF DrainTo
<1> QED BY <1>1 DEF Drain, LastDrain, CatchUp

LEMMA SearchStep ==
  ASSUME IInv, Search
  PROVE  IInv'
<1>1. Typed /\ Origins /\ Generations /\ Sampling /\ OnTheCourse /\ Queues /\ Journal BY DEF IInv
<1>2. /\ cpc = "search" /\ cpc' = "searched" /\ UNCHANGED ownerVars
      /\ UNCHANGED <<rows, torn, opc, sampled, examined, active, sequence, accepted, rejected, outcome>>
      /\ UNCHANGED <<latest, drained, queue, previous, generation, lastSearch, plan>>
  BY DEF Search, ownerVars
<1>3. LeftOf(previous, queue) BY <1>1, <1>2 DEF Queues
<1>4. drained > 0 /\ drained \in Nat /\ Len(<<>>) = 0 /\ <<>> \in Seq(Inputs)
  BY <1>1, <1>2, Sizes, EmptySeq DEF Generations, Busy
<1>5. /\ candidate' \in [prediction : PredictionType, unchanged : Nat]
      /\ candidate'.prediction.origin <= drained
      /\ Len(candidate'.prediction.inputs) <= Horizon
      /\ Held /\ Follows(active, End(active)) /\ queue = After(active, drained)
           => Follows(candidate'.prediction,
                      candidate'.prediction.origin + candidate'.unchanged)
 <2>1. CASE SearchFails
  <3>1. /\ candidate'.prediction.origin = 0 /\ candidate'.prediction.inputs = <<>>
        /\ candidate'.unchanged = 0
    BY <2>1 DEF SearchFails, NoCandidate, NoPrediction
  <3>2. Follows(candidate'.prediction, candidate'.prediction.origin + candidate'.unchanged) BY <3>1 DEF Follows
  <3> QED BY <1>4, <2>1, <3>1, <3>2, Numbers
          DEF SearchFails, NoCandidate, NoPrediction, PredictionType
 <2>2. CASE drained < GameEnd /\ (SearchWarm \/ SearchFresh) BY <1>1, <1>3, <1>4, <2>2, SearchFacts
 <2> QED BY <2>1, <2>2 DEF Search
<1>6. Typed' BY <1>1, <1>2, <1>5 DEF Typed, ControllerStep, Busy
<1>7. Origins' BY <1>1, <1>2, <1>5 DEF Origins
<1>8. Generations' BY <1>1, <1>2 DEF Generations, Busy
<1>9. Sampling' BY <1>1, <1>2, SameGame
<1>10. OnTheCourse'
 <2> SUFFICES ASSUME rejected = 0
              PROVE  /\ Held' /\ Follows(active, End(active))'
                     /\ Follows(candidate.prediction,
                                candidate.prediction.origin + candidate.unchanged)'
   BY <1>1, <1>2 DEF OnTheCourse, Generations, Busy
 <2>1. examined = generation /\ Held /\ Follows(active, End(active))
   BY <1>1, <1>2 DEF OnTheCourse, Generations, Busy
 <2>2. queue = After(active, drained) BY <1>1, <1>2, <2>1 DEF Queues
 <2>3. Follows(candidate'.prediction, candidate'.prediction.origin + candidate'.unchanged) BY <1>5, <2>1, <2>2
 <2>4. Follows(candidate.prediction, candidate.prediction.origin + candidate.unchanged)'
   BY <1>2, <2>3, SameGame DEF Follows, At, End
 <2> QED BY <1>2, <2>1, <2>4, SameGame
<1>11. Queues'
 <2>1. /\ After(active, drained)' = After(active, drained)
       /\ After(latest, drained)' = After(latest, drained)
       /\ LeftOf(previous, queue)'
   BY <1>2, <1>3 DEF LeftOf, After
 <2> QED BY <1>1, <1>2, <2>1 DEF Queues
<1>12. Journal' BY <1>1, <1>2 DEF Journal
<1> QED BY <1>6, <1>7, <1>8, <1>9, <1>10, <1>11, <1>12 DEF IInv

\* What both ways to a plan establish.
LEMMA PlanStep ==
  ASSUME IInv, cpc \in {"decide", "retain"}, cpc' = "publish", UNCHANGED ownerVars,
         UNCHANGED <<latest, drained, previous, generation, lastSearch>>,
         plan' \in PlanType, plan'.generation = generation + 2, plan'.origin <= drained,
         candidate' \in {candidate, [prediction |-> previous, unchanged |-> Len(queue)]},
         rejected = 0 => Follows(plan', plan'.first_change - 1),
         queue' \in Seq(Inputs), queue' = After(plan', drained),
         LeftOf(candidate'.prediction, queue')
  PROVE  IInv'
<1>1. Typed /\ Origins /\ Generations /\ Sampling /\ OnTheCourse /\ Queues /\ Journal BY DEF IInv
<1>2. UNCHANGED <<rows, torn, opc, sampled, examined, active, sequence, accepted, rejected, outcome>> BY DEF ownerVars
<1>3. Len(queue) \in Nat /\ previous \in PredictionType /\ drained \in Nat
      /\ previous.origin <= drained /\ Len(previous.inputs) <= Horizon
  BY <1>1, Sizes DEF Typed, Origins
<1>4. drained > 0 /\ (rejected = 0 => examined = generation) BY <1>1 DEF Generations, Busy
<1>5. Typed' BY <1>1, <1>2, <1>3 DEF Typed, ControllerStep, Busy
<1>6. Origins' BY <1>1, <1>2, <1>3 DEF Origins
<1>7. Generations' BY <1>1, <1>2, <1>4 DEF Generations
<1>8. Sampling' BY <1>1, <1>2, SameGame
<1>9. OnTheCourse'
 <2>1. ASSUME rejected = 0 PROVE Follows(plan, plan.first_change - 1)'
   BY <1>2, <2>1, SameGame DEF Follows, At, End
 <2> QED BY <1>1, <1>2, <1>4, <2>1, SameGame DEF OnTheCourse
<1>10. Queues'
 <2>1. queue' = After(plan, drained)' BY DEF After
 <2>2. LeftOf(candidate.prediction, queue)' BY DEF LeftOf
 <2> QED BY <1>1, <1>2, <1>4, <2>1, <2>2 DEF Queues
<1>11. Journal' BY <1>1, <1>2 DEF Journal
<1> QED BY <1>5, <1>6, <1>7, <1>8, <1>9, <1>10, <1>11 DEF IInv

\* The inputs c + 1 .. c + l of a prediction, and what is left of them
\* after the first k.
LEMMA Window ==
  ASSUME NEW p \in PredictionType, NEW c \in Nat, NEW l \in Nat, c + l <= Len(p.inputs),
         NEW k \in 0 .. l
  PROVE  LET q == SubSeq(p.inputs, c + 1, c + l)
         IN  /\ q \in Seq(Inputs) /\ Len(q) = l /\ \A i \in 1 .. l : q[i] = p.inputs[c + i]
             /\ SubSeq(q, k + 1, l) = SubSeq(p.inputs, c + k + 1, c + l)
             /\ SubSeq(q, k + 1, l) \in Seq(Inputs) /\ Len(SubSeq(q, k + 1, l)) = l - k
<1> DEFINE q == SubSeq(p.inputs, c + 1, c + l)
<1>1. p.inputs \in Seq(Inputs) /\ Len(p.inputs) \in Nat BY PlanFacts
<1>2. SubSeq(q, k + 1, l) = SubSeq(p.inputs, c + k + 1, c + l) BY <1>1, SliceOfSlice
<1>3. q \in Seq(Inputs) /\ Len(q) = l /\ \A i \in 1 .. l : q[i] = p.inputs[c + i]
 <2>1. c + 1 \in Nat \ {0} /\ c + l \in Int OBVIOUS
 <2>2. /\ q \in Seq(Inputs) /\ Len(q) = IF c + 1 <= c + l THEN c + l - (c + 1) + 1 ELSE 0
       /\ \A i \in 1 .. c + l - (c + 1) + 1 : q[i] = p.inputs[c + 1 + i - 1]
   BY <1>1, <2>1, Slice
 <2> HIDE DEF q
 <2>3. (c + 1 <= c + l <=> 1 <= l) /\ c + l - (c + 1) + 1 = l /\ (1 > l => l = 0) OBVIOUS
 <2>4. Len(q) = l BY <2>2, <2>3
 <2>5. ASSUME NEW i \in 1 .. l PROVE q[i] = p.inputs[c + i]
  <3>1. c + 1 + i - 1 = c + i /\ i \in 1 .. c + l - (c + 1) + 1 OBVIOUS
  <3> QED BY <2>2, <3>1
 <2> QED BY <2>2, <2>4, <2>5
<1> HIDE DEF q
<1>4. SubSeq(q, k + 1, l) \in Seq(Inputs) /\ Len(SubSeq(q, k + 1, l)) = l - k
 <2>1. k + 1 \in Nat \ {0} /\ l \in Int /\ l <= Len(q) BY <1>3
 <2>2. /\ SubSeq(q, k + 1, l) \in Seq(Inputs)
       /\ Len(SubSeq(q, k + 1, l)) = IF k + 1 <= l THEN l - (k + 1) + 1 ELSE 0
   BY <1>3, <2>1, Slice
 <2> QED BY <2>2
<1> QED BY <1>2, <1>3, <1>4 DEF q

LEMMA DecideStep ==
  ASSUME IInv, Decide
  PROVE  IInv'
<1> DEFINE p == candidate.prediction
           u == candidate.unchanged
           w == Smaller(Len(p.inputs), Publish)
           c == drained - p.origin
           proposal == [generation |-> generation + 2, origin |-> p.origin,
                        first_change |-> p.origin + u + 1, inputs |-> SubSeq(p.inputs, 1, w)]
<1>1. Typed /\ Origins /\ Generations /\ OnTheCourse /\ Queues BY DEF IInv
<1>2. /\ cpc = "decide" /\ UNCHANGED ownerVars
      /\ UNCHANGED <<latest, drained, previous, candidate, generation, lastSearch>>
  BY DEF Decide
<1>3. drained > 0 /\ (rejected = 0 => examined = generation) /\ lastSearch \in Nat
  BY <1>1, <1>2 DEF Generations, Busy, Typed
<1>4. CASE cpc' \in {"drain", "retain"} /\ UNCHANGED <<queue, plan>>
  BY <1>2, <1>3, <1>4, Quiet DEF ControllerStep, Busy
<1>5. CASE /\ Timely(proposal, sequence) /\ Replaces(p, Publish) /\ cpc' = "publish"
           /\ queue' = Queued(p, Publish) /\ plan' = proposal
 <2>1. /\ p \in PredictionType /\ p.origin \in Nat /\ p.origin <= drained
       /\ p.inputs \in Seq(Inputs) /\ Len(p.inputs) \in Nat /\ u \in Nat
       /\ generation \in Nat /\ drained \in Nat
  <3>1. p \in PredictionType /\ u \in Nat /\ p.origin <= drained BY <1>1 DEF Typed, Origins
  <3> HIDE DEF p, u
  <3> QED BY <1>1, <3>1, PlanFacts, Sizes DEF Typed
 <2>2. w \in Nat /\ c \in Nat /\ c < w /\ 0 + w <= Len(p.inputs) /\ c \in 0 .. w
   BY SMTT(30), <1>5, <2>1, Numbers DEF Replaces, Smaller
 <2>3. queue' = SubSeq(p.inputs, c + 1, w) BY <1>5 DEF Queued
 <2>4. /\ plan'.generation = generation + 2 /\ plan'.origin = p.origin
       /\ plan'.first_change = p.origin + u + 1 /\ plan'.inputs = SubSeq(p.inputs, 0 + 1, 0 + w)
       /\ plan' = [generation |-> generation + 2, origin |-> p.origin,
                   first_change |-> p.origin + u + 1, inputs |-> plan'.inputs]
   BY <1>5, <2>2
 <2> DEFINE q == plan'.inputs
 <2>5. rejected = 0 => Follows(p, p.origin + u) BY <1>1, <1>2 DEF OnTheCourse
 <2>6. p = candidate'.prediction BY <1>2
 <2>7. After(plan', drained) = SubSeq(q, drained - p.origin + 1, Len(q)) BY <2>4 DEF After
 <2>8. c = drained - p.origin OBVIOUS
 <2> HIDE DEF p, u, w, c, proposal
 <2>9. /\ q \in Seq(Inputs) /\ Len(q) = w /\ \A i \in 1 .. w : q[i] = p.inputs[i]
       /\ SubSeq(q, c + 1, w) = SubSeq(p.inputs, c + 1, w)
       /\ SubSeq(q, c + 1, w) \in Seq(Inputs) /\ Len(SubSeq(q, c + 1, w)) = w - c
  <3> DEFINE z == 0
  <3>1. z \in Nat /\ z + w <= Len(p.inputs) /\ q = SubSeq(p.inputs, z + 1, z + w) BY <2>2, <2>4
  <3> HIDE DEF z, q
  <3>2. /\ q \in Seq(Inputs) /\ Len(q) = w /\ \A i \in 1 .. w : q[i] = p.inputs[z + i]
        /\ SubSeq(q, c + 1, w) = SubSeq(p.inputs, z + c + 1, z + w)
        /\ SubSeq(q, c + 1, w) \in Seq(Inputs) /\ Len(SubSeq(q, c + 1, w)) = w - c
   <4>1. p \in PredictionType /\ z \in Nat /\ w \in Nat /\ c \in 0 .. w BY <2>1, <2>2, <3>1
   <4> QED BY <3>1, <4>1, Window, ZenonT(40)
  <3>3. z + c + 1 = c + 1 /\ z + w = w /\ \A i \in 1 .. w : z + i = i BY <2>2 DEF z
  <3> QED BY <3>2, <3>3
 <2> HIDE DEF q
 <2>10. queue' = SubSeq(q, c + 1, w) /\ queue' \in Seq(Inputs) /\ Len(queue') = w - c
  <3>1. queue' = SubSeq(q, c + 1, w) BY <2>3, <2>9
  <3> QED BY <2>9, <3>1
 <2>11. queue' = After(plan', drained)
  <3>1. After(plan', drained) = SubSeq(q, c + 1, w) BY <2>7, <2>8, <2>9
  <3> QED BY <2>10, <3>1
 <2>12. LeftOf(p, queue')
  <3>1. /\ drained - p.origin + Len(queue') = w /\ drained - p.origin + 1 = c + 1
        /\ w <= Len(p.inputs)
    BY <2>1, <2>2, <2>8, <2>10
  <3> QED BY <2>3, <3>1 DEF LeftOf
 <2> USE DEF q
 <2>13. plan' \in PlanType
  <3>1. p.origin + u + 1 \in Nat /\ generation + 2 \in Nat /\ plan'.inputs \in Seq(Inputs) BY <2>1, <2>9
  <3> QED BY <2>1, <2>4, <3>1 DEF PlanType
 <2>14. ASSUME rejected = 0 PROVE Follows(plan', plan'.first_change - 1)
  <3> SUFFICES ASSUME NEW n \in p.origin + 1 .. p.origin + u, n <= End(plan')
               PROVE  At(plan', n) = Course(n)
    BY <2>1, <2>4 DEF Follows
  <3>1. End(plan') = p.origin + w BY <2>4, <2>9 DEF End
  <3>2. n - p.origin \in 1 .. w /\ n <= End(p) BY <2>1, <2>2, <3>1 DEF End
  <3>3. At(plan', n) = At(p, n) BY <2>4, <2>9, <3>2 DEF At
  <3> QED BY <2>5, <2>14, <3>2, <3>3 DEF Follows
 <2>15. plan'.origin <= drained BY <2>1, <2>4
 <2> QED BY <1>2, <1>5, <2>4, <2>6, <2>10, <2>11, <2>12, <2>13, <2>14, <2>15, PlanStep
<1> QED BY <1>4, <1>5 DEF Decide

LEMMA RetainStep ==
  ASSUME IInv, Retain
  PROVE  IInv'
<1> DEFINE l == Smaller(Publish, Len(previous.inputs) - Consumed)
           c == Consumed
           k == Len(queue)
           proposal == [generation |-> generation + 2, origin |-> drained,
                        first_change |-> drained + k + 1,
                        inputs |-> SubSeq(previous.inputs, c + 1, c + l)]
<1>1. Typed /\ Origins /\ Generations /\ OnTheCourse /\ Queues BY DEF IInv
<1>2. /\ cpc = "retain" /\ UNCHANGED ownerVars
      /\ UNCHANGED <<latest, drained, previous, generation, lastSearch>>
  BY DEF Retain
<1>3. drained > 0 /\ (rejected = 0 => examined = generation) /\ lastSearch \in Nat
  BY <1>1, <1>2 DEF Generations, Busy, Typed
<1>4. CASE cpc' = "drain" /\ candidate' = NoCandidate /\ UNCHANGED <<queue, plan>>
  BY <1>2, <1>3, <1>4, Quiet DEF ControllerStep, Busy
<1>5. CASE /\ l > k /\ c < Len(previous.inputs) /\ cpc' = "publish"
           /\ queue' = Queued(previous, c + l) /\ plan' = proposal
           /\ candidate' = [prediction |-> previous, unchanged |-> k]
 <2>1. /\ previous \in PredictionType /\ previous.origin \in Nat /\ previous.origin <= drained
       /\ previous.inputs \in Seq(Inputs) /\ Len(previous.inputs) \in Nat /\ k \in Nat
       /\ generation \in Nat /\ drained \in Nat /\ c \in Nat
   BY <1>1, ConsumedFacts, Sizes DEF Typed
 <2>15. c = drained - previous.origin BY DEF Consumed
 <2>2. l \in Nat /\ c + l <= Len(previous.inputs) /\ k < l
  <3>1. l > k /\ c < Len(previous.inputs) /\ l = Smaller(Publish, Len(previous.inputs) - c) BY <1>5
  <3> HIDE DEF c, k, l
  <3> QED BY <2>1, <3>1, Numbers DEF Smaller
 <2>3. queue' = SubSeq(previous.inputs, c + 1, c + l)
  <3>1. queue' = SubSeq(previous.inputs, c + 1, Smaller(Len(previous.inputs), c + l)) BY <1>5, <2>15 DEF Queued
  <3> HIDE DEF c, l
  <3>2. Smaller(Len(previous.inputs), c + l) = c + l BY <2>1, <2>2 DEF Smaller
  <3> QED BY <3>1, <3>2
 <2>4. /\ plan'.generation = generation + 2 /\ plan'.origin = drained
       /\ plan'.first_change = drained + k + 1
       /\ plan'.inputs = SubSeq(previous.inputs, c + 1, c + l)
       /\ plan' = [generation |-> generation + 2, origin |-> drained,
                   first_change |-> drained + k + 1, inputs |-> plan'.inputs]
   BY <1>5
 <2> DEFINE q == plan'.inputs
 <2>5. LeftOf(previous, queue) /\ (rejected = 0 => queue = After(active, drained))
   BY <1>1, <1>2, <1>3 DEF Queues
 <2>6. After(plan', drained) = SubSeq(q, drained - drained + 1, Len(q)) BY <2>4 DEF After
 <2> HIDE DEF l, c, k, q, proposal
 <2>7. /\ q \in Seq(Inputs) /\ Len(q) = l /\ \A i \in 1 .. l : q[i] = previous.inputs[c + i]
       /\ SubSeq(q, 1, l) = SubSeq(previous.inputs, c + 1, c + l)
  <3> DEFINE z == 0
  <3>1. z \in 0 .. l /\ q = SubSeq(previous.inputs, c + 1, c + l) BY <2>2, <2>4 DEF q
  <3> HIDE DEF z
  <3>2. /\ q \in Seq(Inputs) /\ Len(q) = l /\ \A i \in 1 .. l : q[i] = previous.inputs[c + i]
        /\ SubSeq(q, z + 1, l) = SubSeq(previous.inputs, c + z + 1, c + l)
   <4>1. previous \in PredictionType /\ c \in Nat /\ l \in Nat
         /\ c + l <= Len(previous.inputs)
     BY <2>1, <2>2
   <4> QED BY <3>1, <4>1, Window, ZenonT(40)
  <3>3. z + 1 = 1 /\ c + z + 1 = c + 1 BY <2>1 DEF z
  <3> QED BY <3>2, <3>3
 <2>8. queue' = q /\ queue' \in Seq(Inputs) /\ Len(queue') = l BY <2>3, <2>4, <2>7 DEF q
 <2>9. queue' = After(plan', drained)
  <3>1. drained - drained + 1 = 1 BY <2>1
  <3>2. After(plan', drained) = SubSeq(q, 1, l) BY <2>6, <2>7, <3>1
  <3> QED BY <2>3, <2>7, <3>2
 <2>10. LeftOf(candidate'.prediction, queue')
  <3>1. /\ drained - previous.origin + Len(queue') = c + l
        /\ drained - previous.origin + 1 = c + 1 /\ candidate'.prediction = previous
    BY <1>5, <2>1, <2>2, <2>8, <2>15
  <3> QED BY <2>2, <2>3, <3>1 DEF LeftOf
 <2>11. plan' \in PlanType
  <3>1. /\ drained + k + 1 \in Nat /\ generation + 2 \in Nat /\ drained \in Nat
        /\ plan'.inputs \in Seq(Inputs)
    BY <2>1, <2>7 DEF q
  <3> QED BY <2>4, <3>1 DEF PlanType
 <2>12. ASSUME rejected = 0 PROVE Follows(plan', plan'.first_change - 1)
  <3> SUFFICES ASSUME NEW n \in drained + 1 .. drained + k
               PROVE  At(plan', n) = Course(n)
    BY <2>1, <2>4 DEF Follows
  <3> DEFINE i == n - drained
  <3>1. /\ i \in 1 .. k /\ i \in 1 .. l /\ drained + i = n
        /\ drained + i - previous.origin = c + i
    BY <2>1, <2>2, <2>15
  <3>2. At(plan', n) = previous.inputs[c + i] BY <2>4, <2>7, <3>1 DEF At, q
  <3>3. queue[i] = At(previous, drained + i) BY <1>1, <2>1, <2>5, <3>1, LeftFacts DEF k
  <3>4. Follows(active, End(active)) BY <1>1, <2>12 DEF OnTheCourse
  <3>5. queue[i] = Course(drained + i) BY <1>1, <2>5, <2>12, <3>1, <3>4, QueueOnCourse DEF k
  <3>6. At(previous, drained + i) = previous.inputs[c + i] BY <2>1, <3>1 DEF At
  <3> QED BY <3>1, <3>2, <3>3, <3>5, <3>6
 <2>13. plan'.origin <= drained BY <2>1, <2>4
 <2>14. candidate' = [prediction |-> previous, unchanged |-> Len(queue)] BY <1>5 DEF k
 <2> QED BY <1>2, <1>5, <2>4, <2>8, <2>9, <2>10, <2>11, <2>12, <2>13, <2>14, PlanStep
<1> QED BY <1>4, <1>5 DEF Retain

LEMMA PublishStep ==
  ASSUME IInv, PublishPlan
  PROVE  IInv'
<1>1. Typed /\ Origins /\ Generations /\ Sampling /\ OnTheCourse /\ Queues /\ Journal BY DEF IInv
<1>2. /\ cpc = "publish" /\ cpc' = "drain" /\ UNCHANGED ownerVars
      /\ UNCHANGED <<rows, torn, opc, sampled, examined, active, sequence, accepted, rejected, outcome>>
      /\ UNCHANGED <<drained, queue, lastSearch>>
      /\ latest' = plan /\ generation' = plan.generation /\ previous' = candidate.prediction
      /\ candidate' = NoCandidate /\ plan' = NoPlan
  BY DEF PublishPlan, ownerVars
<1>3. /\ generation' = generation + 2 /\ generation \in Nat /\ examined \in Nat
      /\ examined <= generation /\ drained > 0 /\ drained \in Nat
  BY <1>1, <1>2, Sizes DEF Generations, Busy, Typed
<1>4. /\ NoCandidate \in [prediction : PredictionType, unchanged : Nat] /\ NoPlan \in PlanType
      /\ NoCandidate.prediction.origin = 0 /\ Len(NoCandidate.prediction.inputs) = 0
      /\ NoPlan.origin = 0
  BY EmptySeq DEF NoCandidate, NoPrediction, PredictionType, NoPlan, PlanType
<1>5. Typed' BY <1>1, <1>2, <1>3, <1>4 DEF Typed, ControllerStep
<1>6. Origins' BY <1>1, <1>2, <1>3, <1>4, Numbers DEF Origins
<1>7. examined' # generation' /\ examined' <= generation' BY <1>2, <1>3
<1>8. Generations' BY <1>1, <1>2, <1>3, <1>7 DEF Generations, Busy
<1>9. Sampling' BY <1>1, <1>2, SameGame
<1>10. OnTheCourse'
 <2>1. Follows(latest, latest.first_change - 1)' <=> Follows(plan, plan.first_change - 1)
   BY <1>2, SameGame DEF Follows, At, End
 <2> QED BY <1>1, <1>2, <2>1, SameGame DEF OnTheCourse
<1>11. Queues'
 <2>1. /\ After(latest, drained)' = After(plan, drained)
       /\ LeftOf(previous, queue)' <=> LeftOf(candidate.prediction, queue)
   BY <1>2 DEF LeftOf, After
 <2> QED BY <1>1, <1>2, <1>7, <2>1 DEF Queues
<1>12. Journal' BY <1>1, <1>2 DEF Journal
<1> QED BY <1>5, <1>6, <1>8, <1>9, <1>10, <1>11, <1>12 DEF IInv

----
LEMMA Stutter ==
  ASSUME IInv, UNCHANGED vars
  PROVE  IInv'
<1>1. Typed /\ Sampling /\ Journal BY DEF IInv
<1>2. Journal' BY <1>1 DEF Journal, vars, ownerVars
<1> QED BY <1>1, <1>2, OwnerGoesOn DEF vars, ownerVars, searchVars, Typed, Sampling

\* The induction: types, the words both programs share, the course the
\* owner is on and the queue that follows it, for every execution of the
\* loop in observer.cpp and shadow_online.cpp.
THEOREM Invariance == Spec => []IInv
<1>1. Init => IInv BY Initially
<1>2. IInv /\ [Next]_vars => IInv'
 <2> SUFFICES ASSUME IInv, [Next]_vars
              PROVE  IInv'
   OBVIOUS
 <2>1. CASE Owner BY <2>1, QuietOwnerSteps, CalculateStep, ShortWriteStep, SampleStep DEF Owner
 <2>2. CASE Controller
   BY <2>2, QuietControllerSteps, DrainSteps, SearchStep, DecideStep, RetainStep, PublishStep DEF Controller
 <2>3. CASE UNCHANGED vars BY <2>3, Stutter
 <2> QED BY <2>1, <2>2, <2>3 DEF Next
<1> QED BY <1>1, <1>2, PTL DEF Spec

\* The outcome says the journal is complete: the controller reports it
\* truncated only after a write that fell short, and when it concludes it
\* has executed every receipt there will ever be (CheckJournal,
\* shadow_online.cpp).
THEOREM JournalFound == Spec => []JournalComplete
<1>1. IInv => JournalComplete BY DEF IInv, Journal, JournalComplete
<1> QED BY <1>1, Invariance, PTL

\* Until a plan is rejected the owner executes only what was certified:
\* every input since the origin of its plan is the one the plan holds,
\* however late the plan was published, examined and accepted.
THEOREM CertifiedCourse == Spec => []CertifiedUntilRejection
<1>1. ASSUME IInv PROVE CertifiedUntilRejection
 <2> SUFFICES ASSUME rejected = 0 PROVE OnCourse(active) BY DEF CertifiedUntilRejection
 <2> DEFINE s == Len(rows)
            o == active.origin
            end == Smaller(s, o + Len(active.inputs))
            length == end - o
 <2>1. Typed /\ Origins /\ Follows(active, End(active)) BY <1>1 DEF IInv, OnTheCourse
 <2>2. /\ s \in Nat /\ drained \in Nat /\ drained <= s /\ o \in Nat /\ o <= drained
       /\ active.inputs \in Seq(Inputs) /\ Len(active.inputs) \in Nat
       /\ End(active) = o + Len(active.inputs)
   BY <2>1, Sizes, Plans3, PlanFacts DEF End
 <2>3. /\ end \in Nat /\ o <= end /\ end <= s /\ end <= End(active) /\ length \in Nat
       /\ length <= Len(active.inputs) /\ length = end - o
  <3> HIDE DEF s, o
  <3> QED BY <2>2 DEF Smaller
 <2>4. OnCourse(active) <=> Executed(o, end) = SubSeq(active.inputs, 1, length) BY DEF OnCourse
 <2> HIDE DEF s, o, end, length
 <2>5. /\ Executed(o, end) \in Seq(Inputs) /\ Len(Executed(o, end)) = length
       /\ \A i \in 1 .. length : Executed(o, end)[i] = rows[o + i]
  <3>1. end <= Len(rows) BY <2>3 DEF s
  <3>2. /\ Executed(o, end) \in Seq(Inputs) /\ Len(Executed(o, end)) = end - o
        /\ \A i \in 1 .. end - o : Executed(o, end)[i] = rows[o + i]
    BY <2>1, <2>2, <2>3, <3>1, ExecutedFacts
  <3> QED BY <2>3, <3>2
 <2>6. /\ SubSeq(active.inputs, 1, length) \in Seq(Inputs)
       /\ Len(SubSeq(active.inputs, 1, length)) = length
       /\ \A i \in 1 .. length : SubSeq(active.inputs, 1, length)[i] = active.inputs[i]
  <3>1. 1 \in Nat \ {0} /\ length \in Int BY <2>3
  <3>2. /\ SubSeq(active.inputs, 1, length) \in Seq(Inputs)
        /\ Len(SubSeq(active.inputs, 1, length)) = IF 1 <= length THEN length - 1 + 1 ELSE 0
        /\ \A i \in 1 .. length - 1 + 1 :
              SubSeq(active.inputs, 1, length)[i] = active.inputs[1 + i - 1]
    BY <2>2, <2>3, <3>1, Slice
  <3> QED BY <2>3, <3>2
 <2>7. ASSUME NEW i \in 1 .. length PROVE active.inputs[i] = rows[o + i]
  <3>1. o + i \in o + 1 .. End(active) /\ o + i <= s /\ o + i - o = i /\ o + i <= End(active) BY <2>2, <2>3
  <3>2. At(active, o + i) = Course(o + i) BY <2>1, <3>1 DEF Follows, o
  <3>3. At(active, o + i) = active.inputs[i] BY <2>2, <3>1 DEF At, o
  <3> QED BY <3>1, <3>2, <3>3 DEF Course, s
 <2>8. Executed(o, end) = SubSeq(active.inputs, 1, length) BY <2>5, <2>6, <2>7, SeqEqual
 <2> QED BY <2>4, <2>8
<1> QED BY <1>1, Invariance, PTL

\* What the next search is founded on is what the owner is going to do,
\* and the end of the certificate published last.
THEOREM QueueKnown == Spec => []QueueIsKnown
<1>1. ASSUME IInv PROVE QueueIsKnown
 <2>1. Generations /\ Queues BY <1>1 DEF IInv
 <2>2. QueueMirrorsOwner BY <2>1 DEF QueueMirrorsOwner, Generations, Queues
 <2>3. QueueFollowsPrevious BY <2>1 DEF QueueFollowsPrevious, Queues, LeftOf, Consumed
 <2> QED BY <2>2, <2>3 DEF QueueIsKnown
<1> QED BY <1>1, Invariance, PTL
====
