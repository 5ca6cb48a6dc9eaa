---- MODULE ScoreRefineProofs ----
(***************************************************************************)
(* For every game, every set of edits and every budget, the incumbent of   *)
(* refine_score_tape is at all times a complete and flawless tape of which *)
(* the inputs already executed are the beginning, and the function's own   *)
(* consistency checks never fire.                                          *)
(***************************************************************************)
EXTENDS ScoreRefine, SequenceTheorems, WellFoundedInduction, TLAPS

\* How far the session is at each step.
Position ==
  /\ i <= Len(tape)
  /\ step \in {"head", "edit", "play"} => i < Len(tape)
  /\ step \in {"verify", "complete"} => executed = tape
  /\ step = "initial" => executed = <<>> /\ tape = given

IInv == TypeOK /\ OnlyTheFuture /\ Position /\ IncumbentCertified /\ NeverDisagrees
----
LEMMA PrefixProperties ==
  ASSUME NEW t \in Seq(Inputs), NEW n \in 0 .. Len(t)
  PROVE  /\ Prefix(t, n) \in Seq(Inputs) /\ Len(Prefix(t, n)) = n
         /\ \A k \in 1 .. n : Prefix(t, n)[k] = t[k]
<1>1. Len(t) \in Nat /\ n \in Int /\ 1 \in Int BY LenProperties
<1>2. \A k \in 1 .. n : t[k] \in Inputs BY <1>1, ElementOfSeq
<1>3. /\ SubSeq(t, 1, n) \in Seq(Inputs)
      /\ Len(SubSeq(t, 1, n)) = IF 1 <= n THEN n - 1 + 1 ELSE 0
      /\ \A k \in 1 .. n - 1 + 1 : SubSeq(t, 1, n)[k] = t[1 + k - 1]
  BY <1>1, <1>2, SubSeqProperties
<1> QED BY <1>1, <1>3 DEF Prefix

LEMMA SamePrefix ==
  ASSUME NEW s \in Seq(Inputs), NEW t \in Seq(Inputs), NEW n \in Nat,
         n <= Len(s), n <= Len(t), \A k \in 1 .. n : s[k] = t[k]
  PROVE  Prefix(s, n) = Prefix(t, n)
<1>1. n \in 0 .. Len(s) /\ n \in 0 .. Len(t) BY LenProperties
<1>2. /\ Prefix(s, n) \in Seq(Inputs) /\ Prefix(t, n) \in Seq(Inputs)
      /\ Len(Prefix(s, n)) = n /\ Len(Prefix(t, n)) = n
      /\ \A k \in 1 .. n : Prefix(s, n)[k] = Prefix(t, n)[k]
  BY <1>1, PrefixProperties
<1> QED BY <1>2, SeqEqual

LEMMA PrefixOfPrefix ==
  ASSUME NEW t \in Seq(Inputs), NEW n \in 0 .. Len(t), NEW m \in 0 .. n
  PROVE  Prefix(Prefix(t, n), m) = Prefix(t, m)
<1>1. Len(t) \in Nat BY LenProperties
<1>2. /\ Prefix(t, n) \in Seq(Inputs) /\ Len(Prefix(t, n)) = n
      /\ \A k \in 1 .. n : Prefix(t, n)[k] = t[k]
  BY PrefixProperties
<1> QED BY <1>1, <1>2, SamePrefix

LEMMA WholePrefix ==
  ASSUME NEW t \in Seq(Inputs)
  PROVE  Prefix(t, Len(t)) = t
BY SubSeqFull DEF Prefix

\* A non-empty set of naturals has a least element.
Smaller == {pair \in Nat \X Nat : pair[1] < pair[2]}

LEMMA LeastElement ==
  ASSUME NEW S, S \subseteq Nat, S # {}
  PROVE  \E n \in S : \A m \in S : n <= m
<1>1. IsWellFoundedOn(Smaller, Nat) BY NatLessThanWellFounded, Zenon DEF Smaller, OpToRel
<1>2. PICK n \in S : \A m \in S : ~ (<<m, n>> \in Smaller) BY <1>1, WFMin
<1>3. ASSUME NEW m \in S PROVE n <= m
 <2>1. m \in Nat /\ n \in Nat /\ <<m, n>> \in Nat \X Nat OBVIOUS
 <2>2. ~ (m < n) BY <1>2, <2>1 DEF Smaller
 <2> QED BY <2>1, <2>2
<1> QED BY <1>3

\* What the evaluation of a tape stops at: nothing happens before.
LEMMA EndProperties ==
  ASSUME NEW t \in Seq(Inputs), NEW first \in 0 .. Len(t)
  PROVE  /\ End(t, first) \in first .. Len(t)
         /\ \A m \in first .. End(t, first) - 1 : Event(Prefix(t, m)) = "on"
<1>1. Len(t) \in Nat BY LenProperties
<1>2. CASE Stops(t, first) = {}
 <2>1. End(t, first) = Len(t) BY <1>2 DEF End
 <2> QED BY <1>1, <1>2, <2>1 DEF Stops
<1>3. CASE Stops(t, first) # {}
 <2>1. Stops(t, first) \subseteq Nat BY <1>1 DEF Stops
 <2>2. \E n \in Stops(t, first) : \A m \in Stops(t, first) : n <= m BY <1>3, <2>1, LeastElement
 <2>3. End(t, first) = CHOOSE n \in Stops(t, first) : \A m \in Stops(t, first) : n <= m BY <1>3 DEF End
 <2>4. End(t, first) \in Stops(t, first) /\ \A m \in Stops(t, first) : End(t, first) <= m BY <2>2, <2>3
 <2> QED BY <1>1, <2>4 DEF Stops
<1> QED BY <1>2, <1>3
----
LEMMA InitInv == Init => IInv
<1> SUFFICES ASSUME Init PROVE IInv OBVIOUS
<1>1. TypeOK
 <2>1. given \in Tapes /\ tape \in Seq(Inputs) /\ executed \in Seq(Inputs)
   BY OptionsAssumption, EmptySeq DEF Init
 <2>2. 0 \in 0 .. Trials /\ 1 \in 1 .. 3 /\ 0 \in Nat /\ FirstUpdate \in Nat BY OptionsAssumption
 <2> QED BY <2>1, <2>2 DEF Init, TypeOK
<1>2. OnlyTheFuture /\ Position
 <2>1. tape \in Seq(Inputs) /\ executed = <<>> /\ i = 0 BY <1>1, EmptySeq DEF Init, TypeOK, i
 <2>2. Prefix(tape, 0) = <<>> BY <2>1, SubSeqEmpty DEF Prefix
 <2>3. Len(tape) \in Nat BY <2>1, LenProperties
 <2> QED BY <2>1, <2>2, <2>3 DEF Init, OnlyTheFuture, Position
<1>3. IncumbentCertified /\ NeverDisagrees BY DEF Init, IncumbentCertified, NeverDisagrees, Running
<1> QED BY <1>1, <1>2, <1>3 DEF IInv

\* The tape that was given is kept only if it certifies to its last input.
LEMMA EvaluateGivenInv == ASSUME IInv, EvaluateGiven PROVE IInv'
<1>1. /\ tape \in Seq(Inputs) /\ tape # <<>> /\ executed = <<>> /\ i = 0
      /\ UNCHANGED <<given, tape, executed, trials, exhausted, phaseStart, previousPhase,
                     nextTrial, edit, late>>
  BY OptionsAssumption, EmptySeq DEF IInv, TypeOK, Position, EvaluateGiven, searchVars, i
<1>2. step' \in {"head", "rejected"} BY DEF EvaluateGiven
<1>3. TypeOK' /\ OnlyTheFuture' /\ NeverDisagrees'
  BY <1>1, <1>2 DEF IInv, TypeOK, OnlyTheFuture, NeverDisagrees, Running, Ended, i
<1>4. Position'
 <2>1. Len(tape) \in Nat \ {0} BY <1>1, EmptySeq
 <2> QED BY <1>1, <1>2, <2>1 DEF Position, i
<1>5. IncumbentCertified'
 <2> SUFFICES ASSUME step' = "head"
              PROVE  /\ Flawless(tape) /\ Route(tape) = initial'.route
                     /\ selected' = [score |-> Score(tape), route |-> initial'.route]
   BY <1>1, <1>2 DEF IncumbentCertified, Running, Flawless
 <2>1. /\ Certifies(tape, 0) /\ End(tape, 0) = Len(tape)
       /\ initial' = Evaluation(tape, 0) /\ selected' = initial'
   BY DEF EvaluateGiven
 <2>2. Prefix(tape, End(tape, 0)) = tape BY <1>1, <2>1, WholePrefix
 <2>3. initial' = [score |-> Score(tape), route |-> Route(tape)] /\ Event(tape) = "clear"
   BY <2>1, <2>2 DEF Certifies, Evaluation
 <2>4. 0 \in 0 .. Len(tape) BY <1>1, LenProperties
 <2>5. \A n \in 0 .. Len(tape) - 1 : Event(Prefix(tape, n)) = "on" BY <1>1, <2>1, <2>4, EndProperties
 <2> QED BY <2>1, <2>3, <2>5 DEF Flawless
<1> QED BY <1>3, <1>4, <1>5 DEF IInv

\* Steps that touch neither the tape nor the session.
LEMMA BookkeepingInv ==
  ASSUME IInv, TypeOK', UNCHANGED <<given, tape, executed, initial, selected>>,
         \/ step \in {"head", "edit"} /\ step' \in {"edit", "play"}
         \/ step' \in {"faulted", step}
  PROVE  IInv'
<1>1. OnlyTheFuture' /\ Position' /\ NeverDisagrees' BY DEF IInv, OnlyTheFuture, Position, NeverDisagrees, i
<1>2. IncumbentCertified' BY DEF IInv, IncumbentCertified, Running, Flawless
<1> QED BY <1>1, <1>2 DEF IInv

LEMMA LoopHeadInv == ASSUME IInv, LoopHead PROVE IInv'
<1>1. /\ step = "head" /\ i < Len(tape) /\ i \in Nat
      /\ UNCHANGED <<given, tape, executed, initial, selected, trials, exhausted, late>>
  BY LenProperties DEF IInv, TypeOK, Position, LoopHead, i
<1>2. /\ step' \in {"edit", "play"} /\ phaseStart' \in {phaseStart, i}
      /\ nextTrial' \in {nextTrial, i + Interval} /\ edit' \in {edit, 1}
  BY <1>1 DEF LoopHead
<1>3. TypeOK' BY <1>1, <1>2, OptionsAssumption DEF IInv, TypeOK, Running
<1> QED BY <1>1, <1>2, <1>3, BookkeepingInv

LEMMA NoMoreEditsInv == ASSUME IInv, NoMoreEdits PROVE IInv'
<1>1. TypeOK' BY DEF IInv, TypeOK, NoMoreEdits, Running
<1> QED BY <1>1, BookkeepingInv DEF NoMoreEdits

LEMMA UnchangedInv == ASSUME IInv, Unchanged PROVE IInv'
<1>1. TypeOK' BY DEF IInv, TypeOK, Unchanged, Trying
<1> QED BY <1>1, BookkeepingInv DEF Unchanged

LEMMA LateInv == ASSUME IInv, Late PROVE IInv'
<1>1. TypeOK' BY DEF IInv, TypeOK, Late, searchVars
<1> QED BY <1>1, BookkeepingInv DEF Late

LEMMA ThrowsInv == ASSUME IInv, EvaluationThrows PROVE IInv'
<1>1. TypeOK' BY DEF IInv, TypeOK, EvaluationThrows, searchVars, Ended
<1> QED BY <1>1, BookkeepingInv DEF EvaluationThrows
----
LEMMA CandidateProperties ==
  ASSUME IInv, Trying
  PROVE  /\ Candidate \in Seq(Inputs) /\ Len(Candidate) = Len(tape)
         /\ i \in Nat /\ i < Len(tape)
         /\ \A k \in 1 .. i : Candidate[k] = tape[k]
<1>1. /\ tape \in Seq(Inputs) /\ Len(tape) \in Nat /\ i \in Nat /\ i < Len(tape)
      /\ edit \in 1 .. 2
  BY LenProperties DEF IInv, TypeOK, Position, Trying, i
<1>2. \A n \in 1 .. Len(tape) : tape[n] \in Inputs /\ Edit[edit][tape[n]] \in Inputs
  BY <1>1, ElementOfSeq, OptionsAssumption
<1>3. Candidate \in [1 .. Len(tape) -> Inputs] BY <1>2 DEF Candidate
<1>4. Candidate \in Seq(Inputs) BY <1>1, <1>3, SeqDef
<1>5. Len(Candidate) = Len(tape) BY <1>1, <1>3, <1>4, LenProperties
<1>6. \A k \in 1 .. i : Candidate[k] = tape[k] BY <1>1 DEF Candidate
<1> QED BY <1>1, <1>4, <1>5, <1>6

\* A trial: an accepted candidate shares what was executed, and ends
\* flawlessly where its game ends.
LEMMA TryInv == ASSUME IInv, Try PROVE IInv'
<1>1. /\ Trying /\ trials' = trials + 1 /\ edit' = edit + 1 /\ step = "edit"
      /\ UNCHANGED <<step, given, executed, initial, exhausted, phaseStart, previousPhase,
                     nextTrial, late>>
  BY DEF Try, Trying
<1>2. CASE UNCHANGED <<tape, selected>>
 <2>1. TypeOK' BY <1>1, <1>2, OptionsAssumption DEF IInv, TypeOK, Trying
 <2> QED BY <1>1, <1>2, <2>1, BookkeepingInv
<1>3. CASE Better(Candidate) /\ Adopt(Candidate)
 <2> DEFINE c == Candidate
            n == End(c, i)
 <2>1. /\ c \in Seq(Inputs) /\ Len(c) = Len(tape) /\ i \in Nat /\ i < Len(tape)
       /\ Len(tape) \in Nat /\ tape \in Seq(Inputs)
       /\ \A k \in 1 .. i : c[k] = tape[k]
   BY <1>1, CandidateProperties, LenProperties DEF IInv, TypeOK
 <2> HIDE DEF c
 <2>2. i \in 0 .. Len(c) BY <2>1
 <2>3. n \in i .. Len(c) /\ \A m \in i .. n - 1 : Event(Prefix(c, m)) = "on" BY <2>1, <2>2, EndProperties
 <2>4. /\ tape' = Prefix(c, n) /\ n > i /\ Event(Prefix(c, n)) = "clear"
       /\ selected' = [score |-> Score(tape'), route |-> Route(tape')]
       /\ Route(tape') = initial.route
   BY <1>3 DEF Better, Adopt, Certifies, Evaluation, c
 <2> HIDE DEF n
 <2>5. n \in 0 .. Len(c) /\ n \in Nat BY <2>1, <2>3
 <2>6. tape' \in Seq(Inputs) /\ Len(tape') = n BY <2>1, <2>4, <2>5, PrefixProperties
 <2>7. \A m \in 0 .. n : Prefix(tape', m) = Prefix(c, m) BY <2>1, <2>4, <2>5, PrefixOfPrefix
 <2>8. \A m \in 0 .. i : Prefix(tape, m) = Prefix(c, m) BY <2>1, SamePrefix
 <2>9. Flawless(tape')
  <3> SUFFICES ASSUME NEW m \in 0 .. n - 1 PROVE Event(Prefix(tape', m)) = "on" BY <2>4, <2>6 DEF Flawless
  <3>1. Prefix(tape', m) = Prefix(c, m) BY <2>5, <2>7
  <3>2. CASE m < i
   <4>1. m \in 0 .. Len(tape) - 1 /\ m \in 0 .. i BY <2>1, <2>5, <3>2
   <4>2. Flawless(tape) BY <1>1 DEF IInv, IncumbentCertified, Running
   <4> QED BY <2>8, <3>1, <4>1, <4>2 DEF Flawless
  <3>3. CASE m >= i BY <2>1, <2>3, <2>5, <3>1, <3>3
  <3> QED BY <2>1, <2>5, <3>2, <3>3
 <2>10. OnlyTheFuture' /\ Position'
  <3>1. i' = i /\ i < n /\ i \in 0 .. n /\ i \in 0 .. i BY <1>1, <2>1, <2>4, <2>5 DEF i
  <3>2. executed = Prefix(tape', i) BY <2>7, <2>8, <3>1 DEF IInv, OnlyTheFuture
  <3> QED BY <1>1, <2>6, <3>1, <3>2 DEF OnlyTheFuture, Position
 <2>11. TypeOK' BY <1>1, <2>6, OptionsAssumption DEF IInv, TypeOK, Trying
 <2>12. IncumbentCertified' /\ NeverDisagrees' BY <1>1, <2>4, <2>9 DEF IncumbentCertified, IInv, NeverDisagrees
 <2> QED BY <2>10, <2>11, <2>12 DEF IInv
<1> QED BY <1>2, <1>3 DEF Try

\* The owner's own update: as the tape is flawless, nothing happens before
\* its last input, and the goal is reached there.
LEMMA PlayInv == ASSUME IInv, Play PROVE IInv'
<1>1. /\ tape \in Seq(Inputs) /\ Len(tape) \in Nat /\ i \in Nat /\ i < Len(tape)
      /\ executed \in Seq(Inputs) /\ executed = Prefix(tape, i) /\ Flawless(tape)
  BY LenProperties DEF IInv, TypeOK, Position, OnlyTheFuture, IncumbentCertified, Running, Play, i
<1>2. /\ executed' = Append(executed, tape[i + 1])
      /\ UNCHANGED <<given, tape, initial, selected, trials, exhausted, phaseStart,
                     previousPhase, nextTrial, edit, late>>
  BY DEF Play, searchVars
<1>3. tape[i + 1] \in Inputs BY <1>1, ElementOfSeq
<1>4. /\ executed' \in Seq(Inputs) /\ Len(executed') = i + 1
      /\ \A k \in 1 .. i : executed'[k] = executed[k]
      /\ executed'[i + 1] = tape[i + 1]
  BY <1>1, <1>2, <1>3, AppendProperties DEF i
<1>5. executed' = Prefix(tape, i + 1)
 <2>1. \A k \in 1 .. i + 1 : executed'[k] = tape[k]
  <3>1. i \in 0 .. Len(tape) BY <1>1
  <3>2. \A k \in 1 .. i : Prefix(tape, i)[k] = tape[k] BY <1>1, <3>1, PrefixProperties
  <3>3. \A k \in 1 .. i + 1 : k \in 1 .. i \/ k = i + 1 BY <1>1
  <3> QED BY <1>1, <1>4, <3>2, <3>3
 <2>2. Prefix(executed', i + 1) = Prefix(tape, i + 1) BY <1>1, <1>4, <2>1, SamePrefix
 <2> QED BY <1>4, <2>2, WholePrefix
<1>6. i' = i + 1 BY <1>4 DEF i
<1>7. \/ i + 1 < Len(tape) /\ Event(executed') = "on" /\ step' = "head"
      \/ i + 1 = Len(tape) /\ executed' = tape /\ step' = "verify"
 <2>1. CASE i + 1 < Len(tape)
  <3>1. Event(executed') = "on" BY <1>1, <1>5, <2>1 DEF Flawless
  <3> QED BY <2>1, <3>1 DEF Play
 <2>2. CASE i + 1 = Len(tape)
  <3>1. executed' = tape /\ Event(executed') = "clear" /\ Len(executed') = Len(tape)
    BY <1>1, <1>4, <1>5, <2>2, WholePrefix DEF Flawless
  <3> QED BY <2>2, <3>1 DEF Play
 <2> QED BY <1>1, <2>1, <2>2
<1>8. TypeOK' BY <1>2, <1>4, <1>7 DEF IInv, TypeOK, Running
<1>9. OnlyTheFuture' /\ Position' BY <1>1, <1>2, <1>5, <1>6, <1>7 DEF OnlyTheFuture, Position
<1>10. IncumbentCertified' /\ NeverDisagrees'
  BY <1>2, <1>7 DEF IInv, IncumbentCertified, NeverDisagrees, Running, Play, Flawless
<1> QED BY <1>8, <1>9, <1>10 DEF IInv

LEMMA VerifyInv == ASSUME IInv, Verify PROVE IInv'
<1>1. /\ step = "verify" /\ executed = tape /\ exhausted' \in BOOLEAN
      /\ UNCHANGED <<given, tape, executed, initial, selected, trials, phaseStart,
                     previousPhase, nextTrial, edit, late>>
  BY DEF IInv, TypeOK, Position, Verify
<1>2. /\ Flawless(tape) /\ Route(tape) = initial.route
      /\ selected = [score |-> Score(tape), route |-> initial.route]
  BY <1>1 DEF IInv, IncumbentCertified, Running
<1>3. step' = "complete" BY <1>1, <1>2 DEF Verify, Flawless
<1>4. TypeOK' /\ OnlyTheFuture' /\ Position' BY <1>1, <1>3 DEF IInv, TypeOK, OnlyTheFuture, Position, Ended, i
<1>5. IncumbentCertified' /\ NeverDisagrees'
  BY <1>1, <1>2, <1>3 DEF IncumbentCertified, NeverDisagrees, Flawless
<1> QED BY <1>4, <1>5 DEF IInv

LEMMA NextInv == ASSUME IInv, [Next]_vars PROVE IInv'
<1>1. CASE Refine
 <2>1. CASE EvaluationThrows BY <2>1, ThrowsInv
 <2> QED BY <1>1, <2>1, EvaluateGivenInv, LoopHeadInv, NoMoreEditsInv, UnchangedInv, TryInv,
            PlayInv, VerifyInv DEF Refine, EvaluateThrows, TryThrows
<1>2. CASE UNCHANGED vars
 <2>1. TypeOK' /\ UNCHANGED <<given, tape, executed, initial, selected, step>> BY <1>2 DEF IInv, TypeOK, vars
 <2> QED BY <2>1, BookkeepingInv
<1> QED BY <1>1, <1>2, LateInv DEF Next

THEOREM Invariance == Spec => []IInv
<1> QED BY InitInv, NextInv, PTL DEF Spec

\* The incumbent is always a complete flawless game with the score and the
\* route announced: score_refine.cpp lines 117-126 never leave a partial
\* or a worse tape behind.
THEOREM AlwaysCertified == Spec => []IncumbentCertified
<1>1. IInv => IncumbentCertified BY DEF IInv
<1> QED BY <1>1, Invariance, PTL

\* What the session executed is never edited, and none of the exceptions
\* of lines 145-159 is ever thrown.
THEOREM TapePlayed == Spec => []PlaysItsTape
<1>1. IInv => PlaysItsTape BY DEF IInv, PlaysItsTape
<1> QED BY <1>1, Invariance, PTL

\* The score of the incumbent never falls, so that a result is at least as
\* good as what was given (line 121 compares with the best so far).
Improving == step \in Running \cup {"complete"} => selected.score >= Score(given)

LEMMA ImprovingInv ==
  ASSUME \A t \in Seq(Inputs) : Score(t) \in Int,
         IInv, Improving, [Next]_vars
  PROVE  Improving'
<1>1. CASE EvaluateGiven
 <2>1. /\ tape \in Seq(Inputs) /\ tape = given /\ given' = given
       /\ step' \in {"head", "rejected"}
   BY <1>1 DEF IInv, TypeOK, Position, EvaluateGiven
 <2>2. CASE step' = "rejected" BY <2>2 DEF Improving, Running
 <2>3. CASE step' = "head"
  <3>1. selected' = Evaluation(tape, 0) /\ End(tape, 0) = Len(tape) BY <1>1, <2>3 DEF EvaluateGiven
  <3>2. selected'.score = Score(tape) BY <2>1, <3>1, WholePrefix DEF Evaluation
  <3> QED BY <2>1, <3>2 DEF Improving
 <2> QED BY <2>1, <2>2, <2>3
<1>2. CASE Try /\ Better(Candidate) /\ Adopt(Candidate)
 <2>1. IInv' /\ step = "edit" /\ step' = "edit" /\ given' = given BY <1>2, TryInv DEF Try, Trying
 <2>2. /\ selected'.score = Score(tape') /\ selected.score = Score(tape)
       /\ tape' \in Seq(Inputs) /\ tape \in Seq(Inputs) /\ given \in Seq(Inputs)
   BY <2>1, OptionsAssumption DEF IInv, TypeOK, IncumbentCertified, Running
 <2>3. selected'.score > selected.score /\ selected.score >= Score(given)
   BY <1>2, <2>1 DEF Better, Adopt, Improving, Running
 <2>4. Score(tape') \in Int /\ Score(tape) \in Int /\ Score(given) \in Int BY <2>2
 <2> QED BY <2>1, <2>2, <2>3, <2>4 DEF Improving
<1>3. CASE /\ UNCHANGED <<given, selected>>
           /\ step \in Running \cup {"complete"} \/ step' \notin Running \cup {"complete"}
  BY <1>3 DEF Improving
<1>4. CASE Late \/ EvaluateThrows \/ TryThrows \/ UNCHANGED vars
  BY <1>3, <1>4 DEF Late, EvaluateThrows, TryThrows, EvaluationThrows, Running, vars
<1>5. CASE LoopHead \/ NoMoreEdits \/ Unchanged \/ Play \/ Verify
  BY <1>3, <1>5 DEF LoopHead, NoMoreEdits, Unchanged, Trying, Play, Verify, Running
<1>6. CASE Try /\ UNCHANGED <<tape, selected>> BY <1>3, <1>6 DEF Try, Trying, Running
<1> QED BY <1>1, <1>2, <1>4, <1>5, <1>6 DEF Next, Refine, Try

\* Whatever was tried, a completed refinement scores no less than the tape
\* it was given.
THEOREM NeverLoses ==
  ASSUME \A t \in Seq(Inputs) : Score(t) \in Int
  PROVE  Spec => []NeverWorse
<1>1. Init => Improving BY DEF Init, Improving, Running
<1>2. IInv /\ Improving /\ [Next]_vars => Improving' BY ImprovingInv
<1>3. IInv /\ Improving => NeverWorse BY DEF IInv, Position, IncumbentCertified, Improving, NeverWorse, Running
<1> QED BY <1>1, <1>2, <1>3, Invariance, PTL DEF Spec
====
