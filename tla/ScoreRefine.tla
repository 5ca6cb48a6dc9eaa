---- MODULE ScoreRefine ----
(***************************************************************************)
(* refine_score_tape of src/score_refine.cpp: the owner plays a complete   *)
(* tape of inputs and, on the way, tries edits of what it has not played   *)
(* yet.  Each trial is evaluated to the end of the game in a fork (module  *)
(* NativeRollout) and replaces the tape only if it certifies, keeps the    *)
(* route and scores strictly more.  The game is deterministic, so a state  *)
(* of the session is the sequence of inputs that led to it.                *)
(***************************************************************************)
EXTENDS Integers, Sequences

CONSTANTS
  Inputs, Tapes,  \* inputs, and the tapes that may be given
  Edit,           \* the two edits of the family
  Trials, Window, Interval, FirstUpdate,   \* options
  Settle,         \* updates a phase must be old before a trial (64)
  Event(_),       \* what the game shows after these inputs: see Events
  Score(_), Route(_), Phase(_)  \* its score, its stage and spells, its phase

(* on: it goes on; dead; lost: a required capture failed; clear: the goal; *)
(* flawed: the end, with a gate missed.  An input that bombs where that is *)
(* forbidden is refused with an exception (EvaluateThrows).                *)
Events == {"on", "dead", "lost", "flawed", "clear"}

(* The configuration is checked before anything is played (lines 54-61).   *)
ASSUME OptionsAssumption ==
  /\ Trials \in Nat /\ Window \in Nat \ {0} /\ Interval \in Nat \ {0}
  /\ FirstUpdate \in Nat /\ Settle \in Nat
  /\ Tapes \subseteq Seq(Inputs) \ {<<>>}
  /\ Edit \in [1 .. 2 -> [Inputs -> Inputs]]

(* A new session is alive.                                                 *)
ASSUME GameAssumption == Event(<<>>) # "dead"

VARIABLES
  step,      \* next step of the function, or how it ended
  given,     \* the tape as it was given
  tape,      \* inputs: the incumbent
  executed,  \* inputs the session has executed; its length is i
  initial, selected,   \* the evaluations of that name: score and route
  trials, exhausted,   \* trials.size(), search_budget_exhausted
  phaseStart, previousPhase, nextTrial,
  edit,      \* index of the edit to try next
  late       \* the time allowed is over

vars == <<step, given, tape, executed, initial, selected, trials, exhausted,
          phaseStart, previousPhase, nextTrial, edit, late>>
searchVars == <<trials, exhausted, phaseStart, previousPhase, nextTrial, edit>>

Prefix(t, n) == SubSeq(t, 1, n)
i == Len(executed)

Init == /\ step = "initial"
        /\ given \in Tapes /\ tape = given
        /\ executed = <<>>
        /\ initial = [score |-> 0, route |-> Route(<<>>)] /\ selected = initial
        /\ trials = 0 /\ exhausted = FALSE
        /\ phaseStart = 0 /\ previousPhase = Phase(<<>>) /\ nextTrial = FirstUpdate
        /\ edit = 1 /\ late = FALSE

Late == /\ ~late
        /\ late' = TRUE
        /\ UNCHANGED <<step, given, tape, executed, initial, selected, searchVars>>
----
(* evaluate_tape plays the rest of a tape from the first inputs, which are *)
(* executed already, until something happens or the tape is over.          *)
Stops(t, first) == {n \in first .. Len(t) : Event(Prefix(t, n)) # "on"}
End(t, first) == IF Stops(t, first) = {} THEN Len(t)
                 ELSE CHOOSE n \in Stops(t, first) : \A m \in Stops(t, first) : n <= m
Certifies(t, first) == End(t, first) > first /\ Event(Prefix(t, End(t, first))) = "clear"
Evaluation(t, first) == LET end == Prefix(t, End(t, first))
                        IN  [score |-> Score(end), route |-> Route(end)]

(* No fork, no scratch directory, ...: the exception leaves the function.  *)
EvaluationThrows == /\ step' = "faulted"
                    /\ UNCHANGED <<given, tape, executed, initial, selected, searchVars, late>>

(* A fault or a timeout certifies nothing, and neither does a tape longer  *)
(* than the game.                                                          *)
EvaluateGiven ==
  /\ step = "initial"
  /\ \/ /\ Certifies(tape, 0) /\ End(tape, 0) = Len(tape)
        /\ initial' = Evaluation(tape, 0) /\ selected' = initial'
        /\ step' = "head"
     \/ /\ step' = "rejected"
        /\ UNCHANGED <<initial, selected>>
  /\ UNCHANGED <<given, tape, executed, searchVars, late>>
EvaluateThrows == step = "initial" /\ EvaluationThrows

(* The head of an iteration: phases, and whether a trial is due.           *)
Due == trials < Trials /\ i >= nextTrial /\ i - phaseStart' >= Settle
LoopHead ==
  /\ step = "head"
  /\ IF i < Len(tape)
     THEN /\ previousPhase' = Phase(executed)
          /\ phaseStart' = IF Phase(executed) # previousPhase THEN i ELSE phaseStart
          /\ step' = IF Due THEN "edit" ELSE "play"
          /\ nextTrial' = IF Due THEN i + Interval ELSE nextTrial
          /\ edit' = IF Due THEN 1 ELSE edit
     ELSE /\ step' = "verify"
          /\ UNCHANGED <<previousPhase, phaseStart, nextTrial, edit>>
  /\ UNCHANGED <<given, tape, executed, initial, selected, trials, exhausted, late>>

(* A version in which the edit starts with the update executed last. *)
CandidateFromLast == [n \in 1 .. Len(tape) |->
                        IF n >= i /\ n <= i + Window THEN Edit[edit][tape[n]] ELSE tape[n]]

(* The edit replaces inputs i .. i + window - 1, counted from zero.        *)
Candidate == [n \in 1 .. Len(tape) |->
                IF n > i /\ n <= i + Window THEN Edit[edit][tape[n]] ELSE tape[n]]

NoMoreEdits == /\ step = "edit"
               /\ \/ edit = 3 /\ UNCHANGED exhausted
                  \/ edit < 3 /\ (late \/ trials >= Trials) /\ exhausted' = TRUE
               /\ step' = "play"
               /\ UNCHANGED <<given, tape, executed, initial, selected, trials, phaseStart,
                              previousPhase, nextTrial, edit, late>>

Trying == step = "edit" /\ edit < 3 /\ ~late /\ trials < Trials

Unchanged == /\ Trying /\ Candidate = tape
             /\ edit' = edit + 1
             /\ UNCHANGED <<step, given, tape, executed, initial, selected, trials, exhausted,
                            phaseStart, previousPhase, nextTrial, late>>

(* A version in which the route of the candidate is not compared. *)
BetterAnywhere(c) == /\ Certifies(c, i)
                     /\ Evaluation(c, i).score > selected.score

(* A version in which any certified tape of the route is better. *)
BetterOrNot(c) == Certifies(c, i) /\ Evaluation(c, i).route = initial.route

Better(c) == /\ Certifies(c, i)
             /\ Evaluation(c, i).route = initial.route
             /\ Evaluation(c, i).score > selected.score

(* A tape accepted ends where its game ends.                               *)
Adopt(c) == /\ tape' = Prefix(c, End(c, i))
            /\ selected' = Evaluation(c, i)

(* One trial: accepted, not good enough, timed out or faulted.             *)
Try == /\ Trying /\ Candidate # tape
       /\ \/ Better(Candidate) /\ Adopt(Candidate)
          \/ UNCHANGED <<tape, selected>>
       /\ trials' = trials + 1
       /\ edit' = edit + 1
       /\ UNCHANGED <<step, given, executed, initial, exhausted, phaseStart,
                      previousPhase, nextTrial, late>>
TryThrows == Trying /\ Candidate # tape /\ EvaluationThrows

(* The owner executes one input of the incumbent.                          *)
Play == /\ step = "play"
        /\ executed' = Append(executed, tape[i + 1])
        /\ step' = LET event == Event(executed')
                   IN  IF event = "dead" THEN "execution_failed"
                       ELSE IF event \notin {"flawed", "clear"} THEN "head"
                       ELSE IF Len(executed') # Len(tape) THEN "trailing_inputs"
                       ELSE "verify"
        /\ UNCHANGED <<given, tape, initial, selected, searchVars, late>>

(* The state reached is the one the oracle promised.                       *)
Verify == /\ step = "verify"
          /\ step' = IF /\ Event(executed) = "clear"
                        /\ Score(executed) = selected.score /\ Route(executed) = selected.route
                     THEN "complete" ELSE "disagrees"
          /\ exhausted' = (exhausted \/ (step' = "complete" /\ (late \/ trials >= Trials)))
          /\ UNCHANGED <<given, tape, executed, initial, selected, trials, phaseStart,
                         previousPhase, nextTrial, edit, late>>

Refine == \/ EvaluateGiven \/ EvaluateThrows \/ LoopHead \/ NoMoreEdits
          \/ Unchanged \/ Try \/ TryThrows \/ Play \/ Verify
Next == Late \/ Refine
Spec == Init /\ [][Next]_vars /\ WF_vars(Refine)
----
Running == {"head", "edit", "play", "verify"}
Ended == {"rejected", "faulted", "complete", "execution_failed", "trailing_inputs", "disagrees"}

(* Types; the trials never exceed their budget.                            *)
TypeOK ==
  /\ step \in {"initial"} \cup Running \cup Ended
  /\ given \in Tapes /\ tape \in Seq(Inputs) /\ executed \in Seq(Inputs)
  /\ trials \in 0 .. Trials /\ exhausted \in BOOLEAN /\ late \in BOOLEAN
  /\ phaseStart \in Nat /\ nextTrial \in Nat /\ edit \in 1 .. 3

(* The tape left to play is always a complete, flawless game of exactly    *)
(* its length, with the score announced and the route first certified: the *)
(* owner may stop searching at any moment (score_refine.hpp lines 29-35).  *)
Flawless(t) == /\ Event(t) = "clear"
               /\ \A n \in 0 .. Len(t) - 1 : Event(Prefix(t, n)) = "on"
IncumbentCertified ==
  step \in Running \cup {"complete"} =>
    /\ Flawless(tape)
    /\ selected = [score |-> Score(tape), route |-> initial.route]
    /\ Route(tape) = initial.route

(* What was executed is the beginning of the incumbent: edits touch only   *)
(* the future, whatever was accepted before.                               *)
OnlyTheFuture == executed = Prefix(tape, i)

(* The three consistency checks of the function never fire.                *)
NeverDisagrees == step \notin {"execution_failed", "trailing_inputs", "disagrees"}

(* The tape that is searched is the tape that is played: the owner and its *)
(* oracle agree at every update however often the tape was replaced under  *)
(* the loop, and a search that fails costs nothing (score_refine.cpp lines *)
(* 132-160).                                                               *)
PlaysItsTape == OnlyTheFuture /\ NeverDisagrees

(* A result is at least as good as what was given.                         *)
NeverWorse == step = "complete" => Score(executed) >= Score(given)

====
