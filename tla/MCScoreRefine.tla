---- MODULE MCScoreRefine ----
(***************************************************************************)
(* A small game.  Focused inputs (1) hurt the enemy less, so edits change  *)
(* the length of the game; a quick one scores more, but so do some inputs. *)
(* Three focused inputs at the start are deadly, an opening loses a        *)
(* capture, a wasteful end misses a gate, and the fourth input decides the *)
(* route.                                                                  *)
(***************************************************************************)
EXTENDS ScoreRefine, SequencesExt

MCInputs == {0, 1}
MCTapes == BoundedSeq(MCInputs, 7) \ {<<>>}
MCEdit == << [x \in MCInputs |-> 1], [x \in MCInputs |-> 0] >>

Damage(t) == FoldLeft(LAMBDA sum, x : sum + 2 - x, 0, t)
Points(t) == FoldLeft(LAMBDA sum, x : 2 * sum + x, 1, t) % 11

MCEvent(t) ==
  IF Len(t) >= 3 /\ SubSeq(t, 1, 3) = <<1, 1, 1>> THEN "dead"
  ELSE IF t = <<0, 1, 1>> THEN "lost"
  ELSE IF Damage(t) < 7 THEN "on"
  ELSE IF Damage(t) = 8 /\ t[1] = t[2] THEN "flawed" ELSE "clear"
MCScore(t) == Points(t) + 2 * (8 - Len(t))
MCRoute(t) == IF Len(t) > 3 THEN t[4] ELSE 0
MCPhase(t) == Damage(t) >= 3
====
