---- MODULE MCNativeRollout ----
(***************************************************************************)
(* The three callers of predict_owned with up to three inputs, valid or    *)
(* not, and an arena of two records.                                       *)
(***************************************************************************)
EXTENDS NativeRollout

MCMoments == {0, 1, 2, 9}   \* 9: never
Sizes == 0 .. 3

Make(inputs, first, horizon, guided, summary, captures) ==
  [inputs |-> inputs, first |-> first, sequence |-> first, horizon |-> horizon,
   guided |-> guided, summary |-> summary, captures |-> captures]

Predictions == {Make(n, 0, n, FALSE, FALSE, c) : n \in Sizes, c \in BOOLEAN}
Guided == {Make(n, 0, h, TRUE, FALSE, c) : n \in Sizes, h \in Sizes, c \in BOOLEAN}
Tapes == {Make(f + h, f, h, FALSE, TRUE, c) : f \in 0 .. 1, h \in 1 .. 2, c \in BOOLEAN}
Misplaced == {[t EXCEPT !.sequence = @ + 1] : t \in Tapes}

MCCalls == Predictions \cup Guided \cup Tapes \cup Misplaced
====
