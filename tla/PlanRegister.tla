---- MODULE PlanRegister ----
(***************************************************************************)
(* What the command bridge promises to its two users: one register that    *)
(* holds the newest complete plan.  A plan is the generation that names it *)
(* and the words stored under that generation.  Publishing replaces the    *)
(* register by a newer plan; taking copies the register, whole, into the   *)
(* owner's private storage.  No slots, no marks, no intermediate state.    *)
(***************************************************************************)
EXTENDS Naturals

VARIABLES latest,  \* the newest plan published
          held     \* the owner's private copy of the plan it last read

NoPlan == [generation |-> 0, words |-> <<>>]

Init == latest = NoPlan /\ held = NoPlan

Publish == /\ latest'.generation > latest.generation
           /\ held' = held

Take == /\ latest.generation > 0
        /\ held' = latest
        /\ latest' = latest

Next == Publish \/ Take

Spec == Init /\ [][Next]_<<latest, held>>
====
