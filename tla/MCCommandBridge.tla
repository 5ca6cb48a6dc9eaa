---- MODULE MCCommandBridge ----
(* Four generations: each slot is written up to twice, so a copy begun on  *)
(* generation 2 or 4 can be overtaken in its own slot by 6 or 8.  Plans of *)
(* one and of two inputs leave a stale tail word behind a shorter plan.    *)
(* The stride 4 is the general interface: publish accepts any newer even   *)
(* generation, and then the slot just announced is the one rewritten.      *)
EXTENDS CommandBridge

MCStrides == {2, 4}
====
