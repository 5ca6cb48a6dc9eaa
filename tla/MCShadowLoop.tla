---- MODULE MCShadowLoop ----
(***************************************************************************)
(* Two inputs, so that any receipt may be the one predicted or not; a lead *)
(* of two, so that a plan may be published in time, late by one update and *)
(* late by its whole lead; a certificate one update longer than what is    *)
(* published of it, so that it can be extended; a game that ends after six *)
(* updates, so that the horizon meets the end of the game.                 *)
(***************************************************************************)
EXTENDS ShadowLoop
====
