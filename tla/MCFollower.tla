---- MODULE MCFollower ----
(* A tape of three inputs with two updates allowed, packets that cross in  *)
(* two pieces and a socket that holds one packet and a half.               *)
EXTENDS Follower
MCMoments == 0..3
====
