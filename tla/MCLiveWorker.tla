---- MODULE MCLiveWorker ----
(***************************************************************************)
(* Three updates, a FIFO of one request and two clock units per tick: the  *)
(* worker can be early, late for one tick or late for several, the queue   *)
(* can be full, a reply can be overwritten, and every deadline can pass.   *)
(***************************************************************************)
EXTENDS LiveWorker
====
