---- MODULE CircularPool ----
(* What a circular slot pool promises, said without a scan: slots 0..N-1,  *)
(* a cursor, and one lap that starts at the cursor.  BulletSlots and       *)
(* EffectPool each find slots in a way of their own; their properties hold *)
(* them to these definitions.                                              *)
EXTENDS Integers, FiniteSets

(* How far ahead of the cursor slot i lies on the lap. *)
Ahead(N, cursor, i) == (i - cursor) % N

(* The free slots the lap meets no later than i, i included. *)
UpTo(N, free, cursor, i) == {j \in free : Ahead(N, cursor, j) <= Ahead(N, cursor, i)}

NextFree(N, free, cursor) == {i \in free : UpTo(N, free, cursor, i) = {i}}

(* A request for count slots gets the first count free ones of the lap; a  *)
(* request for none or fewer is never satisfied and gets them all.         *)
Claimed(N, free, cursor, count) ==
    {i \in free : count <= 0 \/ Cardinality(UpTo(N, free, cursor, i)) <= count}

Satisfied(free, count) == count \in 1..Cardinality(free)

(* The last slot the lap claims: the one every claimed slot comes before. *)
LastClaimed(N, free, cursor, count) ==
    LET claimed == Claimed(N, free, cursor, count)
    IN  CHOOSE i \in claimed : UpTo(N, claimed, cursor, i) = claimed

(* A satisfied lap stops behind the last claimed slot, any other comes full *)
(* circle.                                                                 *)
CursorAfter(N, free, cursor, count) ==
    IF Satisfied(free, count) THEN (LastClaimed(N, free, cursor, count) + 1) % N ELSE cursor
====
