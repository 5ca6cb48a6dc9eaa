---- MODULE LaserMotion ----
(* A pooled laser, one update at a time, three times over: the loop of the *)
(* bullet manager as the native library carries it (laser_motion.hpp), the *)
(* forecast of the reactive policy (native_policy.hpp) and that of the     *)
(* online policy (online.cpp).  A transition update may check a starting,  *)
(* an active and a fading hitbox, in this order, each with the size of its *)
(* phase.  Lengths are whole numbers, the clock runs at unit rate, a place *)
(* and an angle are left to the users of a laser.                          *)
EXTENDS Integers, Sequences

CONSTANTS
    LaserBirths,  \* lasers as they are first seen
    Thin,         \* the width of a laser that has not started to grow (1.2 in the code)
    Ramp,         \* the updates it grows for, at most (30 in the code)
    FarAway       \* where a laser is given up (640 in the code)

(* The lasers an update admits: it rejects any other and changes nothing.  *)
LaserStates ==
    [phase : 0 .. 2, start : Int, end : Int, length : Nat, width : Nat, speed : Int, timer : Nat, startTime : Nat,
     duration : Nat, fade : Nat, hitStart : Nat, hitEnd : Nat, fadeAlpha : BOOLEAN, inUse : BOOLEAN]
Admitted(l) == ~(l.phase = 0 /\ l.startTime = 0) /\ ~(l.fadeAlpha /\ l.startTime = 0 /\ l.fade > 0)

ASSUME LaserAssumption ==
    /\ \A birth \in LaserBirths : birth \in LaserStates /\ Admitted(birth)
    /\ Thin \in Nat /\ Ramp \in Nat /\ FarAway \in Nat

VARIABLES
    laser,      \* the native laser
    foreseen,   \* the reactive policy's copy
    mirrored,   \* the online policy's copy
    hit         \* the collision calls of the last update, and what was foreseen of them

laserVars == <<laser, foreseen, mirrored, hit>>

Half1(n) == n \div 2
Magnitude(n) == IF n < 0 THEN -n ELSE n
NoHit == [calls |-> << >>, lethal |-> FALSE, size |-> 0, mirror |-> FALSE, mirrorSize |-> 0, centre |-> 0, seen |-> 0, long |-> FALSE]
----
(* The displacement, and what all three begin an update with.              *)
Pulled(end, start, length) == IF end - start > length THEN end - length ELSE start
AtLeast0(v) == IF v < 0 THEN 0 ELSE v
Extended(l) == [l EXCEPT !.end = @ + l.speed, !.start = AtLeast0(Pulled(l.end + l.speed, @, l.length))]
BeamSize(l) == IF l.start <= 0 THEN l.end - l.start ELSE (7 * (l.end - l.start)) \div 10
Centre(l) == l.end - l.start + 2 * l.start
Growing(l) ==
    Half1(IF l.startTime - (IF l.startTime < Ramp THEN l.startTime ELSE Ramp) < l.timer
          THEN (l.timer * l.width) \div l.startTime ELSE Thin)
Shrinking(l) == Half1(l.width - (l.timer * l.width) \div l.fade)

(* advance of laser_motion.hpp: an update under way is the laser, the size *)
(* of its box and the calls so far; each phase may go on to the next.      *)
BegunWith(l) == [l |-> l, size |-> BeamSize(l), calls |-> << >>, tail |-> TRUE]
Begun1(l) == BegunWith(Extended(l))
Calls1(u, when) == IF when THEN [u EXCEPT !.calls = Append(@, u.size)] ELSE u
EnterPhase(u, when, phase) == IF when THEN [u EXCEPT !.l.timer = 0, !.l.phase = phase] ELSE u
Retired1(u, when) == IF when THEN [u EXCEPT !.l.inUse = FALSE, !.tail = FALSE] ELSE u

Over(l) == l.timer >= l.duration
Starting(u) ==
    IF u.l.phase # 0 THEN u
    ELSE EnterPhase(Calls1([u EXCEPT !.size = IF u.l.fadeAlpha THEN @ ELSE Growing(u.l)], u.l.timer >= u.l.hitStart),
                    u.l.timer >= u.l.startTime, 1)
Active(u) ==
    IF u.l.phase # 1 THEN u
    ELSE Retired1(EnterPhase(Calls1(u, TRUE), Over(u.l), 2), Over(u.l) /\ u.l.fade = 0)
Despawning(u) ==
    IF u.l.phase # 2 \/ ~u.tail THEN u
    ELSE Retired1(Calls1([u EXCEPT !.size = IF u.l.fadeAlpha \/ u.l.fade = 0 THEN @ ELSE Shrinking(u.l)], u.l.timer < u.l.hitEnd),
                  u.l.timer >= u.l.fade)
Closed(u) == IF ~u.tail THEN u ELSE [u EXCEPT !.l.inUse = u.l.start < FarAway, !.l.timer = @ + 1]
NativeUpdate(l) == Closed(Despawning(Active(Starting(Begun1(l)))))
----
(* advance of native_policy.hpp: one box for the whole update.  A version  *)
(* that lets the fading size stand for the active one too.                 *)
FadingOnly(u, size) == size
(* When the active collision already ran, the larger of both.              *)
FadingSize(u, size) == IF ~u.lethal \/ Magnitude(size) > Magnitude(u.size) THEN size ELSE u.size

PolicyStarting(u) ==
    IF u.l.phase # 0 THEN u
    ELSE EnterPhase([u EXCEPT !.size = IF u.l.fadeAlpha THEN @ ELSE Growing(u.l), !.lethal = u.l.timer >= u.l.hitStart],
                    u.l.timer >= u.l.startTime, 1)
PolicyActive(u) ==
    IF u.l.phase # 1 THEN u
    ELSE Retired1(EnterPhase([u EXCEPT !.lethal = TRUE], Over(u.l), 2), Over(u.l) /\ u.l.fade = 0)
PolicyDespawning(u) ==
    IF u.l.phase # 2 \/ ~u.tail THEN u
    ELSE Retired1([u EXCEPT !.size = IF u.l.fadeAlpha \/ u.l.fade = 0 THEN @ ELSE FadingSize(u, Shrinking(u.l)),
                            !.lethal = @ \/ u.l.timer < u.l.hitEnd],
                  u.l.timer >= u.l.fade)
PolicyBegun(l) == [l |-> l, size |-> BeamSize(l), lethal |-> FALSE, tail |-> TRUE]
PolicyClosed(u) ==
    IF ~u.tail THEN u ELSE [u EXCEPT !.l.inUse = u.l.start < FarAway, !.l.timer = @ + (IF u.l.start < FarAway THEN 1 ELSE 0)]
PolicyUpdate(l) == PolicyClosed(PolicyDespawning(PolicyActive(PolicyStarting(PolicyBegun(Extended(l))))))

(* laser_forecast of online.cpp: one phase per update.                     *)
MirrorOf(m) ==
    LET starts == m.phase = 0 /\ m.timer >= m.startTime
        ends == m.phase = 1 /\ Over(m)
        dead == (ends /\ m.fade = 0) \/ (m.phase = 2 /\ m.timer >= m.fade) \/ m.start >= FarAway
        stepped == IF starts \/ ends THEN [m EXCEPT !.timer = 0, !.phase = @ + 1] ELSE m
    IN  [l |-> IF dead THEN [stepped EXCEPT !.inUse = FALSE] ELSE [stepped EXCEPT !.timer = @ + 1],
         size |-> CASE m.phase = 0 /\ ~m.fadeAlpha -> Growing(m)
                    [] m.phase = 2 /\ ~m.fadeAlpha /\ m.fade > 0 -> Shrinking(m)
                    [] OTHER -> BeamSize(m),
         lethal |-> CASE m.phase = 0 -> m.timer >= m.hitStart \/ starts
                      [] m.phase = 1 -> TRUE
                      [] OTHER -> m.timer < m.hitEnd]
MirrorUpdate(l) == MirrorOf(Extended(l))
----
LaserInit == \E birth \in LaserBirths : laser = birth /\ foreseen = birth /\ mirrored = birth /\ hit = NoHit

Foresee(l) == IF l.inUse THEN PolicyUpdate(l) ELSE [l |-> l, lethal |-> FALSE, size |-> 0]
Mirror1(l) == IF l.inUse THEN MirrorUpdate(l) ELSE [l |-> l, lethal |-> FALSE, size |-> 0]

LaserUpdate ==
    /\ laser.inUse
    /\ \E n \in {NativeUpdate(laser)}, f \in {Foresee(foreseen)}, m \in {Mirror1(mirrored)}, e \in {Extended(laser)} :
          /\ laser' = n.l /\ foreseen' = f.l /\ mirrored' = m.l
          /\ hit' = [calls |-> n.calls, centre |-> Centre(e), seen |-> Centre(Extended(foreseen)),
                     lethal |-> f.lethal, size |-> f.size, mirror |-> m.lethal, mirrorSize |-> m.size,
                     long |-> BeamSize(e) >= Half1(laser.width)]

(* A planner looks again: its copy is what it sees.                        *)
LookAgain ==
    /\ laser.inUse /\ <<foreseen, mirrored>> # <<laser, laser>>
    /\ foreseen' = laser /\ mirrored' = laser
    /\ UNCHANGED <<laser, hit>>

LaserNext == LaserUpdate \/ LookAgain
----
(* However far ahead a laser is forecast, the reactive policy takes every  *)
(* update for deadly on which the game checks a hitbox and no other, with  *)
(* a box over the same centre that no hitbox of that update exceeds, and   *)
(* drops the laser on the update the game retires it.  The online policy's *)
(* copy foresees the same updates and sizes as long as the laser is longer *)
(* than half its width and its active phase lasts.                         *)
CoveredLaser ==
    /\ foreseen.inUse = laser.inUse
    /\ hit.lethal = (hit.calls # << >>)
    /\ hit.seen = hit.centre
    /\ \A i \in DOMAIN hit.calls : Magnitude(hit.calls[i]) <= Magnitude(hit.size)
    /\ laser.duration > 0 /\ hit.long =>
          /\ mirrored.inUse = laser.inUse
          /\ hit.mirror = (hit.calls # << >>)
          /\ \A i \in DOMAIN hit.calls : Magnitude(hit.calls[i]) <= Magnitude(hit.mirrorSize)
====
