---- MODULE BulletProjection ----
(* What the planners expect of a bullet they see: the certificates of the  *)
(* native session (session.cpp), the projection of the reactive policy     *)
(* (native_policy.hpp) and that of the online policy (online.cpp).         *)
EXTENDS BulletProgram

At(b) == [x |-> b.x, y |-> b.y]
Straight(b, k) == [x |-> b.x + k * b.vx, y |-> b.y + k * b.vy]
----
(* Session::bullets.  No other record will be installed while the active   *)
(* one is.                                                                 *)
StaysSingle(b) ==
    LET stop == Min({p \in b.pc .. Len(b.program) + 1 : Rec(b, p).kind = "none" \/ ~Rec(b, p).allow
                                                          \/ Rec(b, p).kind \in b.enabled})
    IN  Rec(b, stop).kind = "none" \/ ~Rec(b, stop).allow

RelativeUpdates(b) ==
    IF b.phase # "fired" \/ b.active # {"relative"} \/ ~StaysSingle(b) THEN 0
    ELSE Max({0, b.turn.every - b.turn.t}) + 1
            + (Max({1, b.turn.times - b.turn.done}) - 1) * Max({1, b.turn.every})

BouncesLeft(b) ==
    IF b.phase # "fired" \/ b.active \notin {{"bounce"}, {"bounceBut"}} \/ ~StaysSingle(b) THEN 0
    ELSE Max({1, b.bounce.limit - b.bounce.done})

(* One blocked vector record, with nothing after it.                       *)
NoWait == [waits |-> 0, drives |-> 0, updates |-> 0, x |-> 0, y |-> 0]
WaitVector(b) ==
    LET r == Rec(b, b.pc)
        angle == IF r.b = Keep THEN b.angle ELSE r.b
        waits == Max({0, b.wait}) + 1
    IN  IF b.phase # "fired" \/ b.active # {"wait"} \/ r.kind # "vector" \/ r.allow \/ "vector" \notin b.enabled
           \/ Rec(b, b.pc + 1).kind # "none"
        THEN NoWait
        ELSE [waits |-> waits, drives |-> Max({0, r.n}), updates |-> waits + Max({0, r.n}) + 1,
              x |-> CosOf(angle) * r.a, y |-> SinOf(angle) * r.a]

(* How long a wait holds: a version that counts the record after it too,   *)
(* and the code's, whose last update clears the flag.                      *)
SegmentShort(timer) == Max({0, timer}) + 2
Segment1(timer) == Max({0, timer}) + 1

(* linear_updates_after_wait, from record p on: first while a wait is      *)
(* active, then with none, when disabled records are passed over.          *)
LinearAfter(b, limit) ==
    LET Gate(p) == Min({q \in p .. Len(b.program) + 1 : Rec(b, q).kind = "none" \/ ~Rec(b, q).allow
                                                           \/ Rec(b, q).kind \in b.enabled})
        Next1(p) == Min({q \in p .. Len(b.program) + 1 : Rec(b, q).kind = "none" \/ Rec(b, q).kind \in b.enabled})
        count[i \in 0 .. Len(b.program) + 1] ==
            IF i = 0 THEN [n |-> 0, at |-> b.pc, timer |-> b.wait, waiting |-> TRUE, ended |-> FALSE]
            ELSE LET was == count[i - 1]
                     gate == Gate(was.at)
                     n == IF was.waiting THEN was.n + Segment1(was.timer) ELSE was.n
                     blocked == ~was.waiting \/ (Rec(b, gate).kind # "none" /\ ~Rec(b, gate).allow)
                     p == Next1(IF was.waiting THEN gate ELSE was.at)
                     r == Rec(b, p)
                     End1(m) == [was EXCEPT !.n = Min({m, limit}), !.ended = TRUE]
                 IN  IF was.ended THEN was
                     ELSE IF was.waiting /\ Rec(b, gate).kind = "none" THEN End1(limit)
                     ELSE IF ~blocked THEN End1(was.n)
                     ELSE IF n >= limit \/ r.kind = "none" THEN End1(limit)
                     ELSE IF r.kind = "wait" THEN [was EXCEPT !.n = n + 1, !.at = p + 1, !.waiting = r.n > 0,
                                                              !.timer = IF r.n > 0 THEN r.n - 1 ELSE r.n]
                     ELSE IF r.kind = "despawn" THEN End1(n + 1)
                     ELSE End1(n)
    IN  Min({limit, count[Len(b.program) + 1].n})
WaitUpdates(b) == IF b.active = {"wait"} THEN LinearAfter(b, Lookahead + 1) ELSE 0
----
(* project_bullet: where the bullet will be after k updates, and on what   *)
(* ground.                                                                 *)
DrivenAfter(b, k, c) ==
    LET at[i \in 0 .. k] ==
            IF i = 0 THEN [x |-> b.x, y |-> b.y, vx |-> b.vx, vy |-> b.vy]
            ELSE LET was == at[i - 1]
                     drive == IF i > c.waits /\ i - c.waits <= c.drives THEN 1 ELSE 0
                     vx == was.vx + drive * c.x
                     vy == was.vy + drive * c.y
                 IN  [x |-> was.x + vx, y |-> was.y + vy, vx |-> vx, vy |-> vy]
    IN  At(at[k])
WithVector(b, k) == DrivenAfter(b, k, WaitVector(b))

(* Known until the last bounce that is left has been moved away from.      *)
WithBounces(b, k) ==
    LET at[i \in 0 .. k] ==
            IF i = 0 THEN [x |-> b.x, y |-> b.y, vx |-> b.vx, vy |-> b.vy, angle |-> b.angle, left |-> BouncesLeft(b)]
            ELSE LET was == at[i - 1]
                     turns == Outside(was.x, was.y)
                     angle == IF turns THEN Mirrored(was.angle, was.x, was.y, "bounce" \in b.active) ELSE was.angle
                     vx == IF turns THEN CosOf(angle) * b.bounce.speed ELSE was.vx
                     vy == IF turns THEN SinOf(angle) * b.bounce.speed ELSE was.vy
                 IN  IF was.left <= 0 THEN [was EXCEPT !.left = -1]
                     ELSE [x |-> was.x + vx, y |-> was.y + vy, vx |-> vx, vy |-> vy, angle |-> angle,
                           left |-> IF turns THEN was.left - 1 ELSE was.left]
    IN  at[k]

WithTurns(b, k) ==
    LET at[i \in 0 .. k] ==
            IF i = 0 THEN [x |-> b.x, y |-> b.y, angle |-> b.angle, speed |-> b.speed, t |-> b.turn.t]
            ELSE LET was == at[i - 1]
                     fires == was.t >= b.turn.every
                     angle == IF fires THEN was.angle + b.turn.angle ELSE was.angle
                     magnitude == IF fires THEN b.turn.speed ELSE Slowed(was.speed, was.t, b.turn.every)
                 IN  [x |-> was.x + CosOf(angle) * magnitude, y |-> was.y + SinOf(angle) * magnitude, angle |-> angle,
                      speed |-> IF fires THEN b.turn.speed ELSE was.speed, t |-> IF fires THEN 1 ELSE was.t + 1]
    IN  At(at[k])

(* In closed form.                                                         *)
Driven(b, k) ==
    LET a == Min({k, Max({0, b.vector.n - b.vector.t})})
        coefficient == a * k - (a * (a - 1)) \div 2
    IN  [x |-> b.x + k * b.vx + coefficient * b.vector.x, y |-> b.y + k * b.vy + coefficient * b.vector.y]

Between(k, updates) == updates > 0 /\ k <= updates
Ground(b, k) ==
    IF Between(k, WaitVector(b).updates) THEN "wait_vector"
    ELSE IF BouncesLeft(b) > 0 THEN IF WithBounces(b, k).left < 0 THEN "unsupported" ELSE "boundary_bounce"
    ELSE IF Between(k, RelativeUpdates(b)) THEN "relative_direction"
    ELSE IF b.active = {"vector"} THEN "vector_acceleration"
    ELSE IF Between(k, WaitUpdates(b)) THEN "wait_linear"
    ELSE IF b.active = {} THEN "linear" ELSE "unsupported"
PlaceBy(b, k, ground) ==
    CASE ground = "wait_vector"         -> WithVector(b, k)
      [] ground = "boundary_bounce"     -> At(WithBounces(b, k))
      [] ground = "relative_direction"  -> WithTurns(b, k)
      [] ground = "vector_acceleration" -> Driven(b, k)
      [] OTHER                          -> Straight(b, k)
Said(b, k, ground) == [kind |-> ground, at |-> PlaceBy(b, k, ground)]
Projected(b, k) == Said(b, k, Ground(b, k))
----
(* kinematic_forecast, without the rates it measures: a certified turn and *)
(* the velocity it ends with, a known acceleration, else the velocity; a   *)
(* bullet that is still spawning by the clock of its animation.            *)
Emerging(b, slow, full) ==
    [x |-> b.x + slow * (b.vx \div 2) + full * b.vx, y |-> b.y + slow * (b.vy \div 2) + full * b.vy]
Onwards(last, before, n) == [x |-> last.x + n * (last.x - before.x), y |-> last.y + n * (last.y - before.y)]
Straightened(b, k, turning) == Onwards(WithTurns(b, turning), WithTurns(b, turning - 1), k - turning)
Forecast1(b, k) ==
    IF b.phase = "spawning" THEN Emerging(b, Min({k, b.calls}), Max({0, k - b.calls + 1}))
    ELSE IF RelativeUpdates(b) > 0 THEN Straightened(b, k, Min({k, RelativeUpdates(b)}))
    ELSE IF "vector" \in b.active THEN Driven(b, k)
    ELSE Straight(b, k)
----
(* What really happens, update after update.  The planners' own grounds:   *)
(* certificates of the session bound themselves; observed motion is only   *)
(* meant of a bullet that no record will change any more.                  *)
LaterBullet(b) == LET at[k \in 0 .. Lookahead] == IF k = 0 THEN b ELSE Update(at[k - 1], NoAim) IN at
Settled1(b) == \A p \in b.pc .. Len(b.program) : Rec(b, p).kind \notin b.enabled
Bounded(kind) == kind \in {"wait_vector", "boundary_bounce", "relative_direction", "wait_linear"}
Comes(b, at) == b.phase = "unused" \/ (b.phase # "stuck" /\ At(b) = at)
Certain(b, kind) == Bounded(kind) \/ (kind \in {"linear", "vector_acceleration"} /\ Settled1(b))
Foretold(b, kind) ==
    IF b.phase = "spawning" THEN b.active = {} /\ Settled1(b)
    ELSE kind = "relative_direction" \/ (b.active \in {{}, {"vector"}} /\ Settled1(b))
Fulfilled(b, k, later, said) ==
    /\ b.phase = "fired" /\ Certain(b, said.kind) => Comes(later, said.at)
    /\ Foretold(b, said.kind) => Comes(later, Forecast1(b, k))
FulfilledAll(b, later) == \A k \in 1 .. Lookahead : Fulfilled(b, k, later[k], Projected(b, k))

(* A bullet is where it was projected: for as long as a certificate        *)
(* covers, whatever records the program holds, enabled or not, blocked or  *)
(* free to run beside an active one, no target is asked for and nothing    *)
(* else moves it; and once nothing is left to install, for ever.  The      *)
(* online policy's recurrences come to the same places.  No bullet stays   *)
(* outside longer than it may turn there and be forgotten.                 *)
HonestProjection ==
    /\ bullet.phase \in {"fired", "spawning"} /\ ~bullet.fading => FulfilledAll(bullet, LaterBullet(bullet))
    /\ bullet.outside \in 0 .. MaxOutside
====
