---- MODULE BulletProgram ----
(* A bullet and its transform program (transform_program.hpp,             *)
(* acceleration.hpp, bullet_motion.hpp), one update of the native bullet  *)
(* manager at a time.  Directions are quarter turns, places are on a grid, *)
(* the clock runs at unit rate.                                            *)
EXTENDS Integers, Sequences, FiniteSets, FiniteSetsExt

CONSTANTS
    Wide, High,  \* the field (384 by 448 in the code)
    Half,        \* half the size of a sprite
    Boost,       \* updates a deceleration lasts (16 in the code)
    MaxOutside,  \* updates a turning bullet may be outside (128 in the code)
    Keep,        \* stands for "the angle, or the speed, of the flight"
    Lookahead,       \* updates a projection is compared for
    MaxAge,      \* bounds the updates of a bullet
    Births       \* bullets as they are spawned

ASSUME ProgramAssumption ==
    {Wide, High, Half, Boost, MaxOutside, Lookahead, MaxAge} \subseteq Nat /\ Keep \in Nat /\ Wide > 0 /\ High > 0

VARIABLES bullet, age

programVars == <<bullet, age>>

Turns == {"relative", "absolute", "aimed"}
Bounces == {"bounce", "bounceBut"}
Immediate == {"cull", "sound"}
Quarter == 0 .. 3
NoAim == -1
NoVector == [t |-> 0, n |-> 0, x |-> 0, y |-> 0]
NoPolar == [t |-> 0, n |-> 0, speed |-> 0, angle |-> 0]
NoTurn == [t |-> 0, every |-> 0, times |-> 0, done |-> 0, angle |-> 0, speed |-> 0]
NoBounce == [speed |-> 0, done |-> 0, limit |-> 0]

CosOf(a) == << 1, 0, -1, 0 >>[(a % 4) + 1]
SinOf(a) == << 0, 1, 0, -1 >>[(a % 4) + 1]
(* The direction of a velocity, and of none at all what it was.            *)
PointAngle(vx, vy, before) ==
    IF vx = 0 /\ vy = 0 THEN before
    ELSE IF vx * vx >= vy * vy THEN (IF vx > 0 THEN 0 ELSE 2) ELSE IF vy > 0 THEN 1 ELSE 3
Along(b, angle, magnitude) ==
    [b EXCEPT !.angle = angle % 4, !.vx = CosOf(angle) * magnitude, !.vy = SinOf(angle) * magnitude]
----
(* install: disabled and immediate records are passed over; a record that  *)
(* must wait for an active one blocks, also when it is disabled.           *)
Rec(b, p) == IF p <= Len(b.program) THEN b.program[p] ELSE [kind |-> "none", a |-> 0, b |-> 0, n |-> 0, m |-> 0, allow |-> FALSE]
Halts(b, p) == Rec(b, p).kind = "none" \/ (~Rec(b, p).allow /\ b.active # {})
Passed(b, p) == Rec(b, p).kind \notin b.enabled \/ Rec(b, p).kind \in Immediate
Reached(b) == Min({p \in b.pc .. Len(b.program) + 1 : Halts(b, p) \/ ~Passed(b, p)})

(* The last delay the culling was given on the way.                        *)
Delayed(b, p) ==
    LET given == {q \in b.pc .. p - 1 : Rec(b, q).kind = "cull" /\ "cull" \in b.enabled}
    IN  IF given = {} THEN b.cull ELSE Rec(b, Max(given)).n

Effect1(b, r) ==
    CASE r.kind = "decelerate" -> [b EXCEPT !.dec = 0]
      [] r.kind = "vector" ->
            LET angle == IF r.b = Keep THEN b.angle ELSE r.b
            IN  [b EXCEPT !.vector = [t |-> 0, n |-> r.n, x |-> CosOf(angle) * r.a, y |-> SinOf(angle) * r.a]]
      [] r.kind = "polar" -> [b EXCEPT !.polar = [t |-> 0, n |-> r.n, speed |-> r.a, angle |-> r.b]]
      [] r.kind \in Turns ->
            [b EXCEPT !.turn = [t |-> 0, every |-> r.n, times |-> r.m, done |-> 0, angle |-> r.a,
                                speed |-> IF r.b = Keep THEN b.speed ELSE r.b]]
      [] r.kind = "wait" -> [b EXCEPT !.wait = r.n]
      [] r.kind \in Bounces ->
            [b EXCEPT !.bounce = [speed |-> IF r.a >= 0 THEN r.a ELSE b.speed, done |-> 0, limit |-> r.n]]
      [] OTHER -> [b EXCEPT !.wrap = r.n]

Take(b, r) ==
    IF r.kind = "despawn" THEN [b EXCEPT !.pc = @ + 1, !.fading = TRUE]
    ELSE [Effect1(b, r) EXCEPT !.active = @ \union {r.kind}, !.pc = @ + 1]
InstallAt(b, p) == [b EXCEPT !.pc = p, !.cull = Delayed(b, p)]
TakeIfFree(b) == IF Halts(b, b.pc) THEN b ELSE Take(b, Rec(b, b.pc))
Install(b) == TakeIfFree(InstallAt(b, Reached(b)))

Off(b, kind, still) == IF still THEN b ELSE [b EXCEPT !.active = @ \ {kind}]

Decelerated(b) ==
    IF b.dec <= Boost THEN [Along(b, b.angle, Boost - b.dec + b.speed) EXCEPT !.dec = @ + 1]
    ELSE [Off(b, "decelerate", FALSE) EXCEPT !.dec = @ + 1]
VectorDriven(b) ==
    IF b.vector.t >= b.vector.n THEN [Off(b, "vector", FALSE) EXCEPT !.vector.t = @ + 1]
    ELSE LET vx == b.vx + b.vector.x
             vy == b.vy + b.vector.y
         IN  [b EXCEPT !.vx = vx, !.vy = vy, !.angle = PointAngle(vx, vy, @), !.vector.t = @ + 1]
PolarDriven(b) ==
    IF b.polar.t >= b.polar.n THEN [Off(b, "polar", FALSE) EXCEPT !.polar.t = @ + 1]
    ELSE [Along([b EXCEPT !.speed = @ + b.polar.speed], b.angle + b.polar.angle, b.speed + b.polar.speed) EXCEPT !.polar.t = @ + 1]

(* advance_direction: between two turns the bullet slows down.             *)
Slowed(speed, t, every) == speed - (t * speed) \div every
Turned(b, kind, aim) ==
    IF b.turn.t < b.turn.every
    THEN [Along(b, b.angle, Slowed(b.speed, b.turn.t, b.turn.every)) EXCEPT !.turn.t = @ + 1]
    ELSE LET angle == CASE kind = "relative" -> b.angle + b.turn.angle
                        [] kind = "absolute" -> b.turn.angle
                        [] OTHER             -> aim + b.turn.angle
         IN  [Off(Along([b EXCEPT !.speed = b.turn.speed], angle, b.turn.speed), kind, b.turn.done + 1 < b.turn.times)
                  EXCEPT !.turn.done = @ + 1, !.turn.t = 1]
NeedsTarget(b) == "aimed" \in b.active /\ b.turn.t >= b.turn.every

Outside(x, y) == x + Half < 0 \/ x - Half > Wide \/ y + Half < 0 \/ y - Half > High
Mirrored(angle, x, y, all) ==
    LET sideways == IF x < 0 \/ x >= Wide THEN (-angle - 2) % 4 ELSE angle % 4
    IN  IF y < 0 \/ (y >= High /\ all) THEN (-sideways) % 4 ELSE sideways
Bounced(b) ==
    IF ~Outside(b.x, b.y) THEN b
    ELSE LET again == b.bounce.done + 1 < b.bounce.limit
             turned == Along([b EXCEPT !.speed = b.bounce.speed], Mirrored(b.angle, b.x, b.y, "bounce" \in b.active), b.bounce.speed)
         IN  [turned EXCEPT !.bounce.done = @ + 1, !.active = IF again THEN @ ELSE @ \ Bounces]

Wrapped(b, kind) ==
    LET into(v, size) == IF v < 0 THEN v + size ELSE IF v > size THEN v - size ELSE v
        moved == IF kind = "wrapX" THEN [b EXCEPT !.x = into(@, Wide)] ELSE [b EXCEPT !.y = into(@, High)]
    IN  IF b.wrap <= 0 THEN Off(moved, kind, FALSE) ELSE [moved EXCEPT !.wrap = @ - 1]
Waited(b) == IF b.wait <= 0 THEN Off(b, "wait", FALSE) ELSE [b EXCEPT !.wait = @ - 1]

(* step: what is active acts in this order, each on what the one before    *)
(* left; the three turns share one state, the two wraps one timer.         *)
Acts(b, kind) == kind \in b.active \/ (kind = "bounce" /\ "bounceBut" \in b.active)
Acted(b, kind, aim) ==
    IF ~Acts(b, kind) THEN b
    ELSE CASE kind = "decelerate" -> Decelerated(b)
           [] kind = "vector"     -> VectorDriven(b)
           [] kind = "polar"      -> PolarDriven(b)
           [] kind \in Turns      -> Turned(b, kind, aim)
           [] kind \in Bounces    -> Bounced(b)
           [] kind = "wait"       -> Waited(b)
           [] OTHER               -> Wrapped(b, kind)
EffectOrder ==
    << "decelerate", "vector", "polar", "relative", "absolute", "aimed", "bounce", "wrapX", "wrapY", "wait" >>
Step1(ready, aim) ==
    LET acted[i \in 0 .. Len(EffectOrder)] == IF i = 0 THEN ready ELSE Acted(acted[i - 1], EffectOrder[i], aim)
    IN  acted[Len(EffectOrder)]

----
(* A bullet that is outside is retired: at once, or after as long as it    *)
(* was outside while it turned or bounced, or when that was too long.      *)
Culled(b) ==
    IF b.cull # 0 THEN b
    ELSE IF ~Outside(b.x, b.y) THEN [b EXCEPT !.outside = 0]
    ELSE IF b.active \intersect (Turns \union Bounces) # {}
         THEN [b EXCEPT !.outside = @ + 1, !.phase = IF b.outside + 1 >= MaxOutside THEN "unused" ELSE @]
    ELSE IF b.outside = 0 THEN [b EXCEPT !.phase = "unused"]
    ELSE [b EXCEPT !.outside = @ - 1]

(* The program, the displacement, the culling.  Stuck: an aimed turn needs *)
(* a target, or the bullet is fading and another contract is asked for.    *)
Stuck(b) == [b EXCEPT !.phase = "stuck"]
Displaced(b) == Culled([b EXCEPT !.cull = IF @ = 0 THEN 0 ELSE @ - 1, !.x = @ + b.vx, !.y = @ + b.vy])
FiredWith(b, ready, aim) ==
    IF b.fading \/ (aim = NoAim /\ NeedsTarget(ready)) THEN Stuck(b) ELSE Displaced(Step1(ready, aim))
Fired(b, aim) == FiredWith(b, Install(b), aim)

Creeping(b) == [b EXCEPT !.x = @ + b.vx \div 2, !.y = @ + b.vy \div 2, !.calls = @ - 1]
Arrived1(b) == IF b.phase = "spawning" THEN [Creeping(b) EXCEPT !.phase = "fired"] ELSE b
Update(b, aim) ==
    IF b.phase = "spawning" /\ b.calls > 1 THEN Creeping(b)
    ELSE IF b.phase \in {"spawning", "fired"} THEN Fired(Arrived1(b), aim) ELSE b

(* initialize, and the first record installed at birth.                    *)
BornBullet(birth) ==
    LET vx == CosOf(birth.angle) * birth.speed
        vy == SinOf(birth.angle) * birth.speed
        back == IF birth.calls > 0 THEN 4 ELSE 0
    IN  Install([program |-> birth.program, enabled |-> birth.enabled, pc |-> 1, active |-> {},
                 x |-> birth.x - back * vx, y |-> birth.y - back * vy, vx |-> vx, vy |-> vy,
                 angle |-> birth.angle, speed |-> birth.speed,
                 phase |-> IF birth.calls > 0 THEN "spawning" ELSE "fired", calls |-> birth.calls,
                 cull |-> 0, outside |-> 0, fading |-> FALSE, dec |-> 0, wait |-> 0, wrap |-> 0,
                 vector |-> NoVector, polar |-> NoPolar, turn |-> NoTurn, bounce |-> NoBounce])

ProgramInit == age = 0 /\ \E birth \in Births : bullet = BornBullet(birth)

ProgramNext ==
    /\ age < MaxAge /\ bullet.phase \in {"spawning", "fired"}
    /\ age' = age + 1
    /\ \E aim \in IF "aimed" \in bullet.active THEN Quarter ELSE {0} : bullet' = Update(bullet, aim)
====
