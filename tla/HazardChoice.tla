---- MODULE HazardChoice ----
(* One decision of the reactive native policy (native_policy.hpp) and of   *)
(* the adapters that narrow its nine directions before it ranks them: the  *)
(* direct laser calls of a script (direct_laser_policy.hpp), the lasers    *)
(* due this update (imminent_laser_policy.hpp), the bullets a script will  *)
(* fire (upcoming_bullet_policy.hpp); and the bounded tree of paths that   *)
(* one spell uses instead (observed_path_policy.hpp).  The latched input   *)
(* moves the player on the first update, the choice from the second on.    *)
(* Also the online policy's pruning of boxes out of reach (online.cpp).    *)
EXTENDS LaserMotion, FiniteSets, FiniteSetsExt

CONSTANTS
    FieldX, FieldY,   \* where the player may be
    Axis, Diagonal,   \* steps of a focused player
    HalfX, HalfY,     \* half the player's hurtbox
    BulletHorizon, LaserHorizon,
    Margin,           \* what pruning leaves beyond the reach of the player
    Family,           \* prefixes the tree keeps for each first direction (7 in the code)
    Situations        \* what a decision may observe

(* What a decision may observe: the player in the field, lasers that an    *)
(* update admits; the tree has a horizon of 32 updates in the code.        *)
Points == [x : Int, y : Int]
Pooled == {l \in LaserStates : Admitted(l)}
Shots == [x : Int, y : Int, vx : Int, vy : Int, half : Nat, state : {"spawning", "fired", "fading"}, certain : BOOLEAN]
Beams == [l : Pooled, at : Points, angle : 0 .. 3]
DueBeams == [l : Pooled, at : Points, angle : 0 .. 3, suppressed : BOOLEAN, supported : BOOLEAN]
Contexts == [op : {"call", "repeat", "other"}, raw : Int, perFrame : Int, wait : Int, enabled : BOOLEAN, variable : BOOLEAN,
             stable : BOOLEAN, at : Points, angle : 0 .. 3]
DueShots == [update : Nat, linear : Nat, x : Int, y : Int, vx : Int, vy : Int, half : Nat,
             suppressed : BOOLEAN, supported : BOOLEAN]
Bodies == [x0 : Int, x1 : Int, y0 : Int, y1 : Int, update : Nat]
Observed(s) ==
    /\ s \in [at : [x : 0 .. FieldX, y : 0 .. FieldY], pending : 0 .. 8, bullets : Seq(Shots), lasers : Seq(Beams),
              bodies : SUBSET Bodies, first : Nat, tree : BOOLEAN, due : SUBSET DueBeams, contexts : SUBSET Contexts,
              spawns : SUBSET DueShots]
    /\ IsFiniteSet(s.due) /\ IsFiniteSet(s.contexts) /\ IsFiniteSet(s.spawns)
    /\ s.tree => BulletHorizon >= 2

ASSUME ChoiceAssumption ==
    /\ FieldX \in Nat /\ FieldY \in Nat /\ Axis \in Nat /\ Diagonal \in Nat /\ Diagonal <= Axis
    /\ HalfX \in Nat /\ HalfY \in Nat /\ Margin \in Nat
    /\ BulletHorizon \in Nat /\ LaserHorizon \in Nat /\ Family \in Nat \ {0}
    /\ \A s \in Situations : Observed(s)

VARIABLES
    situation, allowed, chosen,
    kept,             \* what pruning leaves of the forecast, by update
    step              \* "observed", "masked", "failed" or "chosen"

choiceVars == <<situation, allowed, chosen, kept, step>>

Direction == 0 .. 8  \* row by row, as the masks number them
Idle == 4
Horizon1 == Max({BulletHorizon, LaserHorizon})
FarOff == 1000
Scale1 == 5040
Clamped(v, top) == IF v < 0 THEN 0 ELSE IF v > top THEN top ELSE v
Sideways(d) == (d % 3) - 1
Upwards(d) == (d \div 3) - 1
Stride(d) == IF Sideways(d) # 0 /\ Upwards(d) # 0 THEN Diagonal ELSE Axis
Stepped(p, d) == [x |-> Clamped(p.x + Sideways(d) * Stride(d), FieldX), y |-> Clamped(p.y + Upwards(d) * Stride(d), FieldY)]

(* Where the player is after each update.                                  *)
Heading(s, k, initial, continuation) ==
    IF k = 1 THEN s.pending ELSE IF s.first = 0 \/ k - 1 <= s.first THEN initial ELSE continuation
PathOf(s, initial, continuation) ==
    LET at[k \in 0 .. Horizon1] == IF k = 0 THEN s.at ELSE Stepped(at[k - 1], Heading(s, k, initial, continuation)) IN at

Gap(p, x, y, halfX, halfY) == Max({Magnitude(p.x - x) - HalfX - halfX, Magnitude(p.y - y) - HalfY - halfY})
BulletGap(p, b, k) == Gap(p, b.x + k * b.vx, b.y + k * b.vy, b.half, b.half)
Hard(b) == b.state = "fired" /\ b.certain
Visible(b) == b.state # "fading"
----
(* Lasers turn by quarters.  laser_clearance: the player's centre in the   *)
(* frame of the laser; sizes and the centre are doubled there.             *)
Local(p, at, angle) ==
    LET x == p.x - at.x
        y == p.y - at.y
    IN  CASE angle = 0 -> [x |-> x, y |-> y] [] angle = 1 -> [x |-> y, y |-> -x]
          [] angle = 2 -> [x |-> -x, y |-> -y] [] OTHER -> [x |-> -y, y |-> x]
LaserGap(p, v, centre, size) ==
    LET q == Local(p, v.at, v.angle)
    IN  Max({Magnitude(2 * q.x - centre) - 2 * HalfX - Magnitude(size), Magnitude(2 * q.y) - 2 * HalfY - Half1(v.l.width)})

(* The forecast of a laser, update by update, until it is gone.            *)
Foretold1(now) == [l |-> now.l, lethal |-> now.lethal, size |-> now.size, there |-> TRUE]
NextForecast(was) ==
    IF was.l.inUse THEN Foretold1(PolicyUpdate(was.l)) ELSE [was EXCEPT !.lethal = FALSE, !.there = FALSE]
Forecasts(v) ==
    LET f[k \in 0 .. LaserHorizon] ==
            IF k = 0 THEN [l |-> v.l, lethal |-> FALSE, size |-> 0, there |-> TRUE] ELSE NextForecast(f[k - 1])
    IN  f
ForecastTable(s) == [i \in DOMAIN s.lasers |-> Forecasts(s.lasers[i])]

Native1(now) == [l |-> now.l, calls |-> now.calls]
NextNative(was) == IF was.l.inUse THEN Native1(NativeUpdate(was.l)) ELSE [was EXCEPT !.calls = << >>]
Natives(v) ==
    LET f[k \in 0 .. LaserHorizon] == IF k = 0 THEN [l |-> v.l, calls |-> << >>] ELSE NextNative(f[k - 1]) IN f

(* laser_path_may_overlap: the rectangle between the first and the last    *)
(* place of a constant path, on the axis across the laser.  A version that *)
(* forgets the player's own size.                                          *)
Across(v, first, last) ==
    {Local([x |-> x, y |-> y], v.at, v.angle).y : x \in {first.x, last.x}, y \in {first.y, last.y}}
Touches(across, reach) == Max(across) >= -reach /\ Min(across) <= reach
MayOverlapThin(v, first, last) == Touches(Across(v, first, last), Half1(Half1(v.l.width)))
MayOverlap(v, first, last) == Touches(Across(v, first, last), Half1(Half1(v.l.width)) + HalfY)
After(from, d, n) ==
    [x |-> Clamped(from.x + Sideways(d) * Stride(d) * n, FieldX), y |-> Clamped(from.y + Upwards(d) * Stride(d) * n, FieldY)]
Misses(v, from, d) == ~MayOverlap(v, Stepped(from, d), After(from, d, LaserHorizon - 1))
Pruned(s, v, initial) == LaserHorizon < 2 \/ (s.first = 0 /\ Misses(v, Stepped(s.at, s.pending), initial))
----
(* evaluate: the first overlap, the least clearance, the danger and the    *)
(* distance from the middle of one path.                                   *)
Danger(gap, k) == LET p == Max({0, gap}) + 1 IN Scale1 \div (p * p * k)
ShotGaps(s, at) ==
    {[k |-> k, of |-> i, gap |-> BulletGap(at[k], s.bullets[i], k), hard |-> Hard(s.bullets[i])] :
        k \in 2 .. BulletHorizon, i \in {j \in DOMAIN s.bullets : Visible(s.bullets[j])}}
BeamGap(s, at, k, i, f) == [k |-> k, of |-> i, gap |-> LaserGap(at[k], s.lasers[i], Centre(f.l), f.size), lethal |-> f.there /\ f.lethal]
BeamGaps(s, table, at, initial) ==
    {h \in {BeamGap(s, at, k, i, table[i][k]) :
                k \in 2 .. LaserHorizon, i \in {j \in DOMAIN s.lasers : ~Pruned(s, s.lasers[j], initial)}} : h.lethal}
Rams(p, body) == p.x + HalfX >= body.x0 /\ p.x - HalfX <= body.x1 /\ p.y + HalfY >= body.y0 /\ p.y - HalfY <= body.y1
BodyMet(s, at, k) == k <= BulletHorizon /\ \E b \in s.bodies : b.update = k /\ Rams(at[k], b)
OffCentre(p) == (2 * p.x - FieldX) * (2 * p.x - FieldX) + (2 * p.y - FieldY) * (2 * p.y - FieldY)
DangerOf(h) == Danger(h.gap, h.k)
DangerOfBeam(h) == Danger(Half1(h.gap), h.k)
FirstOverlap(s, at, shots, beams) ==
    Min({h.k : h \in {g \in shots : g.gap <= 0 /\ g.hard}} \union {h.k : h \in {g \in beams : g.gap <= 0}}
        \union {k \in 2 .. Horizon1 : BodyMet(s, at, k)} \union {Horizon1 + 1})
Scored(s, at, shots, beams, initial, continuation) ==
    [first |-> FirstOverlap(s, at, shots, beams),
     clearance |-> Min({2 * h.gap : h \in shots} \union {h.gap : h \in beams} \union {FarOff}),
     danger |-> MapThenSumSet(DangerOf, shots) + MapThenSumSet(DangerOfBeam, beams),
     centre |-> OffCentre(at[Min({2, Horizon1})]),
     action |-> initial, continuation |-> continuation]
EvaluatePath(s, table, at, initial, continuation) ==
    Scored(s, at, ShotGaps(s, at), BeamGaps(s, table, at, initial), initial, continuation)
EvaluateLegs(s, table, initial, continuation) ==
    EvaluatePath(s, table, PathOf(s, initial, continuation), initial, continuation)

(* better: in this order, the last two as the inputs are numbered.         *)
Input1(d) == (IF Sideways(d) < 0 THEN 64 ELSE IF Sideways(d) > 0 THEN 128 ELSE 0)
             + (IF Upwards(d) < 0 THEN 16 ELSE IF Upwards(d) > 0 THEN 32 ELSE 0)
MeritOf(s) == << -s.first, -s.clearance, s.danger, s.centre, Input1(s.action), Input1(s.continuation) >>
Precedes(m, n) == \E i \in 1 .. 6 : m[i] < n[i] /\ \A j \in 1 .. i - 1 : m[j] = n[j]
Better1(a, b) ==
    Precedes(MeritOf(a), MeritOf(b))
BestOf(scores) == CHOOSE s \in scores : \A t \in scores \ {s} : Better1(s, t)

(* hazard_reactive: the nine constant paths, or the 81 of two legs; with   *)
(* every direction masked it stays where it is.                            *)
Candidates(s, table, mask) ==
    {EvaluateLegs(s, table, p[1], p[2]) : p \in {q \in mask \X Direction : s.first > 0 \/ q[1] = q[2]}}
Reactive(s, mask) ==
    IF mask = {} THEN [action |-> Idle, first |-> 0] ELSE BestOf(Candidates(s, ForecastTable(s), mask))
----
(* The masks keep the directions that meet the fewest warnings, and if     *)
(* none is free of them, of those the ones that keep the largest distance. *)
Clearest(score, least) == Max({score[d].clearance : d \in {e \in Direction : score[e].overlaps = least}})
MaskFrom(score, least) ==
    {d \in Direction : score[d].overlaps = least /\ (least = 0 \/ score[d].clearance = Clearest(score, least))}
MaskOf(score) == MaskFrom(score, Min({score[d].overlaps : d \in Direction}))
Constant(s, d) == PathOf([s EXCEPT !.first = 0], d, d)
ScoreOf(gaps) == [overlaps |-> Cardinality({h \in gaps : h.gap <= 0}),
                  clearance |-> Min({h.gap : h \in gaps} \union {FarOff})]

(* collect_direct_laser_warnings: the next instruction of a script and the *)
(* callback it has installed.                                              *)
Height(ex) == CASE ex = 9 -> 2 [] ex = 11 -> 4 [] ex = 25 -> 6 [] OTHER -> 0
LastUpdate(c) ==
    IF c.op = "repeat" /\ c.enabled /\ ~c.variable /\ c.raw < 0 /\ c.wait >= 0 THEN Min({LaserHorizon, c.wait}) ELSE LaserHorizon
Warned(c, ex, first, last) ==
    IF Height(ex) = 0 \/ ~c.stable \/ last < 1 THEN {} ELSE {[first |-> first, last |-> last, height |-> Height(ex), of |-> c]}
Warnings(c) ==
    (IF c.perFrame < 0 THEN {} ELSE Warned(c, c.perFrame, 1, LastUpdate(c)))
    \union (IF c.op = "other" \/ ~c.enabled \/ c.variable \/ c.wait < 0 \/ c.wait + 1 > LaserHorizon THEN {}
            ELSE Warned(c, c.raw, c.wait + 1, IF c.op = "repeat" THEN LaserHorizon ELSE c.wait + 1))
DirectGap(q, height) == Max({Magnitude(2 * q.x - FarOff) - 2 * HalfX - FarOff, 2 * Magnitude(q.y) - 2 * HalfY - height})
DirectGaps(path, warnings) ==
    UNION {{[gap |-> DirectGap(Local(path[k], w.of.at, w.of.angle), w.height), at |-> <<k, w>>] : k \in w.first .. w.last} : w \in warnings}
DirectBy(s, warnings) ==
    IF warnings = {} THEN Direction ELSE MaskOf([d \in Direction |-> ScoreOf(DirectGaps(Constant(s, d), warnings))])
DirectMask(s) == DirectBy(s, UNION {Warnings(c) : c \in s.contexts})

(* imminent_laser_candidate_mask: from the first update of a due laser.    *)
DueGap(path, v, k, f) == [gap |-> LaserGap(path[k], v, Centre(f.l), f.size), at |-> <<k, v>>, lethal |-> f.there /\ f.lethal]
DueGaps(path, v, table) == {DueGap(path, v, k, table[k]) : k \in 1 .. LaserHorizon}
ImminentGaps(s, path) ==
    {g \in UNION {DueGaps(path, v, Forecasts(v)) : v \in {w \in s.due : ~w.suppressed}} : g.lethal}
ImminentMask(s) ==
    IF \A v \in s.due : v.suppressed THEN Direction
    ELSE MaskOf([d \in Direction |-> ScoreOf(ImminentGaps(s, Constant(s, d)))])

(* upcoming_bullet_candidate_mask: the bullets a script is about to fire,  *)
(* for as many updates as they fly straight.                               *)
FiredAt(s, k) == {b \in s.spawns : ~b.suppressed /\ k >= b.update /\ k < b.update + b.linear}
UpcomingGaps(s, path) ==
    UNION {{[gap |-> Gap(path[k], b.x + (k - b.update) * b.vx, b.y + (k - b.update) * b.vy, b.half, b.half), at |-> <<k, b>>] :
               b \in FiredAt(s, k)} : k \in 1 .. BulletHorizon}
UpcomingMask(s) ==
    IF \A b \in s.spawns : b.suppressed \/ b.linear = 0 THEN Direction
    ELSE MaskOf([d \in Direction |-> ScoreOf(UpcomingGaps(s, Constant(s, d)))])
----
(* observed_path_beam: all nine first directions, and of each the best     *)
(* prefixes; ties in the order in which they were made.                    *)
Root(s) == [at |-> Stepped(s.at, s.pending), rank |-> 0, parent |-> 0, trace |-> << >>,
            score |-> [first |-> Horizon1 + 1, clearance |-> FarOff, danger |-> 0, centre |-> 0, action |-> Idle, continuation |-> Idle]]
TreeGaps(s, at, k) ==
    {[k |-> k, of |-> i, gap |-> BulletGap(at, s.bullets[i], k), hard |-> Hard(s.bullets[i])] :
        i \in {j \in DOMAIN s.bullets : Visible(s.bullets[j])}}
Grown1(score, at, gaps, d, k) ==
    [first |-> IF \E g \in gaps : g.gap <= 0 /\ g.hard THEN Min({score.first, k}) ELSE score.first,
     clearance |-> Min({2 * g.gap : g \in gaps} \union {score.clearance}),
     danger |-> score.danger + MapThenSumSet(DangerOf, gaps),
     centre |-> IF k = 2 THEN OffCentre(at) ELSE score.centre,
     action |-> IF k = 2 THEN d ELSE score.action, continuation |-> d]
ExtendTo(s, n, at, d, k) ==
    [at |-> at, rank |-> 0, parent |-> n.rank, trace |-> Append(n.trace, d),
     score |-> Grown1(n.score, at, TreeGaps(s, at, k), d, k)]
Extend(s, n, d, k) == ExtendTo(s, n, Stepped(n.at, d), d, k)
Ahead1(m, n) == Better1(m.score, n.score) \/ (m.score = n.score /\ m.parent < n.parent)
Diverse(next) ==
    {n \in next : Cardinality({m \in next : m.score.action = n.score.action /\ Ahead1(m, n)}) < Family}
Numbered(beam) == {[n EXCEPT !.rank = Cardinality({m \in beam : Ahead1(m, n)})] : n \in beam}
Tree(s) ==
    LET beam[k \in 1 .. BulletHorizon] ==
            IF k = 1 THEN {Root(s)} ELSE Numbered(Diverse({Extend(s, n, d, k) : n \in beam[k - 1], d \in Direction}))
    IN  beam[BulletHorizon]
----
(* prune_unreachable, for the boxes of the bullets.                        *)
Box1(b, k) == [x0 |-> b.x + k * b.vx - b.half, x1 |-> b.x + k * b.vx + b.half,
               y0 |-> b.y + k * b.vy - b.half, y1 |-> b.y + k * b.vy + b.half]
Reach1(k) == Axis * (k + 1) + Max({HalfX, HalfY}) + Margin
Within(p, b, reach) == Max({b.x0 - p.x, p.x - b.x1}) <= reach /\ Max({b.y0 - p.y, p.y - b.y1}) <= reach
Keeps(s, k) == {b \in {Box1(s.bullets[i], k) : i \in DOMAIN s.bullets} : Within(s.at, b, Reach1(k))}
----
NoChoice == [action |-> Idle, first |-> 0]
ChoiceInit ==
    situation \in Situations /\ allowed = Direction /\ chosen = NoChoice /\ kept = << >> /\ step = "observed"

(* The adapters, one after the other; an observation they cannot read      *)
(* ends the run.                                                           *)
Mask1 ==
    /\ step = "observed"
    /\ IF \A w \in situation.due \union situation.spawns : w.supported
       THEN /\ allowed' = DirectMask(situation) \intersect ImminentMask(situation) \intersect UpcomingMask(situation)
            /\ step' = "masked"
       ELSE step' = "failed" /\ UNCHANGED allowed
    /\ UNCHANGED <<situation, chosen, kept>>

Choose1 ==
    /\ step = "masked" /\ ~situation.tree
    /\ chosen' = Reactive(situation, allowed) /\ step' = "chosen"
    /\ UNCHANGED <<situation, allowed, kept>>

ChooseByTree ==
    /\ step = "masked" /\ situation.tree
    /\ IF situation.lasers # << >> \/ situation.bodies # {} \/ allowed # Direction
       THEN step' = "failed" /\ UNCHANGED chosen
       ELSE step' = "chosen" /\ chosen' = (CHOOSE n \in Tree(situation) : n.rank = 0).score
    /\ UNCHANGED <<situation, allowed, kept>>

Prune ==
    /\ step = "observed"
    /\ kept' = [k \in 1 .. BulletHorizon |-> Keeps(situation, k)] /\ step' = "pruned"
    /\ UNCHANGED <<situation, allowed, chosen>>

ChoiceNext == Mask1 \/ Choose1 \/ ChooseByTree \/ Prune
----
(* What really happens on a path: bullets as they fly, every hitbox the    *)
(* game checks for a laser, enemies where they were foreseen.              *)
MetBy(p, v, now) == \E i \in DOMAIN now.calls : LaserGap(p, v, Centre(now.l), now.calls[i]) <= 0
LaserMeets(p, v, k) == MetBy(p, v, Natives(v)[k])
RealFirst(s, at) ==
    Min({k \in 2 .. Horizon1 :
           \/ k <= BulletHorizon /\ \E j \in DOMAIN s.bullets : Hard(s.bullets[j]) /\ BulletGap(at[k], s.bullets[j], k) <= 0
           \/ k <= LaserHorizon /\ \E j \in DOMAIN s.lasers : LaserMeets(at[k], s.lasers[j], k)
           \/ BodyMet(s, at, k)}
        \union {Horizon1 + 1})

(* The updates on which a script puts up a direct laser, by its next       *)
(* instruction and the callback that runs after it.                        *)
DirectHits(c) ==
    LET due(k) == c.op # "other" /\ c.enabled /\ c.wait >= 0 /\ k = c.wait + 1
        installed[k \in 0 .. LaserHorizon] ==
            IF k = 0 THEN c.perFrame ELSE IF due(k) /\ c.op = "repeat" THEN c.raw ELSE installed[k - 1]
    IN  {<<k, installed[k]>> : k \in 1 .. LaserHorizon} \union {<<k, c.raw>> : k \in {j \in 1 .. LaserHorizon : due(j) /\ c.op = "call"}}

Onward(places) == {Stepped(p, d) : p \in places, d \in Direction}
Reachable(s) ==
    LET r[k \in 0 .. BulletHorizon] == IF k = 0 THEN {s.at} ELSE Onward(r[k - 1]) IN r

(* No direction is taken for safer than it is; leaving out lasers that a   *)
(* path cannot touch, and sharing forecasts between paths, change for no   *)
(* direction when it is first hit; of the directions that are left none    *)
(* survives longer than the one chosen.                                    *)
Claim(s, table, d) == EvaluateLegs(s, table, d, d).first
ClaimHolds(s, table, d, claim) ==
    /\ claim <= RealFirst(s, Constant(s, d))
    /\ claim = Claim([s EXCEPT !.first = Horizon1], table, d)
    /\ d \in allowed => chosen.first >= claim
RankedBy(s, table) == \A d \in Direction : ClaimHolds(s, table, d, Claim([s EXCEPT !.first = 0], table, d))
SoundRanking == step = "chosen" /\ ~situation.tree => RankedBy(situation, ForecastTable(situation))

(* A direct laser the script will put up is warned of; no adapter forbids  *)
(* every direction (three together may), and where a laser that is due     *)
(* meets a player whose direction was left, its forecast said so.          *)
AllWarned(path, v, natives, table) ==
    \A k \in 1 .. LaserHorizon : MetBy(path[k], v, natives[k]) =>
        \E h \in DueGaps(path, v, table) : h.at = <<k, v>> /\ h.lethal /\ h.gap <= 0
SoundMasks ==
    /\ \A c \in situation.contexts : c.stable /\ ~c.variable =>
          \A h \in DirectHits(c) : Height(h[2]) > 0 =>
             \E w \in Warnings(c) : w.height = Height(h[2]) /\ h[1] \in w.first .. w.last
    /\ step = "masked" => /\ {} \notin {DirectMask(situation), ImminentMask(situation), UpcomingMask(situation)}
                          /\ \A v \in situation.due, d \in allowed :
                                ~v.suppressed => AllWarned(Constant(situation, d), v, Natives(v), Forecasts(v))

(* The tree keeps all nine first directions to the end, and what it says   *)
(* of its choice is true of the path it found.                             *)
TruePath(s, at, first) ==
    \A k \in 2 .. BulletHorizon : k < first =>
        \A j \in DOMAIN s.bullets : Hard(s.bullets[j]) => BulletGap(at[k], s.bullets[j], k) > 0
TrueChoice(s, best) ==
    LET at[k \in 1 .. BulletHorizon] == IF k = 1 THEN Stepped(s.at, s.pending) ELSE Stepped(at[k - 1], best.trace[k - 1])
    IN  TruePath(s, at, best.score.first) /\ chosen.action = best.trace[1]
TrueTree(s, beam) ==
    /\ {n.score.action : n \in beam} = Direction /\ Cardinality(beam) <= 9 * Family
    /\ TrueChoice(s, CHOOSE n \in beam : n.rank = 0)
SoundTree == step = "chosen" /\ situation.tree => TrueTree(situation, Tree(situation))

(* A box that was dropped cannot be touched, wherever the player goes.     *)
SoundPruning ==
    step = "pruned" =>
        \A k \in 1 .. BulletHorizon, i \in DOMAIN situation.bullets :
            Box1(situation.bullets[i], k) \notin kept[k] =>
                \A p \in Reachable(situation)[k] : BulletGap(p, situation.bullets[i], k) > 0

(* A decision is never better in the policy's eyes than in the game's.     *)
SoundChoice == SoundRanking /\ SoundMasks /\ SoundTree /\ SoundPruning
====
