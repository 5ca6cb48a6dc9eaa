---- MODULE Scenario ----
(* The synthetic scenarios (scenario.cpp): a world of timed emitters whose *)
(* future does not depend on the player, a forecast that steps a copy of   *)
(* it, and a run that decides, commits a prefix of what it decided, steps  *)
(* the world, and at the end replays all it did from the start.            *)
(* Places are cells of a small field; a draw is a function of the seed and *)
(* of how many draws came before, as of any seeded generator.              *)
EXTENDS BeamPlan

CONSTANTS
    Definitions, \* [phases, visual]: a sequence of [end, pattern], draws of the hook a frame
    Seeds,       \* seeds of a checkpoint
    Ages,        \* steps a checkpoint is made after
    Runs         \* [strategy, horizon, commit, beam, limit, goal, recover]

ASSUME ScenarioAssumption ==
    /\ Ages \subseteq Nat
    /\ \A d \in Definitions :
          /\ d.phases \in Seq([end : Nat, pattern : {"curtain", "rings", "lane_shift", "quiet", "closing_gate"}])
          /\ Len(d.phases) \in 1 .. 64 /\ d.visual \in 0 .. 32
          /\ \A i \in DOMAIN d.phases : d.phases[i].end > (IF i = 1 THEN 0 ELSE d.phases[i - 1].end)
    /\ \A r \in Runs :
          /\ r.horizon \in Nat /\ r.beam \in Nat \ {0} /\ r.limit \in Nat
          /\ r.commit \in 1 .. r.horizon /\ r.goal \in Positions

VARIABLES
    first,    \* the checkpoint a run starts from: [world, player]
    options,  \* the run's options
    world,    \* the world of the run
    player,   \* where the player is
    stage,    \* "decide", "execute", "replay", "done"
    chosen,   \* actions decided and not yet taken
    taken,    \* actions taken
    outcome,  \* "none", "survived", "collision", "search_limit"
    spent,    \* expansions of the last decision
    retry     \* status of the last decision's second search, "none" without one

scenarioVars == <<first, options, world, player, stage, chosen, taken, outcome, spent, retry>>

----
(* The world.  Draw n of a seed; the hook has a generator of its own.      *)
Draw(seed, n, range) == (((seed + 3) * (n + 2) * (n + 5)) + n) % range

Duration(d) == d.phases[Len(d.phases)].end
Begin(w) == IF w.phase = 1 THEN 0 ELSE w.def.phases[w.phase - 1].end

Bullet(w, k, at, velocity, reach, lifetime) ==
    [id |-> w.next + k, at |-> at, velocity |-> velocity, reach |-> reach, until |-> w.frame + lifetime]

(* spawn: the bullets of one event get the next ids in order.              *)
Spawned(w, bullets, draws) == [w EXCEPT
    !.bullets = @ \union bullets, !.next = @ + Cardinality(bullets), !.events = @ + 1, !.draws = @ + draws]

(* A row of bullets above the field with a gap that moves with the frame.  *)
Row(w) ==
    LET gap == 1 + (((w.frame \div 2) + Draw(w.seed, w.draws, 2)) % Columns)
    IN  {Bullet(w, IF x < gap THEN x ELSE x - 1, <<x, 0>>, <<0, 1>>, <<0, 0>>, Rows + 1) : x \in (1 .. Columns) \ {gap}}

Ring(w, local) ==
    LET turn == Draw(w.seed, w.draws, 2)
        speed == 1 + Draw(w.seed, w.draws + 1, 2)
        x == IF (local \div 4) % 2 = 1 THEN 1 ELSE Columns
        spokes == IF turn = 0 THEN << <<1, 0>>, <<0, 1>>, <<-1, 0>>, <<0, -1>> >>
                  ELSE << <<1, 1>>, <<-1, 1>>, <<-1, -1>>, <<1, -1>> >>
    IN  {Bullet(w, k, <<x, 1>>, <<speed * spokes[k][1], speed * spokes[k][2]>>, <<0, 0>>, 6) : k \in 1 .. 4}

Gate(w) == {Bullet(w, 1, <<Columns + 2, 1>>, <<0, 0>>, <<Columns, Rows>>, w.def.phases[w.phase].end - w.frame)}

Interval(pattern) == CASE pattern = "curtain" -> 3 [] pattern = "lane_shift" -> 2 [] OTHER -> 4

Due(pattern, local) ==
    IF pattern = "closing_gate" THEN local = 0 ELSE pattern # "quiet" /\ local % Interval(pattern) = 0
Volley(w, pattern, local) ==
    CASE pattern \in {"curtain", "lane_shift"} -> Row(w)
      [] pattern = "rings" -> Ring(w, local)
      [] OTHER -> Gate(w)
Emit(w, pattern, local) ==
    IF Due(pattern, local) THEN Spawned(w, Volley(w, pattern, local), IF pattern = "rings" THEN 2 ELSE 1) ELSE w

(* The phase changes without clearing a bullet or a generator.             *)
Turned(w) ==
    IF w.frame # w.def.phases[w.phase].end THEN w
    ELSE [w EXCEPT !.phase = @ + 1, !.turns = Append(@, <<w.frame, Cardinality(w.bullets), w.draws, w.hook>>)]

InField(b) == b.at[1] \in 0 .. 2 * Columns /\ b.at[2] \in 0 .. Rows + 1
Moved(b) == [b EXCEPT !.at = <<b.at[1] + b.velocity[1], b.at[2] + b.velocity[2]>>]

Emitted(w) == Emit(w, w.def.phases[w.phase].pattern, w.frame - Begin(w))
Living(w) == {b \in {Moved(c) : c \in w.bullets} : w.frame + 1 <= b.until /\ InField(b)}
Settled(w, live) ==
    [w EXCEPT !.hook = @ + w.def.visual, !.frame = @ + 1, !.bullets = live, !.peak = Max({@, Cardinality(live)})]
Flown(w) == Settled(w, Living(w))
Step(w) == Flown(Emitted(Turned(w)))

Absolute(n) == IF n < 0 THEN -n ELSE n
Hits(b, p) == \A i \in 1 .. 2 : Absolute(p[i] - b.at[i]) <= b.reach[i]
Collision(w, p) == \E b \in w.bullets : Hits(b, p)

Checkpoint(d, seed) ==
    [def |-> d, seed |-> seed, bullets |-> {}, turns |-> << >>, frame |-> 0, phase |-> 1, peak |-> 0,
     next |-> 1, events |-> 0, draws |-> 0, hook |-> 0]

(* The cursor a checkpoint must have.                                      *)
ValidCursor(w, completed) ==
    /\ w.phase \in DOMAIN w.def.phases
    /\ w.frame <= Duration(w.def) /\ (completed \/ w.frame < Duration(w.def))
    /\ w.frame >= Begin(w) /\ w.frame <= w.def.phases[w.phase].end

----
(* The forecast: frame t is the world after t steps of a copy.             *)
Horizon(w, horizon) == Min({horizon, Duration(w.def) - w.frame})
Futures(w, n) ==
    LET grown[k \in 0 .. n] ==
            IF k = 0 THEN << w >> ELSE LET ws == grown[k - 1] IN Append(ws, Step(ws[k]))
    IN  grown[n]
Blocked(w) == {p \in Positions : Collision(w, p)}

(* A version that describes each frame before its step.                    *)
ForecastEarly(w, horizon) ==
    LET worlds == Futures(w, Horizon(w, horizon)) IN [t \in 1 .. Horizon(w, horizon) |-> Blocked(worlds[t])]
Forecast(w, horizon) ==
    LET worlds == Futures(w, Horizon(w, horizon)) IN [t \in 1 .. Horizon(w, horizon) |-> Blocked(worlds[t + 1])]

(* The widest beam whose whole retry fits into what is left: one parent in *)
(* the first layer, at most a beam of them in every other.                 *)
RecoveryBeam(frames, beam, remaining) ==
    IF remaining < Branching * frames THEN 0
    ELSE IF frames = 1 THEN beam
    ELSE Min({beam, (remaining \div Branching - 1) \div (frames - 1)})

(* The nearest place within reach that stays free in every frame; of two   *)
(* as near, the one met first, by rows.                                    *)
Refuges(frames, from) ==
    {p \in Positions : /\ \A i \in 1 .. 2 : Absolute(p[i] - from[i]) <= Len(frames)
                       /\ \A t \in DOMAIN frames : p \notin frames[t]}
Refuge(frames, from) == CHOOSE p \in Refuges(frames, from) : \A q \in Refuges(frames, from) :
    \/ Distance(p, from) < Distance(q, from)
    \/ Distance(p, from) = Distance(q, from) /\ (p[2] < q[2] \/ (p[2] = q[2] /\ p[1] <= q[1]))

(* solver::plan for a forecast of this world.                              *)
Ask(frames, goal, beam, limit) ==
    Plan([supported |-> TRUE, epoch |-> world.frame, expected |-> world.frame, frames |-> frames,
          start |-> player, goal |-> goal, terminal |-> Positions, beam |-> beam, limit |-> limit])

----
Taking(actions) ==
    /\ chosen' = SubSeq(actions, 1, Min({Len(actions), options.commit}))
    /\ stage' = "execute" /\ UNCHANGED outcome

(* A decision of the rolling beam: a search towards the goal, and when it  *)
(* ran dry, a second one towards a refuge within what the first left.      *)
Accept(answer) ==
    IF answer.status = "found" THEN Taking(answer.actions)
    ELSE outcome' = "search_limit" /\ stage' = "replay" /\ UNCHANGED chosen
Retry(one, two) == spent' = one.expansions + two.expansions /\ retry' = two.status /\ Accept(two)
Recover(frames, one, left, beam) ==
    IF options.recover /\ one.status = "search_exhausted" /\ beam > 0 /\ Refuges(frames, player) # {}
    THEN Retry(one, Ask(frames, Refuge(frames, player), beam, left))
    ELSE spent' = one.expansions /\ retry' = "none" /\ Accept(one)
Attempt(frames, one) ==
    Recover(frames, one, options.limit - one.expansions,
            RecoveryBeam(Len(frames), options.beam, options.limit - one.expansions))
Try(frames) == Attempt(frames, Ask(frames, options.goal, options.beam, options.limit))
Roll ==
    /\ stage = "decide" /\ options.strategy = "rolling_beam"
    /\ Try(Forecast(world, options.horizon))
    /\ UNCHANGED <<first, options, world, player, taken>>

(* The other strategies take one action at a time.                         *)
Single ==
    /\ stage = "decide" /\ options.strategy # "rolling_beam"
    /\ Taking(<< <<0, 0>> >>)
    /\ UNCHANGED <<first, options, world, player, taken, spent, retry>>

(* greedy: of the nine actions, the free one that ends nearest the goal;   *)
(* the given one when none is free.                                        *)
Greedy(w, given) ==
    LET free == {a \in Actions : ~Collision(w, Advance(player, a))}
        far(a) == Distance(Advance(player, a), options.goal)
    IN  IF free = {} THEN given
        ELSE CHOOSE a \in free : \A b \in free :
                 far(a) < far(b) \/ (far(a) = far(b) /\ (a[2] < b[2] \/ (a[2] = b[2] /\ a[1] <= b[1])))

(* One frame: the world steps, then the player moves, then it is hit.      *)
Arrive(next, action, at, hit, over) ==
    /\ world' = next /\ player' = at /\ taken' = Append(taken, action)
    /\ chosen' = Tail(chosen)
    /\ outcome' = IF hit THEN "collision" ELSE IF over THEN "survived" ELSE outcome
    /\ stage' = IF hit \/ over THEN "replay" ELSE IF Len(chosen) = 1 THEN "decide" ELSE stage
Move(next, action) ==
    Arrive(next, action, Advance(player, action), Collision(next, Advance(player, action)),
           next.frame = Duration(next.def))
Play(next) == Move(next, IF options.strategy = "greedy" THEN Greedy(next, Head(chosen)) ELSE Head(chosen))
Execute ==
    /\ stage = "execute"
    /\ Play(Step(world))
    /\ UNCHANGED <<first, options, spent, retry>>

(* replay: the same actions from the checkpoint, up to the first hit.      *)
Arrival(w, p, k) == [world |-> w, player |-> p, done |-> k, dead |-> IF Collision(w, p) THEN w.frame ELSE 0]
Replay1(last, action, k) ==
    IF last.dead # 0 THEN last ELSE Arrival(Step(last.world), Advance(last.player, action), k)
Replayed(start, actions) ==
    LET at[k \in 0 .. Len(actions)] == IF k = 0 THEN start ELSE Replay1(at[k - 1], actions[k], k)
    IN  at[Len(actions)]

Start(c) == [world |-> c.world, player |-> c.player, done |-> 0, dead |-> 0]
Executed == [world |-> world, player |-> player, done |-> Len(taken),
             dead |-> IF outcome = "collision" THEN world.frame ELSE 0]

(* A run whose replay differs from it throws.                              *)
Verify ==
    /\ stage = "replay"
    /\ stage' = IF Replayed(Start(first), taken) = Executed THEN "done" ELSE "thrown"
    /\ UNCHANGED <<first, options, world, player, chosen, taken, outcome, spent, retry>>

ScenarioFrom(d, seed, age, run) ==
    /\ first = [world |-> Futures(Checkpoint(d, seed), age)[age + 1], player |-> <<(Columns + 1) \div 2, Rows>>]
    /\ options = run
    /\ ValidCursor(first.world, FALSE)
    /\ world = first.world /\ player = first.player
    /\ stage = "decide" /\ chosen = << >> /\ taken = << >> /\ outcome = "none" /\ spent = 0 /\ retry = "none"

ScenarioInit == \E d \in Definitions, seed \in Seeds, age \in Ages, run \in Runs :
    age < Duration(d) /\ ScenarioFrom(d, seed, age, run)

ScenarioNext == Roll \/ Single \/ Execute \/ Verify

----
(* What plan and run promise.  A plan is truthful.  The replay of a run    *)
(* agrees with it.  A player who follows the rolling beam is never hit,    *)
(* whatever phase, draw or commitment lies between a decision and its      *)
(* frame: a forecast is the future.  A decision never costs more than one  *)
(* search may, its retry included, and the beam of a retry is narrow       *)
(* enough that it never ends for want of budget.                           *)
HonestRun ==
    /\ Truthful(request, result)
    /\ stage # "thrown"
    /\ ValidCursor(world, TRUE)
    /\ options.strategy = "rolling_beam" => outcome # "collision"
    /\ outcome = "survived" => Len(taken) = Duration(world.def) - first.world.frame
    /\ options.strategy = "rolling_beam" => spent <= options.limit
    /\ retry # "expansion_limit"
====
