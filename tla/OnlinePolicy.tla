---- MODULE OnlinePolicy ----
(* The online policy as its caller drives it (online.cpp): one observation *)
(* an update, a decision on most of them.  Without lag a decision is a     *)
(* search and its fallbacks.  With lag a full search takes `lag` updates:  *)
(* it starts from the inputs committed meanwhile, its plan waits until it  *)
(* is due, and an executor follows the plan it has, checks it against each *)
(* new forecast, and replaces it by a rescue when it does not hold.        *)
EXTENDS PolicySearch

CONSTANTS
    Options,     \* [lag, check, rescue, rescueBeam, beam, tail, warm, held, headings,
                 \* lazy, until]: until bounds the updates
    Forecasts,   \* the forecasts an observation may lead to
    Preferred,   \* the cell the search is drawn to
    Start,       \* the cell the player starts in
    Stages       \* stages and spells the observation may name

ASSUME OnlinePolicyAssumption ==
    /\ Preferred \in Cells /\ Start \in Cells
    /\ \A o \in Options :
          o.until \in Nat /\ o.lag \in Nat /\ o.tail \in Nat /\ o.beam \in Nat /\ o.rescueBeam \in Nat
    /\ \A o \in Options :
          o.lag > 0 => /\ o.lag < Horizon - 1 /\ o.check \in 2 .. Horizon /\ o.rescue \in 2 .. Horizon
                       /\ o.rescueBeam > 0 /\ ~o.warm /\ ~o.held /\ o.tail = 0
    /\ \A f \in Forecasts, o \in Options : 1 .. Horizon + o.tail \subseteq DOMAIN f

VARIABLES
    opt,      \* the configuration
    turn,     \* "decide" or "play"
    update, x, latched, stage, \* the observation
    forecast, \* the forecast made of it
    previous, \* the last proposal: [moves, update]
    executor, \* what the delayed mode keeps
    decision, \* the last decision and what it promises
    since     \* the inputs latched since the pending plan's search

policyVars == <<opt, turn, update, x, latched, stage, forecast, previous, executor, decision, since>>

Nowhere == 0
NoForecast == << >>
Unplanned == [present |-> FALSE, moves |-> << >>, forced |-> << >>, origin |-> 0, due |-> 0, epoch |-> 0, arrival |-> Nowhere]
NoExecutor == [moves |-> << >>, offset |-> 0, pending |-> Unplanned, epoch |-> 0, freeAt |-> 0, anchored |-> FALSE,
               lastUpdate |-> 0, stage |-> Nowhere, expected |-> Nowhere, lastInput |-> 0]
NoDecision == [moves |-> << 0 >>, depth |-> 0, floor |-> 0, adopted |-> FALSE, forced |-> << >>, behind |-> << >>, indexed |-> 0, used |-> 0]

(* FollowedPlan: what is left of the plan being followed, its last input   *)
(* held.                                                                   *)
Present(e) == e.offset < Len(e.moves)
Followed(moves, offset) == [k \in 1 .. Max({1, Len(moves) - offset}) |-> moves[Min({offset + k, Len(moves)})]]

Checked(f, moves, offset) == Depth(f, x, latched, Followed(moves, offset), opt.check)

(* drop_pending *)
Dropped(e) == [e EXCEPT !.pending = Unplanned]

(* The executor is anchored to what it did last: the next observation must *)
(* be of the next update, in the same stage, with the input it gave and    *)
(* the player where that led.                                              *)
Matches(e) ==
    /\ update = e.lastUpdate + 1 /\ stage = e.stage
    /\ latched = e.lastInput /\ x = e.expected

Anchored(e) ==
    IF ~e.anchored THEN e
    ELSE IF ~Matches(e)
    THEN [Dropped(e) EXCEPT !.epoch = @ + 1, !.moves = << >>, !.offset = 0, !.freeAt = update]
    ELSE IF Present(e) THEN [e EXCEPT !.offset = @ + 1] ELSE e

(* The inputs really latched must be those the pending search was given.   *)
Prefixed(e) ==
    LET p == e.pending
        elapsed == update - p.origin
        matches == p.epoch = e.epoch /\ elapsed > 0 /\ elapsed <= Len(p.forced) /\ latched = p.forced[elapsed]
    IN  IF ~p.present \/ matches THEN e ELSE [Dropped(e) EXCEPT !.freeAt = update]

(* checked: the depth the plan followed survives in this forecast, or -1.  *)
WithCheck(e, checked, adopted, floor) == [state |-> e, checked |-> checked, adopted |-> adopted, floor |-> floor]

Due(e) == e.pending.present /\ update >= e.pending.due
Arrived(e) == update = e.pending.due /\ x = e.pending.arrival

Adopted(f, e) ==
    LET checked == IF Present(e) THEN Checked(f, e.moves, e.offset) ELSE -1
        candidate == IF Arrived(e) THEN Checked(f, e.pending.moves, 0) ELSE -1
    IN  IF ~Due(e) THEN WithCheck(e, checked, FALSE, checked)
        ELSE IF candidate >= opt.check
        THEN WithCheck([e EXCEPT !.moves = e.pending.moves, !.offset = 0, !.pending = Unplanned], candidate, TRUE, candidate)
        ELSE WithCheck(Dropped(e), checked, FALSE, checked)

(* A plan that does not hold, or none: a bounded search for a rescue, used *)
(* unless it is shallower than the plan it would replace.                  *)
RescuedBy(c, rescue, dropped) ==
    IF ~Present(c.state) \/ rescue.depth >= c.checked
    THEN [c EXCEPT !.state = [dropped EXCEPT !.moves = rescue.moves, !.offset = 0], !.checked = rescue.depth]
    ELSE [c EXCEPT !.state = dropped]
Sustained(c) == Present(c.state) /\ c.checked >= opt.check
Rescued(f, c) ==
    IF Sustained(c) THEN c
    ELSE RescuedBy(c, Search(f, opt.rescue, x, latched, << >>, opt, Preferred, opt.rescueBeam),
                   [Dropped(c.state) EXCEPT !.epoch = @ + 1, !.freeAt = update])

(* prefix_arrival: the first of the committed inputs is not yet latched.   *)
Arrival(forced) == Positions(x, latched, forced, Len(forced))[Len(forced)]

(* A planner that is free starts a full search behind the committed        *)
(* inputs; what it finds beyond them becomes the pending plan.             *)
Starts(c) == ~c.state.pending.present /\ update >= c.state.freeAt /\ c.checked >= 2
Pending(e, forced, full) ==
    [e EXCEPT !.freeAt = update + opt.lag,
              !.pending = IF Len(full.moves) > opt.lag
                          THEN [present |-> TRUE, moves |-> SubSeq(full.moves, opt.lag + 1, Len(full.moves)),
                                forced |-> forced, origin |-> update, due |-> update + opt.lag, epoch |-> e.epoch,
                                arrival |-> Arrival(forced)]
                          ELSE @]
Behind(f, e, forced) == Pending(e, forced, Search(f, Horizon, x, latched, forced, opt, Preferred, opt.beam))
Planned(f, c) ==
    IF ~Starts(c) THEN c.state
    ELSE Behind(f, c.state, [k \in 1 .. opt.lag |-> c.state.moves[Min({c.state.offset + k, Len(c.state.moves)})]])

Executed(e) == [e EXCEPT !.anchored = TRUE, !.stage = stage, !.lastUpdate = update,
                         !.lastInput = Head(Followed(e.moves, e.offset)), !.expected = Move(x, latched)]

(* ensure_index: before the executor runs, while a plan is pending and not *)
(* due, only the frames a check or a rescue needs; a full search, which    *)
(* may yet start in this update, has the rest indexed first.               *)
Prepared == IF opt.lazy /\ executor.pending.present /\ update < executor.pending.due
            THEN Max({opt.check, opt.rescue}) ELSE Horizon + opt.tail
(* A version that searches the frames prepared.                            *)
IndexedBefore(starts) == Prepared
Indexed(starts) == IF starts THEN Max({Prepared, Horizon}) ELSE Prepared

(* The last frame that the checks, the rescue and the full search read.    *)
Reads(searched, starts) ==
    IF starts THEN Horizon ELSE IF searched THEN Max({opt.check, opt.rescue}) ELSE opt.check

(* lag_decide: adoption, then the rescue, then the start of a search.      *)
LagDecide(f) ==
    \E adopted \in {Adopted(f, Prefixed(Anchored(executor)))} :
    \E rescued \in {Rescued(f, adopted)} :
    \E planned \in {Planned(f, rescued)} :
        /\ executor' = Executed(planned)
        /\ decision' = [moves |-> Followed(rescued.state.moves, rescued.state.offset), depth |-> Min({rescued.checked, opt.check}),
                        floor |-> Min({Max({0, adopted.checked}), opt.check}),
                        adopted |-> adopted.adopted, forced |-> executor.pending.forced, behind |-> since,
                        indexed |-> Indexed(Starts(rescued)), used |-> Reads(~Sustained(adopted), Starts(rescued))]
        /\ since' = IF planned.pending.present /\ planned.pending.origin = update THEN << >> ELSE since
        /\ UNCHANGED previous

(* choose, without lag: the search, then the two fallbacks.                *)
NowDecide(f) ==
    \E search \in {Search(f, Horizon, x, latched, << >>, opt, Preferred, opt.beam)} :
    \E warmed \in {IF opt.warm THEN Warmed(f, x, latched, previous, update, search) ELSE search} :
    \E result \in {IF opt.held THEN Held(f, x, latched, warmed) ELSE warmed} :
        /\ decision' = [NoDecision EXCEPT !.moves = result.moves, !.depth = result.depth, !.floor = search.depth,
                                          !.indexed = Horizon + opt.tail, !.used = Horizon + opt.tail]
        /\ previous' = IF opt.warm THEN [moves |-> result.moves, update |-> update] ELSE previous
        /\ UNCHANGED <<executor, since>>

Decide ==
    /\ turn = "decide" /\ turn' = "play"
    /\ \E f \in Forecasts : forecast' = f /\ (IF opt.lag > 0 THEN LagDecide(f) ELSE NowDecide(f))
    /\ UNCHANGED <<opt, update, x, latched, stage>>

(* observe without a decision: a prefix the caller replays.                *)
ObserveOnly ==
    /\ turn = "decide" /\ turn' = "play"
    /\ decision' = NoDecision
    /\ UNCHANGED <<opt, update, x, latched, stage, forecast, previous, executor, since>>

(* The game: the latched input moves the player, and an input is latched.  *)
(* It may not be the one decided; the player may be moved or the stage     *)
(* change under the policy.                                                *)
Latch(input) ==
    /\ latched' = input
    /\ since' = IF executor.pending.present THEN Append(since, input) ELSE << >>
    /\ update' = update + 1 /\ turn' = "decide"
    /\ decision' = NoDecision /\ forecast' = NoForecast
    /\ UNCHANGED <<opt, previous, executor>>

Follow == turn = "play" /\ update < opt.until /\ Latch(Head(decision.moves)) /\ x' = Move(x, latched) /\ UNCHANGED stage
Override == turn = "play" /\ update < opt.until /\ (\E i \in Inputs : Latch(i)) /\ x' = Move(x, latched) /\ UNCHANGED stage
Displace == turn = "play" /\ update < opt.until /\ Latch(Head(decision.moves)) /\ x' \in Cells /\ UNCHANGED stage
Handoff == turn = "play" /\ update < opt.until /\ Latch(Head(decision.moves)) /\ x' = Move(x, latched) /\ stage' \in Stages

PolicyInit ==
    /\ opt \in Options
    /\ turn = "decide" /\ update = 1 /\ x = Start /\ latched = 0 /\ stage = CHOOSE s \in Stages : TRUE
    /\ forecast = NoForecast
    /\ previous = [moves |-> << >>, update |-> 0] /\ executor = NoExecutor /\ decision = NoDecision /\ since = << >>

PolicyNext == Decide \/ ObserveOnly \/ Follow \/ Override \/ Displace \/ Handoff

----
(* The set of proposals a search layer has met (online_dedup.hpp): a bitmap *)
(* over a rectangle of a cyclic grid, which grows to all of the grid when a *)
(* proposal falls outside of what was expected.  One axis stands for both. *)
CONSTANTS
    Cycle,    \* cells of the whole cyclic grid
    Places,   \* the half-pixel coordinates a proposal may have
    Headings, \* the directions a proposal may be told apart by
    Adds      \* bounds the proposals of a layer

ASSUME ProposalKeysAssumption == Cycle \in Nat \ {0} /\ Places \subseteq Int /\ Adds \in Nat

VARIABLES
    keys,  \* the bitmap: [base, columns, retain, marked]
    whole,  \* the keys a set over the whole grid would hold
    fresh, \* what the last call said, and what such a set would say
    adds

keyVars == <<keys, whole, fresh, adds>>

(* expand: the same marks on the whole grid.                               *)
Expanded(k) == [k EXCEPT !.base = 0, !.columns = Cycle,
                         !.marked = {<<(m[1] + k.base) % Cycle, m[2]>> : m \in k.marked}]

(* reset: a layer whose bounds are unknown, or wider than the grid, starts *)
(* with all of it.                                                         *)
Reset(low, high, retain) ==
    /\ keys' = IF low > high THEN [base |-> 0, columns |-> Cycle, retain |-> retain, marked |-> {}]
               ELSE [base |-> low % Cycle, columns |-> IF high - low + 1 < Cycle THEN high - low + 1 ELSE Cycle,
                     retain |-> retain, marked |-> {}]
    /\ whole' = {} /\ adds' = 0 /\ fresh' = <<TRUE, TRUE>>

(* first: whether a proposal is met for the first time in its layer.       *)
First(place, heading) ==
    LET near == (place - keys.base) % Cycle
        k == IF near < keys.columns THEN keys ELSE Expanded(keys)
        channel == IF keys.retain THEN heading ELSE 0
        mark == <<IF near < keys.columns THEN near ELSE place % Cycle, channel>>
        key == <<place % Cycle, channel>>
    IN  /\ keys' = [k EXCEPT !.marked = @ \union {mark}]
        /\ whole' = whole \union {key}
        /\ fresh' = <<mark \notin k.marked, key \notin whole>>
        /\ adds' = adds + 1

KeysInit ==
    /\ keys = [base |-> 0, columns |-> Cycle, retain |-> FALSE, marked |-> {}]
    /\ whole = {} /\ fresh = <<TRUE, TRUE>> /\ adds = 0

KeysNext ==
    \/ \E low \in Places, high \in Places, r \in BOOLEAN : Reset(low, high, r)
    \/ adds < Adds /\ \E p \in Places, h \in Headings : First(p, h)

(* A layer's bitmap answers as a set over the whole grid would, whatever   *)
(* bounds it was given and however often it had to grow.                   *)
KeysExact == fresh[1] = fresh[2]

----
(* A decision is what it says.  Whoever follows it, from the input already *)
(* latched, lives as many updates as its depth under the forecast it was   *)
(* made from; no fallback, rescue or adoption made it shallower than what  *)
(* it replaced; a plan adopted late was searched behind exactly the inputs *)
(* latched since; neither a check nor a search reads a frame that is not   *)
(* indexed, though a plan pending at first, and so an index cut short, may *)
(* be dropped and a full search start in the same update; and the set of   *)
(* proposals a layer keeps forgets and invents none.                       *)
HonestDecision ==
    /\ turn = "play" /\ decision # NoDecision =>
          /\ Safe(forecast, x, latched, decision.moves, decision.depth)
          /\ decision.depth >= decision.floor
          /\ decision.adopted => decision.behind = decision.forced
          /\ decision.used <= decision.indexed
    /\ KeysExact
====
