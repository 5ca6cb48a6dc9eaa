---- MODULE BeamPlan ----
(* solver::plan (planner.hpp): a bounded beam search through a fixed model *)
(* of the coming frames.  Every layer expands all moves of all its nodes,  *)
(* keeps one node of every free position, and of those the best of the     *)
(* beam.  The search is bounded by a number of expansions, and what it     *)
(* finds is replayed against the model before it is returned.              *)
EXTENDS Integers, Sequences, FiniteSets, SequencesExt, FiniteSetsExt

CONSTANTS
    Columns, Rows, \* the positions a player can be in
    Requests       \* what plan is asked: [supported, epoch, expected, frames, start, goal, terminal, beam, limit]

Positions == (1 .. Columns) \X (1 .. Rows)
Question(r) ==
    /\ r.frames \in Seq(SUBSET Positions) /\ r.goal \in Int \X Int
    /\ r.beam \in Nat /\ r.limit \in Nat

ASSUME BeamPlanAssumption == Columns \in Nat \ {0} /\ Rows \in Nat \ {0} /\ \A r \in Requests : Question(r)

VARIABLES
    request, \* what was asked
    result   \* what plan returned, or Unanswered

planVars == <<request, result>>

Actions == (-1 .. 1) \X (-1 .. 1)
Branching == 9 \* Cardinality(Actions)

(* advance: a move stops at the edge of the field. *)
Clamp(n, top) == IF n < 1 THEN 1 ELSE IF n > top THEN top ELSE n
Advance(p, a) == << Clamp(p[1] + a[1], Columns), Clamp(p[2] + a[2], Rows) >>

Distance(p, q) == (p[1] - q[1]) * (p[1] - q[1]) + (p[2] - q[2]) * (p[2] - q[2])

(* better: the score, then the parent's place, then the action by y and x. *)
RankOf(n) == << n.score, n.parent, n.action[2], n.action[1] >>
Before(a, b) ==
    \E k \in 1 .. 4 : RankOf(a)[k] < RankOf(b)[k] /\ \A i \in 1 .. k - 1 : RankOf(a)[i] = RankOf(b)[i]

(* One layer: the free successors, one of each position, the best of them  *)
(* in the order of their rank.  blocked is the frame's set of positions.   *)
Successors(layer, goal) ==
    {[p |-> Advance(layer[i].p, a), parent |-> i, action |-> a,
      score |-> Distance(Advance(layer[i].p, a), goal)] : i \in DOMAIN layer, a \in Actions}

Free(layer, blocked, goal) == {n \in Successors(layer, goal) : n.p \notin blocked}

Deduplicated(nodes) == {n \in nodes : \A m \in nodes : m.p = n.p => m = n \/ Before(n, m)}

Ranked(nodes, place, beam) == [i \in 1 .. Min({beam, Cardinality(nodes)}) |-> CHOOSE n \in nodes : place[n] = i]
Best(nodes, beam) == Ranked(nodes, [n \in nodes |-> 1 + Cardinality({m \in nodes : Before(m, n)})], beam)
NextLayer(layer, blocked, goal, beam) == Best(Deduplicated(Free(layer, blocked, goal)), beam)

(* The layers of a search of the frames from start, the root first: layer  *)
(* t + 1 is what is left after frame t.                                    *)
Root(start) == << [p |-> start, parent |-> 0, action |-> <<0, 0>>, score |-> 0] >>
Layers(frames, start, goal, beam) ==
    LET grown[t \in 0 .. Len(frames)] ==
            IF t = 0 THEN << Root(start) >>
            ELSE LET layers == grown[t - 1] IN Append(layers, NextLayer(layers[t], frames[t], goal, beam))
    IN  grown[Len(frames)]

(* The expansions a search of t layers asks for, for every t. *)
Costs(layers) ==
    LET cost[k \in 0 .. Len(layers)] == IF k = 0 THEN 0 ELSE cost[k - 1] + Branching * Len(layers[k])
    IN  cost

(* The path that ends in node n of the last layer.                         *)
PathTo(layers, length, n) ==
    LET place[t \in 1 .. length] == IF t = length THEN n ELSE layers[t + 2][place[t + 1]].parent
    IN  [t \in 1 .. length |-> layers[t + 1][place[t]].action]

Failed(status, expansions) == [status |-> status, actions |-> << >>, expansions |-> expansions]

(* The first layer the budget cannot pay, or that nothing survives ... *)
StoppedAt(t, cost, limit) ==
    IF cost[t] > limit THEN Failed("expansion_limit", limit) ELSE Failed("search_exhausted", cost[t])
(* ... or the best node of the last layer that is where it should be. *)
Arrived(layers, length, hits, spent) ==
    IF hits = {} THEN Failed("no_terminal_witness", spent)
    ELSE [status |-> "found", actions |-> PathTo(layers, length, Min(hits)), expansions |-> spent]
Concluded(r, layers, cost, stops) ==
    IF stops # {} THEN StoppedAt(Min(stops), cost, r.limit)
    ELSE Arrived(layers, Len(r.frames), {n \in DOMAIN Last(layers) : Last(layers)[n].p \in r.terminal}, cost[Len(r.frames)])
Searched(r, layers, cost) ==
    Concluded(r, layers, cost, {t \in DOMAIN r.frames : cost[t] > r.limit \/ layers[t + 1] = << >>})
Found(r, layers) == Searched(r, layers, Costs(layers))
Search(r) == Found(r, Layers(r.frames, r.start, r.goal, r.beam))

Plan(r) ==
    IF ~r.supported THEN Failed("unsupported_dependency", 0)
    ELSE IF r.epoch # r.expected THEN Failed("invalidated", 0)
    ELSE IF r.frames = << >> \/ r.beam = 0 \/ r.start \notin Positions THEN Failed("invalid_argument", 0)
    ELSE Search(r)

Unanswered == Failed("unanswered", 0)
BeamInit == request \in Requests /\ result = Unanswered
Answer == result = Unanswered /\ result' = Plan(request) /\ UNCHANGED request

----
(* Where actions lead, and whether a player who takes them lives.          *)
Route(start, actions) ==
    LET at[t \in 0 .. Len(actions)] == IF t = 0 THEN start ELSE Advance(at[t - 1], actions[t])
    IN  at
Survives(frames, start, actions) ==
    \A t \in DOMAIN actions : Route(start, actions)[t] \notin frames[t]

(* Every position some surviving player can be in after the frames.        *)
Reachable(frames, start) ==
    LET at[t \in 0 .. Len(frames)] ==
            IF t = 0 THEN {start}
            ELSE {Advance(p, a) : p \in at[t - 1], a \in Actions} \ frames[t]
    IN  at[Len(frames)]

(* What a result promises: a found path survives every frame of the model  *)
(* and ends where it was asked to; no result costs more than the limit;    *)
(* and when the beam has room for every position a failure other than the  *)
(* limit is a proof that no path exists.                                   *)
Truthful(r, a) ==
    /\ a.expansions <= r.limit
    /\ a.status = "found" =>
          /\ Len(a.actions) = Len(r.frames) /\ Survives(r.frames, r.start, a.actions)
          /\ Route(r.start, a.actions)[Len(r.frames)] \in r.terminal
    /\ r.beam >= Columns * Rows =>
          /\ a.status = "search_exhausted" => Reachable(r.frames, r.start) = {}
          /\ a.status = "no_terminal_witness" => Reachable(r.frames, r.start) \cap r.terminal = {}
====
