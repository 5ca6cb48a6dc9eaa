---- MODULE PolicySearch ----
(* What the online policy computes from one observation (online.cpp): a    *)
(* beam search over its forecast, and the continuations that rank or       *)
(* replace what the search proposes.  The field is a row of cells and an   *)
(* input a direction; frame j of a forecast is the set of cells that are   *)
(* deadly after update j.  The input latched before the observation owns   *)
(* update 1, the first input proposed owns update 2.                       *)
EXTENDS Integers, Sequences, FiniteSets, FiniteSetsExt

CONSTANTS
    Width,       \* cells of the field
    Horizon,     \* updates a full search looks ahead
    BranchUntil  \* layers before this one branch, later ones only every other

ASSUME PolicySearchAssumption == Width \in Nat \ {0} /\ Horizon \in Nat /\ Horizon >= 2 /\ BranchUntil \in Nat

Cells == 1 .. Width
Inputs == {-1, 0, 1}
(* kDirs: staying comes first. *)
InputOrder == <<0, -1, 1>>

Move(x, input) == IF x + input < 1 THEN 1 ELSE IF x + input > Width THEN Width ELSE x + input

(* Where a proposal leads: past its end its last input is held.            *)
InputAt(latched, moves, update) == IF update = 1 THEN latched ELSE moves[Min({update - 1, Len(moves)})]
Positions(x, latched, moves, n) ==
    LET at[k \in 0 .. n] == IF k = 0 THEN x ELSE Move(at[k - 1], InputAt(latched, moves, k))
    IN  at
Safe(frames, x, latched, moves, n) ==
    LET at == Positions(x, latched, moves, n) IN \A k \in 1 .. n : at[k] \notin frames[k]

(* The updates a proposal survives, up to n.                               *)
Depth(frames, x, latched, moves, n) == Max({k \in 0 .. n : Safe(frames, x, latched, moves, k)})

----
Node(x, parent, act, score) == [x |-> x, parent |-> parent, act |-> act, score |-> score]
Away(x, pref) == IF x < pref THEN pref - x ELSE x - pref

(* The successors of a layer, in the order they are generated: by parent,  *)
(* then by input.                                                          *)
Branches(j) == j < BranchUntil \/ j % 2 = 0
Successors(cur, j, pref) ==
    {Node(Move(cur[g[1]].x, g[2]), g[1], g[2], cur[g[1]].score + Away(Move(cur[g[1]].x, g[2]), pref))
        : g \in {h \in (DOMAIN cur) \X Inputs : Branches(j) \/ h[2] = cur[h[1]].act}}
OrderOf(act) == CHOOSE k \in DOMAIN InputOrder : InputOrder[k] = act
Earlier(g, h) == g.parent < h.parent \/ (g.parent = h.parent /\ OrderOf(g.act) < OrderOf(h.act))

(* The place a key is met first; a key met on a deadly cell is taken too.  *)
Retains(j, horizon, headings) ==
    headings /\ (j + 1 = horizon \/ (j + 2 <= horizon /\ ~Branches(j + 1)))
SameKey(g, h, heading) == g.x = h.x /\ (heading => g.act = h.act)
FirstOfKey(nodes, heading) == {g \in nodes : \A h \in nodes : Earlier(h, g) => ~SameKey(h, g, heading)}

Cheaper(g, h) == g.score < h.score \/ (g.score = h.score /\ Earlier(g, h))
InPlace(nodes, place, beam) == [i \in 1 .. Min({beam, Cardinality(nodes)}) |-> CHOOSE g \in nodes : place[g] = i]
Cheapest(nodes, beam) == InPlace(nodes, [g \in nodes |-> 1 + Cardinality({h \in nodes : Cheaper(h, g)})], beam)
NextLayer(cur, j, horizon, frame, opt, pref, beam) ==
    Cheapest({g \in FirstOfKey(Successors(cur, j, pref), Retains(j, horizon, opt.headings)) : g.x \notin frame}, beam)

(* A layer of a forced prefix has one node and does not branch.            *)
ForcedLayer(cur, input, frame) ==
    IF Move(cur[1].x, input) \in frame THEN << >> ELSE << Node(Move(cur[1].x, input), 1, input, cur[1].score) >>

Grown(before, cur, j, frames, horizon, forced, opt, pref, beam) ==
    Append(before, IF cur = << >> THEN << >>
                   ELSE IF j - 1 <= Len(forced) THEN ForcedLayer(cur, forced[j - 1], frames[j])
                   ELSE NextLayer(cur, j - 1, horizon, frames[j], opt, pref, beam))
Layers(frames, horizon, x, latched, forced, opt, pref, beam) ==
    LET grown[j \in 1 .. horizon] ==
            IF j = 1 THEN << << Node(Move(x, latched), 0, latched, 0) >> >>
            ELSE LET before == grown[j - 1]
                 IN  Grown(before, before[j - 1], j, frames, horizon, forced, opt, pref, beam)
    IN  grown[horizon]

PathTo(layers, deepest, n) ==
    LET place[j \in 1 .. deepest] == IF j = deepest THEN n ELSE layers[j + 1][place[j + 1]].parent
    IN  [j \in 1 .. deepest - 1 |-> layers[j + 1][place[j + 1]].act]

(* check_terminal_tail: the longest held continuation beyond the horizon.  *)
TailDepth(frames, x, tail) ==
    Max({Depth([k \in 1 .. tail |-> frames[Horizon + k]], x, i, << i >>, tail) : i \in Inputs})

(* The endpoint chosen: the cheapest, or with tails the cheapest of those  *)
(* with the longest.                                                       *)
CheapestOf(last, among) == Min({n \in among : \A m \in among : last[n].score <= last[m].score})
Longest(last, tail) == CheapestOf(last, {n \in DOMAIN last : \A m \in DOMAIN last : tail[m] <= tail[n]})
Endpoint(frames, last, full, opt) ==
    Longest(last, [n \in DOMAIN last |-> IF full THEN TailDepth(frames, last[n].x, opt.tail) ELSE 0])

Deepest(layers) == Max({j \in DOMAIN layers : layers[j] # << >>})
Proposed(moves, latched, depth) == [moves |-> IF moves = << >> THEN << latched >> ELSE moves, depth |-> depth]
EndedAt(frames, layers, deepest, latched, opt) ==
    Proposed(PathTo(layers, deepest,
                    Endpoint(frames, layers[deepest], opt.tail > 0 /\ deepest = Len(layers) /\ Len(layers) = Horizon, opt)),
             latched, deepest)
Ended(frames, layers, latched, opt) == EndedAt(frames, layers, Deepest(layers), latched, opt)
Search(frames, horizon, x, latched, forced, opt, pref, beam) ==
    IF Move(x, latched) \in frames[1] THEN [moves |-> << latched >>, depth |-> 0]
    ELSE Ended(frames, Layers(frames, horizon, x, latched, forced, opt, pref, beam), latched, opt)

----
(* check_warm_path: the previous proposal, shifted by the update that has  *)
(* passed and checked again, when it survives longer than the new one.     *)
Unless(better, result, candidate) == IF better THEN candidate ELSE result

WarmApplies(result, previous, update, latched) ==
    /\ result.depth \notin {0, Horizon} /\ previous.moves # << >>
    /\ previous.update + 1 = update /\ Head(previous.moves) = latched

(* A version that starts the previous proposal from its first input again. *)
WarmPathUnshifted(frames, x, latched, previous) ==
    LET held == [k \in 1 .. Horizon |-> previous.moves[Min({k, Len(previous.moves)})]]
        depth == Depth(frames, x, latched, Tail(held), Horizon)
    IN  [moves |-> SubSeq(held, 1, depth - 1), depth |-> depth]

WarmPath(frames, x, latched, previous) ==
    LET held == [k \in 1 .. Horizon |-> previous.moves[Min({k, Len(previous.moves)})]]
        depth == Depth(frames, x, latched, Tail(held), Horizon)
    IN  [moves |-> SubSeq(Tail(held), 1, depth - 1), depth |-> depth]

Warmed(frames, x, latched, previous, update, result) ==
    IF ~WarmApplies(result, previous, update, latched) THEN result
    ELSE LET path == WarmPath(frames, x, latched, previous)
         IN  Unless(path.depth > result.depth, result, path)

(* check_held_directions: one input held, when it survives longer.         *)
HeldPath(frames, x, latched, input) ==
    LET depth == Depth(frames, x, latched, << input >>, Horizon)
    IN  [moves |-> [k \in 1 .. Max({1, depth - 1}) |-> input], depth |-> depth]

Held(frames, x, latched, result) ==
    LET path == [i \in 1 .. Len(InputOrder) |-> HeldPath(frames, x, latched, InputOrder[i])]
        best == Max({path[i].depth : i \in DOMAIN path})
        first == Min({i \in DOMAIN path : path[i].depth = best})
    IN  IF result.depth \in {0, Horizon} THEN result
        ELSE Unless(best > result.depth, result, path[first])
====
