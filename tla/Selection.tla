---- MODULE Selection ----
(* Three choices the offline search lives on: phase::frontier              *)
(* (phase_archive.cpp) picks the worlds the next generation starts from,   *)
(* one of every strategy family before a second of any;                    *)
(* plan::retain_spatial_beam (plan_beam.hpp) prunes a beam to its width,   *)
(* one node of every cell before a second of any; and                      *)
(* terminal_unsafe_onset (headless_repair.cpp) finds the update at which   *)
(* the danger a run ended in began.  Each is a function of its input,      *)
(* computed in one step.                                                   *)
EXTENDS Integers, Sequences, FiniteSets, SequencesExt, FiniteSetsExt

CONSTANTS
    Archives, \* sets of candidates: id, boundary, family, key, score, good
    Beams,    \* sequences of nodes: cell, score
    Logs,     \* policy logs: nonempty sequences of horizon, overlap
    Widths,
    Generations

VARIABLES
    request, \* what is asked for
    picked   \* what is answered

selectionVars == <<request, picked>>

(* A score is a float, here of three bits: SignBit and a magnitude.        *)
SignBit == 4

(* Candidates have ids of their own, and a log is not empty.               *)
ASSUME SelectionAssumption ==
    /\ \A archive \in Archives :
          /\ IsFiniteSet(archive)
          /\ \A c \in archive : c.id \in Nat \ {0} /\ c.family \in Int /\ c.score \in Int /\ c.good \in BOOLEAN
          /\ \A c, d \in archive : c.id = d.id => c = d
    /\ \A beam \in Beams : beam \in Seq([cell : Int, score : 0 .. 2 * SignBit - 1])
    /\ \A log \in Logs : log \in Seq([horizon : Nat, overlap : Nat]) /\ log # << >>
    /\ Widths \subseteq Nat /\ Generations \subseteq Nat

(* A finite set in an order, which is given by its pairs.                  *)
RankIn(which, ahead, c) == Cardinality({d \in which : << d, c >> \in ahead})
Ranked(which, ahead) ==
    [n \in 1 .. Cardinality(which) |-> CHOOSE c \in which : RankIn(which, ahead, c) = n - 1]

Refused == << 0 >> \* an exception; 0 is nobody's id

----
(* Failed and incomplete candidates do not count; of two that asked for    *)
(* the same and came to the same world, the one with the lower id stands.  *)
Eligible(archive) == {c \in archive : c.good}
Distinct(archive) == {c \in Eligible(archive) :
    \A d \in Eligible(archive) : d.key = c.key => c.id <= d.id}

(* An archive that mixes boundaries, or in which the same world scored     *)
(* differently, is refused.                                                *)
Mixed(archive) ==
    \E c, d \in Eligible(archive) :
        \/ c.boundary # d.boundary
        \/ c.key = d.key /\ (c.score # d.score \/ c.family # d.family)

Better(c, d) == c.score > d.score \/ (c.score = d.score /\ c.id < d.id)
Members(archive, family) == {c \in Distinct(archive) : c.family = family}
Depth(archive, c) == Cardinality({d \in Members(archive, c.family) : Better(d, c)})

(* The families in order, admitted from the one whose turn it is. *)
Turn(archive, generation, family) ==
    LET families == {c.family : c \in Distinct(archive)}
        place == Cardinality({f \in families : f < family})
    IN  (place - generation) % Cardinality(families)

(* One of every family before a second of any.                             *)
Precedes(archive, generation, c, d) ==
    \/ Depth(archive, c) < Depth(archive, d)
    \/ /\ Depth(archive, c) = Depth(archive, d)
       /\ Turn(archive, generation, c.family) < Turn(archive, generation, d.family)
Order(archive, generation) ==
    {p \in Distinct(archive) \X Distinct(archive) : Precedes(archive, generation, p[1], p[2])}

Frontier(archive, width, generation) ==
    LET all == Ranked(Distinct(archive), Order(archive, generation))
    IN  IF Mixed(archive) THEN Refused ELSE [i \in 1 .. Min({width, Len(all)}) |-> all[i].id]

----
(* Lower scores are better, and of equal ones, as the two zeros are, the   *)
(* first in the source.                                                    *)
Value(bits) == IF bits >= SignBit THEN SignBit - bits ELSE bits

(* A version that tells the two zeros apart.                               *)
RawKey(bits) == IF bits >= SignBit THEN 2 * SignBit - 1 - bits ELSE bits + SignBit

(* The bounded variant orders the bits themselves, as unsigned keys.       *)
DenseKey(bits) ==
    LET b == IF bits = SignBit THEN 0 ELSE bits
    IN  IF b >= SignBit THEN 2 * SignBit - 1 - b ELSE b + SignBit
Keys(nodes, bounded) ==
    [i \in DOMAIN nodes |-> IF bounded THEN DenseKey(nodes[i].score) ELSE Value(nodes[i].score)]
Ahead(keys, i, j) == keys[i] < keys[j] \/ (keys[i] = keys[j] /\ i < j)

(* The winners of the cells, cut to the width or filled up with the best   *)
(* of the rest.                                                            *)
Winners(nodes, keys) == {i \in DOMAIN nodes :
    \A j \in DOMAIN nodes : nodes[j].cell = nodes[i].cell => i = j \/ Ahead(keys, i, j)}

Retain(nodes, width, keys) ==
    LET ahead == {p \in (DOMAIN nodes) \X (DOMAIN nodes) : Ahead(keys, p[1], p[2])}
        ranked(which) == Ranked(which, ahead)
        best(which, count) == {ranked(which)[n] : n \in 1 .. Min({count, Cardinality(which)})}
        limit == Min({width, Len(nodes)})
        winners == Winners(nodes, keys)
        filled == winners \union best(DOMAIN nodes \ winners, limit - Cardinality(winners))
    IN  ranked(IF Cardinality(winners) < limit THEN filled ELSE best(winners, limit))

----
(* The scan of a policy log: only updates of the last one's horizon count, *)
(* and of those only the ones with a known overlap; beyond the horizon is  *)
(* safe.  A danger has an onset only if a safe update came just before it. *)
Scanned(log, horizon, scan, n) ==
    IF log[n].horizon # horizon \/ log[n].overlap = 0 THEN [onset |-> 0, safe |-> FALSE, unsafe |-> FALSE]
    ELSE IF log[n].overlap > horizon THEN [onset |-> 0, safe |-> TRUE, unsafe |-> FALSE]
    ELSE IF scan.unsafe THEN scan
    ELSE [scan EXCEPT !.onset = IF scan.safe THEN n ELSE 0, !.unsafe = TRUE]

Onset(log) ==
    LET scan[n \in 0 .. Len(log)] ==
            IF n = 0 THEN [onset |-> 0, safe |-> FALSE, unsafe |-> FALSE]
            ELSE Scanned(log, Last(log).horizon, scan[n - 1], n)
        end == scan[Len(log)]
    IN  IF Last(log).horizon \in {12, 32} /\ end.unsafe THEN end.onset ELSE 0

----
Idle == [what |-> "nothing"]

SelectionInit == request = Idle /\ picked = << >>

Ask ==
    /\ request = Idle
    /\ \/ \E archive \in Archives, width \in Widths, g \in Generations :
             request' = [what |-> "frontier", archive |-> archive, width |-> width, generation |-> g]
       \/ \E beam \in Beams, width \in Widths, which \in {"beam", "bounded"} :
             request' = [what |-> which, nodes |-> beam, width |-> width]
       \/ \E log \in Logs : request' = [what |-> "onset", log |-> log]
    /\ picked' = CASE request'.what = "frontier" ->
                          Frontier(request'.archive, request'.width, request'.generation)
                   [] request'.what = "onset" -> << Onset(request'.log) >>
                   [] OTHER -> Retain(request'.nodes, request'.width,
                                      Keys(request'.nodes, request'.what = "bounded"))

SelectionNext == Ask

----
(* Fairness of a selection, said of the answer alone: nobody is chosen     *)
(* before a better one of its own family; no family has two more than one  *)
(* that still has somebody to offer; every place is used; and a width of   *)
(* one gives each family its generation.                                   *)
FairFrontier(archive, width, g, result) ==
    LET chosen == {c \in Distinct(archive) : c.id \in ToSet(result)}
        left == Distinct(archive) \ chosen
        share(f) == Cardinality({c \in chosen : c.family = f})
    IN  /\ Cardinality(chosen) = Len(result)
        /\ Len(result) = Min({width, Cardinality(Distinct(archive))})
        /\ \A c \in chosen, d \in left : c.family = d.family => Better(c, d)
        /\ \A c \in chosen, d \in left : share(c.family) <= share(d.family) + 1
        /\ LET families == {c.family : c \in Distinct(archive)}
               first(i) == Frontier(archive, 1, g + i)[1]
               turns == {first(i) : i \in 0 .. Cardinality(families) - 1}
           IN  {c.family : c \in {d \in archive : d.id \in turns}} = families

(* The same of a beam: the survivors are in the order of their rank, no    *)
(* cell is dropped while another keeps a second node, and within a cell,   *)
(* and between the cells' best, the better rank survives.                  *)
FairBeam(nodes, width, result) ==
    LET kept == ToSet(result)
        dropped == DOMAIN nodes \ kept
        first(i) == i \in Winners(nodes, Keys(nodes, FALSE))
        better(i, j) == Ahead(Keys(nodes, FALSE), i, j)
    IN  /\ Len(result) = Min({width, Len(nodes)}) /\ Cardinality(kept) = Len(result)
        /\ \A i, j \in DOMAIN result : i < j => better(result[i], result[j])
        /\ \A i \in kept, j \in dropped : (first(i) <=> first(j)) => better(i, j)
        /\ \A i \in kept, j \in dropped : first(j) => first(i)

(* The onset, said of the whole log: from it to the end every update is of *)
(* one horizon and in danger, and the update before it was of the same     *)
(* horizon and safe; there is none only if there is no such update.        *)
Turning(log, n) ==
    LET same(k) == log[k].horizon = Last(log).horizon /\ log[k].overlap > 0
        danger(k) == same(k) /\ log[k].overlap <= log[k].horizon
    IN  /\ n > 1 /\ Last(log).horizon \in {12, 32}
        /\ \A k \in n .. Len(log) : danger(k)
        /\ same(n - 1) /\ ~danger(n - 1)

(* The answers are right: those of the archive and of the beam are fair,   *)
(* and a repair starts where the danger really began.                      *)
FairSelection ==
    /\ request.what = "frontier" /\ picked # Refused =>
          FairFrontier(request.archive, request.width, request.generation, picked)
    /\ request.what \in {"beam", "bounded"} => FairBeam(request.nodes, request.width, picked)
    /\ request.what = "onset" => \A n \in DOMAIN request.log : Turning(request.log, n) <=> picked[1] = n
====
