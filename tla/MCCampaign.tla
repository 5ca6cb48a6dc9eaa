---- MODULE MCCampaign ----
(* The offline tools, each on its own: the replay suite with two fixtures, *)
(* a repair search of four updates and its resume, plans over two games    *)
(* with two checkpoints kept, the selections, and native runs over three   *)
(* scenes with the probe.  One run explores each of them; part says which  *)
(* one a behaviour is about.                                               *)
EXTENDS ReplaySuite, Repair, PlanSearch, Selection, HeadlessRun

VARIABLE part

Fix(id, file, hash) == [id |-> id, file |-> file, hash |-> hash]
MCManifests == { << Fix(1, 1, 1), Fix(2, 2, 2) >>, << Fix(1, 1, 1), Fix(2, 1, 2) >> }
MCCorpora == { {[file |-> i, hash |-> i] : i \in 1..2}, {[file |-> i, hash |-> i] : i \in 1..3} }
MCCaseSets == { {}, {2}, {7} }

(* A game longer than the frame budget, with a trap met early; and one in  *)
(* which a trap opens only behind two good moves.                          *)
MCWorlds ==
    { [goal |-> 7, deaths |-> {<<0,0,0>>, <<0,0,1>>, <<0,1,0>>, <<0,1,1>>}],
      [goal |-> 5, deaths |-> {<<0,0,0>>, <<0,0,1,0>>, <<0,0,1,1>>, <<1,1,0,0,0>>, <<1,1,0,0,1>>, <<1,1,0,1>>}] }
MCPrefixes == { << >>, <<1,0>>, <<0,0,0>>, <<1,0,0,0,0>>, <<1,0,0,0,0,0>> }

Candidate(id, where, family, key, score, good) ==
    [id |-> id, boundary |-> where, family |-> family, key |-> key, score |-> score, good |-> good]
MCArchives ==
    {{Candidate(i, 1, f[i], i, s[i], i # bad) : i \in 1..4} :
        f \in [1..4 -> 1..3], s \in {<<1, 2, 2, 1>>, <<2, 1, 2, 2>>, <<1, 1, 1, 1>>}, bad \in {0, 2}}
    \union {{Candidate(1, 1, 1, 1, 5, TRUE), Candidate(2, w, f, k, s, TRUE)} :
               w \in 1..2, f \in 1..2, k \in 1..2, s \in {5, 6}}
MCLogs == UNION {[1..n -> {[horizon |-> h, overlap |-> v] : h \in {12, 32}, v \in {0, 12, 33}}] : n \in 1..4}
MCBeams ==
    UNION {[1..n -> [cell : 1..2, score : {0, 1, 4, 5, 6}]] : n \in 0..3}
    \union [1..4 -> [cell : 1..2, score : {0, 5}]]

(* A spell with a bullet on its way, one that meets the player as it ends, *)
(* and a scene that opens another spell and ends in the retry menu.        *)
Scene(spell, from, till, talk, hp, retry, fatal) ==
    [spell |-> spell, from |-> from, till |-> till, talk |-> talk, hp |-> hp, retry |-> retry, fatal |-> fatal]
MCScenes ==
    { Scene(7, 2, 4, 9, 9, 0, {<<3, 0>>}), Scene(7, 1, 3, 1, 2, 0, {<<3, 1>>, <<2, 2>>}),
      Scene(8, 2, 3, 1, 3, 4, {}) }
Asked(spell, limit, prefix, shoot, identity) ==
    [spell |-> spell, limit |-> limit, prefix |-> prefix, shoot |-> shoot, identity |-> identity,
     replay |-> FALSE, resume |-> FALSE, unused |-> FALSE, tape |-> NoTape]
MCFirstOptions ==
    {Asked(s, l, p, "default", TRUE) : s \in {-1, 7}, l \in {3, 4}, p \in {0, 2}}
    \union {Asked(-1, 4, 0, "no", TRUE), Asked(7, 4, 0, "yes", TRUE), Asked(7, 4, 5, "no", TRUE),
            Asked(7, 0, 0, "no", TRUE), Asked(7, 4, 0, "no", FALSE)}
Again(l, p) == Asked(-1, l, p, "default", TRUE)
MCTapeOptions ==
    {[Again(l, p) EXCEPT !.replay = TRUE, !.unused = u] : l \in {3, 5}, p \in {0, 2}, u \in BOOLEAN}
    \union {[Again(l, p) EXCEPT !.resume = TRUE] : l \in {3, 5}, p \in {0, 2}}
    \union {[Again(3, 0) EXCEPT !.replay = TRUE, !.resume = TRUE], [Again(3, 0) EXCEPT !.unused = TRUE]}
MCProbes == {[frame |-> f, through |-> t] : f \in {0, 1, 2}, t \in {0, 1, 3}}

NoHeadless ==
    part # "headless" /\ HeadlessInit /\ scene = Scene(7, 2, 4, 9, 9, 0, {<<3, 0>>})

Init ==
    /\ part \in {"suite", "repair", "plan", "selection", "headless"}
    /\ (part = "headless" /\ HeadlessInit) \/ NoHeadless
    /\ SuiteInit /\ RepairInit /\ SelectionInit
    /\ PlanInit /\ (part = "plan" \/ world = CHOOSE w \in Worlds : TRUE)

Next ==
    \/ part = "suite" /\ SuiteNext /\ UNCHANGED <<repairVars, planVars, selectionVars, headlessVars, part>>
    \/ part = "repair" /\ RepairNext /\ UNCHANGED <<suiteVars, planVars, selectionVars, headlessVars, part>>
    \/ part = "plan" /\ PlanNext /\ UNCHANGED <<suiteVars, repairVars, selectionVars, headlessVars, part>>
    \/ part = "selection" /\ SelectionNext /\ UNCHANGED <<suiteVars, repairVars, planVars, headlessVars, part>>
    \/ part = "headless" /\ HeadlessNext /\ UNCHANGED <<suiteVars, repairVars, planVars, selectionVars, part>>

vars == <<suiteVars, repairVars, planVars, selectionVars, headlessVars, part>>
OfSuite(A) == part = "suite" /\ A /\ UNCHANGED <<repairVars, planVars, selectionVars, headlessVars, part>>

(* The suite goes on polling, a killed process dies, time passes. *)
Fairness ==
    /\ WF_vars(OfSuite(SuiteStep))
    /\ \A i \in 1..2 : WF_vars(OfSuite(i \in Fixture /\ Die(i))) /\ WF_vars(OfSuite(i \in Fixture /\ Expire(i)))

Spec == Init /\ [][Next]_vars /\ Fairness
====
