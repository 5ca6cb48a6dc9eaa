---- MODULE MCOnline ----
(* The online policy on a field of four cells, the keys of its search, the *)
(* pacing of its fire, the planner that searches recorded dangers and the  *)
(* branches that ask a policy; part says which one a behaviour is about.   *)
EXTENDS OnlinePolicy, AttackPacing, RecordedPlanner, ProposalBranch

VARIABLE part

Opt(lag, warm, held, tail, beam, until) ==
    [lag |-> lag, check |-> 3, rescue |-> 3, rescueBeam |-> 1, beam |-> beam, tail |-> tail, warm |-> warm, held |-> held,
     headings |-> beam = 2, lazy |-> TRUE, until |-> until]
MCOptions ==
    {Opt(0, w, h, t, b, 4) : w \in BOOLEAN, h \in BOOLEAN, t \in {0, 1}, b \in {1, 2}}
    \union {Opt(l, FALSE, FALSE, 0, 1, 6) : l \in {1, 2}}
Wall(cells, from) == [j \in 1 .. Horizon + 1 |-> IF j >= from THEN cells ELSE {}]
MCForecasts == {Wall({}, 1), Wall({3}, 3), Wall({1, 2}, 4), Wall({2, 3, 4}, 4)}
MCPlaces == -1 .. 4
MCSigns == {{}, {"reduced"}, {"dense", "rich"}, {"dense", "rich", "extreme"}, {"extreme", "orb"}}
MCPacings == [timeout : BOOLEAN, charge : {TRUE}]
MCWorlds ==
    {[danger |-> << {}, {}, {2}, {1, 2}, {4} >>, aimed |-> TRUE, ends |-> 0, talk |-> {}],
     [danger |-> << {}, {3}, {2, 3}, {}, {1, 3} >>, aimed |-> FALSE, ends |-> 0, talk |-> {3}],
     [danger |-> << {}, {}, {1}, {4}, {2, 3, 4} >>, aimed |-> TRUE, ends |-> 4, talk |-> {}]}
MCRequests ==
    {[x |-> 3, latched |-> 0, lead |-> << 0 >>, nominal |-> << 0, 0, 0, 0, 0 >>],
     [x |-> 2, latched |-> -1, lead |-> << 1, 1 >>, nominal |-> << 1, 1, -1, 1, 0 >>]}
MCGoals == << 2, 4 >>

OneOf(set) == CHOOSE e \in set : TRUE

Init ==
    /\ part \in {"policy", "keys", "pacing", "recorded", "proposals", "continuation"}
    /\ PolicyInit /\ (part = "policy" \/ opt = OneOf(Options))
    /\ KeysInit
    /\ PacingInit /\ (part = "pacing" \/ pacing = OneOf(Pacings))
    /\ RecordInit /\ ProposeInit
    /\ GuideInit /\ (part = "continuation" \/ (advanceDialogue /\ ~talking))

Next ==
    \/ /\ part = "policy" /\ PolicyNext
       /\ UNCHANGED <<keyVars, pacingVars, recordVars, proposeVars, guideVars, part>>
    \/ /\ part = "keys" /\ KeysNext
       /\ UNCHANGED <<policyVars, pacingVars, recordVars, proposeVars, guideVars, part>>
    \/ /\ part = "pacing" /\ Observe
       /\ UNCHANGED <<policyVars, keyVars, recordVars, proposeVars, guideVars, part>>
    \/ /\ part = "recorded" /\ RecordNext
       /\ UNCHANGED <<policyVars, keyVars, pacingVars, proposeVars, guideVars, part>>
    \/ /\ part = "proposals" /\ ProposeNext
       /\ UNCHANGED <<policyVars, keyVars, pacingVars, recordVars, guideVars, part>>
    \/ /\ part = "continuation" /\ NextInput
       /\ UNCHANGED <<policyVars, keyVars, pacingVars, recordVars, proposeVars, part>>

Spec == Init /\ [][Next]_<<policyVars, keyVars, pacingVars, recordVars, proposeVars, guideVars, part>>
====
