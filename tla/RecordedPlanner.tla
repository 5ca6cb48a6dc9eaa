---- MODULE RecordedPlanner ----
(* RecordedPlanner::solve (shadow_recorded.cpp): a forked branch plays a    *)
(* nominal input sequence and records the danger of every update on a tape; *)
(* a search over the tapes so far proposes other sequences; each is played  *)
(* by another branch, and the one that lasts longest is the nominal of the  *)
(* next round.  What is dangerous may depend on where the player was, so a  *)
(* tape is only true of the inputs it was recorded under.  Everything runs  *)
(* against one deadline.  The search and the field are those of             *)
(* PolicySearch; scores are distances to the goal.                          *)
EXTENDS PolicySearch, SequencesExt

CONSTANTS
    Recording,   \* updates recorded and proposed
    Verified,    \* updates a proposal must survive
    Refinements, \* rounds, one tape each
    Goals,       \* the cells the searches of a round are drawn to
    Worlds,      \* [danger, aimed, ends, talk]: see Deadly, Played
    Requests,    \* [x, latched, lead, nominal]
    Solves       \* bounds the calls

ASSUME RecordedPlannerAssumption ==
    /\ Recording \in Nat /\ Verified \in 2 .. Recording /\ Refinements \in Nat \ {0} /\ Solves \in Nat
    /\ Goals \in Seq(Cells) /\ Goals # << >>
    /\ \A r \in Requests :
          /\ r.x \in Cells /\ r.latched \in Inputs /\ r.nominal \in Seq(Inputs) /\ r.lead \in Seq(Inputs)
          /\ Len(r.nominal) = Recording /\ Len(r.lead) \in 1 .. Verified - 1 /\ SubSeq(r.nominal, 1, Len(r.lead)) = r.lead

VARIABLES
    ask,     \* the request and its world
    solves,
    solving, \* step of the caller
    expired, \* the deadline has passed
    round, goal,
    nominal, best, longest,
    tapes,   \* tape k: [frames, danger, status]
    slots,   \* the tapes of completed forecasts
    branch,  \* the branch that records: [alive, exit, attempts, completed, status]
    paths,   \* proposals to verify: [inputs, depth], the depth the search reached
    checks,  \* what was verified: [inputs, completed, status]
    chosen,  \* the certified one, if any
    faulty,
    work,    \* [attempts, completed, charged]
    stepped  \* updates forecasting branches really began

recordVars == <<ask, solves, solving, expired, round, goal, nominal, best, longest, tapes, slots, branch, paths, checks,
                chosen, faulty, work, stepped>>

Nobody == [alive |-> FALSE, exit |-> "none", attempts |-> 0, completed |-> 0, status |-> "running"]
NoTape == [frames |-> 0, danger |-> << >>, status |-> "running"]
NoWork == [attempts |-> 0, completed |-> 0, charged |-> 0]
NoCheck == [round |-> 0, inputs |-> << >>, completed |-> 0, status |-> "none"]

(* The native game.  While it is in a dialogue the inputs after the lead   *)
(* are not those asked for: the direction of the input before is kept.     *)
Played(inputs, lead) ==
    LET at[i \in 0 .. Len(inputs)] ==
            IF i = 0 THEN ask.latched ELSE IF i > lead /\ i \in ask.world.talk THEN at[i - 1] ELSE inputs[i]
    IN  [i \in DOMAIN inputs |-> at[i]]

(* Deadly cells of update k: a curtain, and a shot aimed at where the      *)
(* player was before.                                                      *)
Deadly(at, k) == ask.world.danger[k] \union (IF ask.world.aimed /\ k > 2 THEN {at[k - 2]} ELSE {})
Trace(inputs) == Positions(ask.x, ask.latched, Played(inputs, Len(ask.lead)), Len(inputs))
DiesAt(at, k) == at[k] \in Deadly(at, k)
Ends(k) == ask.world.ends = k

(* How playing n inputs ends, if nothing goes wrong with the branch.       *)
Outcome(inputs, n) ==
    LET at == Trace(SubSeq(inputs, 1, n))
        stops == {k \in 1 .. n : DiesAt(at, k) \/ Ends(k)}
        k == IF stops = {} THEN n ELSE Min(stops)
    IN  [round |-> round, inputs |-> SubSeq(inputs, 1, n), completed |-> k,
         status |-> IF DiesAt(at, k) THEN "death" ELSE IF Ends(k) THEN "terminal" ELSE "horizon"]

Certifies(check) == check.status \in {"horizon", "terminal"}
----
Remaining == ~expired
Going == Remaining /\ chosen = NoCheck /\ ~faulty

(* solve: the planner is used again and again; its tapes keep what was     *)
(* recorded before.                                                        *)
Ask ==
    /\ solving \in {"idle", "done"} /\ solves < Solves
    /\ solves' = solves + 1
    /\ \E r \in Requests, w \in Worlds :
          /\ ask' = [world |-> w, x |-> r.x, latched |-> r.latched, lead |-> r.lead]
          /\ nominal' = r.nominal
    /\ solving' = "round" /\ expired' = FALSE /\ round' = 0 /\ goal' = 1
    /\ best' = << >> /\ longest' = 0 /\ slots' = {} /\ branch' = Nobody
    /\ paths' = << >> /\ checks' = << >> /\ chosen' = NoCheck /\ faulty' = FALSE
    /\ work' = NoWork /\ stepped' = 0
    /\ UNCHANGED tapes

Expire ==
    /\ solving # "idle" /\ ~expired /\ expired' = TRUE
    /\ UNCHANGED <<ask, solves, solving, round, goal, nominal, best, longest, tapes, slots, branch, paths, checks, chosen, faulty,
                   work, stepped>>

(* forecast: the tape is emptied and the branch is forked.                 *)
Forecast ==
    /\ solving = "round" /\ round < Refinements /\ Going
    /\ tapes' = [tapes EXCEPT ![round + 1].frames = 0, ![round + 1].status = "running"]
    /\ branch' = [Nobody EXCEPT !.alive = TRUE]
    /\ solving' = "wait"
    /\ UNCHANGED <<ask, solves, expired, round, goal, nominal, best, longest, slots, paths, checks, chosen, faulty, work, stepped>>

Answer ==
    /\ solving = "round" /\ ~(round < Refinements /\ Going)
    /\ solving' = "done"
    /\ UNCHANGED <<ask, solves, expired, round, goal, nominal, best, longest, tapes, slots, branch, paths, checks, chosen, faulty,
                   work, stepped>>

BranchOnly == UNCHANGED <<ask, solves, solving, expired, round, goal, nominal, best, longest, slots, paths, checks, chosen, faulty, work>>

Attempt ==
    /\ branch.alive /\ branch.attempts = branch.completed /\ branch.status = "running"
    /\ branch' = [branch EXCEPT !.attempts = @ + 1]
    /\ stepped' = stepped + 1
    /\ UNCHANGED tapes /\ BranchOnly

(* world.step and record_frame.                                            *)
Record ==
    /\ branch.alive /\ branch.attempts = branch.completed + 1
    /\ LET k == branch.attempts
           at == Trace(nominal)
           status == IF DiesAt(at, k) THEN "death" ELSE IF Ends(k) THEN "terminal"
                     ELSE IF k = Recording THEN "horizon" ELSE "running"
       IN  /\ branch' = [branch EXCEPT !.completed = k, !.status = status]
           /\ tapes' = [tapes EXCEPT ![round + 1] =
                          [frames |-> k, danger |-> SubSeq(@.danger, 1, k - 1) \o << Deadly(at, k) >>
                                                      \o SubSeq(@.danger, k + 1, Len(@.danger)),
                           status |-> status]]
    /\ UNCHANGED stepped /\ BranchOnly

(* The step throws, or more is recorded than a frame of the tape holds.    *)
BranchFails ==
    /\ branch.alive /\ branch.attempts = branch.completed + 1
    /\ \/ /\ branch' = [branch EXCEPT !.alive = FALSE, !.exit = "nonzero"]
          /\ tapes' = [tapes EXCEPT ![round + 1].status = "step_error"]
       \/ /\ branch' = [branch EXCEPT !.alive = FALSE, !.exit = "nonzero", !.completed = @ + 1]
          /\ tapes' = [tapes EXCEPT ![round + 1].status = "capacity"]
    /\ UNCHANGED stepped /\ BranchOnly

BranchExits ==
    /\ branch.alive /\ branch.status # "running"
    /\ branch' = [branch EXCEPT !.alive = FALSE, !.exit = "zero"]
    /\ UNCHANGED <<tapes, stepped>> /\ BranchOnly

BranchDies ==
    /\ branch.alive
    /\ branch' = [branch EXCEPT !.alive = FALSE, !.exit = "signal"]
    /\ UNCHANGED <<tapes, stepped>> /\ BranchOnly

(* failed_rollout *)
Failed(tape) == ~(tape.status \in {"horizon", "terminal"} \/ (tape.status = "death" /\ tape.frames > 0))

(* A version that charges a branch it killed what the branch reported.     *)
ChargedAsReported(full) ==
    work' = [attempts |-> work.attempts + branch.attempts, completed |-> work.completed + branch.completed,
             charged |-> work.charged + branch.completed]
(* The counters of the branch are read after it is gone; a branch that was *)
(* killed is charged all it was asked for.                                 *)
Charge(full) ==
    work' = [attempts |-> work.attempts + branch.attempts, completed |-> work.completed + branch.completed,
             charged |-> work.charged + (IF full THEN Recording ELSE branch.attempts)]

(* The tape joins those searched; the search of the first goal is next.    *)
Forecasted ==
    /\ solving = "wait" /\ ~branch.alive
    /\ Charge(FALSE)
    /\ IF branch.exit # "zero" \/ Failed(tapes[round + 1])
       THEN faulty' = TRUE /\ solving' = "done" /\ UNCHANGED <<slots, goal, best, longest>>
       ELSE /\ slots' = slots \union {round + 1}
            /\ goal' = 1 /\ best' = nominal /\ longest' = 0
            /\ solving' = "goal" /\ UNCHANGED faulty
    /\ branch' = Nobody
    /\ UNCHANGED <<ask, solves, expired, round, nominal, tapes, paths, checks, chosen, stepped>>

(* The deadline is looked at after waitpid found the branch running; it    *)
(* may be over by the time it is killed.  Or waitpid fails.                *)
Abandoned ==
    /\ solving = "wait" /\ branch # Nobody
    /\ Charge(TRUE)
    /\ \/ expired /\ UNCHANGED faulty
       \/ ~branch.alive /\ faulty' = TRUE
    /\ branch' = Nobody
    /\ solving' = "done"
    /\ UNCHANGED <<ask, solves, expired, round, goal, nominal, best, longest, tapes, slots, paths, checks, chosen, stepped>>

----
(* What is known to be deadly in update j: what any of the tapes recorded, *)
(* as far as each of them goes.                                            *)
Recorded(j) == UNION {IF j <= tapes[s].frames THEN tapes[s].danger[j] ELSE {} : s \in slots}

PlainBeam == [headings |-> FALSE]

(* The lead, then the moves found, the last of them held.                  *)
Extended(moves) == [i \in 1 .. Recording |->
    IF i <= Len(ask.lead) THEN ask.lead[i] ELSE moves[Min({i, Len(moves)})]]

(* proposals: for the first goal one path to every region of the field     *)
(* reached, for the others only the best; none that ends with the lead.    *)
PathsOf(layers, deepest, count) ==
    IF deepest <= Len(ask.lead) + 1 THEN << >>
    ELSE [i \in 1 .. count |-> [inputs |-> Extended(PathTo(layers, deepest, i)), depth |-> deepest]]
EndingAt(layers, deepest) == PathsOf(layers, deepest, IF goal = 1 THEN Len(layers[deepest]) ELSE 1)
Ending(layers) == EndingAt(layers, Deepest(layers))
Sighted == Max({tapes[s].frames : s \in slots})
Proposals ==
    IF Move(ask.x, ask.latched) \in Recorded(1) THEN << >>
    ELSE Ending(Layers([j \in 1 .. Sighted |-> Recorded(j)], Sighted, ask.x, ask.latched, ask.lead, PlainBeam, Goals[goal], 2))

Propose ==
    /\ solving = "goal" /\ goal <= Len(Goals) /\ Going
    /\ paths' = Proposals
    /\ solving' = "check"
    /\ UNCHANGED <<ask, solves, expired, round, goal, nominal, best, longest, tapes, slots, branch, checks, chosen, faulty, work, stepped>>

(* The search looks at the deadline as well and may propose nothing.       *)
ProposeNothing ==
    /\ solving = "goal" /\ goal <= Len(Goals) /\ chosen = NoCheck /\ ~faulty /\ expired
    /\ paths' = << >>
    /\ solving' = "check"
    /\ UNCHANGED <<ask, solves, expired, round, goal, nominal, best, longest, tapes, slots, branch, checks, chosen, faulty, work, stepped>>

(* predict_recorded_tape: see NativeRollout.  A branch that is killed or   *)
(* fails may have come anywhere.                                           *)
Judged(path, check) ==
    /\ checks' = Append(checks, check)
    /\ best' = IF check.completed > longest THEN path ELSE best
    /\ longest' = Max({longest, check.completed})
    /\ chosen' = IF Certifies(check) THEN check ELSE chosen
    /\ faulty' = (faulty \/ check.status = "fault")
    /\ paths' = IF chosen' # NoCheck \/ faulty' THEN << >> ELSE Tail(paths)
    /\ UNCHANGED <<ask, solves, solving, expired, round, goal, nominal, tapes, slots, branch, work, stepped>>

Examine(path, truth) ==
    \/ Judged(path, truth)
    \/ \E status \in {"fault", "timeout"}, k \in {0, truth.completed} :
          Judged(path, [truth EXCEPT !.status = status, !.completed = k])
Check ==
    /\ solving = "check" /\ paths # << >> /\ Remaining
    /\ Examine(Head(paths).inputs, Outcome(Head(paths).inputs, Verified))

NextGoal ==
    /\ solving = "check" /\ (paths = << >> \/ expired)
    /\ goal' = goal + 1 /\ solving' = "goal" /\ paths' = << >>
    /\ UNCHANGED <<ask, solves, expired, round, nominal, best, longest, tapes, slots, branch, checks, chosen, faulty, work, stepped>>

NextRound ==
    /\ solving = "goal" /\ ~(goal <= Len(Goals) /\ Going)
    /\ nominal' = best /\ round' = round + 1 /\ solving' = "round"
    /\ UNCHANGED <<ask, solves, expired, goal, best, longest, tapes, slots, branch, paths, checks, chosen, faulty, work, stepped>>

RecordInit ==
    /\ ask = << >> /\ solves = 0 /\ solving = "idle" /\ expired = FALSE /\ round = 0 /\ goal = 1
    /\ nominal = << >> /\ best = << >> /\ longest = 0
    /\ tapes = [k \in 1 .. Refinements |-> NoTape] /\ slots = {} /\ branch = Nobody
    /\ paths = << >> /\ checks = << >> /\ chosen = NoCheck /\ faulty = FALSE
    /\ work = NoWork /\ stepped = 0

RecordNext ==
    \/ Ask \/ Expire \/ Forecast \/ Attempt \/ Record \/ BranchFails \/ BranchExits \/ BranchDies
    \/ Forecasted \/ Abandoned \/ Propose \/ ProposeNothing \/ Check \/ NextGoal \/ NextRound \/ Answer

----
(* What the planner returns and what it costs.  A proposal begins with the *)
(* lead and, input by input, walks free of everything any tape of this     *)
(* call recorded for as long as its search said, which is beyond the lead; *)
(* the next nominal is the path that lasted longest in its round; the      *)
(* first path that certifies is the one returned; and every update a       *)
(* branch began is charged once it is gone, also when it had to be killed. *)
Lasting(path) ==
    LET at == Positions(ask.x, ask.latched, path, Recording)
        depth == Max({tapes[s].frames : s \in slots})
        blocked == {k \in 1 .. depth : at[k] \in Recorded(k)}
    IN  IF blocked = {} THEN depth ELSE Min(blocked) - 1

ThisRound == {i \in DOMAIN checks : checks[i].round = round}
HonestRefinement ==
    /\ solving = "check" => \A i \in DOMAIN paths :
          /\ SubSeq(paths[i].inputs, 1, Len(ask.lead)) = ask.lead
          /\ Len(ask.lead) + 1 < paths[i].depth /\ paths[i].depth <= Lasting(paths[i].inputs)
    /\ solving \in {"done", "round", "goal", "check"} => stepped <= work.charged /\ work.completed <= stepped
    /\ solving \in {"goal", "check"} =>
          /\ \A i \in ThisRound : checks[i].completed <= longest
          /\ \/ longest = 0 /\ best = nominal
             \/ \E i \in ThisRound : checks[i].completed = longest /\ checks[i].inputs = SubSeq(best, 1, Verified)
    /\ chosen # NoCheck => chosen = Last(checks)
    /\ \A i \in DOMAIN checks : Certifies(checks[i]) => checks[i] = chosen
====
