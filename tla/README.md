# A specification of the TH08 solver

The repository drives a deterministic reconstruction of a bullet-hell game and
searches inputs that survive it. What is hard to test is not the geometry but
the machinery around it: a game that never stops for its planner, a planner
that is always late, words of shared memory between two processes, receipts
that decide whether an old prediction may still be used, searches that fork,
die and are resumed, reconstructions that stop in the middle of a frame, and
forecasts that must agree with the game they foresee. This directory models
that machinery in TLA+, checks it with TLC and proves part of it with TLAPS.

Paths below are those of the repository; `online_live.cpp` without a directory
is `src/online_live.cpp`.

## 1. The system

| part | state it keeps | operations | hard behaviour |
|---|---|---|---|
| **Live worker and executor** (`include/th08/online_live.hpp`, `src/online_live.cpp`, `tools/online_live.cpp`) | FIFO of observations, one-place mailbox, stop/failure flags, counters; the executor's clock, updates, epoch, outcome | `submit`, `take`, `stop` (twice), the worker's loop, the executor's 60 Hz loop | two threads; replies late, stale, overwritten; failure while the game completes; wakeups; join |
| **Command bridge** (`include/th08/shadow_bridge.hpp`) | 32-bit words of a mapped file: header, two slots | `publish`, `read`; `timely`, `compatible_lead`, `fallback` | two processes without a lock; torn copies; a writer killed in mid-publication |
| **Action buffer** (`include/th08/shadow_plan.hpp`) | frontier receipt, queue of predicted receipts | `confirm`, `replace`, `extend`; `eligible` of the nominal extension | a prediction applied many updates after it was made |
| **Retail owner** (`tools/wine-shadow/observer.cpp`) | last receipt, generation examined, active plan, journal | input hook, calculation hook, `finish` | never waits; rejects what is late or inconsistent; ends at any update |
| **Shadow controller** (`tools/shadow_online.cpp`) | native shadow, queue, last certificate, generation, last search | drain, gates, search, decide, publish, retained windows, stop | every word it loads and every search result is stale when used |
| **Native rollout** (`include/th08/shadow_rollout.hpp`, `src/shadow_rollout.cpp`) | a forked child with the whole world | `predict*`, `evaluate_tape` | timeouts, death and fault never certify a prefix |
| **Receipts** (`shadow_protocol.hpp`, `shadow_compare.hpp`, `shadow_start.hpp`) | packets of a fixed layout | `encode`, `decode`, `difference`, `advance_receipt` | epochs, numeric drift |
| **Follower process** (`src/shadow_process.cpp`, `tools/shadow_follow.cpp`) | the two worlds, packets in the sockets, deadlines, outcome | Advance / State / Stop / Failure | late answers, a child that fails, crashes or hangs, a killed owner |
| **Score refinement** (`src/score_refine.cpp`) | incumbent tape, trials | edit, evaluate, accept | a failed evaluation must leave the incumbent |
| **Proposals, recorded planner** (`src/shadow_proposal.cpp`, `src/shadow_recorded.cpp`) | shared memory of a branch; tapes of danger, nominal, checks | decide after a lead, continue by batches; record, search, verify, refine | proposals for a world that changed; a branch killed while it records |
| **Online policy** (`src/online.cpp`, `online_dedup.hpp`) | plan, tail, pending search, executor; layer keys; pacing | observe, search, fall back, adopt, rescue; hold or fire | a plan searched before the inputs it follows were overridden |
| **Native reactive policies** (`native_policy.hpp` and the `*_policy.hpp` beside it) | one decision | project, forecast, mask, rank, tree | a forecast that saves work and misses a hitbox |
| **Bullet slots, effect pool** (`bullet_slots.hpp`, `effect_pool.cpp`) | occupancy and cursor; staged slots | reserve / finish / release; spawn / advance | nested spawns, rollback at the last slot |
| **Practice entry** (`timeline.cpp`, `practice_entry.cpp`, `emitter.cpp`) | timeline, actors, scripts, RNG, pending effect | advance, acknowledge, begin, apply | a call stops wherever an input is missing and is made again |
| **Animation control** (`animation_control.cpp`, `animation.cpp`) | script, cursor, clocks, variables | advance, certify, count | a frame refused in its middle; forecasts of completion |
| **Bullets and lasers** (`transform_program.hpp`, `laser_motion.hpp`) | program, cursor, active records; phase and timers | install, step, cull; three phases | records that block, are disabled, end between two updates |
| **Scenarios** (`scenario.cpp`, `planner.hpp`) | world, RNG, plan, budget | step, forecast, plan, retry, replay | a retry that shares the budget of the search it repeats |
| **Offline planner** (`tools/plan.cpp`, `plan_beam.hpp`) | chain of forked checkpoints, shared table, tape | commit, checkpoint, backtrack, release, reap | slots and process ids used again, ancestors that are gone |
| **Repair, suite, native runs** (`headless_repair.cpp`, `replay_suite.cpp`, `headless.cpp`, `headless_probe.cpp`) | ledger, best run; jobs and report; tape, trace, digests | episode, resume; launch, collect, kill; play, record | kills, hangs, floods, files rebuilt half-way, tapes replayed under other options |
| **Phase archive** (`phase_archive.cpp`, `tools/phase_frontier.cpp`) | checkpoints | insert, dedupe, rotate | bounds, fairness of the rotation |
| Spell scenario, camera, learned values, reports, formats, vendored game | see `PROJECT.json` | | floating-point code or batch tools |

How they interact. In the *live* mode the executor owns the game and calls the
worker: observations go into the FIFO, the reply is fetched from the mailbox
when the tick comes, and a fallback input is used when there is none. In the
*shadow* mode the game is another process: the owner's hooks append a receipt
to the journal, post its sequence in the command file, and copy plans out of
the same file; the controller follows the journal, asks rollouts for
certificates, keeps in the action buffer what it believes the owner will
execute, and publishes through the bridge. Answers travel back as two words,
`Accepted` and `Rejected`. In the *follow* mode a second process plays the same
inputs, one request and one receipt at a time. *Offline*, the planner is a chain
of forked games, each blocked at its checkpoint until its child is stuck; repair
and suite run whole games in processes of their own and believe nothing but
their reports; all of them exchange tapes. The reactive and online policies
decide from what they see of a frame; the practice stage is where those frames
come from.

What makes each part correct:

* worker: each request and each reply is accounted for exactly once, a reply is
  executed only if it answers the present state, the policy sees every
  observation in order, a failure is never masked, nobody sleeps for ever, and
  the game never waits;
* bridge: the owner holds a whole plan or none, never an older one than before,
  and an announced plan arrives even if the planner dies;
* loop: no input is executed outside the future it was certified in; the
  controller's queue is what the owner will do; generations are not skipped;
  the journal is complete when the outcome is set, unless the owner failed on a
  row it wrote short; the controller ends;
* rollout: what certifies was played to its end and nothing failed on the way,
  interrupted work is charged in full, the call returns by its deadline, no
  branch outlives its owner;
* follower: the two worlds are at the same update whenever their receipts are
  compared, the exit code tells what really happened, and both processes end;
* score refinement: the tape left to play is always a complete flawless game,
  only its future is edited, and a failed trial changes nothing;
* policies: a decision is as good in the game as it is in the policy's eyes; a
  plan, a recording or a proposal is used only for the inputs and the update it
  was made for; held fire can be afforded;
* stage: a call that is refused leaves no trace, a call that is repeated does
  nothing twice, pools and counters tell one story, and what is foreseen of a
  bullet, a laser or an animation is what the game then does;
* offline tools: a tape is worth what its outcome says, every update made is
  paid for, a replay that passed was in time and its suite ends on the files it began
  with, a resumed search
  finds what the first one found, and selections are fair.

## 2. Modules

| module | models | kind |
|---|---|---|
| `PlanRegister` | what the bridge promises: one register, newest plan, whole copies | abstract specification |
| `CommandBridge` | `publish` and `read`, one step per load or store of a word | detailed specification, implements `PlanRegister` |
| `PlanProofs` | the bridge, the online policy and the recorded planner, for every size, world and request | proofs |
| `LiveWorker` | worker thread, executor, stop and destructor, a clock | specification |
| `LiveWorkerProofs` | inductive invariant of the two threads | proofs |
| `ShadowLoop` | owner and controller around an atomic bridge | composition |
| `ShadowLoopProofs` | the certificate of an adopted course, the queue, the journal | proofs |
| `NativeRollout` | one call of `predict_owned`: the forked branch, the arena, the deadline | specification |
| `ScoreRefine` | `refine_score_tape`: trials, adoption and play of a tape | specification |
| `ScoreRefineProofs` | inductive invariant of the refinement, for every game | proofs |
| `Follower` | owner and follower process over a socket pair | specification |
| `FollowerProofs` | inductive invariants of the two processes, and of the practice entry | proofs |
| `CircularPool` | what a circular pool of slots promises | abstract definitions |
| `BulletSlots`, `EffectPool` | the two pools, held to `CircularPool` | specifications |
| `PracticeEntry` | timeline, scripts, spawn pool and the entry that drives them | composition |
| `AnimationControl` | the animation interpreter beside its two forecasts | specification |
| `BulletProgram` | a bullet and its transform program | specification |
| `BulletProjection` | what three planners expect of that bullet | composition |
| `LaserMotion` | a laser in the game and in two forecasts | specification |
| `HazardChoice` | one decision of the reactive policies | specification |
| `StageProofs` | the two pools, the animation, the reference planner and the scenario runs, for every size, text and question | proofs |
| `ReplaySuite`, `Repair`, `PlanSearch`, `HeadlessRun` | the offline tools | specifications |
| `CampaignProofs` | the suite, the repair, the planner's checkpoints, the native runs and the selections | proofs |
| `Selection` | frontier, beam and onset: three pure selections beside what is fair | functions |
| `BeamPlan` | the reference planner | functions |
| `Scenario` | synthetic worlds, forecast, run, retry and replay | specification |
| `PolicySearch` | the online search | functions |
| `OnlinePolicy` | observations, decisions, fallbacks, the delayed executor, the keys of a search layer | composition |
| `AttackPacing` | when to hold fire | specification |
| `RecordedPlanner`, `ProposalBranch` | the planner over recorded tapes; policies asked inside branches | specifications |
| `OnlineProofs` | inductive invariants of the rollout's call and branch, of the branches that ask a policy, of the pacing of fire, of a laser beside its forecasts, and of a reactive decision | proofs |
| `MC*` | constants and bounds for TLC | |

### CommandBridge
`mark[s]` is the first word of a slot, `body[s]` the words after it, `published`
the header word. The writer's position `wpos` is the store it makes next; the
reader's `rpc`/`rpos` the load it makes next, `rbuf` is the local `Plan p`, and
`held` is `out`. `BeginPublish` is the check at lines 73-74, `MarkSlot`,
`StoreWord`, `SealSlot` and `Announce` the stores 76-84; `LoadPublished` …
`RecheckPublished` the loads 89-112, every early return being `GiveUp`. A word's
content is abstracted to the generation that stored it (the count keeps its
value, because the reader loops on it): any two plans then differ in every word
and every mixture is visible. Input values and the final `valid(p)` are
therefore not modelled: a plan that was valid when published is valid when
copied whole, which is what `NoTornPlan` says. `sent` is a history variable.

### LiveWorker
One step per critical section of the mutex, and per piece of code between two
of them. `Fetch`, `Begin`, `Finish` and `Fail` are `Impl::run`; `SubmitThen`,
`Take` and `Stop` … `Drain` are the members of `Worker`; `Setup` … `Verdict`
and `Destroy` are `run` of the executor in program order. The clock is a number;
deadlines and overruns are computed as in the code (`tick_offset`,
`deadline_overrun`, `usable`). `session.step` may throw, may lead to a rejected
state, may change the epoch, may complete the game. The reply's action, the
observations and the reports are not modelled. `submitted` stands both for
`next_update` and `stats.submitted`, which one critical section increments
together; `used` is a counter the code does not keep, of the replies executed.

### ShadowLoop
The bridge is one register here, which is what `CommandBridge` implements. The
game is deterministic, so two receipts are equal exactly when the same inputs
led to them: `rows`, the inputs executed, is the whole journal, and a
certificate is an origin and the inputs it was computed with. `Owner` is the
input hook (`SampleInput`) and the calculation hook (`Calculate`, `Post`,
`EndOrGoOn`) in their order; `Controller` is one step per load of a shared word
and per piece of work between two of them, in the order of
`tools/shadow_online.cpp` lines 764-849. `Search` may return any certificate its
prefix rules allow or none, and any number of owner steps happen before
`CatchUp` drains again. `queue` is the `ActionBuffer`; its frontier is
`drained`. A fault or a mismatch of the shadow is possible at every receipt.
Left out: the epoch (a function of the inputs executed), the alternation of the
bomb-free fire bit in `fallback` (a function of the sequence), the recorded
planner, the order in which heuristics are tried, replay observation. A receipt's row
may be written short (`torn` is the part of it left in the journal) and a callback may
fail before it writes (codes 22 to 24 of `observer.cpp`, `Fail`); failures before the
loop begins, while files are mapped and hooks installed, are left out.

### NativeRollout
One call, from its arguments to its result, with the forked branch as a second
process. `branch` is the branch's next step, `arena` the shared memory, with one
action per store, so that a kill or a crash leaves every partial content
possible. `world` is drawn once: the branch plays a deterministic future, whose
death, lost capture, goal and throwing update are given by their moments. The
owner's `Wait`, `CheckClock` and `Kill` are one turn of the loop at lines
213-228 and the kill after it; `late` is the clock passing the deadline.
`OwnerDies` is a kill of the owner, which takes a branch with it once `prctl` has
succeeded; `CheckParent` is the `getppid` comparison that closes the gap before.
`Refuse` stands for every exception before the fork, whatever the arguments.
Left out: contents of the receipts, time and guidance counters, scratch files.

### ScoreRefine
The game is a constant: `Event`, `Score`, `Route` and `Phase` are functions of the
inputs played, so the session is the sequence `executed`. The oracle is
`evaluate_tape`, whose answer is the end of the game under the candidate
(`End`, `Certifies`, `Evaluation`), or a timeout or fault, after which nothing is
adopted, or an exception. `LoopHead`, `NoMoreEdits`, `Unchanged`, `Try`, `Play` and
`Verify` are the function in its order. Statistics and the recorded trials are
left out, except their number.

### Follower
One packet at a time crosses the socket in pieces (`PutPiece`, `TakePiece`), each
transfer has a deadline, and `TransferFails` is every way it may end badly.
`FollowerBoot` … `FollowerExits` are the child's `follow` and the handler around it,
`OwnerReads` … `OwnerJoins` the tool's `run` and the destructors that follow it:
`OwnerSends`/`OwnerReceives` are one update's request and receipt, `OwnerSteps` the
owner's own update, `OwnerCompares` the comparison of the two receipts,
`OwnerTerminates` the SIGTERM of the destructor. `played` counts the updates of
both worlds; `world` is drawn once and says at which update the stage changes, the
player dies, the goal is reached and the follower's world begins to differ. A child
may throw, crash or hang at any step; the owner may be killed at any step. The
owner's own engine step is assumed to return.

### The practice stage
`CircularPool` says in two lines what a circular pool is: the free slot nearest to
the cursor. `BulletSlots` finds it in words of bits (`Next1`), with spawns nested in
the initialisation of others (`Reserve`, `FinishSpawn`, `Release`); `EffectPool`
finds it slot by slot (`SkipOccupied`, `ClaimSlot`), in a draft that `CommitSpawn`
or `CommitUpdate` adopts and `SpawnBlocked` or `UpdateBlocked` drops.

`PracticeEntry` is `Entry::advance` with the three things it drives. `TimelineNext`
is one instruction of `timeline::advance` on a draft, `ScriptNext` one instruction of
`emitter::advance` or the end of a spawn, `Begin` and `Acknowledged` the two ends of
an order. `Advance(given, observed, limit)` is the caller's choice of what it
supplies; whatever it lacks ends the call, and the next call goes on from the state
the last one left. `log` is the history: every instruction committed, the draws and
births it was entitled to. Opcodes are grouped by what they wait for or hand out.
`MaxCalls` is the depth of calls the emitter allows. Only the spawns the entry makes
are made; there is one shared value and one context value. What is said of the order of
the log and of context values is said of scripts whose jumps lead forward
(`Loopless`): in a loop a place is reached more than once.

`AnimationControl` is `animation::control::advance`, one instruction per step on a
draft (`call.next`), `Answered` and `Refused` being its two ends. `Refusal` gives the
first requirement an instruction misses, in the code's order. `Timing` is
`certify_timing`, `RemainingCalls` is `remaining_terminal_calls`; `promised` carries
its last answer. A clock counts half frames, so that a rate of one half has a
fraction. Visual writes are projected out, as the header says they are.

`BulletProgram` installs and steps the records of a transform program, moves the
bullet and culls it; `BulletProjection` states what the native session certifies, the
reactive policy projects and the online policy recurs for the same bullet, and
`LaterBullet` is what becomes of it. Directions are quarter turns, the grid is small,
`Keep` stands for a value "of the flight". Records that make children are left out.
`LaserMotion` runs one laser three times, as the game, the reactive policy and the
online policy do; `hit` is what the update just made checks in each.
The online copy (`online.cpp` line 967 says it mirrors the manager's update) has no
fall-through when an active phase of no updates ends, and takes another size on the
change from active to fading when the laser is shorter than half its width;
`CoveredLaser` claims the mirror outside these two cases only.

`HazardChoice` computes one decision: `EvaluatePath` and `Reactive` rank nine
directions twice, the masks of the three adapters and the bounded `Tree` come
before it, `Pruned`, `ForecastTable` and `Keeps` are what is left out to save work.
`TrueChoice`, `LaserMeets` and `RealFirst` say the same without saving any.

### Offline tools
`ReplaySuite`: `Launch`, `Drain`, `Collect`, `EndOfPass`, `Recheck` and `Conclude` are
the loop of `run_suite` and what follows it; `Unwind` is its handler; `Die`, `Expire`,
`Rebuild`, `Interrupt` and `Crash` are done to it. `Rebuild` changes a file under test or
puts it back, and `taint` says that what was changed before the last replay ended still is: the
suite compares hashes at its start and at its end only (lines 641-646), so a change undone
in between is beyond what it can tell. `overdue` are the replays a poll found past their
deadline, `kin` says that a process of a group is left.

`Repair`: `Round`, `Begin`, `CandidateDone`, `Verify`, `ReplayDone` and `Summarise` are
the search; a child's `Update`, `Exit`, and `KillChild`, `Terminate`, `Deadline` are its
execution; `Resume` reads the artifacts of an earlier search and recomputes its best
run from the ledger (`LedgerBest`), which is refused unless it agrees with the summary.

`PlanSearch`: the processes are a chain, each blocked on its child; `Accept` commits a
window that survived, `Checkpoint` forks, `Register` enters the fork in the shared
table and tells an old checkpoint to leave, `Retry`, `PassUp` and `Verdict` bring an exit
code up through ancestors some of which are gone. Pids may be used again. Which of
the surviving windows is chosen (beam heuristics, learned future, quiet windows) is
nondeterministic. Left out: stage handoffs, and the check that a rollout repeated
gives the same result.

`Selection` computes `frontier`, `retain_spatial_beam` and `terminal_unsafe_onset` in
one step beside `FairFrontier`, `FairBeam` and `Turning`. A sort is `Ranked`: each
member of a finite set in the place its rank gives it, which is what `std::sort` and
`nth_element` compute from a linear order. A score is a float of three bits.

`HeadlessRun`: a run is `Fresh`, `Frame` by `Frame`, `ConcludeRun`; the decision after
every update (`Decided`) is in the order of `headless.cpp` lines 425-656. `past` holds
the runs made, so that a later one may replay or resume the tape of an earlier one,
whole, cut, extended or unreadable. A digest is the sequence it hashes. What a policy
presses, or that it refuses, is free; a run may be killed. A rerun of the probe that
is refused for its arguments leaves the summary of an earlier one.

### Scenarios and the reference planner
`BeamPlan` is `solver::plan` as functions: `Layers`, deduplication by
position, the beam, the budget, the replay of the result. `Scenario` is the world it
is used in: `Step` (emit, move, cull), `Forecast` (a copy stepped ahead), `Roll` (one
decision with its retry towards a refuge), `Execute`, `Verify` (the final replay). A
draw is a function of the seed and of how many were made before.

### Online policy
`PolicySearch` is the beam search and its continuations on a row of cells, the
forecast being the deadly cells of each coming update. `OnlinePolicy` is one update
per turn: `NowDecide` is a decision without lag, `LagDecide` checks, adopts, rescues
and plans as the delayed executor does; between two turns the input may be
overridden, the player displaced, the stage changed, an observation made without a
decision. `Prepared` are the frames indexed before the executor runs, fewer while a plan is
pending; a plan dropped in the same update lets a full search start, before which
the rest is indexed (`Indexed`). The `keys` are the bitmap that recognises proposals met before.
`AttackPacing` is `update_attack_pacing` and `update_flow_goal`, without
`preparing_collection` (line 342), which holds fire only where there is no boss.

`RecordedPlanner` is `solve`: `Ask`, the branch (`Attempt`, `Record`, `BranchExits`,
`BranchDies`), `Forecasted`, `Propose`, `Check`, `NextGoal`, `NextRound`, all before one
deadline (`Expire`). What is deadly may depend on where the player was (an aimed
shot), so a tape is only true of its inputs. `ProposalBranch` is
`propose_after_lead` and the continuation of `predict_with_policy`, whose batches a
dialogue ends (`Speak`) when `advance_dialogue` is set. It is off by default; a batch then
goes on through a dialogue, and `TimelyProposals` claims nothing of dialogues.

## 3. Runs

| run | module / cfg | bounds | shows |
|---|---|---|---|
| `bridge` | `MCCommandBridge` | 4 generations, plans of 1-2 inputs, strides 2 and 4 | `NoTornPlan`, `AtomicRegister`, `AnnouncedPlanArrives` |
| `live_worker` | `MCLiveWorker` | FIFO of 1, 3 updates, tick of 2 units, tolerance 1 | `NothingUnaccounted`, `UsedReplyIsCaughtUp`, `NoLostWakeup`, `FailureNeverMasked`, `ConsecutiveHistory`, `Terminates` |
| `live_worker_unattended` | same module, no fairness for the worker | same | `NeverWaits` |
| `shadow_loop` | `MCShadowLoop` | 2 inputs, lead 2, window 4, horizon 5, 6 updates | `CertifiedUntilRejection`, `QueueIsKnown`, `JournalComplete`, `ControllerEnds` |
| `shadow_loop_lead` | `MCShadowLoop` | window 5, 7 updates | violation, see section 6 |
| `native_rollout` | `MCNativeRollout` | all calls of up to 3 inputs, valid or not; arena of 2 records; events after 0, 1, 2 updates or never | `HonestResult`, `BranchesEnd` |
| `score_refine` | `MCScoreRefine` | all tapes of up to 7 inputs, 3 trials, window 2 | `IncumbentCertified`, `PlaysItsTape`, `NeverWorse` |
| `follower` | `MCFollower` | tape of 3, 2 updates allowed, 2 pieces a packet, 3 in the socket, events after 0-3 updates | `LockStep`, `HonestReport`, `Terminates` |
| `stage` | `MCStage` | see below | `SlotsConsistent`, `WholeCallOrNothing`, `WorldIsItsLog`, `HonestProjection`, `CoveredLaser`, `SoundChoice` |
| `campaign` | `MCCampaign` | see below | `HonestSuite`, `HonestRepair`, `HonestPlan`, `FairSelection`, `HonestTape`, `SuiteEnds` |
| `scenario` | `MCScenario` | 3 scenarios of 9 frames on 4 x 2 cells, 3 seeds, 2 ages; 74 ways to run; 21 animation scripts, see below | `HonestRun`, `HonestAnimation` |
| `online` | `MCOnline` | 4 cells, horizon 4, lag 0 to 2, 4 forecasts; see below | `HonestDecision`, `PacedFire`, `HonestRefinement`, `TimelyProposals` |

Why the bounds are enough. *Bridge:* each slot is written up to twice, so a copy
can be overtaken within its own slot, by one and by two publications; a shorter
plan leaves a stale word of a longer one behind it. The proofs remove the bound.
*Worker:* with a queue of one and three updates the worker can be early, late by
one tick or several; the FIFO can be full when the executor submits; a reply can
be overwritten, be stale by update, by epoch and by time; both overrun checks can
fire, and a failure can meet every step of the executor. *Loop:* a lead of two
lets a plan be examined in time, late by one and late by its whole lead; a
certificate longer than the window can be retained; the game ends within a
horizon. *Rollout:* two updates
let every pair of events meet on one update or on consecutive ones, and a guided
call outlive its fixed inputs; an arena of two is shorter than a valid tape and
than a refused horizon. *Refinement:* the small game has deaths, lost captures,
missed gates and two routes, edits change its length, and two trials can be
accepted one after the other in one game; the proofs remove the bounds.
*Follower:* a packet of two pieces in a socket of three can be late, cut or behind
another; three inputs and two updates let the frame limit, a death, the goal, a
stage change and a divergence fall on one update or on different ones.

*Stage:* three words of two bits, nested two deep, so that a search begins in the
middle of a word and wraps to it; an effect pool of three, draws up to six, scripts
ending at time two; eight timelines over eight scripts, calls one deep, with two actors, two events
and room for two effects, budgets of three and nine instructions, so that every
order can be met by a full pool, a missing input and an exhausted budget; programs
of up to three records out of sixteen, one of them disabled or none, on a field of
4 x 4 (half size 1, boost 2 updates, 3 updates outside before culling), looked at 7
updates ahead at every age to 7; lasers of every order of their phases, with start,
active and fading times of 0 to 3; and about 2,600 situations for one decision on a
field of 8 x 8 with horizons of four updates, at most one adapter in each, as a
spell has. Each part is explored alone: they share no state in the code.

*Animation* (explored in the `scenario` run, apart from its other two parts): 21
scripts of up to 8 instructions that have a certificate or just miss one, loop, wait,
stop, are interrupted with and without a handler, draw before they are refused, and
run without end, beside two texts that do not load; three interrupts, rates of one and
a half, budgets of 0, 1 and 6 instructions, 4 calls, as many as the longest certified
script needs.

*Campaign:* two fixtures with two jobs meet in every order of hang, flood, leftover
descendants, rebuild, restoration and interrupt; a repair search of at most four updates a run,
two rounds, two rollbacks and a budget of eight, then resumed; two games for the
planner (a goal beyond the frame limit with an early trap, and a nearer one with a
trap behind two good moves), five given prefixes, a horizon of two, a commit and a
checkpoint on every update, two checkpoints kept in a table of four slots, so that
slots wrap and pids return; archives of four, beams of four nodes with three-bit
floats, logs of four updates; three scenes for native runs (a spell, a stage, a
retry menu), limits of three to five updates, a trace of two rows, two runs or a
probe. *Scenario:* curtains, rings, lanes and closing gates meet at phase changes;
the limits are below, at and above what one search and its retry cost. *Online:*
lag up to two makes a plan arrive after it was started behind one or two inputs;
six updates let two plans follow each other; the keys cover a rectangle that grows
to the whole cycle; pacing sees six observations and two spells; two refinements
of recordings of five updates with checks of four; a lead of two, proposals of two,
batches of three through seven updates.

`GameEnd`, `MaxGeneration`, `EndOfTime`, `MaxTime`, `MaxAge`, `EndTime`, `MaxDraws`,
`MaxCalls`, `MaxObserved`, `MaxRuns`, `MaxEpisodes`, `Solves`, `Continued`, `until` and the
sets of inputs are the artificial bounds, named where they occur. Deadlock is
checked in `follower` only, where the end is a step of its own; elsewhere games,
runs and searches end, or a bound stops them.

Fairness. The owner's hook runs on every frame and the controller polls, so both
are weakly fair; the reader of the bridge is weakly fair for the same reason.
Nothing is assumed of the bridge's writer: it may be killed at any store. The
executor's thread and the clock are weakly fair; the worker is fair only in the
run that needs it (`Terminates`: stop joins the thread, and the search of one
decision is bounded, `online_live.hpp` lines 53-55). The owner of a rollout and
the clock are weakly fair; of the branch only the two system calls after its fork
are, because a native step or a guidance may hang. The refinement is sequential
and weakly fair. In `follower` both processes' own steps are weakly fair, a
transfer ending by its next piece or by its deadline; a child that hangs takes no
step, and only SIGTERM ends it, so that one whose owner was killed may remain. In
`campaign` the suite is weakly fair, a killed process dies and time passes; the
fixtures are not fair. The other specifications state safety only and need none.

Each property has a mutant, a plausible bug in the mapped code (a dropped check,
a swapped order, a missing notification), beside the definition it replaces.


## 4. Proofs

`PlanProofs` follows a plan from its search to the copy its owner executes. Of the
bridge it proves, for every capacity, every number of generations and every set of
even strides:

* `TypeCorrect` : `Spec => []TypeOK`
* `NoTorn` : `Spec => []NoTornPlan`
* `ImplementsRegister` : `Spec => AtomicRegister`

The argument. `NoTornPlan` is not inductive: it says nothing about a copy under
way. The inductive invariant adds what the slots hold (a slot sealed with `g`
holds exactly the words of `g`; a slot being written holds a prefix of them),
and what the reader knows at each of its steps: *if* the slot's mark is still
its generation, the words copied so far are those of that generation, because
marks only grow. The second look at the mark turns this conditional into a fact,
the second look at `published` makes the copy the newest one, which is the
refinement. One lemma per action; the assumptions are those declared in
`CommandBridge`. Replacing `RecheckMark` by its mutant makes the proof fail.

Of the online policy it proves `DecisionHonest` (`HonestDecision`), for every width of
the field, horizon, set of options and sequence of forecasts. Three layers of lemmas carry it.
The search: a layer's nodes are children of nodes of the layer before and none stands on a
deadly cell (`Grows`, `Layered`), so that the path read backwards from any node of the
deepest layer (`PathPlaced`) is survived as long as that layer is deep (`PathSafe`) and
begins with the inputs forced. The fallbacks: `Held`, `Warmed`, the rescue and the check
replace what they are given only by what survives at least as long (`Sound`). The
executor: its plan is one the forecasts it was made from let survive, and a pending
one remembers the inputs it was searched behind (`ExecutorTyped`, `Promised`); what is read
of a forecast is indexed in each of the cases of `Reads`. The bitmap
of proposals is exact because a key's place is its column shifted by the base,
and growing keeps the columns apart (`Bitmap`, `KeysMatch`).

Of the recorded planner it proves `RefinementHonest` (`HonestRefinement`), for every
request, recorded world, number of rounds and fate of the branches. The search is the same, so
`PathSafe` is cited for the union of the tapes; a path that shares the frames of the longest
tape keeps out of each of them as long as its search says. The invariant relates the tapes
searched to the round (`SlotsKept`), the branch under way to the account it will be
charged to (`Accounted`), the checks of this round to the next nominal (`Verdicts`) and
says that a certified check is the last one (`Certified`).

`LiveWorkerProofs` proves, for every capacity, length of a run, period and
tolerance, six theorems: types (`TypeCorrect`), `NothingUnaccounted`
(`EverythingAccounted`), `UsedReplyIsCaughtUp` (`CaughtUp`), `NoLostWakeup`,
`FailureNeverMasked` and the action property `ConsecutiveHistory`, all without
using fairness. The balances of `NothingUnaccounted` are inductive only together
with the shape of what they count. The strengthening has three parts:
`OwnerInv` says how far the executor has submitted at each of its steps;
`FifoInv` says that the worker's job and the FIFO hold the last updates submitted,
in order and without a hole, and that a reply in the mailbox is older than what
the policy has seen; `StopInv` says what is already settled once the threads are
joined, and that the second `stop`, the destructor's, finds it so.
`UsedReplyIsCaughtUp` follows: a usable reply answers the update just submitted,
so that by `FifoInv` nothing is left in the FIFO or in the worker's hand.

`ScoreRefineProofs` proves, for every game, every set of edits and every budget,
`IncumbentCertified` (`AlwaysCertified`), `PlaysItsTape` (`TapePlayed`), and
`NeverWorse` (`NeverLoses`) if scores are integers (an assumption of that
theorem, which TLC cannot evaluate over all tapes). The invariant adds only the `Position` of the session in
its tape. The step that matters is the adoption of a trial: candidate and tape
agree on what was executed, the evaluation found nothing before the candidate's
end, and so every prefix of the new tape is either a prefix of the old one or was
evaluated. That the end exists is the least element of a set of naturals.

`OnlineProofs` proves the invariants of what runs beside and inside the online policy.
`TypeCorrect` and `ResultHonest` (`HonestResult`) hold of `NativeRollout` for
every call and every future of the world. What the owner reads was stored by a
process that may have died, thrown or been killed between any two stores, so
`HonestResult` says nothing until the call has returned. The invariant says, for each
step of the branch, what is already in the arena (`OnItsWay`: counts that differ by
the one update under way, a world that went on so far), what a status the branch
chose itself means (`Truthful`), and that a branch with exit code zero chose one; what
is returned is computed from an arena nobody writes any more. One lemma per action.
`ProposalsTimely` (`TimelyProposals`), for every lead, batch and size of the shared memory:
attempts run ahead of completions only inside an update, so whatever the branch
says of itself is said between two of them (`ProposeInv`); a batch under way
belongs to the updates it is used for, and where dialogues are advanced none was seen since
it was decided (`GuideInv`).
`FireIsPaced` (`PacedFire`), for every window, reserve and limit: who samples or farms has a
measured damage that is not zero (`Measuring`), without which the comparison with
the reserve would say nothing. Each stage of `update_attack_pacing` has a lemma
with what it leaves true: `Afforded` after the budget, `Timely` after the income. That
the sum of the damage window is a natural is proved from the least entry where it is not.
`LaserCovered` (`CoveredLaser`), for every laser that can be born: the laser and its
two copies stay in step, and each forecast's rectangle is compared with the
game's. `LaserAssumption` says what a birth is: the checks of
`laser_motion.hpp` lines 36-48, as `Admitted`.

`ChoicesSound` (`SoundChoice`) holds for every observation, field, hurtbox, stride, horizon,
margin and family. A decision is a few steps, so the invariant (`ChoiceInv`) only
keeps what each of them computed; the proof is about those values. `ChoiceAssumption` says what
a decision may observe (`Observed`): a player in the field, lasers that an update admits, finite
warnings, a tree with two updates at least (32 in the code).
* Ranking. A constant path goes one way on each axis until it meets the edge (`Drift`),
  so it lies in the rectangle `MayOverlap` looks at, and a pruned laser meets it nowhere.
  What a direction claims is the least of its hits (`OverlapIs`), the same whatever
  was pruned or shared (`ClaimAlike`), and no later than the first real one
  (`RealFirst`), because the forecast of a laser covers it at every update (`ShadowStep`, from the
  lemmas of `LaserCovered`). `Better1` is a strict total order on marks, so `BestOf` exists and is best (`BestIs`).
* Masks. Of finitely many gaps each direction has a number of overlaps and a clearance,
  so some direction has the least and the greatest. Only a single adapter is claimed never to forbid
  all nine directions: three together may, and `Reactive` then stays where it is.
  A due laser that meets the player was foretold by the same comparison.
* Tree. Every layer is finite, ranks its nodes without gaps, holds all nine first
  directions and at most nine families, and the score of each node is true of the walk
  of its trace (`Layer`); one more update keeps this (`LayerStep`), so the last layer has it (`TreeIs`).
* Pruning. After `k` updates nobody is further than `Axis * k` from where he was.
Paths, forecasts and layers are recursive functions over a range; that they exist is proved
once (`Unfolds`), from ranges on which the equations hold, made longer one place at a time (`Upward`).

`FollowerProofs` proves `WorldsInStep` (`LockStep`) and `ReportHonest`
(`HonestReport`) for every tape, packet size and socket buffer. A packet crosses in
pieces and a failure may follow half of one. The invariant describes both streams
piece by piece (`Streams`, `Requested`: some pieces of the last receipt and then only
failures), relates them to what the receiver holds of the packet, and says at each step of the owner how
many updates apart the worlds are (`Phases`). Whole equal receipts then mean equal worlds.

The module also proves `WorldLoggedAlways` (`WorldIsItsLog`) of `PracticeEntry`, for every
timeline, every set of scripts, every size of the pools and whatever the calls supply.
What `WorldIsItsLog` says of the log is not inductive: it says nothing of the places the
programs are at. `EntryInv` adds them. The world is the log replayed, and what the
draft holds is the log and the draft's entries replayed (`WorldLogged`); everything
logged lies before the present place, which only moves on (`LogOrdered`, and
`DraftInOrder` for the draft); the last entry of each activation on
the call stack is the value it holds (`OwnValues`), which a return needs of the
callers. For completeness (`Completed`) the invariant follows a spawn along the
straight beginning of its script (`StraightOn`): either all of it is logged, or the
script has passed only what is, in the root or in one callee that neither ends
the spawn nor calls on. `EntryAssumption` says what is decoded: a timeline ends with its sentinel,
and a jump leads to an instruction of its script. The world a log makes is a recursive
function of its length; its equations are proved from the least length without one.

`ShadowLoopProofs` proves `JournalFound` (`JournalComplete`: nothing is missing unless a row
was written short, and then the controller says so), `QueueKnown` (`QueueIsKnown`) and `CertifiedCourse` (`CertifiedUntilRejection`) for every set of
inputs and every window that satisfies `WindowAssumption`. The argument is about the *course*
of the owner: what it executed, then its plan, then the fallback. While nothing is
rejected an input sampled is the next of the course, what is published agrees
with the course up to its first change, and the queue is what is left of the
plan that will be executed (`OnTheCourse`, `Queues`). The step that matters is the
acceptance, where a plan that goes on beyond the course becomes the course.

`StageProofs` is about the sequential parts of a stage and the scenarios that stand in for one.
* `SlotsAgree` (`SlotsConsistent`), for every number of words and bits: the count is
  the cardinality of the bitmap, and the search by words returns the slot a lap over
  single slots meets first.
* `CallsAreWhole` (`WholeCallOrNothing`), for every size of the effect pool: the invariant is
  about the draft, which holds the free slots of the part of the lap walked so far
  in a spawn, and the new states of the slots below the position in an update.
* `AnimationHonest` (`HonestAnimation`), for every set of texts, widths and budgets. A
  call under way draws on an account (`Underway`), a script that stopped is at the
  instruction that stopped it (`AtItsStop`, `StandsStill`), and a count of calls
  holds only where nothing more is executed (`AtItsEnd`). An undisturbed animation
  with a certificate has read its text up to its clock and shows the one sprite it
  met (`OnCourse`, `Course`, `Shown`). That a text has a greatest time, which the
  certificate takes, is proved from the least index without one.
  `AnimationAssumption` asks of a text that it is a finite sequence of instructions with integer
  times and words.
* `RunHonest` (`HonestRun`), for every field, question, definition, seed, age and set of
  options. Of the search: each layer holds a node of every free successor or the best of
  the beam, one of each place (`Grows`, `Layered`), so a path read backwards survives
  (`PathSurvives`), and with room for every place the layers hold all that can be reached
  (`ReachableHeld`) and nothing comes back once one is empty (`NothingComesBack`). What
  `t` layers cost is bounded by the beam (`CostBound`), and the beam of a retry is one its
  budget can pay for (`RetryAffordable`, `NeverShort`). Of the world: its cursor moves a frame a
  step and stays valid (`StepIs`, `CursorStays`). A path that survives a forecast is a safe
  walk through the worlds that come (`ForecastIs`, `Safely`); a prefix of a safe walk is one,
  and so is what is left after a step (`WalkTaken`, `WalkOn`), which is the invariant
  of a run between two decisions (`RunInv`). A replay of one more action is one more step of
  a replay (`ReplayedFurther`). `BeamPlanAssumption` and `ScenarioAssumption` state the types of the inputs
  and what the loaders enforce (`scenario.cpp` checks the ends of the phases and the options).

`CampaignProofs` is about the offline tools.
* `SuiteHonest` (`HonestSuite`) and `SuiteLeavesNone`, for every corpus and number of
  jobs. A child is in the vector from its launch until it is reaped (`Tracked`,
  `NoneLeft`), and a result is recorded only of a child that was (`Harvested`).
  `SuiteLeavesNone` is the safety half of `SuiteEnds`: *when* a suite ended by itself, all it
  launched is reaped.
* `RepairCovers` and `RepairHonest` (`HonestRepair`), for every cap, budget and number of
  rounds. What the accounts charge covers what the processes did at every step
  (`Books`, `Sums`), and the selected run is the best of the ledger (`Leading`). Sums
  and best entries are recursive functions of a finite length; their defining
  equations are proved from the least length without one.
* `PlanHonest` (`HonestPlan`), for every game, number of checkpoints kept and attempts.
  A live checkpoint is in the slot of its depth (`Registered`), live ones have pids of
  their own and are the newest of the chain (`Lineage`), so the release that falls
  due reaches the oldest of them; what any of them has committed belongs to a game
  nobody dies in (`Committed`). `PlanAssumption` states what `plan_contracts.hpp`
  line 251 enforces, that more slots exist than checkpoints kept plus one, and that
  no game is complete before its first update. Without the depth test of `Releasable` the proof fails.
* `TapeHonest` (`HonestTape`), for every game, set of directions, options and probe. A run
  under way has the digests and the prefix of the updates it played (`Digested`), the
  newest of them in the ring of the trace, each at the remainder of its number
  (`Ring`), and no update before the last ended it (`Along`); once it ended, its last
  update did what the outcome says (`Halted`). That a replay agrees with its source
  needs more than what a report says: a replay that *fails* has a cause (`Cause`: a
  shorter limit, a longer prefix, another spell, or a tape that goes on after an update
  that ends the run), so that the tape of a report cannot fail. A branch of the probe is the source's tape with one direction
  replaced (`IsBranch`), and every branch launched so far is such a run (`Branching`).
  The prover knows of remainders only that they are in range: five lemmas on `%` say
  which places of the ring are apart.
* `SelectionsFair` (`FairSelection`), for every archive, width, generation, beam and log.
  `SelectionAssumption` states what `frontier` enforces, that the ids of an archive are
  unique (`phase_archive.cpp` line 33), and that a log is not empty. In a linear order
  ranks grow (`RankGrows`), and every place is somebody's because an injection into as many
  places is onto them (`RankHeld`); so the first `m` of a ranked set are `m` and ahead of
  the rest (`FirstOfRanked`, `LeadersAre`). Turns of different families differ
  (`TurnApart`, from `%`), so admission is a linear order (`OrderLinear`). A family that
  still has somebody to offer has one as deep as its share (`NextInLine`): nobody chosen is
  deeper, hence nobody's share is two more. The generation `(place - g) % n` later is a
  family's turn (`Rotation`). `DenseAlike` gives the bounded beam the order of the scores;
  the floats keep their three bits in the theorem. The scan of a log knows at each update
  where the danger it is in began, or whether the last was safe (`Knows`).

Each of these inductive invariants was first checked by TLC as an invariant of
the run of its component.

Model-checked only:
* liveness, and whatever needs ENABLED: the prover has no rules for either
  (`SuiteEnds`, `ControllerEnds`, `BranchesEnd`, `AnnouncedPlanArrives` and both `Terminates`);
* `HonestProjection`: three forecasts of a bullet beside its transform program; no proof is
  written.

In `PROJECT.json` a small helper is not always mapped by itself: its lines then belong to
the operator that uses it.

## 5. Not modelled

* The spell scenario, the practice camera and enemy motion: sequential
  floating-point reconstructions, compared in the repository with probes of the
  original.
* Scoring preferences, learned values (`online_value.cpp`, `online_model.cpp`) and
  the capture of native observations (`online_native.cpp`).
* Inside the planner: the geometric beam search, learned futures, quiet windows.
  `PlanSearch` lets the search return any window a rollout certifies.
* `planner_report`, `shadow_style`, `hazard_probe`, `value_*`, `tools/online.cpp`, the
  source probes and exports: they read finished files, or print what the modelled
  parts computed.
* Decoding of resources and tables, and the packet codec: pure layouts.
* The installation of the hooks, memory views and launch of the retail owner;
  the vendored game. To the parts modelled the game is a deterministic step
  function, and a search may take any time, fail or throw.

`PROJECT.json` gives the reason for each component.

## 6. A disagreement with the documentation

`docs/ARCHITECTURE.md` lines 206-207 says the owner rejects any leading input
inconsistent with its queue or fallback before the declared first change.
`compatible_lead` (`shadow_bridge.hpp` line 125) compares from `sequence + 1`.
Leading inputs already executed when the owner examines the plan are compared by
nobody; the controller compared those it had received, but not the ones executed
after its last drain. Run `shadow_loop_lead` shows how it matters: a late plan is
rejected between the controller's two loads of `Rejected`
(`tools/shadow_online.cpp` lines 780 and 783), the search starts from a queue the
owner never adopted, and the update in which the two differ passes before the
owner looks. The plan is accepted although its certificate belongs to another
past. `CertifiedUntilRejection` shows that this cannot happen before a first
rejection.

## 7. Plan

1. A proof of `HonestProjection` of `BulletProjection`, the one invariant that is only
   model-checked.
2. The action buffer as a module with an abstract committed frontier it implements,
   and the rollout against an abstract oracle, so that `ShadowLoop`, `ScoreRefine` and
   `RecordedPlanner` rest on it formally.
3. Observation of a replay by the retail owner; stage handoffs in the planner.
