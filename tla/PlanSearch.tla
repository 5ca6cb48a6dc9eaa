---- MODULE PlanSearch ----
(* The offline planner's search (tools/plan.cpp): a worker process plays   *)
(* the real game, committing only inputs that a forked rollout has shown   *)
(* to survive a whole window.  Every few commits it forks; the parent      *)
(* stays behind, blocked, as a checkpoint, and forks again when the child  *)
(* reports that it is stuck.  Checkpoints too old to be of use are told to *)
(* exit, their children pass to a subreaper at the root, and the root's    *)
(* verdict is the exit code that reaches it.  All of them share one table  *)
(* of checkpoints, whose slots are reused.                                 *)
EXTENDS Integers, Sequences, FiniteSets, SequencesExt, FiniteSetsExt

CONSTANTS
    Worlds,      \* games: deaths, the paths on which the player has just
                 \* died, and goal, the updates that complete it
    Moves,       \* inputs of an update
    GivenPrefixes, \* --prefix: paths to replay before the search, << >> if none
    Horizon,     \* --rollout
    Commits,     \* --commit
    Every,       \* --checkpoint
    Keep,        \* --keep
    Attempts,    \* --attempts
    FrameLimit,  \* --frames
    HolderSlots  \* holder_slots, 4096 in the code

ASSUME PlanAssumption ==
    /\ {Horizon, Commits, Every, Keep, HolderSlots} \subseteq Nat \ {0}
    /\ Commits <= Horizon /\ Keep < HolderSlots - 1 /\ {Attempts, FrameLimit} \subseteq Nat
    /\ \A given \in GivenPrefixes : given \in Seq(Moves)
    /\ \A w \in Worlds : w.goal \in Nat \ {0}

VARIABLES
    world,    \* the game; constant
    chain,    \* the processes from the oldest ancestor to the worker
    phase,    \* of the worker: prefix, work, commit, checkpoint, fork, exit;
              \* over when the root has concluded
    window,   \* the accepted rollout, as the path it ends in
    slots,    \* the shared table of checkpoints: pid, depth, released
    tape,     \* plan.actions and plan.json, the last that were written
    code,     \* the exit code on its way up the chain
    rootVerdict, \* what the root has made of the codes it reaped, -1 before
    outOfTime \* --seconds have passed

planVars == <<world, chain, phase, window, slots, tape, code, rootVerdict, outOfTime>>

kOk == 0
kRuntimeError == 1
kPrefixRejected == 2
kBacktrack == 3
kReleased == 4
kBudget == 5
kSignalled == 137 \* ended by a signal

NoWindow == [frames |-> 0, death |-> 0, status |-> "Running", path |-> << >>]

(* A process: its pid, its memory (what it has committed, the end of its   *)
(* nominal window, where its last checkpoint was, its depth), and, for a   *)
(* holder, the attempts made and whether it is still there.                *)
Worker(pid) == [pid |-> pid, path |-> << >>, nominal |-> << >>, last |-> 0, depth |-> 0,
                attempt |-> 0, alive |-> TRUE]
Top == chain[Len(chain)]
SetTop(p) == [chain EXCEPT ![Len(chain)] = p]
Live == {i \in DOMAIN chain : chain[i].alive}
NewPid == CHOOSE p \in 1 .. Len(chain) + 1 : \A i \in Live : chain[i].pid # p

PlanInit ==
    /\ world \in Worlds
    /\ chain = << Worker(1) >>
    /\ phase = "prefix"
    /\ window = NoWindow
    /\ slots = [s \in 0 .. HolderSlots - 1 |-> [pid |-> 0, depth |-> 0, released |-> FALSE]]
    /\ tape = [outcome |-> "none", path |-> << >>]
    /\ code = 0 /\ rootVerdict = -1 /\ outOfTime = FALSE

----
(* The game, and what a rollout makes of it (plan_contracts.hpp).          *)
Dead(path) == \E n \in 1 .. Len(path) : SubSeq(path, 1, n) \in world.deaths
DeathAt(path) == CHOOSE n \in 1 .. Len(path) : SubSeq(path, 1, n) \in world.deaths
                                               /\ ~Dead(SubSeq(path, 1, n - 1))

VerifiedWindow(r) ==
    /\ r.death = 0 /\ r.frames \in 1 .. Horizon
    /\ \/ r.status = "Horizon" /\ r.frames = Horizon
       \/ r.status = "Terminal"

FailedRollout(r) ==
    /\ ~VerifiedWindow(r)
    /\ r.status # "Death" \/ r.death # r.frames \/ r.frames \notin 1 .. Horizon

(* The child plays plan until the player dies, the game is complete or the *)
(* horizon is reached.                                                     *)
Rollout(from, plan) ==
    LET length == Min({Horizon, world.goal - Len(from)})
        path == from \o SubSeq(plan, 1, length)
        frames == IF Dead(path) THEN DeathAt(path) - Len(from) ELSE length
    IN  [frames |-> frames, death |-> IF Dead(path) THEN frames ELSE 0,
         status |-> IF Dead(path) THEN "Death" ELSE IF Len(path) = world.goal THEN "Terminal" ELSE "Horizon",
         path |-> SubSeq(path, 1, Len(from) + frames)]
Failures == {[NoWindow EXCEPT !.status = s] : s \in {"Capacity", "StepError", "Incomplete", "ChildError"}}

Plans == [1 .. Horizon -> Moves]
(* expand: the nominal window, its last move held to the horizon. *)
Nominal(p) == [k \in 1 .. Horizon |->
    IF p.nominal = << >> THEN CHOOSE m \in Moves : TRUE ELSE p.nominal[Min({k, Len(p.nominal)})]]

Write(outcome) == tape' = [outcome |-> outcome, path |-> Top.path]
Leave(outcome, exit) == Write(outcome) /\ code' = exit /\ phase' = "exit"

(* --verify: a fresh process replays the whole tape; it must complete the  *)
(* game with its last input, and the player must not have died.            *)
Verified(path) == ~Dead(path) /\ Len(path) = world.goal

(* replay_prefix: the given inputs are played for good, up to the first    *)
(* death or the end of the game, or until time is up.                      *)
PrefixStop(given) ==
    Min({Len(given)} \union {n \in 1 .. Len(given) : n = world.goal \/ Dead(SubSeq(given, 1, n))})

ReplayPrefix(given) ==
    LET stop == PrefixStop(given)
        played(n) == [Top EXCEPT !.path = SubSeq(given, 1, n), !.last = n]
        leave(outcome, exit, n) ==
            /\ tape' = [outcome |-> outcome, path |-> SubSeq(given, 1, n)]
            /\ code' = exit /\ phase' = "exit" /\ chain' = SetTop(played(n))
    IN  /\ phase = "prefix" /\ Len(given) <= FrameLimit
        /\ \/ \E n \in 0 .. stop - 1 : leave("budget", kBudget, n) /\ outOfTime' = TRUE
           \/ /\ Dead(SubSeq(given, 1, stop)) \/ (stop = world.goal /\ stop < Len(given))
              /\ leave("prefix_rejected", kPrefixRejected, stop) /\ UNCHANGED outOfTime
           \/ /\ Verified(given)
              /\ leave("complete", kOk, stop) /\ UNCHANGED outOfTime
           \/ /\ ~Dead(given) /\ Len(given) < world.goal
              /\ phase' = "checkpoint" /\ chain' = SetTop(played(stop))
              /\ UNCHANGED <<tape, code, outOfTime>>
        /\ UNCHANGED <<world, window, slots, rootVerdict>>

----
(* run_worker: the budget, a window to accept, and the commit. *)
OutOfBudget == Len(Top.path) >= FrameLimit \/ outOfTime

OverBudget ==
    /\ phase = "work" /\ OutOfBudget
    /\ Leave("budget", kBudget)
    /\ UNCHANGED <<world, chain, window, slots, rootVerdict, outOfTime>>

(* Accepted is a window that a rollout has verified: one the search found, *)
(* or the nominal one.  The search need not find what there is, but a      *)
(* nominal window that survived is never given up.                         *)
Accept(plan) ==
    /\ phase = "work" /\ ~OutOfBudget
    /\ LET r == Rollout(Top.path, plan)
       IN  /\ VerifiedWindow(r)
           /\ window' = r
    /\ phase' = "commit"
    /\ UNCHANGED <<world, chain, slots, tape, code, rootVerdict, outOfTime>>

Stuck ==
    /\ phase = "work" /\ ~OutOfBudget
    /\ ~VerifiedWindow(Rollout(Top.path, Nominal(Top)))
    /\ Leave("exhausted", kBacktrack)
    /\ UNCHANGED <<world, chain, window, slots, rootVerdict, outOfTime>>

(* A rollout that did not end as one should, and any other exception. *)
WorkerFails ==
    /\ phase \in {"prefix", "work", "checkpoint", "fork"}
    /\ phase = "work" => \E r \in Failures : FailedRollout(r)
    /\ Leave("runtime_error", kRuntimeError)
    /\ UNCHANGED <<world, chain, window, slots, rootVerdict, outOfTime>>

WorkerDies ==
    /\ phase \in {"prefix", "work", "commit", "checkpoint", "fork"}
    /\ phase' = "exit" /\ code' = kSignalled
    /\ UNCHANGED <<world, chain, window, slots, tape, rootVerdict, outOfTime>>

(* The first inputs of the window are played for good. *)
CommitWindow ==
    /\ phase = "commit"
    /\ LET k == Min({Commits, window.frames, FrameLimit - Len(Top.path)})
           path == SubSeq(window.path, 1, Len(Top.path) + k)
           p == [Top EXCEPT !.path = path, !.nominal = SubSeq(window.path, Len(path) + 1, Len(window.path))]
       IN  /\ chain' = SetTop(p)
           /\ IF Len(path) = world.goal
              THEN tape' = [outcome |-> "complete", path |-> path] /\ code' = kOk /\ phase' = "exit"
              ELSE /\ phase' = IF Len(path) - p.last >= Every THEN "checkpoint" ELSE "work"
                   /\ UNCHANGED <<tape, code>>
    /\ window' = NoWindow
    /\ UNCHANGED <<world, slots, rootVerdict, outOfTime>>

----
(* checkpoint: the worker becomes a holder, and only its child works on. *)
Fork(holder) ==
    LET child == [holder EXCEPT !.pid = NewPid, !.last = Len(holder.path), !.attempt = 0]
    IN  chain' = Append(SetTop(holder), child)

Checkpoint ==
    /\ phase = "checkpoint"
    /\ Fork([Top EXCEPT !.depth = @ + 1])
    /\ phase' = "fork"
    /\ UNCHANGED <<world, window, slots, tape, code, rootVerdict, outOfTime>>

(* The child enters its holder into the table and tells the one that has   *)
(* become too old to exit.                                                 *)
Old(n) == n - Keep
(* A version in which a release is sent to whichever holder the slot       *)
(* names, without asking whether it is of that depth, or already told.     *)
ReleasableAnyway(table, n) == Old(n) >= 1 /\ table[Old(n) % HolderSlots].pid > 0
Releasable(table, n) ==
    /\ Old(n) >= 1
    /\ table[Old(n) % HolderSlots].depth = Old(n)
    /\ ~table[Old(n) % HolderSlots].released

Register ==
    /\ phase = "fork"
    /\ LET n == Top.depth
           table == [slots EXCEPT ![n % HolderSlots] =
                        [pid |-> chain[Len(chain) - 1].pid, depth |-> n, released |-> FALSE]]
           old == Old(n) % HolderSlots
       IN  IF Releasable(table, n)
           THEN /\ slots' = [table EXCEPT ![old].released = TRUE]
                /\ chain' = [i \in DOMAIN chain |->
                                [chain[i] EXCEPT !.alive = @ /\ chain[i].pid # table[old].pid]]
           ELSE slots' = table /\ UNCHANGED chain
    /\ phase' = "work"
    /\ UNCHANGED <<world, window, tape, code, rootVerdict, outOfTime>>

(* The parent of the process that exits: it tries again, or exits too.     *)
Parent == chain[Len(chain) - 1]
HasParent == Len(chain) > 1 /\ Parent.alive

Retry ==
    /\ phase = "exit" /\ HasParent /\ code = kBacktrack /\ Parent.attempt < Attempts
    /\ LET holder == [Parent EXCEPT !.attempt = @ + 1]
           child == [holder EXCEPT !.pid = Top.pid, !.last = Len(holder.path), !.attempt = 0]
       IN  chain' = SubSeq(chain, 1, Len(chain) - 2) \o << holder, child >>
    /\ phase' = "fork"
    /\ UNCHANGED <<world, window, slots, tape, code, rootVerdict, outOfTime>>

PassUp ==
    /\ phase = "exit" /\ HasParent
    /\ code = kBacktrack => Parent.attempt >= Attempts
    /\ code' = IF code = kSignalled THEN kRuntimeError ELSE code
    /\ chain' = Front(chain)
    /\ UNCHANGED <<world, phase, window, slots, tape, rootVerdict, outOfTime>>

(* An orphan's code, and that of every released holder, goes to the root,  *)
(* which concludes when it has no descendant left.                         *)
Reaping(exit) ==
    IF exit = kReleased THEN rootVerdict
    ELSE IF exit \notin {kOk, kBacktrack, kBudget, kPrefixRejected} THEN kRuntimeError
    ELSE IF rootVerdict < 0 \/ (exit = kOk /\ rootVerdict # kRuntimeError) THEN exit ELSE rootVerdict

Named(exit) == CASE exit = kOk -> "complete" [] exit = kBacktrack -> "exhausted"
                 [] exit = kBudget -> "budget"
                 [] exit = kPrefixRejected -> "prefix_rejected" [] OTHER -> "runtime_error"

Verdict ==
    /\ phase = "exit" /\ ~HasParent
    /\ rootVerdict' = Reaping(code)
    /\ chain' = << >> /\ phase' = "over"
    /\ tape' = [tape EXCEPT !.outcome = Named(rootVerdict')]
    /\ UNCHANGED <<world, window, slots, code, outOfTime>>

TimePasses ==
    /\ ~outOfTime /\ phase = "work"
    /\ outOfTime' = TRUE
    /\ UNCHANGED <<world, chain, phase, window, slots, tape, code, rootVerdict>>

PlanNext ==
    \/ OverBudget \/ Stuck \/ WorkerFails \/ WorkerDies \/ CommitWindow \/ Checkpoint \/ Register
    \/ Retry \/ PassUp \/ Verdict \/ TimePasses
    \/ \E plan \in Plans : Accept(plan)
    \/ \E given \in GivenPrefixes : ReplayPrefix(given)

----
(* A release reaches the oldest live holder and no other, whatever was     *)
(* tried and abandoned before and however often pids and slots were        *)
(* reused: the processes alive are the newest ones, with no gap for an     *)
(* exit code to be lost in, and at most Keep holders wait at a time.       *)
HoldersKept ==
    /\ \A i \in Live : i .. Len(chain) \subseteq Live
    /\ phase = "work" => Cardinality(Live) <= Keep + 1

(* What the planner leaves behind: the action tape never holds an input    *)
(* the player dies of, whichever branch wrote it last, unless the prefix   *)
(* it was given does; and the outcome, which reaches the root through a    *)
(* chain of ancestors some of which are gone, is that of this very tape: a *)
(* game that a replay completes if it says complete, a part of one if the  *)
(* search was exhausted or out of budget.                                  *)
HonestPlan ==
    /\ HoldersKept
    /\ tape.outcome # "prefix_rejected" /\ code # kPrefixRejected => ~Dead(tape.path)
    /\ phase = "over" =>
          /\ tape.outcome = "complete" => Verified(tape.path)
          /\ tape.outcome \in {"exhausted", "budget"} => Len(tape.path) < world.goal
====
