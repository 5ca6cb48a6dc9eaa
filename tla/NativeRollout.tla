---- MODULE NativeRollout ----
(***************************************************************************)
(* One call of predict_owned of src/shadow_rollout.cpp: the owner forks a  *)
(* branch that plays inputs on its own copy of the world, waits for it     *)
(* with a deadline, and reads what the branch left in a shared arena.  The *)
(* branch may finish, throw, crash, or be killed between any two of its    *)
(* stores; the owner may die as well.                                      *)
(***************************************************************************)
EXTENDS Integers

CONSTANTS MaximumHorizon, \* records in the arena (2048 in the code)
          MaximumTape,    \* inputs of a tape to evaluate (400000)
          Calls,          \* the calls considered, a subset of Call
          Moments         \* when things may happen in the world: see World

(* A call of predict, predict_guided or evaluate_tape.  inputs is the      *)
(* number of inputs, first those already executed, sequence the origin's;  *)
(* captures is boundary.require_captures.                                  *)
Call == [inputs : Nat, first : Nat, sequence : Nat, horizon : Nat,
         guided : BOOLEAN, summary : BOOLEAN, captures : BOOLEAN]

(* The future of the origin under the inputs of the call: the first update *)
(* after which the player is dead, a capture is lost, the goal is reached, *)
(* the update that throws, and whether no capture gate was missed.         *)
World == [death : Moments \ {0}, lost : Moments, terminal : Moments,
          throws : Moments \ {0}, gates : BOOLEAN]

ASSUME CallAssumption == /\ MaximumHorizon \in Nat /\ MaximumTape \in Nat
                         /\ Calls \subseteq Call /\ Moments \subseteq Nat

VARIABLES call, world,
          owner,   \* step of the owner
          late,    \* the deadline has passed
          branch,  \* step of the branch
          arena,   \* Shared: what the branch has stored so far
          exit,    \* how the branch ended: its exit code or a signal
          result   \* what is returned

vars == <<call, world, owner, late, branch, arena, exit, result>>
branchVars == <<branch, arena, exit>>

NoResult == [status |-> "none"]
NotEvaluated == -1

Init == /\ call \in Calls /\ world \in World
        /\ owner = "call" /\ late = FALSE
        /\ branch = "none" /\ exit = "none"
        /\ arena = [status |-> "incomplete", attempts |-> 0, completed |-> 0,
                    frames |-> 0, evaluated |-> NotEvaluated, allCaptures |-> FALSE]
        /\ result = NoResult

(* The clock passes the deadline.                                          *)
Late == /\ ~late
        /\ late' = TRUE
        /\ UNCHANGED <<call, world, owner, branchVars, result>>
----
(* The branch.                                                             *)

Running == branch \notin {"none", "gone"}
At(step) == branch = step
Goto(step) == branch' = step
Exit(how) == Goto("gone") /\ exit' = how
Alone == UNCHANGED <<call, world, owner, late, result>>

(* prctl asks for SIGKILL on the death of the parent, or fails.            *)
Protect == /\ At("born")
           /\ \/ Goto("guarded") /\ UNCHANGED exit
              \/ Exit("nonzero")
           /\ UNCHANGED arena /\ Alone

(* A version in which the parent is not looked up again. *)
TrustParent == /\ At("guarded")
               /\ Goto("enter")
               /\ UNCHANGED <<arena, exit>> /\ Alone

(* A parent that died before the request is not its parent any more.       *)
CheckParent == /\ At("guarded")
               /\ IF owner = "dead"
                  THEN Exit("nonzero")
                  ELSE Goto("enter") /\ UNCHANGED exit
               /\ UNCHANGED arena /\ Alone

Store(field, value) == /\ arena' = [arena EXCEPT ![field] = value]
                       /\ UNCHANGED exit
Finish(status) == Store("status", status) /\ Goto("over")

(* An exception outside session.step reaches the catch of the branch.      *)
Caught == Store("status", "fault") /\ Goto("exit")

Dead == world.death <= arena.completed
CaptureLost == call.captures /\ world.lost <= arena.completed
Cleared == world.terminal <= arena.completed

(* The scratch directory is entered and the guidance sees the origin.      *)
Enter == /\ At("enter")
         /\ \/ Goto("top") /\ UNCHANGED <<arena, exit>>
            \/ Caught
         /\ Alone

(* The head of the loop; the guidance is asked when the inputs are used up.*)
Top == /\ At("top")
       /\ \/ /\ arena.completed = call.horizon
             /\ Finish("horizon")
          \/ /\ arena.completed < call.horizon /\ CaptureLost
             /\ Finish("capture_failure")
          \/ /\ arena.completed < call.horizon /\ ~CaptureLost /\ Cleared
             /\ Finish("terminal")
          \/ /\ arena.completed < call.horizon /\ ~CaptureLost /\ ~Cleared
             /\ \/ Goto("attempt") /\ UNCHANGED <<arena, exit>>
                \/ call.guided /\ call.first + arena.completed >= call.inputs /\ Caught
       /\ Alone

Attempt == /\ At("attempt")
           /\ Store("attempts", arena.attempts + 1)
           /\ Goto("step")
           /\ Alone

(* session.step, on the branch's copy of the world.                        *)
StepWorld == /\ At("step")
             /\ IF world.throws = arena.completed + 1
                THEN Finish("fault")
                ELSE Goto("stepped") /\ UNCHANGED <<arena, exit>>
             /\ Alone

Complete == /\ At("stepped")
            /\ Store("completed", arena.completed + 1)
            /\ Goto(IF call.summary THEN "judge" ELSE "record")
            /\ Alone

Record == /\ At("record")
          /\ Store("frames", arena.frames + 1)
          /\ Goto("judge")
          /\ Alone

(* A version in which reaching the goal is looked at before the death. *)
JudgeGoalFirst == /\ At("judge")
                  /\ \/ Cleared /\ Finish("terminal")
                     \/ ~Cleared /\ Dead /\ Finish("death")
                     \/ ~Cleared /\ ~Dead /\ CaptureLost /\ Finish("capture_failure")
                     \/ /\ ~Dead /\ ~CaptureLost /\ ~Cleared
                        /\ \/ Goto("top") /\ UNCHANGED <<arena, exit>>
                           \/ call.guided /\ arena.completed < call.horizon /\ Caught
                  /\ Alone

(* What the update led to; the guidance may throw on what it observes.     *)
Judge == /\ At("judge")
         /\ \/ Dead /\ Finish("death")
            \/ ~Dead /\ CaptureLost /\ Finish("capture_failure")
            \/ ~Dead /\ ~CaptureLost /\ Cleared /\ Finish("terminal")
            \/ /\ ~Dead /\ ~CaptureLost /\ ~Cleared
               /\ \/ Goto("top") /\ UNCHANGED <<arena, exit>>
                  \/ call.guided /\ arena.completed < call.horizon /\ Caught
         /\ Alone

(* A tape's evaluation is stored after its status.                         *)
Evaluate == /\ At("over")
            /\ \/ /\ call.summary
                  /\ Store("evaluated", arena.completed)
                  /\ Goto("audit")
               \/ ~call.summary /\ Goto("exit") /\ UNCHANGED <<arena, exit>>
            /\ Alone

(* All captures: the coverage of a terminal tape, without a death.  The    *)
(* audit throws on a spell it has no bit for.                              *)
Audit == /\ At("audit")
         /\ \/ /\ Store("allCaptures", /\ arena.status = "terminal" /\ world.gates
                                       /\ world.lost > arena.completed /\ ~Dead)
               /\ Goto("exit")
            \/ Caught
         /\ Alone

Leave == /\ At("exit")
         /\ Exit("zero")
         /\ UNCHANGED arena /\ Alone

(* The native code crashes, or the branch is killed from outside.          *)
Crash == /\ Running
         /\ Exit("signal")
         /\ UNCHANGED arena /\ Alone

Branch == \/ Protect \/ CheckParent \/ Enter \/ Top \/ Attempt \/ StepWorld \/ Complete
          \/ Record \/ Judge \/ Evaluate \/ Audit \/ Leave \/ Crash
----
(* The owner.                                                              *)

Valid(c) ==
  /\ c.inputs > c.first /\ c.horizon > 0
  /\ ~c.summary => /\ c.inputs <= c.horizon /\ c.horizon <= MaximumHorizon
                   /\ c.guided \/ c.horizon = c.inputs
  /\ c.summary => /\ ~c.guided /\ c.inputs <= MaximumTape
                  /\ c.horizon = c.inputs - c.first /\ c.sequence = c.first

(* A budget out of range is refused; so is an origin that is not the       *)
(* session's, or one already failed, a second thread, a failing mkdtemp.   *)
Refuse == /\ owner = "call"
          /\ owner' = "threw"
          /\ UNCHANGED <<call, world, late, branchVars, result>>

Fork == /\ owner = "call"
        /\ Valid(call)
        /\ owner' = "wait"
        /\ Goto("born")
        /\ UNCHANGED <<call, world, late, arena, exit, result>>

Interrupted(status) == status \in {"timeout", "fault"}

(* Interrupted work is charged in full and none of its records is shown.   *)
Return(status) ==
  /\ owner' = "returned"
  /\ result' = [status |-> status, attempts |-> arena.attempts,
                completed |-> arena.completed,
                charged |-> IF Interrupted(status) THEN call.horizon ELSE arena.completed,
                frames |-> IF call.summary \/ Interrupted(status) THEN 0 ELSE arena.frames,
                evaluated |-> IF Interrupted(status) THEN NotEvaluated ELSE arena.evaluated,
                allCaptures |-> ~Interrupted(status) /\ arena.allCaptures]

(* waitpid: the branch has exited, is still running, or was collected by   *)
(* somebody else (an error).                                               *)
Wait == /\ owner = "wait"
        /\ \/ branch = "gone" /\ Return(IF exit = "zero" THEN arena.status ELSE "fault")
           \/ branch = "gone" /\ Return("fault")
           \/ Running /\ owner' = "clock" /\ UNCHANGED result
        /\ UNCHANGED <<call, world, late, branchVars>>

CheckClock == /\ owner = "clock"
              /\ owner' = IF late THEN "kill" ELSE "wait"
              /\ UNCHANGED <<call, world, late, branchVars, result>>

(* SIGKILL and the waitpid after it.  The branch may have exited meanwhile:*)
(* it is a timeout all the same.                                           *)
Kill == /\ owner = "kill"
        /\ IF Running THEN Exit("signal") ELSE UNCHANGED <<branch, exit>>
        /\ Return("timeout")
        /\ UNCHANGED <<call, world, late, arena>>

(* The owner itself is killed; a protected branch goes with it.            *)
OwnerDies == /\ owner \in {"wait", "clock", "kill"}
             /\ owner' = "dead"
             /\ IF Running /\ branch # "born" THEN Exit("signal") ELSE UNCHANGED <<branch, exit>>
             /\ UNCHANGED <<call, world, late, arena, result>>

Owner == Refuse \/ Fork \/ Wait \/ CheckClock \/ Kill

Next == Late \/ Branch \/ Owner \/ OwnerDies

(* Time passes and the owner is scheduled.  Of the branch only its first   *)
(* two system calls are assumed to return: a native step, or the guidance, *)
(* may hang.                                                               *)
Spec == /\ Init /\ [][Next]_vars
        /\ WF_vars(Late) /\ WF_vars(Owner) /\ WF_vars(Protect) /\ WF_vars(CheckParent)
----
Statuses == {"incomplete", "horizon", "terminal", "death", "fault", "timeout",
             "capture_failure"}

(* Types; the branch never writes past the records of the arena.           *)
TypeOK ==
  /\ call \in Calls /\ world \in World /\ late \in BOOLEAN
  /\ owner \in {"call", "wait", "clock", "kill", "returned", "threw", "dead"}
  /\ branch \in {"none", "born", "guarded", "enter", "top", "attempt", "step", "stepped",
                 "record", "judge", "over", "audit", "exit", "gone"}
  /\ exit \in {"none", "zero", "nonzero", "signal"}
  /\ arena.status \in Statuses /\ arena.frames \in 0 .. MaximumHorizon
  /\ arena.completed \in 0 .. call.horizon /\ arena.attempts \in 0 .. call.horizon
  /\ arena.evaluated \in {NotEvaluated} \cup 0 .. call.horizon
  /\ result.status \in Statuses \cup {"none"}

(* Prediction::certifies and TapeEvaluation::certifies.  A projection that *)
(* was never stored is all zeros, and shows no death.                      *)
CertifiesFrames ==
  /\ result.frames > 0 /\ result.completed = result.frames
  /\ result.attempts = result.completed
  /\ \/ result.status = "horizon" /\ result.frames = call.horizon
     \/ result.status = "terminal" /\ result.frames <= call.horizon
CertifiesTape ==
  /\ result.status = "terminal" /\ (call.captures => result.allCaptures)
  /\ result.completed > 0 /\ result.attempts = result.completed
  /\ result.evaluated = NotEvaluated \/ world.death > result.evaluated
Certifies == result # NoResult /\ IF call.summary THEN CertifiesTape ELSE CertifiesFrames

(* A certificate is the whole truth about the future it describes, however *)
(* the branch and the deadline raced: every update was played, none of     *)
(* them failed, and the goal was reached exactly where it says             *)
(* (shadow_rollout.hpp lines 27-44).                                       *)
CertifiedFuture ==
  Certifies =>
    LET n == result.completed
    IN  /\ n > 0 /\ n < world.death /\ n < world.throws
        /\ call.captures => n < world.lost
        /\ result.status = "horizon" => n = call.horizon /\ n < world.terminal
        /\ result.status = "terminal" => n = world.terminal
        /\ call.summary => result.evaluated = n /\ (call.captures => world.gates)

(* The budget is never exceeded unnoticed: every update the branch began   *)
(* is charged to the caller, and no more than it asked for.                *)
ChargedInFull ==
  owner = "returned" => arena.attempts <= result.charged /\ result.charged <= call.horizon

(* Whatever a branch did and however it ended, its caller is told the       *)
(* truth: of the future it may rely on, and of the work it has to pay for. *)
HonestResult == CertifiedFuture /\ ChargedInFull

(* The call returns by its deadline even if the branch never ends.         *)
Returns == <>(owner \in {"returned", "threw", "dead"})

(* A branch never outlives its owner, not even one that dies between the   *)
(* fork and the request for its signal.                                    *)
NoOrphan == owner \in {"returned", "dead"} ~> branch = "gone"

(* A native step that never ends holds up nobody, and no branch is left    *)
(* behind by an owner that returned or was killed at any point.            *)
BranchesEnd == Returns /\ NoOrphan
====
