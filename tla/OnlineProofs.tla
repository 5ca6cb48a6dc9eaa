---- MODULE OnlineProofs ----
(***************************************************************************)
(* For every call and every future of the world a rollout tells its owner  *)
(* the truth: a certificate describes what the world would have done, and  *)
(* every update the branch began is charged, wherever the branch died, was *)
(* killed or threw, and whatever of the arena it had stored by then.  What *)
(* a policy proposes inside such a branch is used for the world it was     *)
(* said of; the online policy holds its fire only while that can be        *)
(* afforded; the forecasts of a laser cover what the game checks; and what *)
(* the reactive policies say of the direction they choose is no better     *)
(* than what happens.                                                      *)
(***************************************************************************)
EXTENDS NativeRollout, ProposalBranch, AttackPacing, HazardChoice, FiniteSetTheorems, SequenceTheorems,
        WellFoundedInduction, TLAPS

OwnerSteps == {"call", "wait", "clock", "kill", "returned", "threw", "dead"}
BranchSteps == {"none", "born", "guarded", "enter", "top", "attempt", "step", "stepped",
                "record", "judge", "over", "audit", "exit", "gone"}
Ends == {"horizon", "terminal", "death", "capture_failure"}

\* The arena as a record, and what the call and the world are made of.
ArenaType == [status : Statuses \ {"timeout"}, attempts : Nat, completed : Nat, frames : Nat,
              evaluated : Nat \cup {NotEvaluated}, allCaptures : BOOLEAN]

Typed ==
  /\ call \in Calls /\ world \in World /\ late \in BOOLEAN
  /\ owner \in OwnerSteps /\ branch \in BranchSteps
  /\ exit \in {"none", "zero", "nonzero", "signal"}
  /\ arena \in ArenaType

\* A branch exists only for a valid call, and stays until its owner has
\* collected it; it has an exit only when it is gone.
Fate ==
  /\ owner \in {"call", "threw"} => branch = "none"
  /\ owner \in {"wait", "clock", "kill", "returned", "dead"} => branch # "none"
  /\ branch # "none" => Valid(call)
  /\ branch # "gone" <=> exit = "none"
  /\ owner = "returned" => branch = "gone"

\* No update is counted as completed before it was attempted, none is
\* attempted beyond the horizon, and only a completed one has a record.
Counted ==
  /\ arena.completed <= arena.attempts /\ arena.attempts <= call.horizon
  /\ arena.frames <= arena.completed
  /\ arena.frames > 0 => ~call.summary
  /\ arena.evaluated = NotEvaluated \/ arena.evaluated <= call.horizon

\* Up to update n the world did not throw and the player lived, and before
\* n the call went on.
Lived(n) == n < world.death /\ n < world.throws
WentOn(n) == n < world.death /\ n < world.terminal /\ (call.captures => n < world.lost)

\* What the branch has stored when it is at each of its steps.
Untouched ==
  /\ arena.status = "incomplete" /\ arena.attempts = 0 /\ arena.completed = 0
  /\ arena.frames = 0 /\ arena.evaluated = NotEvaluated /\ ~arena.allCaptures
Stored(attempts, frames) ==
  /\ arena.attempts = attempts /\ arena.frames = IF call.summary THEN 0 ELSE frames
OnItsWay ==
  LET n == arena.completed
  IN  /\ branch \in {"none", "born", "guarded", "enter"} => Untouched
      /\ branch \in {"top", "attempt", "step", "stepped", "record", "judge"} =>
           /\ arena.status = "incomplete" /\ arena.evaluated = NotEvaluated
           /\ ~arena.allCaptures /\ n < world.throws
      /\ branch = "top" => Stored(n, n) /\ n < world.death /\ (n > 0 => WentOn(n))
      /\ branch = "attempt" => Stored(n, n) /\ n < call.horizon /\ WentOn(n)
      /\ branch = "step" => Stored(n + 1, n) /\ n < call.horizon /\ WentOn(n)
      /\ branch = "stepped" =>
           Stored(n + 1, n) /\ n < call.horizon /\ WentOn(n) /\ n + 1 < world.throws
      /\ branch = "record" => Stored(n, n - 1) /\ n > 0 /\ WentOn(n - 1) /\ ~call.summary
      /\ branch = "judge" => Stored(n, n) /\ n > 0 /\ WentOn(n - 1)

\* What a status the branch has chosen itself says of the world.
Truthful ==
  LET n == arena.completed
  IN  /\ arena.status \in Ends \cup {"fault"}
      /\ arena.status \in Ends => Stored(n, n)
      /\ arena.status \in {"horizon", "terminal"} =>
           Lived(n) /\ (call.captures => n < world.lost)
      /\ arena.status = "horizon" => n = call.horizon /\ n < world.terminal
      /\ arena.status = "terminal" => world.terminal <= n /\ (n > 0 => n = world.terminal)
\* Why the head of the loop may choose a status.
Meant(status) ==
  LET n == arena.completed
  IN  /\ status \in {"horizon", "terminal"} => (call.captures => n < world.lost)
      /\ status = "horizon" => n = call.horizon /\ n < world.terminal
      /\ status = "terminal" => world.terminal <= n /\ (n > 0 => n = world.terminal)
Audited ==
  arena.allCaptures => arena.status = "terminal" /\ world.gates
Ended ==
  /\ branch \in {"over", "audit", "exit"} => Truthful /\ Audited
  /\ exit = "zero" => Truthful /\ Audited
  /\ branch = "over" => arena.evaluated = NotEvaluated /\ ~arena.allCaptures
  /\ branch = "audit" => call.summary /\ arena.evaluated = arena.completed /\ ~arena.allCaptures
  /\ branch = "exit" \/ exit = "zero" =>
       (call.summary /\ arena.status # "fault" => arena.evaluated = arena.completed)

\* What has been returned is what Return computed from the arena, which
\* nobody writes any more.
Returned ==
  /\ owner # "returned" => result = NoResult
  /\ owner = "returned" =>
       /\ Interrupted(result.status) \/ (exit = "zero" /\ result.status = arena.status)
       /\ result.attempts = arena.attempts /\ result.completed = arena.completed
       /\ result.charged = IF Interrupted(result.status) THEN call.horizon ELSE arena.completed
       /\ result.frames = IF call.summary \/ Interrupted(result.status) THEN 0 ELSE arena.frames
       /\ result.evaluated =
            IF Interrupted(result.status) THEN NotEvaluated ELSE arena.evaluated
       /\ result.allCaptures = (~Interrupted(result.status) /\ arena.allCaptures)

IInv == Typed /\ Fate /\ Counted /\ OnItsWay /\ Ended /\ Returned
----
\* What the types say of the numbers involved.
LEMMA Numbers ==
  ASSUME Typed
  PROVE  /\ call.horizon \in Nat /\ call.inputs \in Nat /\ call.first \in Nat
         /\ call.summary \in BOOLEAN /\ call.captures \in BOOLEAN /\ call.guided \in BOOLEAN
         /\ world.death \in Nat /\ world.death > 0 /\ world.lost \in Nat
         /\ world.terminal \in Nat /\ world.throws \in Nat /\ world.throws > 0
         /\ world.gates \in BOOLEAN
         /\ arena.attempts \in Nat /\ arena.completed \in Nat /\ arena.frames \in Nat
         /\ arena.evaluated \in Nat \cup {NotEvaluated} /\ arena.allCaptures \in BOOLEAN
         /\ arena.status \in Statuses
<1>1. call \in Call BY CallAssumption DEF Typed
<1>2. world \in World /\ Moments \subseteq Nat BY CallAssumption DEF Typed
<1>3. arena \in ArenaType BY DEF Typed
<1>4. /\ call.horizon \in Nat /\ call.inputs \in Nat /\ call.first \in Nat
      /\ call.summary \in BOOLEAN /\ call.captures \in BOOLEAN /\ call.guided \in BOOLEAN
  BY <1>1 DEF Call
<1>5. /\ world.death \in Nat /\ world.death # 0 /\ world.lost \in Nat
      /\ world.terminal \in Nat /\ world.throws \in Nat /\ world.throws # 0
      /\ world.gates \in BOOLEAN
  BY <1>2 DEF World
<1> QED BY <1>3, <1>4, <1>5 DEF ArenaType

LEMMA InitInv == Init => IInv
<1> SUFFICES ASSUME Init PROVE IInv OBVIOUS
<1>1. Typed BY DEF Init, Typed, ArenaType, Statuses, OwnerSteps, BranchSteps
<1>2. call.horizon \in Nat BY <1>1, Numbers
<1> QED BY <1>1, <1>2 DEF Init, IInv, Fate, Counted, OnItsWay, Untouched, Ended, Returned

LEMMA ProtectInv == ASSUME IInv, Protect PROVE IInv'
<1>1. Typed /\ Typed'
  BY DEF IInv, Typed, ArenaType, Statuses, OwnerSteps, BranchSteps, Protect, At, Goto, Exit, Store, Alone
<1> USE Numbers
<1>2. Fate' /\ Counted'
  BY <1>1 DEF IInv, Typed, ArenaType, Fate, Counted, OnItsWay, Untouched, Stored, Ended,
    Truthful, Protect, At, Goto, Exit, Store, Alone
<1>3. OnItsWay'
  BY <1>1 DEF IInv, Typed, ArenaType, Fate, OnItsWay, Untouched, Stored, WentOn, Protect, At,
    Goto, Exit, Store, Alone
<1>4. Ended'
  BY <1>1 DEF IInv, Typed, ArenaType, Fate, Counted, OnItsWay, Untouched, Stored, Lived, WentOn,
    Ended, Ends, Truthful, Audited, Protect, At, Goto, Exit, Store, Alone
<1>5. Returned' BY DEF IInv, Fate, Returned, Protect, At, Goto, Exit, Store, Alone
<1> QED BY <1>1, <1>2, <1>3, <1>4, <1>5 DEF IInv

LEMMA CheckParentInv == ASSUME IInv, CheckParent PROVE IInv'
<1>1. Typed /\ Typed'
  BY DEF IInv, Typed, ArenaType, Statuses, OwnerSteps, BranchSteps, CheckParent, At, Goto, Exit, Store, Alone
<1> USE Numbers
<1>2. Fate' /\ Counted'
  BY <1>1 DEF IInv, Typed, ArenaType, Fate, Counted, OnItsWay, Untouched, Stored, Ended,
    Truthful, CheckParent, At, Goto, Exit, Store, Alone
<1>3. OnItsWay'
  BY <1>1 DEF IInv, Typed, ArenaType, Fate, OnItsWay, Untouched, Stored, WentOn, CheckParent,
    At, Goto, Exit, Store, Alone
<1>4. Ended'
  BY <1>1 DEF IInv, Typed, ArenaType, Fate, Counted, OnItsWay, Untouched, Stored, Lived, WentOn,
    Ended, Ends, Truthful, Audited, CheckParent, At, Goto, Exit, Store, Alone
<1>5. Returned' BY DEF IInv, Fate, Returned, CheckParent, At, Goto, Exit, Store, Alone
<1> QED BY <1>1, <1>2, <1>3, <1>4, <1>5 DEF IInv

LEMMA EnterInv == ASSUME IInv, Enter PROVE IInv'
<1>1. Typed /\ Typed'
  BY DEF IInv, Typed, ArenaType, Statuses, OwnerSteps, BranchSteps, Enter, At, Goto, Exit, Store, Alone, Caught
<1> USE Numbers
<1>2. Fate' /\ Counted'
  BY <1>1 DEF IInv, Typed, ArenaType, Fate, Counted, OnItsWay, Untouched, Stored, Ended,
    Truthful, Enter, At, Goto, Exit, Store, Alone, Caught
<1>3. OnItsWay'
  BY <1>1 DEF IInv, Typed, ArenaType, Fate, OnItsWay, Untouched, Stored, WentOn, Enter, At,
    Goto, Exit, Store, Alone, Caught
<1>4. Ended'
  BY <1>1 DEF IInv, Typed, ArenaType, Fate, Counted, OnItsWay, Untouched, Stored, Lived, WentOn,
    Ended, Ends, Truthful, Audited, Enter, At, Goto, Exit, Store, Alone, Caught
<1>5. Returned' BY DEF IInv, Fate, Returned, Enter, At, Goto, Exit, Store, Alone, Caught
<1> QED BY <1>1, <1>2, <1>3, <1>4, <1>5 DEF IInv

LEMMA TopInv == ASSUME IInv, Top PROVE IInv'
<1>1. Typed /\ Typed'
  BY DEF IInv, Typed, ArenaType, Statuses, OwnerSteps, BranchSteps, Top, At, Goto, Exit, Store,
    Alone, Finish, Caught, CaptureLost, Cleared
<1> USE Numbers
<1>2. Fate' /\ Counted'
  BY <1>1 DEF IInv, Typed, ArenaType, Fate, Counted, OnItsWay, Untouched, Stored, Ended,
    Truthful, Top, At, Goto, Exit, Store, Alone, Finish, Caught, CaptureLost, Cleared
<1>3. OnItsWay'
 <2>1. OnItsWay /\ branch = "top" /\ call' = call /\ world' = world BY DEF IInv, Top, At, Alone
 <2>2. CASE branch' = "attempt"
  <3>1. /\ arena' = arena /\ arena.completed < call.horizon
        /\ ~CaptureLost /\ ~Cleared
    BY <2>2 DEF Top, Goto, Finish, Caught, Store
  <3>2. WentOn(arena.completed) BY <1>1, <2>1, <3>1 DEF OnItsWay, WentOn, CaptureLost, Cleared
  <3> QED BY <1>1, <2>1, <2>2, <3>1, <3>2 DEF OnItsWay, Stored, WentOn
 <2>3. CASE branch' # "attempt"
  <3>1. branch' \in {"over", "exit"} BY <2>3 DEF Top, Goto, Finish, Caught, Store
  <3> QED BY <3>1 DEF OnItsWay
 <2> QED BY <2>2, <2>3
<1>4. Ended'
 <2>1. /\ branch = "top" /\ exit = "none" /\ exit' = exit
       /\ UNCHANGED <<call, world, owner>>
   BY DEF IInv, Fate, Top, At, Alone, Goto, Finish, Caught, Store
 <2>2. Stored(arena.completed, arena.completed) /\ arena.evaluated = NotEvaluated
       /\ ~arena.allCaptures /\ Lived(arena.completed)
       /\ (arena.completed > 0 => WentOn(arena.completed)) /\ call.horizon > 0
   BY <1>1, <2>1 DEF IInv, OnItsWay, Lived, Fate, Valid
 <2>3. CASE \E status \in Ends : Finish(status) /\ Meant(status)
  <3>1. PICK status \in Ends : Finish(status) /\ Meant(status) BY <2>3
  <3>2. /\ branch' = "over" /\ arena'.status = status
        /\ arena'.completed = arena.completed /\ arena'.attempts = arena.attempts
        /\ arena'.frames = arena.frames /\ arena'.evaluated = arena.evaluated
        /\ arena'.allCaptures = arena.allCaptures
    BY <1>1, <3>1 DEF Finish, Store, Goto, Typed, ArenaType
  <3> QED BY <2>1, <2>2, <3>1, <3>2 DEF Ended, Truthful, Audited, Stored, Lived, Meant
 <2>4. CASE Caught \/ branch' = "attempt"
   BY <1>1, <2>1, <2>2, <2>4 DEF Typed, ArenaType, Ended, Truthful, Audited, Caught, Store, Goto, Ends
 <2> QED BY <1>1, <2>1, <2>2, <2>3, <2>4 DEF Top, Goto, Ends, Meant, CaptureLost, Cleared, WentOn, Lived
<1>5. Returned'
  BY DEF IInv, Fate, Returned, Top, At, Goto, Exit, Store, Alone, Finish, Caught, CaptureLost, Cleared
<1> QED BY <1>1, <1>2, <1>3, <1>4, <1>5 DEF IInv

LEMMA AttemptInv == ASSUME IInv, Attempt PROVE IInv'
<1>1. Typed /\ Typed'
  BY DEF IInv, Typed, ArenaType, Statuses, OwnerSteps, BranchSteps, Attempt, At, Goto, Exit, Store, Alone
<1> USE Numbers
<1>2. Fate' /\ Counted'
  BY <1>1 DEF IInv, Typed, ArenaType, Fate, Counted, OnItsWay, Untouched, Stored, Ended,
    Truthful, Attempt, At, Goto, Exit, Store, Alone
<1>3. OnItsWay'
  BY <1>1 DEF IInv, Typed, ArenaType, Fate, OnItsWay, Untouched, Stored, WentOn, Attempt, At,
    Goto, Exit, Store, Alone
<1>4. Ended'
  BY <1>1 DEF IInv, Typed, ArenaType, Fate, Counted, OnItsWay, Untouched, Stored, Lived, WentOn,
    Ended, Ends, Truthful, Audited, Attempt, At, Goto, Exit, Store, Alone
<1>5. Returned' BY DEF IInv, Fate, Returned, Attempt, At, Goto, Exit, Store, Alone
<1> QED BY <1>1, <1>2, <1>3, <1>4, <1>5 DEF IInv

LEMMA StepWorldInv == ASSUME IInv, StepWorld PROVE IInv'
<1>1. Typed /\ Typed'
  BY DEF IInv, Typed, ArenaType, Statuses, OwnerSteps, BranchSteps, StepWorld, At, Goto, Exit,
    Store, Alone, Finish
<1> USE Numbers
<1>2. Fate' /\ Counted'
  BY <1>1 DEF IInv, Typed, ArenaType, Fate, Counted, OnItsWay, Untouched, Stored, Ended,
    Truthful, StepWorld, At, Goto, Exit, Store, Alone, Finish
<1>3. OnItsWay'
  BY <1>1 DEF IInv, Typed, ArenaType, Fate, OnItsWay, Untouched, Stored, WentOn, StepWorld, At,
    Goto, Exit, Store, Alone, Finish
<1>4. Ended'
  BY <1>1 DEF IInv, Typed, ArenaType, Fate, Counted, OnItsWay, Untouched, Stored, Lived, WentOn,
    Ended, Ends, Truthful, Audited, StepWorld, At, Goto, Exit, Store, Alone, Finish
<1>5. Returned' BY DEF IInv, Fate, Returned, StepWorld, At, Goto, Exit, Store, Alone, Finish
<1> QED BY <1>1, <1>2, <1>3, <1>4, <1>5 DEF IInv

LEMMA CompleteInv == ASSUME IInv, Complete PROVE IInv'
<1>1. Typed /\ Typed'
  BY DEF IInv, Typed, ArenaType, Statuses, OwnerSteps, BranchSteps, Complete, At, Goto, Exit, Store, Alone
<1> USE Numbers
<1>2. Fate' /\ Counted'
  BY <1>1 DEF IInv, Typed, ArenaType, Fate, Counted, OnItsWay, Untouched, Stored, Ended,
    Truthful, Complete, At, Goto, Exit, Store, Alone
<1>3. OnItsWay'
  BY <1>1 DEF IInv, Typed, ArenaType, Fate, OnItsWay, Untouched, Stored, WentOn, Complete, At,
    Goto, Exit, Store, Alone
<1>4. Ended'
  BY <1>1 DEF IInv, Typed, ArenaType, Fate, Counted, OnItsWay, Untouched, Stored, Lived, WentOn,
    Ended, Ends, Truthful, Audited, Complete, At, Goto, Exit, Store, Alone
<1>5. Returned' BY DEF IInv, Fate, Returned, Complete, At, Goto, Exit, Store, Alone
<1> QED BY <1>1, <1>2, <1>3, <1>4, <1>5 DEF IInv

LEMMA RecordInv == ASSUME IInv, Record PROVE IInv'
<1>1. Typed /\ Typed'
  BY DEF IInv, Typed, ArenaType, Statuses, OwnerSteps, BranchSteps, Record, At, Goto, Exit, Store, Alone
<1> USE Numbers
<1>2. Fate' /\ Counted'
  BY <1>1 DEF IInv, Typed, ArenaType, Fate, Counted, OnItsWay, Untouched, Stored, Ended,
    Truthful, Record, At, Goto, Exit, Store, Alone
<1>3. OnItsWay'
  BY <1>1 DEF IInv, Typed, ArenaType, Fate, OnItsWay, Untouched, Stored, WentOn, Record, At,
    Goto, Exit, Store, Alone
<1>4. Ended'
  BY <1>1 DEF IInv, Typed, ArenaType, Fate, Counted, OnItsWay, Untouched, Stored, Lived, WentOn,
    Ended, Ends, Truthful, Audited, Record, At, Goto, Exit, Store, Alone
<1>5. Returned' BY DEF IInv, Fate, Returned, Record, At, Goto, Exit, Store, Alone
<1> QED BY <1>1, <1>2, <1>3, <1>4, <1>5 DEF IInv

LEMMA JudgeInv == ASSUME IInv, Judge PROVE IInv'
<1>1. Typed /\ Typed'
  BY DEF IInv, Typed, ArenaType, Statuses, OwnerSteps, BranchSteps, Judge, At, Goto, Exit,
    Store, Alone, Finish, Caught, CaptureLost, Cleared, Dead
<1> USE Numbers
<1>2. Fate' /\ Counted'
  BY <1>1 DEF IInv, Typed, ArenaType, Fate, Counted, OnItsWay, Untouched, Stored, Ended,
    Truthful, Judge, At, Goto, Exit, Store, Alone, Finish, Caught, CaptureLost, Cleared, Dead
<1>3. OnItsWay'
  BY <1>1 DEF IInv, Typed, ArenaType, Fate, OnItsWay, Untouched, Stored, WentOn, Judge, At,
    Goto, Exit, Store, Alone, Finish, Caught, CaptureLost, Cleared, Dead
<1>4. Ended'
  BY <1>1 DEF IInv, Typed, ArenaType, Fate, Counted, OnItsWay, Untouched, Stored, Lived, WentOn,
    Ended, Ends, Truthful, Audited, Judge, At, Goto, Exit, Store, Alone, Finish, Caught,
    CaptureLost, Cleared, Dead
<1>5. Returned'
  BY DEF IInv, Fate, Returned, Judge, At, Goto, Exit, Store, Alone, Finish, Caught, CaptureLost, Cleared, Dead
<1> QED BY <1>1, <1>2, <1>3, <1>4, <1>5 DEF IInv

LEMMA EvaluateInv == ASSUME IInv, Evaluate PROVE IInv'
<1>1. Typed /\ Typed'
  BY DEF IInv, Typed, ArenaType, Statuses, OwnerSteps, BranchSteps, Evaluate, At, Goto, Exit, Store, Alone
<1> USE Numbers
<1>2. Fate' /\ Counted'
  BY <1>1 DEF IInv, Typed, ArenaType, Fate, Counted, OnItsWay, Untouched, Stored, Ended,
    Truthful, Evaluate, At, Goto, Exit, Store, Alone
<1>3. OnItsWay'
  BY <1>1 DEF IInv, Typed, ArenaType, Fate, OnItsWay, Untouched, Stored, WentOn, Evaluate, At,
    Goto, Exit, Store, Alone
<1>4. Ended'
  BY <1>1 DEF IInv, Typed, ArenaType, Fate, Counted, OnItsWay, Untouched, Stored, Lived, WentOn,
    Ended, Ends, Truthful, Audited, Evaluate, At, Goto, Exit, Store, Alone
<1>5. Returned' BY DEF IInv, Fate, Returned, Evaluate, At, Goto, Exit, Store, Alone
<1> QED BY <1>1, <1>2, <1>3, <1>4, <1>5 DEF IInv

LEMMA AuditInv == ASSUME IInv, Audit PROVE IInv'
<1>1. Typed /\ Typed'
  BY ZenonT(40) DEF IInv, Typed, ArenaType, Statuses, OwnerSteps, BranchSteps, Audit, At, Goto, Exit,
    Store, Alone, Caught, Dead
<1> USE Numbers
<1>2. Fate' /\ Counted'
  BY <1>1 DEF IInv, Typed, ArenaType, Fate, Counted, OnItsWay, Untouched, Stored, Ended,
    Truthful, Audit, At, Goto, Exit, Store, Alone, Caught, Dead
<1>3. OnItsWay'
  BY <1>1 DEF IInv, Typed, ArenaType, Fate, OnItsWay, Untouched, Stored, WentOn, Audit, At,
    Goto, Exit, Store, Alone, Caught, Dead
<1>4. Ended'
  BY <1>1 DEF IInv, Typed, ArenaType, Fate, Counted, OnItsWay, Untouched, Stored, Lived, WentOn,
    Ended, Ends, Truthful, Audited, Audit, At, Goto, Exit, Store, Alone, Caught, Dead
<1>5. Returned' BY DEF IInv, Fate, Returned, Audit, At, Goto, Exit, Store, Alone, Caught, Dead
<1> QED BY <1>1, <1>2, <1>3, <1>4, <1>5 DEF IInv

LEMMA LeaveInv == ASSUME IInv, Leave PROVE IInv'
<1>1. Typed /\ Typed'
  BY DEF IInv, Typed, ArenaType, Statuses, OwnerSteps, BranchSteps, Leave, At, Goto, Exit, Store, Alone
<1> USE Numbers
<1>2. Fate' /\ Counted'
  BY <1>1 DEF IInv, Typed, ArenaType, Fate, Counted, OnItsWay, Untouched, Stored, Ended,
    Truthful, Leave, At, Goto, Exit, Store, Alone
<1>3. OnItsWay'
  BY <1>1 DEF IInv, Typed, ArenaType, Fate, OnItsWay, Untouched, Stored, WentOn, Leave, At,
    Goto, Exit, Store, Alone
<1>4. Ended'
  BY <1>1 DEF IInv, Typed, ArenaType, Fate, Counted, OnItsWay, Untouched, Stored, Lived, WentOn,
    Ended, Ends, Truthful, Audited, Leave, At, Goto, Exit, Store, Alone
<1>5. Returned' BY DEF IInv, Fate, Returned, Leave, At, Goto, Exit, Store, Alone
<1> QED BY <1>1, <1>2, <1>3, <1>4, <1>5 DEF IInv

LEMMA CrashInv == ASSUME IInv, Crash PROVE IInv'
<1>1. Typed /\ Typed'
  BY DEF IInv, Typed, ArenaType, Statuses, OwnerSteps, BranchSteps, Crash, At, Goto, Exit, Store, Alone, Running
<1> USE Numbers
<1>2. Fate' /\ Counted'
  BY <1>1 DEF IInv, Typed, ArenaType, Fate, Counted, OnItsWay, Untouched, Stored, Ended,
    Truthful, Crash, At, Goto, Exit, Store, Alone, Running
<1>3. OnItsWay'
  BY <1>1 DEF IInv, Typed, ArenaType, Fate, OnItsWay, Untouched, Stored, WentOn, Crash, At,
    Goto, Exit, Store, Alone, Running
<1>4. Ended'
  BY <1>1 DEF IInv, Typed, ArenaType, Fate, Counted, OnItsWay, Untouched, Stored, Lived, WentOn,
    Ended, Ends, Truthful, Audited, Crash, At, Goto, Exit, Store, Alone, Running
<1>5. Returned' BY DEF IInv, Fate, Returned, Crash, At, Goto, Exit, Store, Alone, Running
<1> QED BY <1>1, <1>2, <1>3, <1>4, <1>5 DEF IInv

\* What Return reports of an arena that has been judged.
LEMMA ReturnedByReturn ==
  ASSUME Typed, NEW status, Return(status), result = NoResult, UNCHANGED <<call, arena>>,
         Interrupted(status) \/ (exit' = "zero" /\ status = arena.status)
  PROVE  Returned'
<1>1. /\ owner' = "returned" /\ result'.status = status
      /\ result'.attempts = arena.attempts /\ result'.completed = arena.completed
      /\ result'.charged = IF Interrupted(status) THEN call.horizon ELSE arena.completed
      /\ result'.frames = IF call.summary \/ Interrupted(status) THEN 0 ELSE arena.frames
      /\ result'.evaluated = IF Interrupted(status) THEN NotEvaluated ELSE arena.evaluated
      /\ result'.allCaptures = (~Interrupted(status) /\ arena.allCaptures)
  BY DEF Return
<1> QED BY <1>1, Zenon DEF Returned, Interrupted

LEMMA LateInv == ASSUME IInv, Late PROVE IInv'
<1>1. Typed /\ Typed' BY DEF IInv, Typed, OwnerSteps, BranchSteps, Late, branchVars
<1> USE Numbers
<1>2. Fate' /\ Counted' BY <1>1 DEF IInv, Fate, Counted, Late, branchVars
<1>3. OnItsWay' /\ Ended'
  BY <1>1 DEF IInv, Fate, OnItsWay, Untouched, Stored, WentOn, Ended, Truthful, Audited, Lived, Late, branchVars
<1>4. Returned' BY <1>1 DEF IInv, Typed, Fate, Returned, Ended, Truthful, Late, branchVars
<1> QED BY <1>1, <1>2, <1>3, <1>4 DEF IInv

LEMMA RefuseInv == ASSUME IInv, Refuse PROVE IInv'
<1>1. Typed /\ Typed' BY DEF IInv, Typed, OwnerSteps, BranchSteps, Refuse, branchVars
<1> USE Numbers
<1>2. Fate' /\ Counted' BY <1>1 DEF IInv, Fate, Counted, Refuse, branchVars
<1>3. OnItsWay' /\ Ended'
  BY <1>1 DEF IInv, Fate, OnItsWay, Untouched, Stored, WentOn, Ended, Truthful, Audited, Lived,
    Refuse, branchVars
<1>4. Returned' BY <1>1 DEF IInv, Typed, Fate, Returned, Ended, Truthful, Refuse, branchVars
<1> QED BY <1>1, <1>2, <1>3, <1>4 DEF IInv

LEMMA ForkInv == ASSUME IInv, Fork PROVE IInv'
<1>1. Typed /\ Typed' BY DEF IInv, Typed, OwnerSteps, BranchSteps, Fork, Goto
<1> USE Numbers
<1>2. Fate' /\ Counted' BY <1>1 DEF IInv, Fate, Counted, Fork, Goto
<1>3. OnItsWay' /\ Ended'
  BY <1>1 DEF IInv, Fate, OnItsWay, Untouched, Stored, WentOn, Ended, Truthful, Audited, Lived, Fork, Goto
<1>4. Returned' BY <1>1 DEF IInv, Typed, Fate, Returned, Ended, Truthful, Fork, Goto
<1> QED BY <1>1, <1>2, <1>3, <1>4 DEF IInv

LEMMA WaitInv == ASSUME IInv, Wait PROVE IInv'
<1>1. Typed /\ Typed' BY DEF IInv, Typed, OwnerSteps, BranchSteps, Wait, Return, Running, branchVars
<1> USE Numbers
<1>2. Fate' /\ Counted' BY <1>1 DEF IInv, Fate, Counted, Wait, Return, Running, branchVars
<1>3. OnItsWay' /\ Ended'
  BY <1>1 DEF IInv, Fate, OnItsWay, Untouched, Stored, WentOn, Ended, Truthful, Audited, Lived,
    Wait, Return, Running, branchVars
<1>4. Returned'
 <2>1. Typed /\ result = NoResult /\ UNCHANGED <<call, arena, exit>> BY DEF IInv, Returned, Wait, branchVars
 <2>2. CASE branch = "gone" /\ Return(IF exit = "zero" THEN arena.status ELSE "fault")
   BY <2>1, <2>2, ReturnedByReturn DEF Interrupted
 <2>3. CASE Return("fault") BY <2>1, <2>3, ReturnedByReturn DEF Interrupted
 <2>4. CASE owner' = "clock" /\ UNCHANGED result BY <2>1, <2>4 DEF Returned
 <2> QED BY <2>2, <2>3, <2>4 DEF Wait
<1> QED BY <1>1, <1>2, <1>3, <1>4 DEF IInv

LEMMA CheckClockInv == ASSUME IInv, CheckClock PROVE IInv'
<1>1. Typed /\ Typed' BY DEF IInv, Typed, OwnerSteps, BranchSteps, CheckClock, branchVars
<1> USE Numbers
<1>2. Fate' /\ Counted' BY <1>1 DEF IInv, Fate, Counted, CheckClock, branchVars
<1>3. OnItsWay' /\ Ended'
  BY <1>1 DEF IInv, Fate, OnItsWay, Untouched, Stored, WentOn, Ended, Truthful, Audited, Lived,
    CheckClock, branchVars
<1>4. Returned' BY <1>1 DEF IInv, Typed, Fate, Returned, Ended, Truthful, CheckClock, branchVars
<1> QED BY <1>1, <1>2, <1>3, <1>4 DEF IInv

LEMMA KillInv == ASSUME IInv, Kill PROVE IInv'
<1>1. Typed /\ Typed' BY DEF IInv, Typed, OwnerSteps, BranchSteps, Kill, Return, Exit, Goto, Running
<1> USE Numbers
<1>2. Fate' /\ Counted' BY <1>1 DEF IInv, Fate, Counted, Kill, Return, Exit, Goto, Running
<1>3. OnItsWay' /\ Ended'
  BY <1>1 DEF IInv, Fate, OnItsWay, Untouched, Stored, WentOn, Ended, Truthful, Audited, Lived,
    Kill, Return, Exit, Goto, Running
<1>4. Returned'
 <2>1. Typed /\ result = NoResult /\ UNCHANGED <<call, arena>> BY DEF IInv, Returned, Kill
 <2> QED BY <2>1, ReturnedByReturn DEF Kill, Interrupted
<1> QED BY <1>1, <1>2, <1>3, <1>4 DEF IInv

LEMMA OwnerDiesInv == ASSUME IInv, OwnerDies PROVE IInv'
<1>1. Typed /\ Typed' BY DEF IInv, Typed, OwnerSteps, BranchSteps, OwnerDies, Exit, Goto, Running
<1> USE Numbers
<1>2. Fate' /\ Counted' BY <1>1 DEF IInv, Fate, Counted, OwnerDies, Exit, Goto, Running
<1>3. OnItsWay' /\ Ended'
  BY <1>1 DEF IInv, Fate, OnItsWay, Untouched, Stored, WentOn, Ended, Truthful, Audited, Lived,
    OwnerDies, Exit, Goto, Running
<1>4. Returned' BY <1>1 DEF IInv, Typed, Fate, Returned, Ended, Truthful, OwnerDies, Exit, Goto, Running
<1> QED BY <1>1, <1>2, <1>3, <1>4 DEF IInv

LEMMA NextInv == ASSUME IInv, [Next]_vars PROVE IInv'
<1>1. CASE UNCHANGED vars
  BY <1>1 DEF vars, IInv, Typed, Fate, Counted, OnItsWay, Untouched, Stored, WentOn, Ended,
     Truthful, Audited, Lived, Returned
<1>2. CASE Branch
  BY <1>2, ProtectInv, CheckParentInv, EnterInv, TopInv, AttemptInv, StepWorldInv, CompleteInv,
     RecordInv, JudgeInv, EvaluateInv, AuditInv, LeaveInv, CrashInv DEF Branch
<1>3. CASE Late \/ Owner \/ OwnerDies
  BY <1>3, LateInv, RefuseInv, ForkInv, WaitInv, CheckClockInv, KillInv, OwnerDiesInv DEF Owner
<1> QED BY <1>1, <1>2, <1>3 DEF Next

\* Every reachable state of a rollout satisfies the inductive invariant.
THEOREM Invariance == Spec => []IInv
<1> QED BY InitInv, NextInv, PTL DEF Spec

\* The types of the call's two programs, and an arena never overrun.
THEOREM TypeCorrect == Spec => []TypeOK
<1>1. ASSUME IInv PROVE TypeOK
 <2> USE Numbers
 <2>1. Typed /\ Counted /\ Fate /\ OnItsWay /\ Returned BY <1>1 DEF IInv
 <2>2. arena.frames <= MaximumHorizon BY <2>1, CallAssumption DEF Counted, Fate, Valid, OnItsWay, Untouched
 <2>3. result.status \in Statuses \cup {"none"} BY <2>1 DEF Returned, NoResult, Interrupted, Statuses
 <2> QED BY <2>1, <2>2, <2>3, CallAssumption
       DEF TypeOK, Typed, OwnerSteps, BranchSteps, ArenaType, Counted, Statuses
<1> QED BY <1>1, Invariance, PTL

\* What a certificate says happens is what the world does (CertifiedFuture)
\* and all work is paid for (ChargedInFull), whatever the branch and the
\* clock did to each other.
LEMMA CertificateHolds == ASSUME IInv PROVE CertifiedFuture
<1> SUFFICES ASSUME Certifies PROVE CertifiedFuture BY DEF CertifiedFuture
<1> USE Numbers
<1>1. Typed /\ Fate /\ Counted /\ Ended /\ Returned BY DEF IInv
<1>2. owner = "returned" BY <1>1 DEF Certifies, Returned
<1>3. ~Interrupted(result.status) /\ exit = "zero"
  BY <1>1, <1>2 DEF Certifies, CertifiesFrames, CertifiesTape, Returned, Interrupted
<1>4. /\ result.status = arena.status /\ result.completed = arena.completed
      /\ result.frames = IF call.summary THEN 0 ELSE arena.frames
      /\ result.evaluated = arena.evaluated /\ result.allCaptures = arena.allCaptures
  BY <1>1, <1>2, <1>3 DEF Returned
<1>5. Truthful /\ Audited /\ Valid(call) BY <1>1, <1>2, <1>3 DEF Ended, Fate
<1>6. arena.completed > 0 /\ arena.status \in {"horizon", "terminal"}
  BY <1>1, <1>4 DEF Certifies, CertifiesFrames, CertifiesTape
<1>7. call.summary => /\ arena.evaluated = arena.completed
                      /\ call.captures => world.gates
  BY <1>1, <1>3, <1>4, <1>5, <1>6 DEF Ended, Audited, Certifies, CertifiesTape
<1> QED BY <1>1, <1>4, <1>5, <1>6, <1>7 DEF CertifiedFuture, Truthful, Lived

LEMMA WorkIsPaid == ASSUME IInv PROVE ChargedInFull
<1> USE Numbers
<1> QED BY DEF IInv, ChargedInFull, Fate, Counted, Returned, Interrupted, Ended, Truthful,
     Stored, Ends

\* For every call, world and interleaving a rollout's result is honest.
THEOREM ResultHonest == Spec => []HonestResult
<1>1. IInv => HonestResult BY CertificateHolds, WorkIsPaid DEF HonestResult
<1> QED BY <1>1, Invariance, PTL

----
\* The branches that ask a policy.  What the shared memory holds at each
\* step of the child: as many updates attempted as begun, at most one of
\* them not completed, and never more than the lead; as many lengths as
\* are counted; a status only from the step that leaves.
ChildSteps == {"none", "lead", "playing", "leave", "gone"}
Ran(status) ==
    /\ status \in {"horizon", "death", "capture_failure", "terminal"} => memory.attempts = memory.completed
    /\ status = "horizon" => memory.completed = Lead
ProposeInv ==
    /\ caller \in {"idle", "wait", "returned"} /\ child.step \in ChildSteps
    /\ child = [step |-> child.step, exit |-> child.exit]
    /\ memory = [status |-> memory.status, attempts |-> memory.attempts, completed |-> memory.completed,
                 count |-> memory.count, lengths |-> memory.lengths]
    /\ memory.status \in {"incomplete", "fault", "horizon", "death", "capture_failure", "terminal"}
    /\ memory.attempts \in 0 .. Lead /\ memory.completed \in 0 .. memory.attempts
    /\ memory.lengths \in Seq(Nat) /\ memory.count = Len(memory.lengths) /\ played = memory.attempts
    /\ child.step \in {"none", "lead"} => memory.attempts = memory.completed
    /\ child.step = "playing" => memory.attempts = memory.completed + 1
    /\ child.step \in {"none", "lead", "playing"} => memory.status = "incomplete"
    /\ caller = "idle" => child.step = "none"
    /\ child.step = "leave" => memory.status # "incomplete"
    /\ child.step # "gone" => child.exit # "zero"
    /\ child.exit = "zero" => memory.status # "incomplete"
    /\ Ran(memory.status)
    /\ caller # "returned" => answer = NoAnswer
    /\ caller = "returned" =>
         /\ child.step = "gone"
         /\ answer.inputs \in {<< >>, memory.lengths}
         /\ played <= answer.charged
         /\ answer.status = "horizon" => memory.completed = Lead /\ child.exit = "zero"

\* A batch under way was decided for the updates it is used for, and since
\* then no dialogue was seen, or dialogues are not advanced.
GuideInv ==
    /\ advanceDialogue \in BOOLEAN /\ now \in Nat \ {0} /\ talking \in BOOLEAN /\ lastTalk \in 0 .. now
    /\ batch \in [of : Nat, length : 0 .. Batch, at : Nat] /\ batch.at <= batch.length
    /\ asked \in [of : Nat, at : 0 .. Batch]
    /\ ~talking => lastTalk < now
    /\ talking => lastTalk = now
    /\ batch.at < batch.length =>
         batch.of + batch.at = now /\ (advanceDialogue => lastTalk = now \/ lastTalk < batch.of)
    /\ asked.of > 0 => asked.of + asked.at = now /\ (advanceDialogue => lastTalk = now \/ lastTalk < asked.of)
ProposalInv == ProposeInv /\ GuideInv

BranchInit == ProposeInit /\ GuideInit
BranchNext ==
    \/ ProposeNext /\ UNCHANGED guideVars
    \/ NextInput /\ UNCHANGED proposeVars
BranchSpec == BranchInit /\ [][BranchNext]_<<proposeVars, guideVars>>

LEMMA ProposalNumbers ==
  /\ Lead \in Nat \ {0} /\ MaxProposals \in Nat \ {0} /\ MaxInputs \in Nat \ {0}
  /\ Batch \in Nat \ {0} /\ Continued \in Nat
BY ProposalBranchAssumption

LEMMA GuideStep == ASSUME GuideInv, NextInput PROVE GuideInv'
<1> USE ProposalNumbers
<1>1. /\ advanceDialogue \in BOOLEAN /\ advanceDialogue' = advanceDialogue /\ talking \in BOOLEAN
      /\ now \in Nat \ {0} /\ lastTalk \in 0 .. now /\ now' = now + 1
      /\ batch \in [of : Nat, length : 0 .. Batch, at : Nat] /\ batch.at <= batch.length
      /\ asked \in [of : Nat, at : 0 .. Batch]
  BY DEF GuideInv, NextInput
<1>2. /\ talking' \in BOOLEAN /\ lastTalk' = IF talking' THEN now' ELSE lastTalk
      /\ lastTalk' \in 0 .. now' /\ (~talking' => lastTalk' < now') /\ (talking' => lastTalk' = now')
  BY <1>1 DEF NextInput
<1>3. CASE advanceDialogue /\ talking
 <2>1. /\ batch' = [batch EXCEPT !.length = 0, !.at = 0] /\ asked' = [of |-> 0, at |-> 0]
   BY <1>3 DEF NextInput, Speak
 <2>2. /\ batch' \in [of : Nat, length : 0 .. Batch, at : Nat] /\ batch'.at = batch'.length
       /\ asked' \in [of : Nat, at : 0 .. Batch] /\ asked'.of = 0 /\ batch'.at = 0
  <3>1. batch = [of |-> batch.of, length |-> batch.length, at |-> batch.at] /\ batch.of \in Nat BY <1>1
  <3>2. batch' = [of |-> batch.of, length |-> 0, at |-> 0] BY <2>1, <3>1
  <3>3. 0 \in Nat /\ 0 \in 0 .. Batch OBVIOUS
  <3>4. batch' \in [of : Nat, length : 0 .. Batch, at : Nat] /\ batch'.at = 0 /\ batch'.length = 0
    BY <3>1, <3>2, <3>3
  <3>5. asked' \in [of : Nat, at : 0 .. Batch] /\ asked'.of = 0 BY <2>1, <3>3
  <3> QED BY <3>4, <3>5
 <2>3. ~(batch'.at < batch'.length) /\ ~(asked'.of > 0) /\ batch'.at <= batch'.length BY <2>2
 <2>4. now' \in Nat \ {0} BY <1>1
 <2> QED BY <1>1, <1>2, <2>2, <2>3, <2>4 DEF GuideInv
<1>4. CASE ~(advanceDialogue /\ talking) /\ batch.at < batch.length
 <2>1. /\ batch' = [batch EXCEPT !.at = @ + 1] /\ asked' = [of |-> batch'.of, at |-> batch'.at]
   BY <1>1, <1>4 DEF NextInput
 <2>2. batch.of + batch.at = now /\ (advanceDialogue => lastTalk < batch.of) BY <1>1, <1>4 DEF GuideInv
 <2>3. /\ batch' \in [of : Nat, length : 0 .. Batch, at : Nat] /\ batch'.at <= batch'.length
       /\ batch'.of = batch.of /\ batch'.at = batch.at + 1
   BY <1>1, <1>4, <2>1
 <2>4. asked' \in [of : Nat, at : 0 .. Batch] /\ asked'.of = batch.of /\ asked'.at = batch.at + 1
   BY <1>1, <2>1, <2>3
 <2>5. batch.of + (batch.at + 1) = now' /\ (advanceDialogue => lastTalk' = now' \/ lastTalk' < batch.of) BY <1>1, <1>2, <2>2
 <2> QED BY <1>1, <1>2, <2>3, <2>4, <2>5 DEF GuideInv
<1>5. CASE ~(advanceDialogue /\ talking) /\ ~(batch.at < batch.length)
 <2>1. PICK n \in 1 .. Batch : batch' = [of |-> now, length |-> n, at |-> 1] BY <1>1, <1>5 DEF NextInput
 <2>2. asked' = [of |-> now, at |-> 1] BY <1>5, <2>1 DEF NextInput
 <2>3. advanceDialogue => lastTalk < now BY <1>5 DEF GuideInv
 <2>4. now + 1 = now' /\ (advanceDialogue => lastTalk' = now' \/ lastTalk' < now) BY <1>1, <1>2, <2>3
 <2> QED BY <1>1, <1>2, <2>1, <2>2, <2>4 DEF GuideInv
<1> QED BY <1>3, <1>4, <1>5

\* What is answered of a child that is gone, or was not in time.
LEMMA Answering ==
  ASSUME ProposeInv, caller = "wait", NEW timeout \in BOOLEAN, NEW failed \in BOOLEAN,
         Answered(timeout, failed), memory' = memory, played' = played,
         caller' = "returned", child' = [child EXCEPT !.step = "gone", !.exit = child'.exit],
         ~timeout => child' = child, timeout /\ child.step = "gone" => child'.exit = child.exit,
         child.step # "gone" => child'.exit # "zero"
  PROVE  ProposeInv'
<1> USE ProposalNumbers
<1> DEFINE status == IF timeout THEN "timeout"
                     ELSE IF failed \/ child.exit # "zero" THEN "fault" ELSE memory.status
<1>1. /\ answer'.status = status
      /\ answer'.charged = IF status \in {"timeout", "fault"} THEN Lead ELSE memory.completed
      /\ answer'.inputs = IF status = "horizon" THEN SubSeq(memory.lengths, 1, memory.count) ELSE << >>
  BY DEF Answered
<1>2. SubSeq(memory.lengths, 1, memory.count) = memory.lengths
 <2>1. memory.lengths \in Seq(Nat) /\ memory.count = Len(memory.lengths) BY DEF ProposeInv
 <2> QED BY <2>1
<1>3. status = "horizon" => memory.status = "horizon" /\ child.exit = "zero" /\ ~timeout OBVIOUS
<1>4. status \notin {"timeout", "fault"} => memory.attempts = memory.completed BY DEF ProposeInv, Ran
<1>5. memory.attempts \in 0 .. Lead /\ memory.completed \in Nat /\ played = memory.attempts
      /\ (memory.status = "horizon" => memory.completed = Lead)
  BY DEF ProposeInv, Ran
<1> HIDE DEF status
<1>6. played <= answer'.charged BY <1>1, <1>4, <1>5
<1>7. /\ child'.step = "gone" /\ child' = [step |-> child'.step, exit |-> child'.exit]
      /\ (child'.exit = "zero" => child.exit = "zero")
 <2>1. child = [step |-> child.step, exit |-> child.exit] BY DEF ProposeInv
 <2>2. child'.exit = "zero" => child.exit = "zero" BY DEF ProposeInv
 <2> QED BY <2>1, <2>2
<1>8. answer'.status = "horizon" => memory.completed = Lead /\ child'.exit = "zero" BY <1>1, <1>3, <1>5
<1>9. answer'.inputs \in {<< >>, memory.lengths} BY <1>1, <1>2
<1> QED BY <1>6, <1>7, <1>8, <1>9 DEF ProposeInv, Ran, ChildSteps

\* Steps that leave the shared memory and the answer alone.
LEMMA QuietPropose ==
  ASSUME ProposeInv, Launch \/ Elapse \/ Depart \/ Perish
  PROVE  ProposeInv'
<1>1. /\ memory' = memory /\ answer' = answer /\ played' = played
      /\ child = [step |-> child.step, exit |-> child.exit]
  BY DEF Launch, Elapse, Depart, Perish, ProposeInv
<1>2. CASE Launch
 <2>1. /\ caller = "idle" /\ caller' = "wait" /\ child' = [child EXCEPT !.step = "lead"]
       /\ child.step = "none" /\ child.exit # "zero"
   BY <1>2 DEF Launch, ProposeInv
 <2>2. /\ child'.step = "lead" /\ child'.exit = child.exit
       /\ child' = [step |-> child'.step, exit |-> child'.exit]
   BY <1>1, <2>1
 <2> QED BY <1>1, <2>1, <2>2 DEF ProposeInv, Ran, ChildSteps
<1>3. CASE Elapse BY <1>1, <1>3 DEF Elapse, ProposeInv, Ran, ChildSteps
<1>4. CASE Depart BY <1>1, <1>4 DEF Depart, Inside, ProposeInv, Ran, ChildSteps
<1>5. CASE Perish BY <1>1, <1>5 DEF Perish, ProposeInv, Ran, ChildSteps
<1> QED BY <1>2, <1>3, <1>4, <1>5

\* Steps of the child that write to the shared memory.
LEMMA WritePropose ==
  ASSUME ProposeInv, Play \/ Finish1 \/ Consider
  PROVE  ProposeInv'
<1> USE ProposalNumbers
<1>1. /\ child = [step |-> child.step, exit |-> child.exit] /\ child.exit # "zero"
      /\ memory = [status |-> memory.status, attempts |-> memory.attempts,
                   completed |-> memory.completed, count |-> memory.count,
                   lengths |-> memory.lengths]
      /\ caller' = caller /\ caller = "wait" /\ answer' = answer /\ answer = NoAnswer
      /\ child'.exit = child.exit /\ child' = [step |-> child'.step, exit |-> child'.exit]
  BY DEF Play, Finish1, Consider, Inside, Then, Says, ProposeInv
<1>2. /\ memory.attempts \in 0 .. Lead /\ memory.completed \in 0 .. memory.attempts
      /\ memory.lengths \in Seq(Nat) /\ memory.count = Len(memory.lengths)
      /\ played = memory.attempts /\ Ran(memory.status)
      /\ memory.status \in {"incomplete", "fault", "horizon", "death", "capture_failure", "terminal"}
  BY DEF ProposeInv
<1>3. CASE Play
 <2>1. /\ memory' = [memory EXCEPT !.attempts = @ + 1] /\ played' = played + 1
       /\ child'.step = "playing" /\ child.step = "lead" /\ memory.completed < Lead
   BY <1>1, <1>3 DEF Play, Inside, Then
 <2>2. memory.attempts = memory.completed BY <2>1 DEF ProposeInv
 <2>3. /\ memory'.attempts = memory.attempts + 1 /\ memory'.completed = memory.completed
       /\ memory'.lengths = memory.lengths /\ memory'.count = memory.count
       /\ memory'.status = memory.status
       /\ memory' = [status |-> memory'.status, attempts |-> memory'.attempts,
                     completed |-> memory'.completed, count |-> memory'.count,
                     lengths |-> memory'.lengths]
   BY <1>1, <2>1
 <2>4. memory'.attempts \in 0 .. Lead /\ memory'.completed \in 0 .. memory'.attempts
       /\ memory'.attempts = memory'.completed + 1
   BY <1>2, <2>1, <2>2, <2>3
 <2>5. memory.status = "incomplete" BY <2>1 DEF ProposeInv
 <2> QED BY <1>1, <1>2, <2>1, <2>3, <2>4, <2>5 DEF ProposeInv, Ran, ChildSteps
<1>4. ASSUME Finish1 PROVE ProposeInv'
 <2>1. /\ child.step = "playing" /\ played' = played
       /\ memory.attempts = memory.completed + 1 /\ memory.status = "incomplete"
   BY <1>4 DEF Finish1, Inside, ProposeInv
 <2>2. CASE Says("fault")
  <3>1. /\ memory' = [memory EXCEPT !.status = "fault"] /\ child'.step = "leave" BY <1>1, <2>2 DEF Says, Then
  <3>2. /\ memory'.attempts = memory.attempts /\ memory'.completed = memory.completed
        /\ memory'.lengths = memory.lengths /\ memory'.count = memory.count
        /\ memory'.status = "fault"
        /\ memory' = [status |-> memory'.status, attempts |-> memory'.attempts,
                      completed |-> memory'.completed, count |-> memory'.count,
                      lengths |-> memory'.lengths]
    BY <1>1, <3>1
  <3> QED BY <1>1, <1>2, <2>1, <3>1, <3>2 DEF ProposeInv, Ran, ChildSteps
 <2>3. CASE memory' = [memory EXCEPT !.completed = @ + 1] /\ Then("lead")
  <3>1. child'.step = "lead" BY <1>1, <2>3 DEF Then
  <3>2. /\ memory'.attempts = memory.attempts /\ memory'.completed = memory.completed + 1
        /\ memory'.lengths = memory.lengths /\ memory'.count = memory.count
        /\ memory'.status = "incomplete"
        /\ memory' = [status |-> memory'.status, attempts |-> memory'.attempts,
                      completed |-> memory'.completed, count |-> memory'.count,
                      lengths |-> memory'.lengths]
    BY <1>1, <2>1, <2>3
  <3>3. memory'.completed = memory'.attempts /\ memory'.completed \in 0 .. memory'.attempts BY <1>2, <2>1, <3>2
  <3> QED BY <1>1, <1>2, <2>1, <3>1, <3>2, <3>3 DEF ProposeInv, Ran, ChildSteps
 <2>4. ASSUME NEW s \in {"death", "capture_failure", "terminal"},
              memory' = [memory EXCEPT !.completed = @ + 1, !.status = s], Then("leave")
       PROVE  ProposeInv'
  <3>1. child'.step = "leave" BY <1>1, <2>4 DEF Then
  <3>2. /\ memory'.attempts = memory.attempts /\ memory'.completed = memory.completed + 1
        /\ memory'.lengths = memory.lengths /\ memory'.count = memory.count
        /\ memory'.status = s
        /\ memory' = [status |-> memory'.status, attempts |-> memory'.attempts,
                      completed |-> memory'.completed, count |-> memory'.count,
                      lengths |-> memory'.lengths]
    BY <1>1, <2>1, <2>4
  <3>3. memory'.completed = memory'.attempts /\ memory'.completed \in 0 .. memory'.attempts BY <1>2, <2>1, <3>2
  <3> QED BY <1>1, <1>2, <2>1, <3>1, <3>2, <3>3 DEF ProposeInv, Ran, ChildSteps
 <2> QED BY <1>4, <2>2, <2>3, <2>4 DEF Finish1
<1>5. ASSUME Consider PROVE ProposeInv'
 <2>1. /\ child.step = "lead" /\ memory.completed = Lead /\ played' = played
       /\ memory.attempts = memory.completed /\ memory.status = "incomplete"
   BY <1>5 DEF Consider, Inside, ProposeInv
 <2>2. ASSUME NEW n \in 1 .. MaxInputs, Then("lead"),
              memory' = [memory EXCEPT !.count = @ + 1, !.lengths = Append(@, n)]
       PROVE  ProposeInv'
  <3>1. child'.step = "lead" BY <1>1, <2>2 DEF Then
  <3>2. /\ memory'.attempts = memory.attempts /\ memory'.completed = memory.completed
        /\ memory'.lengths = Append(memory.lengths, n) /\ memory'.count = memory.count + 1
        /\ memory'.status = "incomplete"
        /\ memory' = [status |-> memory'.status, attempts |-> memory'.attempts,
                      completed |-> memory'.completed, count |-> memory'.count,
                      lengths |-> memory'.lengths]
    BY <1>1, <2>1, <2>2
  <3>3. n \in Nat OBVIOUS
  <3>4. memory'.lengths \in Seq(Nat) /\ memory'.count = Len(memory'.lengths) BY <1>2, <3>2, <3>3
  <3> QED BY <1>1, <1>2, <2>1, <3>1, <3>2, <3>4 DEF ProposeInv, Ran, ChildSteps
 <2>3. ASSUME NEW s \in {"horizon", "fault"}, Says(s) PROVE ProposeInv'
  <3>1. memory' = [memory EXCEPT !.status = s] /\ child'.step = "leave" BY <1>1, <2>3 DEF Says, Then
  <3>2. /\ memory'.attempts = memory.attempts /\ memory'.completed = memory.completed
        /\ memory'.lengths = memory.lengths /\ memory'.count = memory.count
        /\ memory'.status = s
        /\ memory' = [status |-> memory'.status, attempts |-> memory'.attempts,
                      completed |-> memory'.completed, count |-> memory'.count,
                      lengths |-> memory'.lengths]
    BY <1>1, <3>1
  <3> QED BY <1>1, <1>2, <2>1, <3>1, <3>2 DEF ProposeInv, Ran, ChildSteps
 <2> QED BY <1>5, <2>2, <2>3 DEF Consider
<1> QED BY <1>3, <1>4, <1>5

LEMMA ProposeStep == ASSUME ProposeInv, ProposeNext PROVE ProposeInv'
<1>1. child = [step |-> child.step, exit |-> child.exit] BY DEF ProposeInv
<1>2. CASE Collect1
 <2>1. PICK failed \in BOOLEAN : Answered(FALSE, failed) BY <1>2 DEF Collect1
 <2>2. /\ caller = "wait" /\ child.step = "gone" /\ caller' = "returned"
       /\ child' = child /\ memory' = memory /\ played' = played
   BY <1>2 DEF Collect1
 <2>3. child' = [child EXCEPT !.step = "gone", !.exit = child'.exit] BY <1>1, <2>2
 <2> QED BY <2>1, <2>2, <2>3, Answering
<1>3. CASE KillLate
 <2>1. /\ caller = "wait" /\ caller' = "returned" /\ Answered(TRUE, FALSE)
       /\ child' = [child EXCEPT !.step = "gone", !.exit = IF child.step = "gone" THEN child.exit ELSE "other"]
       /\ memory' = memory /\ played' = played
   BY <1>3 DEF KillLate
 <2>2. child'.exit = IF child.step = "gone" THEN child.exit ELSE "other" BY <1>1, <2>1
 <2>3. child' = [child EXCEPT !.step = "gone", !.exit = child'.exit] BY <2>1, <2>2
 <2>4. \A timeout \in {TRUE} : child.step # "gone" => child'.exit # "zero" BY <2>2
 <2> QED BY <2>1, <2>2, <2>3, <2>4, Answering
<1> QED BY <1>2, <1>3, QuietPropose, WritePropose DEF ProposeNext

LEMMA ProposalBegins == BranchInit => ProposalInv
<1> SUFFICES ASSUME BranchInit PROVE ProposalInv OBVIOUS
<1> USE ProposalNumbers
<1>1. memory.lengths \in Seq(Nat) /\ Len(memory.lengths) = 0 BY DEF BranchInit, ProposeInit
<1>2. ProposeInv BY <1>1 DEF BranchInit, ProposeInit, ProposeInv, Ran, ChildSteps, NoAnswer
<1>3. GuideInv
 <2>1. /\ advanceDialogue \in BOOLEAN /\ now = 1 /\ talking \in BOOLEAN /\ lastTalk = IF talking THEN 1 ELSE 0
       /\ batch = [of |-> 0, length |-> 0, at |-> 0] /\ asked = [of |-> 0, at |-> 0]
   BY DEF BranchInit, GuideInit
 <2>2. 0 \in Nat /\ 0 \in 0 .. Batch /\ 0 \in 0 .. 1 OBVIOUS
 <2>3. /\ batch \in [of : Nat, length : 0 .. Batch, at : Nat] /\ batch.at = batch.length
       /\ asked \in [of : Nat, at : 0 .. Batch] /\ asked.of = 0 /\ batch.at = 0
   BY <2>1, <2>2
 <2>4. now \in Nat \ {0} /\ lastTalk \in 0 .. now /\ (~talking => lastTalk < now) /\ (talking => lastTalk = now) BY <2>1, <2>2
 <2>5. /\ batch.of \in Nat /\ batch.length \in Nat /\ batch.at = 0 /\ batch.length = 0
       /\ asked.of = 0
   BY <2>1, <2>3
 <2>6. ~(batch.at < batch.length) /\ ~(asked.of > 0) /\ batch.at <= batch.length BY <2>5
 <2> QED BY <2>1, <2>3, <2>4, <2>6 DEF GuideInv
<1> QED BY <1>2, <1>3 DEF ProposalInv

LEMMA ProposalStep ==
  ProposalInv /\ [BranchNext]_<<proposeVars, guideVars>> => ProposalInv'
<1> SUFFICES ASSUME ProposalInv, [BranchNext]_<<proposeVars, guideVars>> PROVE ProposalInv' OBVIOUS
<1>1. ASSUME UNCHANGED proposeVars PROVE ProposeInv' BY <1>1 DEF ProposalInv, ProposeInv, Ran, proposeVars
<1>2. ASSUME UNCHANGED guideVars PROVE GuideInv' BY <1>2 DEF ProposalInv, GuideInv, guideVars
<1>3. CASE ProposeNext /\ UNCHANGED guideVars BY <1>2, <1>3, ProposeStep DEF ProposalInv
<1>4. CASE NextInput /\ UNCHANGED proposeVars BY <1>1, <1>4, GuideStep DEF ProposalInv
<1>5. CASE UNCHANGED <<proposeVars, guideVars>> BY <1>1, <1>2, <1>5 DEF ProposalInv
<1> QED BY <1>3, <1>4, <1>5 DEF BranchNext

LEMMA ProposalInvImplies == ProposalInv => TimelyProposals
<1> SUFFICES ASSUME ProposalInv PROVE TimelyProposals OBVIOUS
<1> USE ProposalNumbers
<1>1. asked.of > 0 => /\ asked.of + asked.at = now /\ asked.at <= Batch
                      /\ advanceDialogue => lastTalk = now \/ lastTalk < asked.of
  BY DEF ProposalInv, GuideInv
<1>2. CASE caller = "returned" BY <1>1, <1>2 DEF ProposalInv, ProposeInv, TimelyProposals
<1>3. CASE caller # "returned" BY <1>1, <1>3 DEF ProposalInv, ProposeInv, TimelyProposals, NoAnswer
<1> QED BY <1>2, <1>3

THEOREM ProposalInvariance == BranchSpec => []ProposalInv
<1>1. BranchInit => ProposalInv BY ProposalBegins
<1>2. ProposalInv /\ [BranchNext]_<<proposeVars, guideVars>> => ProposalInv' BY ProposalStep
<1> QED BY <1>1, <1>2, PTL DEF BranchSpec

\* What a policy said inside a branch is used for the world it was said
\* of (propose_after_lead and predict_with_policy, shadow_proposal.cpp):
\* for every lead and batch, however the branch dies, is late or is
\* killed, and whenever a dialogue interrupts where dialogues are advanced.
THEOREM ProposalsTimely == BranchSpec => []TimelyProposals
<1>1. ProposalInv => TimelyProposals BY ProposalInvImplies
<1> QED BY <1>1, ProposalInvariance, PTL

----
\* The pacing of fire.  While it samples or farms, the damage it measured
\* is not zero, so that the reserve it compares the time left with is that
\* of this spell; and it only farms on an income it has begun to measure.
Attacks == [phase : {"probe", "sample", "farm", "capture"}, spell : Int, initial : Int, hp : Int,
            samples : Nat, recent : [0 .. Window - 1 -> Nat], sampled : Int, income : Nat,
            orbs : Int, farming : BOOLEAN, charging : BOOLEAN]
Observations == [update : Nat \ {0}, spell : Int, open : BOOLEAN, exposed : BOOLEAN, hp : Int,
                 time : Int, orbs : Int, reduced : BOOLEAN, extreme : BOOLEAN, dense : BOOLEAN,
                 rich : BOOLEAN]
PacingTyped ==
    /\ attack \in Attacks
    /\ seen \in [update : Nat, spell : Int, exposed : BOOLEAN, hp : Int, time : Int, orbs : Int]
Measuring(a) ==
    /\ a.phase \in {"sample", "farm"} => a.samples >= Settled /\ Damage(a) # 0
    /\ a.phase = "farm" => a.income > 0
PacingInv == PacingTyped /\ Measuring(attack) /\ PacedFire
PacingSpec == PacingInit /\ [][Observe]_pacingVars

LEMMA PacingNumbers ==
  /\ Window \in Nat \ {0} /\ Settled \in Nat \ {0} /\ SampleLimit \in Nat \ {0}
  /\ IncomeWindow \in Nat \ {0} /\ FullHp \in Nat /\ FullTime \in Nat
  /\ Reserve \in Nat /\ Ahead \in Nat /\ Shot \in Nat
BY AttackPacingAssumption

\* A non-empty set of naturals has a least element.
Below == {pair \in Nat \X Nat : pair[1] < pair[2]}

LEMMA Least ==
  ASSUME NEW S, S \subseteq Nat, S # {}
  PROVE  \E n \in S : \A m \in S : n <= m
<1>1. IsWellFoundedOn(Below, Nat) BY NatLessThanWellFounded, Zenon DEF Below, OpToRel
<1>2. PICK n \in S : \A m \in S : ~ (<<m, n>> \in Below) BY <1>1, WFMin
<1>3. ASSUME NEW m \in S PROVE n <= m
 <2>1. m \in Nat /\ n \in Nat /\ <<m, n>> \in Nat \X Nat OBVIOUS
 <2>2. ~ (m < n) BY <1>2, <2>1 DEF Below
 <2> QED BY <2>1, <2>2
<1> QED BY <1>3

\* The partial sums of the damage remembered, and that they are naturals.
Sums(r, n, f) == f = [i \in 0 .. n |-> IF i = 0 THEN 0 ELSE f[i - 1] + r[i - 1]]

LEMMA SumsExist ==
  ASSUME NEW r, NEW n \in Nat
  PROVE  \E f : Sums(r, n, f)
<1> DEFINE Bad == {k \in Nat : ~ \E f : Sums(r, k, f)}
<1>1. ASSUME Bad # {} PROVE FALSE
 <2>1. PICK k \in Bad : \A j \in Bad : k <= j
  <3>1. Bad \subseteq Nat OBVIOUS
  <3> QED BY <1>1, <3>1, Least
 <2>2. k # 0
  <3>1. Sums(r, 0, [j \in 0 .. 0 |-> 0]) BY DEF Sums
  <3> QED BY <2>1, <3>1
 <2>3. k - 1 \in Nat /\ k \in Nat /\ k - 1 \notin Bad BY <2>1, <2>2
 <2>4. PICK f : Sums(r, k - 1, f) BY <2>3
 <2> DEFINE g == [j \in 0 .. k |-> IF j = k THEN f[k - 1] + r[k - 1] ELSE f[j]]
 <2>5. \A j \in 0 .. k - 1 : f[j] = IF j = 0 THEN 0 ELSE f[j - 1] + r[j - 1] BY <2>4 DEF Sums
 <2>6. \A j \in 0 .. k : g[j] = IF j = 0 THEN 0 ELSE g[j - 1] + r[j - 1] BY <2>2, <2>3, <2>5
 <2>7. Sums(r, k, g) BY <2>6 DEF Sums
 <2> QED BY <2>1, <2>7
<1> QED BY <1>1

LEMMA DamageIsNatural ==
  ASSUME NEW a, a.recent \in [0 .. Window - 1 -> Nat]
  PROVE  Damage(a) \in Nat
<1> USE PacingNumbers
<1> DEFINE Solves(f) == f = [i \in 0 .. Window |-> IF i = 0 THEN 0 ELSE f[i - 1] + a.recent[i - 1]]
           f == CHOOSE g : Solves(g)
<1>1. Damage(a) = f[Window] BY DEF Damage
<1>2. \A g : Solves(g) <=> Sums(a.recent, Window, g) BY DEF Sums
<1>3. \E g : Solves(g) BY <1>2, SumsExist
<1>4. Solves(f)
 <2> HIDE DEF Solves
 <2> QED BY <1>3, Zenon
<1> HIDE DEF f
<1>5. \A i \in 0 .. Window : f[i] = IF i = 0 THEN 0 ELSE f[i - 1] + a.recent[i - 1] BY <1>4
<1> DEFINE Bad == {i \in 0 .. Window : f[i] \notin Nat}
<1>6. ASSUME Bad # {} PROVE FALSE
 <2>1. PICK k \in Bad : \A j \in Bad : k <= j
  <3>1. Bad \subseteq Nat OBVIOUS
  <3> QED BY <1>6, <3>1, Least
 <2>2. k \in 0 .. Window /\ k # 0 /\ k - 1 \in 0 .. Window - 1 /\ k - 1 \notin Bad BY <1>5, <2>1
 <2>3. f[k - 1] \in Nat /\ a.recent[k - 1] \in Nat BY <2>2
 <2> QED BY <1>5, <2>1, <2>2, <2>3
<1>7. Window \in 0 .. Window OBVIOUS
<1> QED BY <1>1, <1>6, <1>7

\* What the larger of two numbers is, and the smaller.
LEMMA MaxOfTwo == ASSUME NEW x \in Int, NEW y \in Int PROVE Max({x, y}) = IF x >= y THEN x ELSE y
<1> DEFINE m == IF x >= y THEN x ELSE y
<1>1. m \in {x, y} /\ \A z \in {x, y} : m >= z OBVIOUS
<1>2. \A n \in {x, y} : (\A z \in {x, y} : n >= z) => n = m OBVIOUS
<1> HIDE DEF m
<1>3. Max({x, y}) = m BY <1>1, <1>2, Zenon DEF Max
<1> QED BY <1>3 DEF m

LEMMA MinOfTwo == ASSUME NEW x \in Int, NEW y \in Int PROVE Min({x, y}) \in {x, y}
<1> DEFINE m == IF x <= y THEN x ELSE y
<1>1. m \in {x, y} /\ \A z \in {x, y} : m <= z OBVIOUS
<1> HIDE DEF m
<1> QED BY <1>1, Zenon DEF Min

LEMMA MeasuredIsNatural == ASSUME NEW a \in Attacks PROVE Measured(a) \in Nat
<1>1. a.samples \in Nat /\ Window \in Nat BY PacingNumbers DEF Attacks
<1>2. Min({a.samples, Window}) \in {a.samples, Window} BY <1>1, MinOfTwo
<1> QED BY <1>1, <1>2 DEF Measured

\* Damage, Measured and so the comparison with the reserve depend on the
\* damage remembered and on how often it was.
SameDamage(a, b) == a.recent = b.recent /\ a.samples = b.samples

LEMMA DamageAlike ==
  ASSUME NEW a, NEW b, SameDamage(a, b)
  PROVE  Damage(a) = Damage(b) /\ Measured(a) = Measured(b)
BY Zenon DEF SameDamage, Damage, Measured

\* More time left than a larger reserve is more than this one.
LEMMA BeyondLess ==
  ASSUME NEW a \in Attacks, NEW o \in Observations, Beyond(a, o, Ahead)
  PROVE  Beyond(a, o, 0)
<1> DEFINE d == Damage(a)
           m == Measured(a)
<1>1. d \in Nat /\ m \in Nat /\ Reserve \in Nat /\ Ahead \in Nat /\ o.time \in Int /\ o.hp \in Int
  BY DamageIsNatural, MeasuredIsNatural, PacingNumbers DEF Attacks, Observations
<1>2. o.time * d > o.hp * m + (Reserve + Ahead) * d BY DEF Beyond
<1> HIDE DEF d, m
<1>3. Ahead * d >= 0 BY <1>1
<1>4. (Reserve + Ahead) * d = Reserve * d + Ahead * d BY <1>1
<1>5. Reserve + 0 = Reserve BY <1>1
<1>6. o.time * d \in Int /\ o.hp * m \in Int /\ Reserve * d \in Int /\ Ahead * d \in Int BY <1>1
<1>7. o.time * d > o.hp * m + (Reserve + 0) * d BY <1>2, <1>3, <1>4, <1>5, <1>6
<1> QED BY <1>7 DEF Beyond, d, m

----
\* What each part of update_attack_pacing makes of the pacing.
WithSample(a, u) == [a EXCEPT !.phase = "sample", !.sampled = u, !.income = 0]
WithLoss(a, k, v, h) == [a EXCEPT !.recent[k] = v, !.samples = @ + 1, !.hp = h]
WithRecent(a, r, n, h) == [a EXCEPT !.recent = r, !.samples = n, !.hp = h]
WithIncome(a, i, q) == [a EXCEPT !.income = i, !.orbs = q]

LEMMA SampleSet ==
  ASSUME NEW a \in Attacks, NEW u \in Int
  PROVE  LET s == WithSample(a, u)
         IN  /\ s \in Attacks /\ s.phase = "sample" /\ s.spell = a.spell
             /\ s.samples = a.samples /\ s.recent = a.recent /\ s.initial = a.initial
BY DEF Attacks, WithSample

LEMMA RecentSet ==
  ASSUME NEW a \in Attacks, NEW r \in [0 .. Window - 1 -> Nat], NEW n \in Nat, NEW h \in Int
  PROVE  LET s == WithRecent(a, r, n, h)
         IN  s \in Attacks /\ s.phase = a.phase /\ s.spell = a.spell
BY DEF Attacks, WithRecent

LEMMA LossSet ==
  ASSUME NEW a \in Attacks, NEW k \in 0 .. Window - 1, NEW v \in Nat, NEW h \in Int
  PROVE  LET s == WithLoss(a, k, v, h)
         IN  s \in Attacks /\ s.phase = a.phase /\ s.spell = a.spell
<1> DEFINE r == [a.recent EXCEPT ![k] = v]
           n == a.samples + 1
           x == WithRecent(a, r, n, h)
<1>1. WithLoss(a, k, v, h) = x BY Zenon DEF WithLoss, WithRecent
<1>2. a.recent \in [0 .. Window - 1 -> Nat] /\ a.samples \in Nat BY DEF Attacks
<1>3. r \in [0 .. Window - 1 -> Nat] /\ n \in Nat BY <1>2
<1> HIDE DEF r, n
<1>4. x \in Attacks /\ x.phase = a.phase /\ x.spell = a.spell BY <1>3, RecentSet
<1> HIDE DEF x
<1> QED BY <1>1, <1>4

LEMMA IncomeSet ==
  ASSUME NEW a \in Attacks, NEW i \in Nat, NEW q \in Int
  PROVE  LET s == WithIncome(a, i, q)
         IN  /\ s \in Attacks /\ s.phase = a.phase /\ s.spell = a.spell
             /\ s.samples = a.samples /\ s.recent = a.recent /\ s.initial = a.initial
             /\ s.sampled = a.sampled /\ s.income = i
BY DEF Attacks, WithIncome

LEMMA BegunKeeps ==
  ASSUME NEW a \in Attacks, NEW o \in Observations, Measuring(a)
  PROVE  /\ Begun(a, o) \in Attacks /\ Begun(a, o).spell = o.spell
         /\ Measuring(Begun(a, o))
<1> USE PacingNumbers
<1> DEFINE n == [Unpaced EXCEPT !.spell = o.spell, !.initial = o.hp, !.hp = o.hp,
                                !.sampled = a.sampled, !.income = a.income, !.orbs = a.orbs]
<1>1. CASE a.spell = o.spell /\ a.initial # 0
 <2>1. Begun(a, o) = a BY <1>1 DEF Begun
 <2> QED BY <1>1, <2>1
<1>2. CASE ~(a.spell = o.spell /\ a.initial # 0)
 <2>1. Begun(a, o) = n BY <1>2 DEF Begun
 <2>2. Unpaced \in Attacks /\ Unpaced.phase = "probe" BY DEF Unpaced, Attacks
 <2>3. /\ o.spell \in Int /\ o.hp \in Int
       /\ a.sampled \in Int /\ a.income \in Nat /\ a.orbs \in Int
   BY DEF Attacks, Observations
 <2>4. n \in Attacks /\ n.phase = "probe" /\ n.spell = o.spell BY <2>2, <2>3 DEF Attacks
 <2>5. Measuring(n) BY <2>4 DEF Measuring
 <2> QED BY <2>1, <2>4, <2>5
<1> QED BY <1>1, <1>2

LEMMA ProbedKeeps ==
  ASSUME NEW a \in Attacks, NEW o \in Observations, Measuring(a)
  PROVE  /\ Probed(a, o) \in Attacks /\ Probed(a, o).spell = a.spell
         /\ Measuring(Probed(a, o))
<1> USE PacingNumbers
<1> DEFINE lost == Max({0, a.hp - o.hp})
           q == [a EXCEPT !.hp = o.hp]
<1>1. /\ a.hp \in Int /\ o.hp \in Int /\ a.samples \in Nat
      /\ a.recent \in [0 .. Window - 1 -> Nat]
  BY DEF Attacks, Observations
<1>2. lost \in Nat
 <2>1. lost = IF 0 >= a.hp - o.hp THEN 0 ELSE a.hp - o.hp BY <1>1, MaxOfTwo
 <2> QED BY <1>1, <2>1
<1>3. a.samples % Window \in 0 .. Window - 1 BY <1>1
<1> HIDE DEF lost
<1>4. CASE a.phase = "probe" /\ ~o.reduced
 <2> DEFINE k == a.samples % Window
            x == WithLoss(a, k, lost, o.hp)
 <2>1. Probed(a, o) = x
  <3>1. Probed(a, o) = WithLoss(a, a.samples % Window, Max({0, a.hp - o.hp}), o.hp)
    BY <1>4, Zenon DEF Probed, WithLoss
  <3> QED BY <3>1, Zenon DEF lost
 <2>2. k \in 0 .. Window - 1 BY <1>3
 <2> HIDE DEF k
 <2>3. x \in Attacks /\ x.phase = a.phase /\ x.spell = a.spell
  <3>1. a \in Attacks /\ o.hp \in Int BY <1>1
  <3> QED BY <1>2, <2>2, <3>1, LossSet, ZenonT(40)
 <2> HIDE DEF x
 <2>4. Measuring(x) BY <1>4, <2>3 DEF Measuring
 <2> QED BY <2>1, <2>3, <2>4
<1>5. CASE ~(a.phase = "probe" /\ ~o.reduced)
 <2>1. Probed(a, o) = q BY <1>5 DEF Probed
 <2>2. /\ q \in Attacks /\ q.spell = a.spell /\ q.phase = a.phase /\ q.income = a.income
       /\ q.samples = a.samples /\ q.recent = a.recent
   BY <1>1 DEF Attacks
 <2>3. Damage(q) = Damage(a) BY <2>2, DamageAlike DEF SameDamage
 <2>4. Measuring(q) BY <2>2, <2>3 DEF Measuring
 <2> QED BY <2>1, <2>2, <2>4
<1> QED BY <1>4, <1>5

\* The budget: who samples or farms without the option may be afforded it.
Afforded(a, o) ==
    a.phase \in {"sample", "farm"} =>
      \/ pacing.timeout /\ a.phase = "farm"
      \/ o.hp >= a.initial \div 5 /\ Beyond(a, o, 0)

LEMMA BudgetedKeeps ==
  ASSUME NEW a \in Attacks, NEW o \in Observations, NEW f, Measuring(a)
  PROVE  /\ Budgeted(a, o, f) \in Attacks /\ Budgeted(a, o, f).spell = a.spell
         /\ Measuring(Budgeted(a, o, f)) /\ Afforded(Budgeted(a, o, f), o)
<1> USE PacingNumbers
<1> DEFINE c == [a EXCEPT !.phase = "capture"]
           s == [a EXCEPT !.phase = "sample", !.sampled = o.update, !.income = 0]
           Unsettled == a.samples < Settled \/ Damage(a) = 0
           Spent == /\ ~(pacing.timeout /\ a.phase = "farm")
                    /\ (a.phase # "probe" /\ ~Beyond(a, o, 0)) \/ o.hp < a.initial \div 5
           Rich == a.phase = "probe" /\ Beyond(a, o, Ahead) /\ o.dense /\ f.rich
<1>0. /\ a.samples \in Nat /\ a.initial \in Int /\ o.hp \in Int /\ o.update \in Nat
      /\ a.initial \div 5 \in Int
  BY DEF Attacks, Observations
<1>1. Budgeted(a, o, f) = IF Unsettled THEN a ELSE IF Spent THEN c ELSE IF Rich THEN s ELSE a BY DEF Budgeted
<1>2. CASE Unsettled
 <2>1. a.phase \notin {"sample", "farm"} BY <1>0, <1>2 DEF Measuring
 <2> QED BY <1>1, <1>2, <2>1 DEF Afforded
<1>3. CASE ~Unsettled /\ Spent
 <2>1. c \in Attacks /\ c.phase = "capture" /\ c.spell = a.spell BY DEF Attacks
 <2> QED BY <1>1, <1>3, <2>1 DEF Measuring, Afforded
<1>4. CASE ~Unsettled /\ ~Spent /\ Rich
 <2>1. /\ s \in Attacks /\ s.phase = "sample" /\ s.spell = a.spell /\ s.samples = a.samples
       /\ s.recent = a.recent /\ s.initial = a.initial
  <3>1. o.update \in Int BY <1>0
  <3>2. s = WithSample(a, o.update) BY Zenon DEF WithSample
  <3> HIDE DEF s
  <3> QED BY <3>1, <3>2, SampleSet
 <2>2. Damage(s) = Damage(a) /\ Measured(s) = Measured(a) BY <2>1, DamageAlike DEF SameDamage
 <2>3. Measuring(s) BY <1>0, <1>4, <2>1, <2>2 DEF Measuring
 <2>4. Beyond(a, o, 0) BY <1>4, BeyondLess
 <2>5. Beyond(s, o, 0) BY <2>2, <2>4 DEF Beyond
 <2>6. o.hp >= a.initial \div 5 BY <1>0, <1>4
 <2> HIDE DEF s, Unsettled, Spent, Rich, c
 <2>7. Afforded(s, o) BY <2>1, <2>5, <2>6 DEF Afforded
 <2> QED BY <1>1, <1>4, <2>1, <2>3, <2>7
<1>5. CASE ~Unsettled /\ ~Spent /\ ~Rich
 <2>1. a.phase \in {"sample", "farm"} /\ ~(pacing.timeout /\ a.phase = "farm")
       => Beyond(a, o, 0) /\ ~(o.hp < a.initial \div 5)
   BY <1>5
 <2>2. ~(o.hp < a.initial \div 5) => o.hp >= a.initial \div 5 BY <1>0
 <2> HIDE DEF s, Unsettled, Spent, Rich, c
 <2>3. Afforded(a, o) BY <2>1, <2>2 DEF Afforded
 <2> QED BY <1>1, <1>5, <2>3
<1> QED BY <1>2, <1>3, <1>4, <1>5

\* The income: a sample that goes on is not too old, a farming that goes
\* on by the option has had its income measured not long ago.
Timely(a, o) ==
    /\ a.phase = "sample" => o.update - a.sampled < SampleLimit
    /\ pacing.timeout /\ a.phase = "farm" => a.income > 0 /\ o.update - a.income < IncomeWindow

LEMMA EarnedKeeps ==
  ASSUME NEW a \in Attacks, NEW o \in Observations, Measuring(a), Afforded(a, o)
  PROVE  /\ Earned(a, o) \in Attacks /\ Earned(a, o).spell = a.spell
         /\ Measuring(Earned(a, o)) /\ Afforded(Earned(a, o), o) /\ Timely(Earned(a, o), o)
<1> USE PacingNumbers
<1> DEFINE b == IF a.income = 0 /\ o.extreme THEN [a EXCEPT !.income = o.update, !.orbs = o.orbs]
                ELSE a
           paid == [b EXCEPT !.phase = "farm", !.income = o.update, !.orbs = o.orbs]
           spared == [b EXCEPT !.phase = "farm"]
           stop == [b EXCEPT !.phase = "capture"]
           Waiting == ~(a.phase = "sample" \/ (pacing.timeout /\ a.phase = "farm"))
           Due == b.income # 0 /\ o.update - b.income >= IncomeWindow
           Old == b.phase = "sample" /\ o.update - b.sampled >= SampleLimit
           e == Earned(a, o)
<1>0. /\ o.update \in Nat \ {0} /\ o.orbs \in Int /\ a.income \in Nat /\ a.sampled \in Int
  BY DEF Attacks, Observations
<1>1. /\ b \in Attacks /\ b.phase = a.phase /\ b.spell = a.spell /\ b.samples = a.samples
      /\ b.recent = a.recent /\ b.initial = a.initial /\ b.sampled = a.sampled /\ b.income \in Nat
      /\ (a.income > 0 => b.income = a.income)
 <2>1. CASE a.income = 0 /\ o.extreme
  <3> DEFINE x == WithIncome(a, o.update, o.orbs)
  <3>1. /\ x \in Attacks /\ x.phase = a.phase /\ x.spell = a.spell
        /\ x.samples = a.samples /\ x.recent = a.recent /\ x.initial = a.initial
        /\ x.sampled = a.sampled /\ x.income = o.update
   <4>1. o.update \in Nat /\ o.orbs \in Int BY <1>0
   <4> QED BY <4>1, IncomeSet
  <3>2. b = x BY <2>1 DEF b, WithIncome
  <3> HIDE DEF x, b
  <3> QED BY <1>0, <2>1, <3>1, <3>2
 <2>2. CASE ~(a.income = 0 /\ o.extreme) BY <1>0, <2>2
 <2> QED BY <2>1, <2>2
<1>2. e = IF Waiting THEN a
          ELSE IF Due THEN IF ~Pays(b, o) THEN stop ELSE IF pacing.timeout THEN paid ELSE spared
          ELSE IF Old THEN stop ELSE b
  BY DEF Earned
<1> HIDE DEF b, e
<1>3. /\ stop \in Attacks /\ stop.phase = "capture" /\ stop.spell = b.spell BY <1>1 DEF Attacks
<1>4. /\ paid \in Attacks /\ paid.phase = "farm" /\ paid.spell = b.spell /\ paid.samples = b.samples
      /\ paid.recent = b.recent /\ paid.initial = b.initial /\ paid.income = o.update
  BY <1>0, <1>1 DEF Attacks
<1>5. /\ spared \in Attacks /\ spared.phase = "farm" /\ spared.spell = b.spell /\ spared.samples = b.samples
      /\ spared.recent = b.recent /\ spared.initial = b.initial /\ spared.income = b.income
  BY <1>1 DEF Attacks
<1> HIDE DEF stop, paid, spared
<1>6. ASSUME NEW x \in Attacks, SameDamage(x, a), x.initial = a.initial
      PROVE  /\ Damage(x) = Damage(a)
             /\ o.hp >= a.initial \div 5 /\ Beyond(a, o, 0)
                => o.hp >= x.initial \div 5 /\ Beyond(x, o, 0)
  BY <1>6, DamageAlike DEF Beyond
<1>7. CASE Waiting
 <2>1. e = a BY <1>2, <1>7
 <2>2. Timely(a, o) BY <1>7 DEF Timely
 <2> QED BY <2>1, <2>2 DEF e
<1>8. CASE ~Waiting /\ e = stop
 <2>1. Measuring(stop) /\ Afforded(stop, o) /\ Timely(stop, o) BY <1>3 DEF Measuring, Afforded, Timely
 <2> QED BY <1>1, <1>3, <1>8, <2>1 DEF e
<1>9. CASE ~Waiting /\ Due /\ Pays(b, o) /\ pacing.timeout
 <2>1. e = paid BY <1>2, <1>9
 <2>2. SameDamage(paid, a) BY <1>1, <1>4 DEF SameDamage
 <2>3. Measuring(paid)
  <3>1. a.phase \in {"sample", "farm"} /\ o.update > 0 BY <1>0, <1>9
  <3>2. a.samples >= Settled /\ Damage(a) # 0 BY <3>1 DEF Measuring
  <3>3. Damage(paid) = Damage(a) BY <2>2, DamageAlike
  <3>4. paid.samples >= Settled BY <1>1, <1>4, <3>2
  <3> QED BY <1>4, <3>1, <3>2, <3>3, <3>4 DEF Measuring
 <2>4. Afforded(paid, o) BY <1>4, <1>9 DEF Afforded
 <2>5. Timely(paid, o)
  <3>1. o.update > 0 /\ o.update - o.update < IncomeWindow BY <1>0
  <3> QED BY <1>4, <3>1 DEF Timely
 <2> QED BY <1>1, <1>4, <2>1, <2>3, <2>4, <2>5 DEF e
<1>10. CASE ~Waiting /\ Due /\ Pays(b, o) /\ ~pacing.timeout
 <2>1. e = spared /\ a.phase = "sample" /\ b.income > 0 BY <1>1, <1>2, <1>10
 <2>2. SameDamage(spared, a) /\ spared.initial = a.initial BY <1>1, <1>5 DEF SameDamage
 <2>3. Measuring(spared) BY <1>1, <1>5, <1>6, <2>1, <2>2 DEF Measuring
 <2>4. Afforded(spared, o) BY <1>5, <1>6, <2>1, <2>2 DEF Afforded
 <2>5. Timely(spared, o) BY <1>5, <1>10 DEF Timely
 <2> QED BY <1>1, <1>5, <2>1, <2>3, <2>4, <2>5 DEF e
<1>11. CASE ~Waiting /\ ~Due /\ ~Old
 <2>1. e = b /\ a.phase \in {"sample", "farm"} BY <1>2, <1>11
 <2>2. SameDamage(b, a) BY <1>1 DEF SameDamage
 <2>3. b.phase = "farm" => b.income > 0 BY <1>1 DEF Measuring
 <2>4. Measuring(b) BY <1>1, <1>6, <2>2, <2>3 DEF Measuring
 <2>5. Afforded(b, o) BY <1>1, <1>6, <2>2 DEF Afforded
 <2>6. Timely(b, o)
  <3>1. b.sampled \in Int /\ b.income \in Nat /\ o.update \in Nat BY <1>0, <1>1
  <3>2. b.phase = "sample" => o.update - b.sampled < SampleLimit BY <1>11, <3>1
  <3>3. b.phase = "farm" => o.update - b.income < IncomeWindow BY <1>11, <2>3, <3>1
  <3> QED BY <2>3, <3>2, <3>3 DEF Timely
 <2> QED BY <1>1, <2>1, <2>4, <2>5, <2>6 DEF e
<1> QED BY <1>2, <1>7, <1>8, <1>9, <1>10, <1>11

----
LEMMA PacingBegins == PacingInit => PacingInv
<1> SUFFICES ASSUME PacingInit PROVE PacingInv OBVIOUS
<1> USE PacingNumbers
<1>1. attack = Unpaced BY DEF PacingInit
<1>2. Unpaced \in Attacks /\ Unpaced.phase = "probe" /\ Unpaced.farming = FALSE BY DEF Unpaced, Attacks
<1>3. PacingTyped BY <1>1, <1>2 DEF PacingInit, PacingTyped
<1>4. Measuring(attack) BY <1>1, <1>2 DEF Measuring
<1>5. PacedFire BY <1>1, <1>2 DEF PacedFire, WantsFire
<1> QED BY <1>3, <1>4, <1>5 DEF PacingInv

WithFire(a, f, c) == [a EXCEPT !.farming = f, !.charging = c]
SameButFire(a, b) ==
    /\ a.phase = b.phase /\ a.samples = b.samples /\ a.recent = b.recent /\ a.initial = b.initial
    /\ a.sampled = b.sampled /\ a.income = b.income

LEMMA FireSet ==
  ASSUME NEW a \in Attacks, NEW f \in BOOLEAN, NEW c \in BOOLEAN
  PROVE  LET s == WithFire(a, f, c)
         IN  s \in Attacks /\ SameButFire(s, a) /\ s.spell = a.spell /\ s.farming = f
BY DEF Attacks, WithFire, SameButFire

\* An observation the pacing takes in.
LEMMA PacePaced ==
  ASSUME PacingInv, NEW o \in Observations, o.exposed,
         attack' = Fired(Earned(Budgeted(Probed(Begun(attack, o), o), o, flow'), o)),
         seen'.update = o.update, seen'.spell = o.spell, seen'.exposed = o.exposed,
         seen'.hp = o.hp, seen'.time = o.time, pacing' = pacing, o.hp > 0
  PROVE  attack' \in Attacks /\ Measuring(attack') /\ PacedFire'
<1> DEFINE b == Begun(attack, o)
           p == Probed(b, o)
           g == Budgeted(p, o, flow')
           e == Earned(g, o)
<1>1. attack \in Attacks /\ Measuring(attack) BY DEF PacingInv, PacingTyped
<1>2. b \in Attacks /\ b.spell = o.spell /\ Measuring(b) BY <1>1, BegunKeeps
<1> HIDE DEF b
<1>3. p \in Attacks /\ p.spell = o.spell /\ Measuring(p) BY <1>2, ProbedKeeps
<1> HIDE DEF p
<1>4. g \in Attacks /\ g.spell = o.spell /\ Measuring(g) /\ Afforded(g, o) BY <1>3, BudgetedKeeps
<1> HIDE DEF g
<1>5. e \in Attacks /\ e.spell = o.spell /\ Measuring(e) /\ Afforded(e, o) /\ Timely(e, o) BY <1>4, EarnedKeeps
<1> HIDE DEF e
<1>6. attack' = Fired(e) BY DEF b, p, g, e
<1>7. /\ attack' \in Attacks /\ attack'.phase = e.phase /\ attack'.spell = e.spell
      /\ attack'.samples = e.samples /\ attack'.recent = e.recent /\ attack'.initial = e.initial
      /\ attack'.sampled = e.sampled /\ attack'.income = e.income
      /\ attack'.farming = (e.phase \in {"sample", "farm"})
 <2> DEFINE f == e.phase \in {"sample", "farm"}
            c == pacing.charge /\ e.phase = "sample" /\ e.income = 0
 <2>1. f \in BOOLEAN /\ c \in BOOLEAN OBVIOUS
 <2>2. attack' = WithFire(e, f, c) BY <1>6, Zenon DEF Fired, WithFire
 <2> HIDE DEF f, c
 <2>3. attack' \in Attacks /\ SameButFire(attack', e) /\ attack'.spell = e.spell /\ attack'.farming = f
   BY <1>5, <2>1, <2>2, FireSet
 <2> QED BY <2>3 DEF SameButFire, f
<1>8. Damage(attack') = Damage(e) /\ Measured(attack') = Measured(e) BY <1>7, DamageAlike DEF SameDamage
<1>9. Measuring(attack') BY <1>5, <1>7, <1>8 DEF Measuring
<1>10. PacedFire'
 <2> SUFFICES ASSUME ~WantsFire' PROVE
       /\ seen'.spell = attack'.spell /\ seen'.exposed /\ seen'.hp > 0
       /\ attack'.phase = "sample" => seen'.update - attack'.sampled < SampleLimit
       /\ IF pacing'.timeout /\ attack'.phase = "farm"
          THEN attack'.income > 0 /\ seen'.update - attack'.income < IncomeWindow
          ELSE seen'.hp >= attack'.initial \div 5 /\ Beyond(attack', seen', 0)
   BY DEF PacedFire
 <2>1. e.phase \in {"sample", "farm"} BY <1>7 DEF WantsFire
 <2>2. Beyond(e, o, 0) => Beyond(attack', seen', 0) BY <1>8 DEF Beyond
 <2> QED BY <1>5, <1>7, <2>1, <2>2 DEF Afforded, Timely
<1> QED BY <1>7, <1>9, <1>10

\* One it does not take in, the boss being away or out of reach.
LEMMA PacePaused ==
  ASSUME PacingInv,
         attack' = Paused(attack) \/ attack' = [Paused(attack) EXCEPT !.spell = -1]
  PROVE  attack' \in Attacks /\ Measuring(attack') /\ PacedFire'
<1>1. attack \in Attacks /\ Measuring(attack) BY DEF PacingInv, PacingTyped
<1>2. /\ attack' \in Attacks /\ attack'.phase = attack.phase /\ attack'.samples = attack.samples
      /\ attack'.recent = attack.recent /\ attack'.income = attack.income
      /\ attack'.farming = FALSE
 <2> DEFINE p == WithFire(attack, FALSE, FALSE)
 <2>1. Paused(attack) = p BY Zenon DEF Paused, WithFire
 <2>2. p \in Attacks /\ SameButFire(p, attack) /\ p.farming = FALSE BY <1>1, FireSet
 <2> HIDE DEF p
 <2>3. CASE attack' = p BY <2>2, <2>3 DEF SameButFire
 <2>4. CASE attack' = [p EXCEPT !.spell = -1] BY <2>2, <2>4 DEF SameButFire, Attacks
 <2> QED BY <2>1, <2>3, <2>4
<1>3. Damage(attack') = Damage(attack) BY <1>2, DamageAlike DEF SameDamage
<1>4. Measuring(attack') BY <1>1, <1>2, <1>3 DEF Measuring
<1>5. PacedFire' BY <1>2 DEF PacedFire, WantsFire
<1> QED BY <1>2, <1>4, <1>5

LEMMA PacingStep == PacingInv /\ [Observe]_pacingVars => PacingInv'
<1> SUFFICES ASSUME PacingInv, [Observe]_pacingVars PROVE PacingInv' OBVIOUS
<1> USE PacingNumbers
<1>1. PacingTyped BY DEF PacingInv
<1>2. CASE UNCHANGED pacingVars
  BY <1>2 DEF pacingVars, PacingInv, PacingTyped, Measuring, PacedFire, WantsFire, Damage, Beyond, Measured
<1>3. CASE Observe
 <2>1. PICK spell \in GoesOn \union Begins, form \in {"closed", "open", "exposed"}, signs \in Signs :
         LET o == [update |-> seen.update + 1, spell |-> spell[1], open |-> form # "closed",
                   exposed |-> form = "exposed",
                   hp |-> spell[2], time |-> spell[3],
                   orbs |-> seen.orbs + (IF "orb" \in signs THEN 1 ELSE 0),
                   reduced |-> "reduced" \in signs, extreme |-> "extreme" \in signs,
                   dense |-> "dense" \in signs, rich |-> "rich" \in signs]
         IN  seen' = [k \in DOMAIN seen |-> o[k]] /\ Pace(o)
   BY <1>3, Zenon DEF Observe
 <2> DEFINE o == [update |-> seen.update + 1, spell |-> spell[1], open |-> form # "closed",
                  exposed |-> form = "exposed",
                  hp |-> spell[2], time |-> spell[3],
                  orbs |-> seen.orbs + (IF "orb" \in signs THEN 1 ELSE 0),
                  reduced |-> "reduced" \in signs, extreme |-> "extreme" \in signs,
                  dense |-> "dense" \in signs, rich |-> "rich" \in signs]
 <2>2. /\ seen.update \in Nat /\ seen.spell \in Int /\ seen.hp \in Int /\ seen.time \in Int
       /\ seen.orbs \in Int /\ DOMAIN seen = {"update", "spell", "exposed", "hp", "time", "orbs"}
   BY <1>1 DEF PacingTyped
 <2>3. spell[1] \in Int /\ spell[2] \in Int /\ spell[3] \in Int
  <3>1. Max({0, seen.time - 1}) \in Int /\ Max({0, seen.hp - Shot}) \in Int BY <2>2, MaxOfTwo
  <3>2. CASE spell \in GoesOn BY <2>2, <3>1, <3>2 DEF GoesOn
  <3>3. CASE spell \in Begins BY <3>3 DEF Begins
  <3> QED BY <3>2, <3>3
 <2>4. o \in Observations
  <3>1. seen.update + 1 \in Nat \ {0} /\ seen.orbs + (IF "orb" \in signs THEN 1 ELSE 0) \in Int BY <2>2
  <3> QED BY <2>3, <3>1 DEF Observations
 <2>5. seen' = [k \in DOMAIN seen |-> o[k]] /\ Pace(o) /\ pacing' = pacing
  <3>1. pacing' = pacing BY <1>3 DEF Observe
  <3> QED BY <2>1, <3>1, Zenon
 <2> HIDE DEF o
 <2>6. /\ seen' \in [update : Nat, spell : Int, exposed : BOOLEAN, hp : Int, time : Int, orbs : Int]
       /\ seen'.update = o.update /\ seen'.spell = o.spell /\ seen'.exposed = o.exposed
       /\ seen'.hp = o.hp /\ seen'.time = o.time
   BY <2>2, <2>4, <2>5 DEF Observations
 <2>7. attack' \in Attacks /\ Measuring(attack') /\ PacedFire'
  <3>1. CASE ~o.open \/ o.spell = 0 BY <2>5, <3>1, PacePaused DEF Pace
  <3>2. CASE ~(~o.open \/ o.spell = 0) /\ o.exposed /\ o.hp > 0 /\ o.time > 0
    BY <2>4, <2>5, <2>6, <3>2, PacePaced DEF Pace
  <3>3. CASE ~(~o.open \/ o.spell = 0) /\ ~(o.exposed /\ o.hp > 0 /\ o.time > 0)
    BY <2>5, <3>3, PacePaused DEF Pace
  <3> QED BY <3>1, <3>2, <3>3
 <2>8. Measuring(attack)' BY <2>7 DEF Measuring, Damage
 <2> QED BY <2>6, <2>7, <2>8 DEF PacingInv, PacingTyped
<1> QED BY <1>2, <1>3

THEOREM PacingInvariance == PacingSpec => []PacingInv
<1>1. PacingInit => PacingInv BY PacingBegins
<1>2. PacingInv /\ [Observe]_pacingVars => PacingInv' BY PacingStep
<1> QED BY <1>1, <1>2, PTL DEF PacingSpec

\* Fire is held only while it can be afforded, however the game interrupts
\* a spell or begins another (update_attack_pacing), for every reserve,
\* window and limit, and whatever the observations show.
THEOREM FireIsPaced == PacingSpec => []PacedFire
<1>1. PacingInv => PacedFire BY DEF PacingInv
<1> QED BY <1>1, PacingInvariance, PTL

----
\* A laser.  While it is in use the reactive policy's copy is the laser,
\* and so is the online policy's if its active phase lasts.
LaserTyped ==
    \A l \in {laser, foreseen, mirrored} : l \in LaserStates /\ Admitted(l)
CopiesInStep ==
    /\ laser.inUse => foreseen = laser
    /\ laser.duration > 0 =>
         mirrored.inUse = laser.inUse /\ (laser.inUse => mirrored = laser)
LaserInv == LaserTyped /\ CopiesInStep /\ CoveredLaser
LaserSpec == LaserInit /\ [][LaserNext]_laserVars

\* An update under way, in the game and in the reactive policy.
LaserSteps == [l : LaserStates, size : Int, calls : Seq(Int), tail : BOOLEAN]
ForecastSteps == [l : LaserStates, size : Int, lethal : BOOLEAN, tail : BOOLEAN]

LEMMA LaserSizes == Thin \in Nat /\ Ramp \in Nat /\ FarAway \in Nat
BY LaserAssumption

LEMMA Sized ==
  ASSUME NEW l \in LaserStates
  PROVE  /\ BeamSize(l) \in Int /\ Centre(l) \in Int /\ Half1(l.width) \in Nat
         /\ l.startTime # 0 => Growing(l) \in Int
         /\ l.fade # 0 => Shrinking(l) \in Int
<1>1. /\ l.start \in Int /\ l.end \in Int /\ l.width \in Nat /\ l.startTime \in Nat
      /\ l.timer \in Nat /\ l.fade \in Nat
  BY DEF LaserStates
<1>2. BeamSize(l) \in Int /\ Centre(l) \in Int /\ Half1(l.width) \in Nat BY <1>1 DEF BeamSize, Centre, Half1
<1>3. ASSUME l.startTime # 0 PROVE Growing(l) \in Int
 <2>1. (l.timer * l.width) \div l.startTime \in Int /\ Thin \in Int BY <1>1, <1>3, LaserSizes
 <2> QED BY <2>1 DEF Growing, Half1
<1>4. ASSUME l.fade # 0 PROVE Shrinking(l) \in Int
 <2>1. (l.timer * l.width) \div l.fade \in Int BY <1>1, <1>4
 <2> QED BY <1>1, <2>1 DEF Shrinking, Half1
<1> QED BY <1>2, <1>3, <1>4

LEMMA Stretched ==
  ASSUME NEW l \in LaserStates, Admitted(l)
  PROVE  /\ Extended(l) \in LaserStates /\ Admitted(Extended(l))
         /\ Extended(l).duration = l.duration /\ Extended(l).width = l.width
<1>1. /\ l.start \in Int /\ l.end \in Int /\ l.speed \in Int /\ l.length \in Nat BY DEF LaserStates
<1>2. /\ AtLeast0(Pulled(l.end + l.speed, l.start, l.length)) \in Int
      /\ l.end + l.speed \in Int
  BY <1>1 DEF AtLeast0, Pulled
<1> DEFINE a == AtLeast0(Pulled(l.end + l.speed, l.start, l.length))
           z == l.end + l.speed
<1>3. Extended(l) = [l EXCEPT !.end = z, !.start = a] BY DEF Extended, LaserStates
<1> HIDE DEF a, z
<1> QED BY <1>2, <1>3 DEF LaserStates, Admitted, a, z

LEMMA Fields ==
  ASSUME NEW l \in LaserStates
  PROVE  /\ \A p \in 1 .. 2 :
              /\ [l EXCEPT !.timer = 0, !.phase = p] \in LaserStates
              /\ Admitted(l) => Admitted([l EXCEPT !.timer = 0, !.phase = p])
         /\ \A b \in BOOLEAN :
              /\ [l EXCEPT !.inUse = b] \in LaserStates
              /\ Admitted(l) => Admitted([l EXCEPT !.inUse = b])
         /\ \A b \in BOOLEAN, t \in Nat :
              /\ [l EXCEPT !.inUse = b, !.timer = t] \in LaserStates
              /\ Admitted(l) => Admitted([l EXCEPT !.inUse = b, !.timer = t])
<1>1. ASSUME NEW p \in 1 .. 2
      PROVE  /\ [l EXCEPT !.timer = 0, !.phase = p] \in LaserStates
             /\ Admitted(l) => Admitted([l EXCEPT !.timer = 0, !.phase = p])
 <2> DEFINE k == [l EXCEPT !.timer = 0, !.phase = p]
 <2>1. k \in LaserStates
  <3>1. p \in 0 .. 2 /\ 0 \in Nat OBVIOUS
  <3> QED BY <3>1 DEF LaserStates
 <2>2. k.phase = p /\ k.startTime = l.startTime /\ k.fadeAlpha = l.fadeAlpha /\ k.fade = l.fade
   BY DEF LaserStates
 <2> HIDE DEF k
 <2>3. Admitted(l) => Admitted(k) BY <2>2 DEF Admitted
 <2> QED BY <2>1, <2>3 DEF k
<1>2. ASSUME NEW b \in BOOLEAN, NEW t \in Nat
      PROVE  /\ [l EXCEPT !.inUse = b, !.timer = t] \in LaserStates
             /\ Admitted(l) => Admitted([l EXCEPT !.inUse = b, !.timer = t])
 <2> DEFINE k == [l EXCEPT !.inUse = b, !.timer = t]
 <2>1. k \in LaserStates BY DEF LaserStates
 <2>2. k.phase = l.phase /\ k.startTime = l.startTime /\ k.fadeAlpha = l.fadeAlpha
       /\ k.fade = l.fade
   BY DEF LaserStates
 <2> HIDE DEF k
 <2>3. Admitted(l) => Admitted(k) BY <2>2 DEF Admitted
 <2> QED BY <2>1, <2>3 DEF k
<1>3. ASSUME NEW b \in BOOLEAN
      PROVE  /\ [l EXCEPT !.inUse = b] \in LaserStates
             /\ Admitted(l) => Admitted([l EXCEPT !.inUse = b])
 <2> DEFINE k == [l EXCEPT !.inUse = b]
 <2>1. k \in LaserStates BY DEF LaserStates
 <2>2. k.phase = l.phase /\ k.startTime = l.startTime /\ k.fadeAlpha = l.fadeAlpha
       /\ k.fade = l.fade
   BY DEF LaserStates
 <2> HIDE DEF k
 <2>3. Admitted(l) => Admitted(k) BY <2>2 DEF Admitted
 <2> QED BY <2>1, <2>3 DEF k
<1> QED BY <1>1, <1>2, <1>3

\* What the parts of an update do to each of its fields.
LEMMA Called ==
  ASSUME NEW u \in LaserSteps, NEW when \in BOOLEAN
  PROVE  /\ Calls1(u, when) \in LaserSteps /\ Calls1(u, when).l = u.l
         /\ Calls1(u, when).size = u.size /\ Calls1(u, when).tail = u.tail
         /\ Calls1(u, when).calls = IF when THEN Append(u.calls, u.size) ELSE u.calls
<1>1. Append(u.calls, u.size) \in Seq(Int) BY DEF LaserSteps
<1> DEFINE c == Append(u.calls, u.size)
<1>2. [u EXCEPT !.calls = Append(@, u.size)] = [u EXCEPT !.calls = c] BY DEF LaserSteps
<1> HIDE DEF c
<1>3. Calls1(u, when) = IF when THEN [u EXCEPT !.calls = c] ELSE u BY <1>2 DEF Calls1
<1>4. c \in Seq(Int) BY <1>1 DEF c
<1>5. Calls1(u, when).calls = IF when THEN c ELSE u.calls BY <1>3 DEF LaserSteps
<1> QED BY <1>3, <1>4, <1>5 DEF LaserSteps, c

LEMMA Entered ==
  ASSUME NEW u \in LaserSteps, NEW when \in BOOLEAN, NEW p \in 1 .. 2
  PROVE  /\ EnterPhase(u, when, p) \in LaserSteps
         /\ EnterPhase(u, when, p).l
              = IF when THEN [u.l EXCEPT !.timer = 0, !.phase = p] ELSE u.l
         /\ EnterPhase(u, when, p).size = u.size /\ EnterPhase(u, when, p).tail = u.tail
         /\ EnterPhase(u, when, p).calls = u.calls
<1> DEFINE k == [u.l EXCEPT !.timer = 0, !.phase = p]
<1>1. k \in LaserStates BY Fields DEF LaserSteps
<1>2. EnterPhase(u, when, p) = IF when THEN [u EXCEPT !.l = k] ELSE u BY DEF EnterPhase, LaserSteps
<1> HIDE DEF k
<1>3. EnterPhase(u, when, p).l = IF when THEN k ELSE u.l BY <1>2 DEF LaserSteps
<1>4. EnterPhase(u, when, p) \in LaserSteps BY <1>1, <1>2 DEF LaserSteps
<1>5. /\ EnterPhase(u, when, p).size = u.size /\ EnterPhase(u, when, p).tail = u.tail
      /\ EnterPhase(u, when, p).calls = u.calls
  BY <1>2 DEF LaserSteps
<1> QED BY <1>3, <1>4, <1>5 DEF k

LEMMA EnteredForecast ==
  ASSUME NEW v \in ForecastSteps, NEW when \in BOOLEAN, NEW p \in 1 .. 2
  PROVE  /\ EnterPhase(v, when, p) \in ForecastSteps
         /\ EnterPhase(v, when, p).l
              = IF when THEN [v.l EXCEPT !.timer = 0, !.phase = p] ELSE v.l
         /\ EnterPhase(v, when, p).size = v.size /\ EnterPhase(v, when, p).tail = v.tail
         /\ EnterPhase(v, when, p).lethal = v.lethal
<1> DEFINE k == [v.l EXCEPT !.timer = 0, !.phase = p]
<1>1. k \in LaserStates BY Fields DEF ForecastSteps
<1>2. EnterPhase(v, when, p) = IF when THEN [v EXCEPT !.l = k] ELSE v BY DEF EnterPhase, ForecastSteps
<1> HIDE DEF k
<1>3. EnterPhase(v, when, p).l = IF when THEN k ELSE v.l BY <1>2 DEF ForecastSteps
<1>4. EnterPhase(v, when, p) \in ForecastSteps BY <1>1, <1>2 DEF ForecastSteps
<1>5. /\ EnterPhase(v, when, p).size = v.size /\ EnterPhase(v, when, p).tail = v.tail
      /\ EnterPhase(v, when, p).lethal = v.lethal
  BY <1>2 DEF ForecastSteps
<1> QED BY <1>3, <1>4, <1>5 DEF k

LEMMA EndedIs ==
  ASSUME NEW u \in LaserSteps, NEW when \in BOOLEAN
  PROVE  /\ Retired1(u, when) \in LaserSteps
         /\ Retired1(u, when).l = IF when THEN [u.l EXCEPT !.inUse = FALSE] ELSE u.l
         /\ Retired1(u, when).tail = IF when THEN FALSE ELSE u.tail
         /\ Retired1(u, when).size = u.size /\ Retired1(u, when).calls = u.calls
<1> DEFINE k == [u.l EXCEPT !.inUse = FALSE]
<1>1. k \in LaserStates BY Fields DEF LaserSteps
<1>2. Retired1(u, when) = IF when THEN [u EXCEPT !.l = k, !.tail = FALSE] ELSE u BY DEF Retired1, LaserSteps
<1> HIDE DEF k
<1>3. Retired1(u, when).l = IF when THEN k ELSE u.l BY <1>2 DEF LaserSteps
<1>4. Retired1(u, when) \in LaserSteps BY <1>1, <1>2 DEF LaserSteps
<1>5. /\ Retired1(u, when).tail = IF when THEN FALSE ELSE u.tail
      /\ Retired1(u, when).size = u.size /\ Retired1(u, when).calls = u.calls
  BY <1>2 DEF LaserSteps
<1> QED BY <1>3, <1>4, <1>5 DEF k

LEMMA EndedForecast ==
  ASSUME NEW v \in ForecastSteps, NEW when \in BOOLEAN
  PROVE  /\ Retired1(v, when) \in ForecastSteps
         /\ Retired1(v, when).l = IF when THEN [v.l EXCEPT !.inUse = FALSE] ELSE v.l
         /\ Retired1(v, when).tail = IF when THEN FALSE ELSE v.tail
         /\ Retired1(v, when).size = v.size /\ Retired1(v, when).lethal = v.lethal
<1> DEFINE k == [v.l EXCEPT !.inUse = FALSE]
<1>1. k \in LaserStates BY Fields DEF ForecastSteps
<1>2. Retired1(v, when) = IF when THEN [v EXCEPT !.l = k, !.tail = FALSE] ELSE v BY DEF Retired1, ForecastSteps
<1> HIDE DEF k
<1>3. Retired1(v, when).l = IF when THEN k ELSE v.l BY <1>2 DEF ForecastSteps
<1>4. Retired1(v, when) \in ForecastSteps BY <1>1, <1>2 DEF ForecastSteps
<1>5. /\ Retired1(v, when).tail = IF when THEN FALSE ELSE v.tail
      /\ Retired1(v, when).size = v.size /\ Retired1(v, when).lethal = v.lethal
  BY <1>2 DEF ForecastSteps
<1> QED BY <1>3, <1>4, <1>5 DEF k

\* The game and the forecast side by side: the same laser and box, and a
\* lethal forecast exactly when a call was made, every call with that box.
Alike(u, v) ==
    /\ u \in LaserSteps /\ v \in ForecastSteps /\ Admitted(u.l)
    /\ u.l = v.l /\ u.size = v.size /\ u.tail = v.tail
    /\ v.lethal <=> u.calls # << >>
    /\ \A i \in DOMAIN u.calls : u.calls[i] = u.size

LEMMA CallAlike ==
  ASSUME NEW u \in LaserSteps, NEW when \in BOOLEAN
  PROVE  /\ Calls1(u, when).calls # << >> <=> (when \/ u.calls # << >>)
         /\ \A i \in DOMAIN Calls1(u, when).calls :
              \/ i \in DOMAIN u.calls /\ Calls1(u, when).calls[i] = u.calls[i]
              \/ when /\ Calls1(u, when).calls[i] = u.size
<1>1. u.calls \in Seq(Int) /\ u.size \in Int BY DEF LaserSteps
<1> DEFINE c == Calls1(u, when).calls
<1>2. c = IF when THEN Append(u.calls, u.size) ELSE u.calls BY Called
<1> HIDE DEF c
<1>3. ASSUME when
      PROVE  /\ c # << >> <=> (when \/ u.calls # << >>)
             /\ \A i \in DOMAIN c :
                  (i \in DOMAIN u.calls /\ c[i] = u.calls[i]) \/ (when /\ c[i] = u.size)
 <2> DEFINE s == u.calls
            e == u.size
 <2>1. s \in Seq(Int) /\ e \in Int BY <1>1
 <2> HIDE DEF s, e
 <2>2. /\ Append(s, e) \in Seq(Int) /\ Len(Append(s, e)) = Len(s) + 1
       /\ \A i \in 1 .. Len(s) : Append(s, e)[i] = s[i]
       /\ Append(s, e)[Len(s) + 1] = e
       /\ DOMAIN s = 1 .. Len(s) /\ DOMAIN Append(s, e) = 1 .. Len(s) + 1 /\ Len(s) \in Nat
   BY <2>1
 <2>3. Append(s, e) # << >> BY <2>2
 <2>4. \A i \in DOMAIN Append(s, e) :
         \/ i \in DOMAIN s /\ Append(s, e)[i] = s[i]
         \/ Append(s, e)[i] = e
   BY <2>2
 <2>5. /\ c # << >> <=> (when \/ u.calls # << >>)
       /\ \A i \in DOMAIN c : (i \in DOMAIN u.calls /\ c[i] = u.calls[i]) \/ (when /\ c[i] = u.size)
   BY <1>2, <1>3, <2>3, <2>4 DEF s, e
 <2> QED BY <2>5
<1>4. ASSUME ~when
      PROVE  /\ c # << >> <=> (when \/ u.calls # << >>)
             /\ \A i \in DOMAIN c :
                  (i \in DOMAIN u.calls /\ c[i] = u.calls[i]) \/ (when /\ c[i] = u.size)
  BY <1>2, <1>4
<1>5. /\ c # << >> <=> (when \/ u.calls # << >>)
      /\ \A i \in DOMAIN c : (i \in DOMAIN u.calls /\ c[i] = u.calls[i]) \/ (when /\ c[i] = u.size)
  BY <1>3, <1>4
<1> QED BY <1>5 DEF c

Unstarted(u) == u.calls = << >> /\ u.l.phase = 0 /\ u.l.startTime # 0
InFlight(u) == u.tail
OneSize(u) == \A i \in DOMAIN u.calls : u.calls[i] = u.size

\* The three phases of the game's update.
LEMMA StartFields ==
  ASSUME NEW u \in LaserSteps, Unstarted(u)
  PROVE  LET size == IF u.l.fadeAlpha THEN u.size ELSE Growing(u.l)
             x == Starting(u)
         IN  /\ x \in LaserSteps /\ size \in Int /\ x.size = size /\ x.tail = u.tail
             /\ x.l = IF u.l.timer >= u.l.startTime THEN [u.l EXCEPT !.timer = 0, !.phase = 1]
                      ELSE u.l
             /\ x.calls # << >> <=> u.l.timer >= u.l.hitStart
             /\ \A i \in DOMAIN x.calls : x.calls[i] = size
<1> DEFINE size == IF u.l.fadeAlpha THEN u.size ELSE Growing(u.l)
           hits == u.l.timer >= u.l.hitStart
           over == u.l.timer >= u.l.startTime
           one == 1
           a == [u EXCEPT !.size = size]
           c == Calls1(a, hits)
           p == EnterPhase(c, over, one)
<1>1. size \in Int /\ hits \in BOOLEAN /\ over \in BOOLEAN /\ one \in 1 .. 2
 <2>1. u.l.startTime # 0 /\ u.l \in LaserStates BY DEF LaserSteps, Unstarted
 <2> QED BY <2>1, Sized DEF LaserSteps, LaserStates
<1>2. Starting(u) = p
 <2>1. [u EXCEPT !.size = IF u.l.fadeAlpha THEN @ ELSE Growing(u.l)] = a BY DEF LaserSteps
 <2> QED BY <2>1 DEF Starting, Unstarted
<1> HIDE DEF size, hits, over, one
<1>3. a \in LaserSteps /\ a.l = u.l /\ a.size = size /\ a.tail = u.tail /\ a.calls = << >>
  BY <1>1 DEF LaserSteps, Unstarted
<1> HIDE DEF a
<1>4. /\ c \in LaserSteps /\ c.l = u.l /\ c.size = size /\ c.tail = u.tail
      /\ c.calls # << >> <=> hits
      /\ \A i \in DOMAIN c.calls : c.calls[i] = size
 <2>1. /\ c \in LaserSteps /\ c.l = u.l /\ c.size = size /\ c.tail = u.tail BY <1>1, <1>3, Called
 <2>2. /\ c.calls # << >> <=> (hits \/ a.calls # << >>)
       /\ \A i \in DOMAIN c.calls :
            \/ i \in DOMAIN a.calls /\ c.calls[i] = a.calls[i]
            \/ hits /\ c.calls[i] = a.size
   BY <1>1, <1>3, CallAlike
 <2>3. DOMAIN a.calls = {} BY <1>3
 <2> QED BY <1>3, <2>1, <2>2, <2>3
<1> HIDE DEF c
<1>5. /\ p \in LaserSteps /\ p.l = (IF over THEN [u.l EXCEPT !.timer = 0, !.phase = one] ELSE u.l)
      /\ p.size = size /\ p.tail = u.tail /\ p.calls = c.calls
 <2>1. c \in LaserSteps /\ over \in BOOLEAN /\ one \in 1 .. 2 BY <1>1, <1>4
 <2>2. p \in LaserSteps /\ p.size = c.size /\ p.tail = c.tail /\ p.calls = c.calls BY <2>1, Entered
 <2>3. p.l = IF over THEN [c.l EXCEPT !.timer = 0, !.phase = one] ELSE c.l BY <2>1, Entered
 <2> QED BY <1>4, <2>2, <2>3
<1> HIDE DEF p
<1>6. /\ p \in LaserSteps /\ size \in Int /\ p.size = size /\ p.tail = u.tail
      /\ p.l = (IF over THEN [u.l EXCEPT !.timer = 0, !.phase = one] ELSE u.l)
      /\ p.calls # << >> <=> hits
      /\ \A i \in DOMAIN p.calls : p.calls[i] = size
  BY <1>1, <1>4, <1>5
<1> QED BY <1>2, <1>6 DEF size, hits, over, one

LEMMA ActiveFields ==
  ASSUME NEW u \in LaserSteps, OneSize(u), u.l.phase = 1
  PROVE  LET over == Over(u.l)
             gone == Over(u.l) /\ u.l.fade = 0
             k == IF over THEN [u.l EXCEPT !.timer = 0, !.phase = 2] ELSE u.l
             x == Active(u)
         IN  /\ x \in LaserSteps /\ x.size = u.size
             /\ x.tail = IF gone THEN FALSE ELSE u.tail
             /\ x.l = IF gone THEN [k EXCEPT !.inUse = FALSE] ELSE k
             /\ x.calls # << >> /\ \A i \in DOMAIN x.calls : x.calls[i] = u.size
<1> DEFINE over == Over(u.l)
           gone == Over(u.l) /\ u.l.fade = 0
           two == 2
           yes == TRUE
           k == IF over THEN [u.l EXCEPT !.timer = 0, !.phase = two] ELSE u.l
           c == Calls1(u, yes)
           p == EnterPhase(c, over, two)
           x == Retired1(p, gone)
<1>1. over \in BOOLEAN /\ gone \in BOOLEAN /\ two \in 1 .. 2 /\ yes \in BOOLEAN /\ yes BY DEF Over
<1>2. Active(u) = x BY DEF Active
<1> HIDE DEF over, gone, two, yes
<1>3. /\ c \in LaserSteps /\ c.l = u.l /\ c.size = u.size /\ c.tail = u.tail
      /\ c.calls # << >>
      /\ \A i \in DOMAIN c.calls : c.calls[i] = u.size
 <2>1. c \in LaserSteps /\ c.l = u.l /\ c.size = u.size /\ c.tail = u.tail BY <1>1, Called
 <2>2. /\ c.calls # << >> <=> (yes \/ u.calls # << >>)
       /\ \A i \in DOMAIN c.calls :
            \/ i \in DOMAIN u.calls /\ c.calls[i] = u.calls[i]
            \/ yes /\ c.calls[i] = u.size
   BY <1>1, CallAlike
 <2> QED BY <1>1, <2>1, <2>2 DEF OneSize
<1> HIDE DEF c
<1>4. /\ p \in LaserSteps /\ p.size = u.size /\ p.tail = u.tail /\ p.calls = c.calls
      /\ p.l = k
 <2>1. p \in LaserSteps /\ p.size = c.size /\ p.tail = c.tail /\ p.calls = c.calls
   BY ZenonT(40), <1>1, <1>3, Entered
 <2>2. p.l = IF over THEN [c.l EXCEPT !.timer = 0, !.phase = two] ELSE c.l BY <1>1, <1>3, Entered
 <2> QED BY <1>3, <2>1, <2>2
<1> HIDE DEF p, k
<1>5. /\ x \in LaserSteps /\ x.size = u.size /\ x.calls = c.calls
      /\ x.tail = (IF gone THEN FALSE ELSE u.tail)
      /\ x.l = (IF gone THEN [k EXCEPT !.inUse = FALSE] ELSE k)
 <2>1. /\ x \in LaserSteps /\ x.size = p.size /\ x.calls = p.calls
       /\ x.tail = IF gone THEN FALSE ELSE p.tail
   BY <1>1, <1>4, EndedIs
 <2>2. x.l = IF gone THEN [p.l EXCEPT !.inUse = FALSE] ELSE p.l BY <1>1, <1>4, EndedIs
 <2> QED BY <1>4, <2>1, <2>2
<1> HIDE DEF x
<1>6. x.calls # << >> /\ \A i \in DOMAIN x.calls : x.calls[i] = u.size BY <1>3, <1>5
<1> QED BY <1>2, <1>5, <1>6 DEF x, p, c, k, over, gone, two, yes

LEMMA DespawnFields ==
  ASSUME NEW u \in LaserSteps, OneSize(u), u.l.phase = 2, InFlight(u)
  PROVE  LET size == IF u.l.fadeAlpha \/ u.l.fade = 0 THEN u.size ELSE Shrinking(u.l)
             hits == u.l.timer < u.l.hitEnd
             over == u.l.timer >= u.l.fade
             x == Despawning(u)
         IN  /\ x \in LaserSteps /\ size \in Int
             /\ x.tail = IF over THEN FALSE ELSE u.tail
             /\ x.l = IF over THEN [u.l EXCEPT !.inUse = FALSE] ELSE u.l
             /\ x.calls # << >> <=> (hits \/ u.calls # << >>)
             /\ \A i \in DOMAIN x.calls :
                  x.calls[i] = size \/ (u.calls # << >> /\ x.calls[i] = u.size)
<1> DEFINE size == IF u.l.fadeAlpha \/ u.l.fade = 0 THEN u.size ELSE Shrinking(u.l)
           hits == u.l.timer < u.l.hitEnd
           over == u.l.timer >= u.l.fade
           a == [u EXCEPT !.size = size]
           c == Calls1(a, hits)
           x == Retired1(c, over)
<1>1. size \in Int /\ hits \in BOOLEAN /\ over \in BOOLEAN BY Sized DEF LaserSteps, LaserStates
<1>2. Despawning(u) = x
 <2>1. [u EXCEPT !.size = IF u.l.fadeAlpha \/ u.l.fade = 0 THEN @ ELSE Shrinking(u.l)] = a BY DEF LaserSteps
 <2> QED BY <2>1 DEF Despawning, InFlight
<1> HIDE DEF size, hits, over
<1>3. a \in LaserSteps /\ a.l = u.l /\ a.size = size /\ a.tail = u.tail /\ a.calls = u.calls
  BY <1>1 DEF LaserSteps
<1> HIDE DEF a
<1>4. /\ c \in LaserSteps /\ c.l = u.l /\ c.tail = u.tail
      /\ c.calls # << >> <=> (hits \/ u.calls # << >>)
      /\ \A i \in DOMAIN c.calls :
           c.calls[i] = size \/ (u.calls # << >> /\ c.calls[i] = u.size)
 <2>1. /\ c \in LaserSteps /\ c.l = a.l /\ c.tail = a.tail BY <1>1, <1>3, Called
 <2>2. /\ c.calls # << >> <=> (hits \/ a.calls # << >>)
       /\ \A i \in DOMAIN c.calls :
            \/ i \in DOMAIN a.calls /\ c.calls[i] = a.calls[i]
            \/ hits /\ c.calls[i] = a.size
   BY <1>1, <1>3, CallAlike
 <2>3. ASSUME NEW i \in DOMAIN c.calls
       PROVE  c.calls[i] = size \/ (u.calls # << >> /\ c.calls[i] = u.size)
  <3>1. CASE i \in DOMAIN u.calls /\ c.calls[i] = u.calls[i]
   <4>1. u.calls # << >> /\ u.calls[i] = u.size BY <3>1 DEF OneSize
   <4> QED BY <3>1, <4>1
  <3>2. CASE c.calls[i] = size BY <3>2
  <3> QED BY <1>3, <2>2, <3>1, <3>2
 <2> QED BY <1>3, <2>1, <2>2, <2>3
<1> HIDE DEF c
<1>5. /\ x \in LaserSteps /\ x.calls = c.calls
      /\ x.tail = (IF over THEN FALSE ELSE u.tail)
      /\ x.l = (IF over THEN [u.l EXCEPT !.inUse = FALSE] ELSE u.l)
 <2>1. c \in LaserSteps /\ over \in BOOLEAN BY <1>1, <1>4
 <2>2. x \in LaserSteps /\ x.calls = c.calls /\ x.tail = IF over THEN FALSE ELSE c.tail BY <2>1, EndedIs
 <2>3. x.l = IF over THEN [c.l EXCEPT !.inUse = FALSE] ELSE c.l BY <2>1, EndedIs
 <2> QED BY <1>4, <2>2, <2>3
<1> HIDE DEF x
<1>6. /\ x.calls # << >> <=> (hits \/ u.calls # << >>)
      /\ \A i \in DOMAIN x.calls :
           x.calls[i] = size \/ (u.calls # << >> /\ x.calls[i] = u.size)
  BY <1>4, <1>5
<1> QED BY <1>1, <1>2, <1>5, <1>6 DEF x, c, size, hits, over

\* The forecast keeps pace through the first two phases, and covers all.
LEMMA StartAlike ==
  ASSUME NEW u, NEW v, Alike(u, v), u.calls = << >>
  PROVE  Alike(Starting(u), PolicyStarting(v))
<1>1. /\ u \in LaserSteps /\ v \in ForecastSteps /\ u.l \in LaserStates /\ Admitted(u.l)
      /\ u.l = v.l /\ u.size = v.size /\ u.tail = v.tail
  BY DEF Alike, LaserSteps
<1>2. CASE u.l.phase # 0
 <2>1. Starting(u) = u /\ PolicyStarting(v) = v BY <1>1, <1>2 DEF Starting, PolicyStarting
 <2> QED BY <2>1
<1>3. CASE u.l.phase = 0
 <2> DEFINE size == IF u.l.fadeAlpha THEN u.size ELSE Growing(u.l)
            hits == u.l.timer >= u.l.hitStart
            over == u.l.timer >= u.l.startTime
            one == 1
            k == IF over THEN [u.l EXCEPT !.timer = 0, !.phase = one] ELSE u.l
            b == [v EXCEPT !.size = size, !.lethal = hits]
            p == Starting(u)
            q == EnterPhase(b, over, one)
 <2>1. /\ p \in LaserSteps /\ size \in Int /\ p.size = size /\ p.tail = u.tail /\ p.l = k
       /\ p.calls # << >> <=> hits
       /\ \A i \in DOMAIN p.calls : p.calls[i] = size
  <3>1. u.l.startTime # 0 BY <1>1, <1>3 DEF Admitted
  <3> QED BY <1>1, <1>3, <3>1, StartFields DEF Unstarted
 <2>2. hits \in BOOLEAN /\ over \in BOOLEAN /\ one \in 1 .. 2 BY <1>1 DEF LaserStates
 <2>3. PolicyStarting(v) = q
  <3>1. [v EXCEPT !.size = IF v.l.fadeAlpha THEN @ ELSE Growing(v.l),
                  !.lethal = v.l.timer >= v.l.hitStart] = b
    BY <1>1 DEF ForecastSteps
  <3> QED BY <1>1, <1>3, <3>1 DEF PolicyStarting
 <2> HIDE DEF size, hits, over, one, p
 <2>4. b \in ForecastSteps /\ b.l = u.l /\ b.size = size /\ b.tail = u.tail /\ b.lethal = hits
   BY <1>1, <2>1, <2>2 DEF ForecastSteps
 <2> HIDE DEF b
 <2>5. /\ q \in ForecastSteps /\ q.l = k
       /\ q.size = size /\ q.tail = u.tail /\ q.lethal = hits
  <3>1. q \in ForecastSteps /\ q.size = b.size /\ q.tail = b.tail /\ q.lethal = b.lethal
    BY <2>2, <2>4, EnteredForecast
  <3>2. q.l = IF over THEN [b.l EXCEPT !.timer = 0, !.phase = one] ELSE b.l BY <2>2, <2>4, EnteredForecast
  <3> QED BY <2>4, <3>1, <3>2
 <2>6. Admitted(k) BY <1>1, <2>2, Fields
 <2> HIDE DEF q, k
 <2>7. Alike(p, q) BY <2>1, <2>5, <2>6 DEF Alike
 <2> QED BY <2>3, <2>7 DEF p
<1> QED BY <1>2, <1>3

LEMMA ActiveAlike ==
  ASSUME NEW u, NEW v, Alike(u, v)
  PROVE  Alike(Active(u), PolicyActive(v))
<1>1. /\ u \in LaserSteps /\ v \in ForecastSteps /\ u.l \in LaserStates /\ Admitted(u.l)
      /\ u.l = v.l /\ u.size = v.size /\ u.tail = v.tail
      /\ \A i \in DOMAIN u.calls : u.calls[i] = u.size
  BY DEF Alike, LaserSteps
<1>2. CASE u.l.phase # 1
 <2>1. Active(u) = u /\ PolicyActive(v) = v BY <1>1, <1>2 DEF Active, PolicyActive
 <2> QED BY <2>1
<1>3. CASE u.l.phase = 1
 <2> DEFINE over == Over(u.l)
            gone == Over(u.l) /\ u.l.fade = 0
            two == 2
            k == IF over THEN [u.l EXCEPT !.timer = 0, !.phase = two] ELSE u.l
            m == IF gone THEN [k EXCEPT !.inUse = FALSE] ELSE k
            b == [v EXCEPT !.lethal = TRUE]
            q == EnterPhase(b, over, two)
            x == Active(u)
            y == Retired1(q, gone)
 <2>1. /\ x \in LaserSteps /\ x.size = u.size /\ x.tail = (IF gone THEN FALSE ELSE u.tail)
       /\ x.l = m /\ x.calls # << >> /\ \A i \in DOMAIN x.calls : x.calls[i] = u.size
   BY <1>1, <1>3, ActiveFields DEF OneSize
 <2>2. over \in BOOLEAN /\ gone \in BOOLEAN /\ two \in 1 .. 2 BY DEF Over
 <2>3. PolicyActive(v) = y BY <1>1, <1>3 DEF PolicyActive
 <2> HIDE DEF over, gone, two, x
 <2>4. b \in ForecastSteps /\ b.l = u.l /\ b.size = u.size /\ b.tail = u.tail /\ b.lethal = TRUE
   BY <1>1 DEF ForecastSteps
 <2> HIDE DEF b
 <2>5. /\ q \in ForecastSteps /\ q.l = k /\ q.size = u.size /\ q.tail = u.tail /\ q.lethal = TRUE
  <3>1. q \in ForecastSteps /\ q.size = b.size /\ q.tail = b.tail /\ q.lethal = b.lethal
    BY <2>2, <2>4, EnteredForecast
  <3>2. q.l = IF over THEN [b.l EXCEPT !.timer = 0, !.phase = two] ELSE b.l BY <2>2, <2>4, EnteredForecast
  <3> QED BY <2>4, <3>1, <3>2
 <2>6. k \in LaserStates /\ Admitted(k) BY <1>1, <2>2, Fields
 <2> HIDE DEF q, k
 <2>7. /\ y \in ForecastSteps /\ y.l = m /\ y.tail = (IF gone THEN FALSE ELSE u.tail)
       /\ y.size = u.size /\ y.lethal = TRUE
  <3>1. q \in ForecastSteps /\ gone \in BOOLEAN BY <2>2, <2>5
  <3>2. /\ y \in ForecastSteps /\ y.size = q.size /\ y.lethal = q.lethal
        /\ y.tail = IF gone THEN FALSE ELSE q.tail
    BY <3>1, EndedForecast
  <3>3. y.l = IF gone THEN [q.l EXCEPT !.inUse = FALSE] ELSE q.l BY <3>1, EndedForecast
  <3> QED BY <2>5, <3>2, <3>3
 <2>8. Admitted(m) BY <2>6, Fields
 <2> HIDE DEF y, m
 <2>9. Alike(x, y) BY <2>1, <2>7, <2>8 DEF Alike
 <2> QED BY <2>3, <2>9 DEF x, y, q, k
<1> QED BY <1>2, <1>3

\* The forecast's box covers every call of the update.
Covered(u, v) ==
    /\ u \in LaserSteps /\ v \in ForecastSteps /\ Admitted(u.l)
    /\ u.l = v.l /\ u.tail = v.tail
    /\ v.lethal <=> u.calls # << >>
    /\ \A i \in DOMAIN u.calls : Magnitude(u.calls[i]) <= Magnitude(v.size)

LEMMA DespawnCovered ==
  ASSUME NEW u, NEW v, Alike(u, v)
  PROVE  Covered(Despawning(u), PolicyDespawning(v))
<1>1. /\ u \in LaserSteps /\ v \in ForecastSteps /\ u.l \in LaserStates /\ Admitted(u.l)
      /\ u.l = v.l /\ u.size = v.size /\ u.tail = v.tail /\ u.size \in Int
      /\ v.lethal <=> u.calls # << >>
      /\ \A i \in DOMAIN u.calls : u.calls[i] = u.size
  BY DEF Alike, LaserSteps
<1>2. CASE u.l.phase # 2 \/ ~u.tail
 <2>1. Despawning(u) = u /\ PolicyDespawning(v) = v BY <1>1, <1>2 DEF Despawning, PolicyDespawning
 <2>2. Magnitude(u.size) <= Magnitude(u.size) BY <1>1 DEF Magnitude
 <2>3. \A i \in DOMAIN u.calls : Magnitude(u.calls[i]) <= Magnitude(v.size) BY <1>1, <2>2
 <2> QED BY <1>1, <2>1, <2>3 DEF Covered
<1>3. CASE ~(u.l.phase # 2 \/ ~u.tail)
 <2> DEFINE keeps == u.l.fadeAlpha \/ u.l.fade = 0
            s == IF keeps THEN u.size ELSE Shrinking(u.l)
            t == IF keeps THEN v.size ELSE FadingSize(v, Shrinking(v.l))
            hits == u.l.timer < u.l.hitEnd
            over == u.l.timer >= u.l.fade
            k == IF over THEN [u.l EXCEPT !.inUse = FALSE] ELSE u.l
            b == [v EXCEPT !.size = t, !.lethal = @ \/ hits]
            x == Despawning(u)
            y == Retired1(b, over)
 <2>1. hits \in BOOLEAN /\ over \in BOOLEAN BY <1>1 DEF LaserStates
 <2>2. /\ x \in LaserSteps /\ s \in Int /\ x.tail = (IF over THEN FALSE ELSE u.tail) /\ x.l = k
       /\ x.calls # << >> <=> (hits \/ u.calls # << >>)
       /\ \A i \in DOMAIN x.calls :
            x.calls[i] = s \/ (u.calls # << >> /\ x.calls[i] = u.size)
   BY <1>1, <1>3, DespawnFields DEF OneSize, InFlight
 <2>3. /\ t \in Int /\ Magnitude(s) <= Magnitude(t)
       /\ v.lethal => Magnitude(u.size) <= Magnitude(t)
  <3>1. ~keeps => Shrinking(u.l) \in Int BY <1>1, Sized
  <3> QED BY <1>1, <3>1 DEF FadingSize, Magnitude
 <2>4. PolicyDespawning(v) = y
  <3>1. [v EXCEPT !.size = IF v.l.fadeAlpha \/ v.l.fade = 0 THEN @
                           ELSE FadingSize(v, Shrinking(v.l)),
                  !.lethal = @ \/ v.l.timer < v.l.hitEnd] = b
    BY <1>1 DEF ForecastSteps
  <3> QED BY <1>1, <1>3, <3>1 DEF PolicyDespawning
 <2> HIDE DEF keeps, s, t, hits, over, x
 <2>5. /\ b \in ForecastSteps /\ b.l = u.l /\ b.size = t /\ b.tail = u.tail
       /\ b.lethal <=> (v.lethal \/ hits)
  <3>1. v.lethal \in BOOLEAN BY <1>1 DEF ForecastSteps
  <3> DEFINE w == v.lethal \/ hits
  <3>2. b = [v EXCEPT !.size = t, !.lethal = w] /\ w \in BOOLEAN BY <1>1, <2>1, <3>1 DEF ForecastSteps
  <3> HIDE DEF w, b
  <3>3. /\ b \in ForecastSteps /\ b.l = v.l /\ b.size = t /\ b.tail = v.tail /\ b.lethal = w
    BY <1>1, <2>3, <3>2 DEF ForecastSteps
  <3> QED BY <1>1, <3>3 DEF w
 <2> HIDE DEF b
 <2>6. \A i \in DOMAIN x.calls : Magnitude(x.calls[i]) <= Magnitude(t) BY <1>1, <2>2, <2>3
 <2>7. /\ y \in ForecastSteps /\ y.lethal = b.lethal /\ y.size = t
       /\ y.tail = (IF over THEN FALSE ELSE u.tail) /\ y.l = k
  <3>1. /\ y \in ForecastSteps /\ y.lethal = b.lethal /\ y.size = b.size
        /\ y.tail = IF over THEN FALSE ELSE b.tail
    BY <2>1, <2>5, EndedForecast
  <3>2. y.l = IF over THEN [b.l EXCEPT !.inUse = FALSE] ELSE b.l BY <2>1, <2>5, EndedForecast
  <3> QED BY <2>5, <3>1, <3>2
 <2>8. Admitted(k) BY <1>1, Fields
 <2> HIDE DEF y, k
 <2>9. Covered(x, y) BY <1>1, <2>2, <2>5, <2>6, <2>7, <2>8 DEF Covered
 <2> QED BY <2>4, <2>9 DEF x, y
<1> QED BY <1>2, <1>3

LEMMA ClosedFields ==
  ASSUME NEW u \in LaserSteps
  PROVE  /\ Closed(u) \in LaserSteps /\ Closed(u).calls = u.calls /\ Closed(u).size = u.size
         /\ Closed(u).l = IF ~u.tail THEN u.l
                          ELSE [u.l EXCEPT !.inUse = u.l.start < FarAway, !.timer = u.l.timer + 1]
         /\ Admitted(u.l) => Admitted(Closed(u).l)
<1>1. u.l \in LaserStates /\ u.l.timer + 1 \in Nat /\ (u.l.start < FarAway) \in BOOLEAN
  BY DEF LaserSteps, LaserStates
<1> DEFINE b == u.l.start < FarAway
           t == u.l.timer + 1
           k == [u.l EXCEPT !.inUse = b, !.timer = t]
<1>2. k \in LaserStates /\ (Admitted(u.l) => Admitted(k))
 <2>1. b \in BOOLEAN /\ t \in Nat BY <1>1
 <2> HIDE DEF b, t
 <2> QED BY <1>1, <2>1, Fields
<1>3. Closed(u) = IF ~u.tail THEN u ELSE [u EXCEPT !.l = k] BY <1>1 DEF Closed, LaserSteps, LaserStates
<1>4. k = [u.l EXCEPT !.inUse = u.l.start < FarAway, !.timer = u.l.timer + 1] OBVIOUS
<1> HIDE DEF k
<1>5. /\ Closed(u) \in LaserSteps /\ Closed(u).calls = u.calls /\ Closed(u).size = u.size
      /\ Closed(u).l = IF ~u.tail THEN u.l ELSE k
  BY <1>2, <1>3 DEF LaserSteps
<1>6. Admitted(u.l) => Admitted(Closed(u).l) BY <1>2, <1>5
<1> QED BY <1>4, <1>5, <1>6

LEMMA PolicyClosedFields ==
  ASSUME NEW v \in ForecastSteps
  PROVE  /\ PolicyClosed(v) \in ForecastSteps
         /\ PolicyClosed(v).lethal = v.lethal /\ PolicyClosed(v).size = v.size
         /\ PolicyClosed(v).l
              = IF ~v.tail THEN v.l
                ELSE [v.l EXCEPT !.inUse = v.l.start < FarAway,
                                 !.timer = v.l.timer + (IF v.l.start < FarAway THEN 1 ELSE 0)]
         /\ Admitted(v.l) => Admitted(PolicyClosed(v).l)
<1> DEFINE b == v.l.start < FarAway
           t == v.l.timer + (IF v.l.start < FarAway THEN 1 ELSE 0)
           k == [v.l EXCEPT !.inUse = b, !.timer = t]
<1>1. v.l \in LaserStates /\ b \in BOOLEAN /\ t \in Nat BY DEF ForecastSteps, LaserStates
<1>2. k \in LaserStates /\ (Admitted(v.l) => Admitted(k))
 <2> HIDE DEF b, t
 <2> QED BY <1>1, Fields
<1>3. PolicyClosed(v) = IF ~v.tail THEN v ELSE [v EXCEPT !.l = k]
  BY <1>1 DEF PolicyClosed, ForecastSteps, LaserStates
<1>4. k = [v.l EXCEPT !.inUse = v.l.start < FarAway,
                      !.timer = v.l.timer + (IF v.l.start < FarAway THEN 1 ELSE 0)]
  OBVIOUS
<1> HIDE DEF k, t, b
<1>5. /\ PolicyClosed(v) \in ForecastSteps
      /\ PolicyClosed(v).lethal = v.lethal /\ PolicyClosed(v).size = v.size
      /\ PolicyClosed(v).l = IF ~v.tail THEN v.l ELSE k
  BY <1>2, <1>3 DEF ForecastSteps
<1>6. Admitted(v.l) => Admitted(PolicyClosed(v).l) BY <1>2, <1>5
<1> QED BY <1>4, <1>5, <1>6

\* One update of the game and one of the reactive policy's forecast.
LEMMA BegunAlike ==
  ASSUME NEW l \in LaserStates, Admitted(l)
  PROVE  Alike(BegunWith(l), PolicyBegun(l)) /\ BegunWith(l).calls = << >>
<1>1. BeamSize(l) \in Int BY Sized
<1>2. BegunWith(l) \in LaserSteps /\ PolicyBegun(l) \in ForecastSteps
  BY <1>1 DEF BegunWith, PolicyBegun, LaserSteps, ForecastSteps
<1>3. /\ BegunWith(l).l = l /\ PolicyBegun(l).l = l /\ BegunWith(l).size = PolicyBegun(l).size
      /\ BegunWith(l).tail = PolicyBegun(l).tail /\ PolicyBegun(l).lethal = FALSE
      /\ BegunWith(l).calls = << >>
  BY DEF BegunWith, PolicyBegun
<1> QED BY <1>2, <1>3 DEF Alike

LEMMA Foreseen ==
  ASSUME NEW l \in LaserStates, Admitted(l)
  PROVE  /\ NativeUpdate(l) \in LaserSteps /\ Admitted(NativeUpdate(l).l)
         /\ PolicyUpdate(l) \in ForecastSteps /\ Admitted(PolicyUpdate(l).l)
         /\ PolicyUpdate(l).l.inUse = NativeUpdate(l).l.inUse
         /\ NativeUpdate(l).l.inUse => PolicyUpdate(l).l = NativeUpdate(l).l
         /\ PolicyUpdate(l).l.start = NativeUpdate(l).l.start /\ PolicyUpdate(l).l.end = NativeUpdate(l).l.end
         /\ PolicyUpdate(l).lethal <=> NativeUpdate(l).calls # << >>
         /\ \A i \in DOMAIN NativeUpdate(l).calls :
              Magnitude(NativeUpdate(l).calls[i]) <= Magnitude(PolicyUpdate(l).size)
<1> DEFINE e == Extended(l)
           u == Despawning(Active(Starting(BegunWith(e))))
           v == PolicyDespawning(PolicyActive(PolicyStarting(PolicyBegun(e))))
           n == NativeUpdate(l)
           p == PolicyUpdate(l)
<1>1. e \in LaserStates /\ Admitted(e) BY Stretched
<1>2. n = Closed(u) /\ p = PolicyClosed(v) BY DEF NativeUpdate, Begun1, PolicyUpdate
<1> HIDE DEF e, n, p
<1>3. Covered(u, v)
 <2>1. Alike(Starting(BegunWith(e)), PolicyStarting(PolicyBegun(e))) BY <1>1, BegunAlike, StartAlike
 <2> QED BY <2>1, ActiveAlike, DespawnCovered
<1> HIDE DEF u, v
<1>4. /\ u \in LaserSteps /\ v \in ForecastSteps /\ Admitted(u.l) /\ u.l = v.l /\ u.tail = v.tail
      /\ v.lethal <=> u.calls # << >>
      /\ \A i \in DOMAIN u.calls : Magnitude(u.calls[i]) <= Magnitude(v.size)
  BY <1>3 DEF Covered
<1>5. n \in LaserSteps /\ n.calls = u.calls /\ Admitted(n.l) BY <1>2, <1>4, ClosedFields
<1>6. p \in ForecastSteps /\ p.lethal = v.lethal /\ p.size = v.size /\ Admitted(p.l)
  BY <1>2, <1>4, PolicyClosedFields
<1>7. p.l.inUse = n.l.inUse /\ (n.l.inUse => p.l = n.l) /\ p.l.start = n.l.start /\ p.l.end = n.l.end
 <2> DEFINE b == u.l.start < FarAway
            t == u.l.timer + 1
            s == v.l.timer + (IF v.l.start < FarAway THEN 1 ELSE 0)
 <2>1. n.l = IF ~u.tail THEN u.l ELSE [u.l EXCEPT !.inUse = b, !.timer = t] BY <1>2, <1>4, ClosedFields
 <2>2. p.l = IF ~u.tail THEN u.l ELSE [u.l EXCEPT !.inUse = b, !.timer = s]
  <3>1. p.l = IF ~v.tail THEN v.l
              ELSE [v.l EXCEPT !.inUse = v.l.start < FarAway, !.timer = s]
    BY <1>2, <1>4, PolicyClosedFields
  <3> QED BY <1>4, <3>1
 <2>3. u.l \in LaserStates /\ (b => s = t) BY <1>4 DEF LaserSteps
 <2> HIDE DEF b, s, t
 <2>4. CASE ~u.tail BY <2>1, <2>2, <2>4
 <2>5. CASE u.tail
  <3>1. n.l = [u.l EXCEPT !.inUse = b, !.timer = t] /\ p.l = [u.l EXCEPT !.inUse = b, !.timer = s]
    BY <2>1, <2>2, <2>5
  <3>2. /\ n.l.inUse = b /\ p.l.inUse = b /\ n.l.start = u.l.start /\ p.l.start = u.l.start
        /\ n.l.end = u.l.end /\ p.l.end = u.l.end
    BY <2>3, <3>1 DEF LaserStates
  <3> QED BY <2>3, <3>1, <3>2
 <2> QED BY <2>4, <2>5
<1>8. p.lethal <=> n.calls # << >> BY <1>4, <1>5, <1>6
<1>9. \A i \in DOMAIN n.calls : Magnitude(n.calls[i]) <= Magnitude(p.size) BY <1>4, <1>5, <1>6
<1> QED BY <1>5, <1>6, <1>7, <1>8, <1>9 DEF n, p

\* How long the active phase lasts never changes.
LEMMA Lasting ==
  ASSUME NEW u \in LaserSteps, NEW v, Alike(u, v)
  PROVE  /\ u.calls = << >> => Starting(u).l.duration = u.l.duration
         /\ Active(u).l.duration = u.l.duration
         /\ Despawning(u).l.duration = u.l.duration
<1>1. u.l \in LaserStates /\ Admitted(u.l) /\ OneSize(u) BY DEF LaserSteps, Alike, OneSize
<1>2. ASSUME u.calls = << >> PROVE Starting(u).l.duration = u.l.duration
 <2>1. CASE u.l.phase # 0 BY <2>1 DEF Starting
 <2>2. CASE u.l.phase = 0
  <3>1. Unstarted(u) BY <1>1, <1>2, <2>2 DEF Admitted, Unstarted
  <3>2. Starting(u).l = IF u.l.timer >= u.l.startTime
                        THEN [u.l EXCEPT !.timer = 0, !.phase = 1] ELSE u.l
    BY <3>1, StartFields
  <3> QED BY <1>1, <3>2 DEF LaserStates
 <2> QED BY <2>1, <2>2
<1>3. Active(u).l.duration = u.l.duration
 <2>1. CASE u.l.phase # 1 BY <2>1 DEF Active
 <2>2. CASE u.l.phase = 1
  <3> DEFINE k == IF Over(u.l) THEN [u.l EXCEPT !.timer = 0, !.phase = 2] ELSE u.l
  <3>1. Active(u).l = IF Over(u.l) /\ u.l.fade = 0 THEN [k EXCEPT !.inUse = FALSE] ELSE k
    BY <1>1, <2>2, ActiveFields
  <3> DEFINE two == 2
  <3>2. [u.l EXCEPT !.timer = 0, !.phase = two] \in LaserStates
   <4>1. two \in 1 .. 2 OBVIOUS
   <4> HIDE DEF two
   <4> QED BY <1>1, <4>1, Fields
  <3>3. k \in LaserStates BY <1>1, <3>2
  <3>4. k.duration = u.l.duration BY <1>1 DEF LaserStates
  <3> HIDE DEF k
  <3> QED BY <3>1, <3>3, <3>4 DEF LaserStates
 <2> QED BY <2>1, <2>2
<1>4. Despawning(u).l.duration = u.l.duration
 <2>1. CASE u.l.phase # 2 \/ ~u.tail BY <2>1 DEF Despawning
 <2>2. CASE ~(u.l.phase # 2 \/ ~u.tail)
  <3>1. InFlight(u) /\ u.l.phase = 2 BY <2>2 DEF InFlight
  <3>2. Despawning(u).l = IF u.l.timer >= u.l.fade THEN [u.l EXCEPT !.inUse = FALSE] ELSE u.l
    BY <1>1, <3>1, DespawnFields
  <3> QED BY <1>1, <3>2 DEF LaserStates
 <2> QED BY <2>1, <2>2
<1> QED BY <1>2, <1>3, <1>4

\* The online policy's copy stays a laser that an update admits.
LEMMA MirrorTyped ==
  ASSUME NEW e \in LaserStates, Admitted(e)
  PROVE  /\ MirrorOf(e).l \in LaserStates /\ Admitted(MirrorOf(e).l)
         /\ MirrorOf(e).lethal \in BOOLEAN
<1> DEFINE starts == e.phase = 0 /\ e.timer >= e.startTime
           ends == e.phase = 1 /\ Over(e)
           dead == (ends /\ e.fade = 0) \/ (e.phase = 2 /\ e.timer >= e.fade) \/ e.start >= FarAway
           p == e.phase + 1
           stepped == IF starts \/ ends THEN [e EXCEPT !.timer = 0, !.phase = p] ELSE e
           t == stepped.timer + 1
<1>1. e.phase \in 0 .. 2 /\ (starts \/ ends => p \in 1 .. 2) BY DEF LaserStates
<1>2. [e EXCEPT !.timer = 0, !.phase = @ + 1] = [e EXCEPT !.timer = 0, !.phase = p] BY DEF LaserStates
<1>3. MirrorOf(e).l = IF dead THEN [stepped EXCEPT !.inUse = FALSE]
                      ELSE [stepped EXCEPT !.timer = @ + 1]
  BY <1>2 DEF MirrorOf
<1>4. MirrorOf(e).lethal \in BOOLEAN
 <2>1. MirrorOf(e).lethal = CASE e.phase = 0 -> e.timer >= e.hitStart \/ starts
                              [] e.phase = 1 -> TRUE
                              [] OTHER -> e.timer < e.hitEnd
   BY DEF MirrorOf
 <2>2. (e.timer >= e.hitStart \/ starts) \in BOOLEAN /\ (e.timer < e.hitEnd) \in BOOLEAN OBVIOUS
 <2>3. CASE e.phase = 0 BY <2>1, <2>2, <2>3, Zenon
 <2>4. CASE e.phase = 1 BY <2>1, <2>4
 <2>5. CASE e.phase # 0 /\ e.phase # 1 BY <2>1, <2>2, <2>5, Zenon
 <2> QED BY <2>3, <2>4, <2>5
<1> HIDE DEF starts, ends, dead, p
<1>5. stepped \in LaserStates /\ Admitted(stepped) BY <1>1, Fields
<1> HIDE DEF stepped
<1>6. /\ t \in Nat /\ stepped.inUse \in BOOLEAN
      /\ [stepped EXCEPT !.timer = @ + 1] = [stepped EXCEPT !.inUse = stepped.inUse, !.timer = t]
 <2>1. t \in Nat /\ stepped.inUse \in BOOLEAN BY <1>5 DEF LaserStates
 <2>2. [stepped EXCEPT !.timer = @ + 1] = [stepped EXCEPT !.timer = t] BY <1>5 DEF LaserStates
 <2> HIDE DEF t
 <2>3. [stepped EXCEPT !.timer = t] = [stepped EXCEPT !.inUse = stepped.inUse, !.timer = t]
   BY <1>5 DEF LaserStates
 <2> QED BY <2>1, <2>2, <2>3
<1> HIDE DEF t
<1>7. /\ [stepped EXCEPT !.inUse = FALSE] \in LaserStates
      /\ Admitted([stepped EXCEPT !.inUse = FALSE])
  BY <1>5, Fields
<1>8. /\ [stepped EXCEPT !.timer = @ + 1] \in LaserStates
      /\ Admitted([stepped EXCEPT !.timer = @ + 1])
  BY <1>5, <1>6, Fields
<1>9. MirrorOf(e).l \in LaserStates /\ Admitted(MirrorOf(e).l) BY <1>3, <1>7, <1>8
<1> QED BY <1>4, <1>9

\* The online policy's copy after an update, next to the laser itself.
Mirrors(m, n, e) ==
    /\ m.l.inUse = n.l.inUse
    /\ n.l.inUse => m.l = n.l
    /\ m.lethal <=> n.calls # << >>
    /\ BeamSize(e) >= Half1(e.width) =>
         \A i \in DOMAIN n.calls : Magnitude(n.calls[i]) <= Magnitude(m.size)
Flying(l) == l.inUse

LEMMA SameEnd ==
  ASSUME NEW u \in LaserSteps, InFlight(u), Flying(u.l), NEW k,
         k = IF u.l.start >= FarAway THEN [u.l EXCEPT !.inUse = FALSE]
             ELSE [u.l EXCEPT !.timer = @ + 1]
  PROVE  k.inUse = Closed(u).l.inUse /\ (Closed(u).l.inUse => k = Closed(u).l)
<1> DEFINE b == u.l.start < FarAway
           t == u.l.timer + 1
<1>1. Closed(u).l = [u.l EXCEPT !.inUse = b, !.timer = t]
 <2>1. u.tail BY DEF InFlight
 <2> QED BY <2>1, ClosedFields
<1>2. u.l \in LaserStates /\ u.l.inUse /\ b \in BOOLEAN /\ (b <=> ~(u.l.start >= FarAway))
  BY LaserSizes DEF Flying, LaserSteps, LaserStates
<1>3. CASE ~b
 <2>1. k = [u.l EXCEPT !.inUse = FALSE] BY <1>2, <1>3
 <2>2. k.inUse = FALSE /\ Closed(u).l.inUse = FALSE BY <1>1, <1>2, <1>3, <2>1 DEF LaserStates
 <2> QED BY <2>2
<1>4. CASE b
 <2>1. k = [u.l EXCEPT !.timer = t]
  <3>1. k = [u.l EXCEPT !.timer = @ + 1] BY <1>2, <1>4
  <3> QED BY <1>2, <3>1 DEF LaserStates
 <2> HIDE DEF t
 <2>2. Closed(u).l = [u.l EXCEPT !.inUse = TRUE, !.timer = t] BY <1>1, <1>4
 <2>3. u.l.inUse = TRUE BY <1>2 DEF LaserStates
 <2>4. u.l \in LaserStates BY <1>2
 <2>5. [u.l EXCEPT !.timer = t] = [u.l EXCEPT !.inUse = u.l.inUse, !.timer = t] BY <2>4 DEF LaserStates
 <2> QED BY <2>1, <2>2, <2>3, <2>5
<1> QED BY <1>3, <1>4

LEMMA MirrorsStart ==
  ASSUME NEW e \in LaserStates, Admitted(e), Flying(e), e.phase = 0, e.duration > 0
  PROVE  Mirrors(MirrorOf(e), Closed(Despawning(Active(Starting(BegunWith(e))))), e)
<1> DEFINE g == BegunWith(e)
           s == IF e.fadeAlpha THEN BeamSize(e) ELSE Growing(e)
           over == e.timer >= e.startTime
           k == [e EXCEPT !.timer = 0, !.phase = 1]
           u == Starting(g)
           m == MirrorOf(e)
<1>1. /\ g \in LaserSteps /\ g.l = e /\ g.size = BeamSize(e) /\ g.tail = TRUE /\ g.calls = << >>
  BY BegunAlike DEF Alike, BegunWith
<1>2. /\ u \in LaserSteps /\ s \in Int /\ u.size = s /\ u.tail = TRUE
      /\ u.l = (IF over THEN k ELSE e)
      /\ u.calls # << >> <=> e.timer >= e.hitStart
      /\ \A i \in DOMAIN u.calls : u.calls[i] = s
 <2>1. Unstarted(g) BY <1>1 DEF Admitted, Unstarted
 <2> HIDE DEF g
 <2> QED BY <1>1, <2>1, StartFields
<1>3. m.size = s /\ (m.lethal <=> (e.timer >= e.hitStart \/ over))
 <2>1. m.size = s BY DEF MirrorOf
 <2>2. m.lethal = (e.timer >= e.hitStart \/ over) BY DEF MirrorOf
 <2> QED BY <2>1, <2>2
<1>4. /\ ~over => m.l = IF e.start >= FarAway THEN [e EXCEPT !.inUse = FALSE]
                        ELSE [e EXCEPT !.timer = @ + 1]
      /\ over => m.l = IF k.start >= FarAway THEN [k EXCEPT !.inUse = FALSE]
                       ELSE [k EXCEPT !.timer = @ + 1]
 <2>1. k = [e EXCEPT !.timer = 0, !.phase = @ + 1] /\ k.start = e.start BY DEF LaserStates
 <2> HIDE DEF k
 <2>2. CASE ~over BY <2>2 DEF MirrorOf
 <2>3. CASE over BY <2>1, <2>3 DEF MirrorOf
 <2> QED BY <2>2, <2>3
<1>5. k.phase = 1 /\ k.timer = 0 /\ k.duration = e.duration /\ Flying(k) BY DEF Flying, LaserStates
<1> HIDE DEF g, s, k, u, m
<1>6. CASE ~over
 <2>1. Active(u) = u /\ Despawning(u) = u
  <3>1. u.l = e BY <1>2, <1>6
  <3>2. u.l.phase = 0 BY <3>1
  <3> QED BY <3>2 DEF Active, Despawning
 <2>2. m.l.inUse = Closed(u).l.inUse /\ (Closed(u).l.inUse => m.l = Closed(u).l)
   BY <1>2, <1>4, <1>6, SameEnd DEF InFlight
 <2>3. Closed(u).calls = u.calls BY <1>2, ClosedFields
 <2>4. Magnitude(s) <= Magnitude(s) BY <1>2 DEF Magnitude
 <2>5. Mirrors(m, Closed(u), e) BY <1>2, <1>3, <1>6, <2>2, <2>3, <2>4 DEF Mirrors
 <2> QED BY <2>1, <2>5 DEF m, u, g
<1>7. CASE over
 <2> DEFINE w == Active(u)
 <2>1. ~Over(k) BY <1>5 DEF Over, LaserStates
 <2>2. /\ w \in LaserSteps /\ w.tail = TRUE /\ w.l = k /\ w.calls # << >>
       /\ \A i \in DOMAIN w.calls : w.calls[i] = s
  <3>1. OneSize(u) /\ u.l.phase = 1 /\ u.l = k BY <1>2, <1>5, <1>7 DEF OneSize
  <3> QED BY <1>2, <2>1, <3>1, ActiveFields
 <2> HIDE DEF w
 <2>3. Despawning(w) = w BY <1>5, <2>2 DEF Despawning
 <2>4. m.l.inUse = Closed(w).l.inUse /\ (Closed(w).l.inUse => m.l = Closed(w).l)
   BY <1>4, <1>5, <1>7, <2>2, SameEnd DEF InFlight
 <2>5. Closed(w).calls = w.calls BY <2>2, ClosedFields
 <2>6. Magnitude(s) <= Magnitude(s) BY <1>2 DEF Magnitude
 <2>7. Mirrors(m, Closed(w), e) BY <1>3, <1>7, <2>2, <2>4, <2>5, <2>6 DEF Mirrors
 <2> QED BY <2>3, <2>7 DEF m, w, u, g
<1> QED BY <1>6, <1>7

LEMMA MirrorsActive ==
  ASSUME NEW e \in LaserStates, Admitted(e), Flying(e), e.phase = 1
  PROVE  Mirrors(MirrorOf(e), Closed(Despawning(Active(Starting(BegunWith(e))))), e)
<1> DEFINE g == BegunWith(e)
           s == BeamSize(e)
           over == Over(e)
           gone == Over(e) /\ e.fade = 0
           k == [e EXCEPT !.timer = 0, !.phase = 2]
           w == Active(g)
           m == MirrorOf(e)
<1>1. /\ g \in LaserSteps /\ g.l = e /\ g.size = s /\ g.tail = TRUE /\ g.calls = << >>
      /\ s \in Int
  BY BegunAlike, Sized DEF Alike, BegunWith
<1>2. Starting(g) = g BY <1>1 DEF Starting
<1>3. /\ w \in LaserSteps /\ w.size = s /\ w.calls # << >>
      /\ \A i \in DOMAIN w.calls : w.calls[i] = s
      /\ w.tail = IF gone THEN FALSE ELSE TRUE
      /\ w.l = IF gone THEN [k EXCEPT !.inUse = FALSE] ELSE IF over THEN k ELSE e
 <2>1. OneSize(g) BY <1>1 DEF OneSize
 <2> HIDE DEF g, s
 <2> QED BY <1>1, <2>1, ActiveFields
<1>4. m.size = s /\ m.lethal = TRUE BY DEF MirrorOf
<1>5. /\ gone => m.l = [k EXCEPT !.inUse = FALSE]
      /\ over /\ ~gone => m.l = IF k.start >= FarAway THEN [k EXCEPT !.inUse = FALSE]
                                ELSE [k EXCEPT !.timer = @ + 1]
      /\ ~over => m.l = IF e.start >= FarAway THEN [e EXCEPT !.inUse = FALSE]
                        ELSE [e EXCEPT !.timer = @ + 1]
 <2>1. k = [e EXCEPT !.timer = 0, !.phase = @ + 1] /\ k.start = e.start BY DEF LaserStates
 <2> HIDE DEF k
 <2>2. CASE gone BY <2>1, <2>2 DEF MirrorOf
 <2>3. CASE over /\ ~gone BY <2>1, <2>3 DEF MirrorOf
 <2>4. CASE ~over BY <2>4 DEF MirrorOf
 <2> QED BY <2>2, <2>3, <2>4
<1>6. k.phase = 2 /\ k.timer = 0 /\ k.fade = e.fade /\ k.width = e.width /\ Flying(k)
      /\ k \in LaserStates
 <2> DEFINE two == 2
 <2>1. [e EXCEPT !.timer = 0, !.phase = two] \in LaserStates
  <3>1. two \in 1 .. 2 OBVIOUS
  <3> HIDE DEF two
  <3> QED BY <3>1, Fields
 <2>2. k.phase = 2 /\ k.timer = 0 /\ k.fade = e.fade /\ k.width = e.width /\ Flying(k)
   BY DEF Flying, LaserStates
 <2> QED BY <2>1, <2>2
<1>7. Magnitude(s) <= Magnitude(s) BY <1>1 DEF Magnitude
<1> HIDE DEF g, s, k, w, m
<1>8. CASE ~over
 <2>1. w.l = e /\ w.tail = TRUE BY <1>3, <1>8
 <2>2. Despawning(w) = w BY <2>1 DEF Despawning
 <2>3. m.l.inUse = Closed(w).l.inUse /\ (Closed(w).l.inUse => m.l = Closed(w).l)
   BY <1>3, <1>5, <1>8, <2>1, SameEnd DEF InFlight
 <2>4. Closed(w).calls = w.calls BY <1>3, ClosedFields
 <2>5. Mirrors(m, Closed(w), e) BY <1>3, <1>4, <1>7, <2>3, <2>4 DEF Mirrors
 <2> QED BY <1>2, <2>2, <2>5 DEF m, w, g
<1>9. CASE gone
 <2>1. w.l = [k EXCEPT !.inUse = FALSE] /\ w.tail = FALSE BY <1>3, <1>9
 <2>2. Despawning(w) = w BY <2>1 DEF Despawning
 <2>3. Closed(w).l = w.l /\ Closed(w).calls = w.calls BY <1>3, <2>1, ClosedFields
 <2>4. m.l.inUse = FALSE /\ Closed(w).l.inUse = FALSE BY <1>5, <1>6, <1>9, <2>1, <2>3 DEF LaserStates
 <2>5. Mirrors(m, Closed(w), e) BY <1>3, <1>4, <1>7, <2>3, <2>4 DEF Mirrors
 <2> QED BY <1>2, <2>2, <2>5 DEF m, w, g
<1>10. CASE over /\ ~gone
 <2> DEFINE z == IF k.fadeAlpha \/ k.fade = 0 THEN s ELSE Shrinking(k)
            x == Despawning(w)
 <2>1. w.l = k /\ w.tail = TRUE /\ k.fade # 0 /\ k.fade \in Nat BY <1>3, <1>6, <1>10 DEF LaserStates
 <2>2. ~(k.timer >= k.fade) BY <1>6, <2>1
 <2>3. /\ x \in LaserSteps /\ x.tail = TRUE /\ x.l = k /\ x.calls # << >> /\ z \in Int
       /\ \A i \in DOMAIN x.calls : x.calls[i] = z \/ x.calls[i] = s
  <3>1. OneSize(w) /\ InFlight(w) /\ w.l.phase = 2 BY <1>3, <1>6, <2>1 DEF OneSize, InFlight
  <3> QED BY <1>3, <2>1, <2>2, <3>1, DespawnFields
 <2> HIDE DEF x
 <2>4. s >= Half1(e.width) => Magnitude(z) <= Magnitude(s)
  <3>1. Shrinking(k) = Half1(e.width)
   <4>1. e.width \in Nat /\ 0 * e.width = 0 BY DEF LaserStates
   <4>2. 0 \div k.fade = 0 BY <2>1
   <4>3. (k.timer * k.width) \div k.fade = 0 BY <1>6, <4>1, <4>2
   <4>4. Shrinking(k) = Half1(e.width - 0) BY <1>6, <4>3 DEF Shrinking
   <4> QED BY <4>1, <4>4
  <3>2. Half1(e.width) \in Nat BY Sized
  <3>3. s >= Half1(e.width) => Magnitude(Half1(e.width)) <= Magnitude(s) BY <1>1, <3>2 DEF Magnitude
  <3> QED BY <1>7, <3>1, <3>3
 <2> HIDE DEF z
 <2>5. m.l.inUse = Closed(x).l.inUse /\ (Closed(x).l.inUse => m.l = Closed(x).l)
   BY <1>5, <1>6, <1>10, <2>3, SameEnd DEF InFlight
 <2>6. Closed(x).calls = x.calls BY <2>3, ClosedFields
 <2>7. s >= Half1(e.width) =>
         \A i \in DOMAIN Closed(x).calls : Magnitude(Closed(x).calls[i]) <= Magnitude(m.size)
   BY <1>4, <1>7, <2>3, <2>4, <2>6
 <2>8. Mirrors(m, Closed(x), e) BY <1>4, <2>3, <2>5, <2>6, <2>7 DEF Mirrors, s
 <2> QED BY <1>2, <2>8 DEF m, x, w, g
<1> QED BY <1>8, <1>9, <1>10

LEMMA MirrorsFading ==
  ASSUME NEW e \in LaserStates, Admitted(e), Flying(e), e.phase = 2
  PROVE  Mirrors(MirrorOf(e), Closed(Despawning(Active(Starting(BegunWith(e))))), e)
<1> DEFINE g == BegunWith(e)
           s == BeamSize(e)
           z == IF e.fadeAlpha \/ e.fade = 0 THEN s ELSE Shrinking(e)
           over == e.timer >= e.fade
           x == Despawning(g)
           m == MirrorOf(e)
<1>1. /\ g \in LaserSteps /\ g.l = e /\ g.size = s /\ g.tail = TRUE /\ g.calls = << >>
      /\ s \in Int
  BY BegunAlike, Sized DEF Alike, BegunWith
<1>2. Starting(g) = g /\ Active(g) = g
 <2>1. g.l.phase = 2 BY <1>1
 <2> HIDE DEF g
 <2> QED BY <2>1 DEF Starting, Active
<1>3. /\ x \in LaserSteps /\ z \in Int
      /\ x.tail = IF over THEN FALSE ELSE TRUE
      /\ x.l = IF over THEN [e EXCEPT !.inUse = FALSE] ELSE e
      /\ x.calls # << >> <=> e.timer < e.hitEnd
      /\ \A i \in DOMAIN x.calls : x.calls[i] = z
 <2>1. OneSize(g) /\ InFlight(g) /\ g.l.phase = 2 BY <1>1 DEF OneSize, InFlight
 <2> HIDE DEF g, s, x
 <2>2. /\ x \in LaserSteps /\ z \in Int
       /\ x.tail = IF over THEN FALSE ELSE g.tail
       /\ x.l = IF over THEN [e EXCEPT !.inUse = FALSE] ELSE e
   BY <1>1, <2>1, DespawnFields DEF x
 <2>3. /\ x.calls # << >> <=> (e.timer < e.hitEnd \/ g.calls # << >>)
       /\ \A i \in DOMAIN x.calls : x.calls[i] = z \/ (g.calls # << >> /\ x.calls[i] = g.size)
   BY <1>1, <2>1, DespawnFields DEF x
 <2> QED BY <1>1, <2>2, <2>3
<1>4. m.size = z /\ (m.lethal <=> e.timer < e.hitEnd)
 <2>1. m.lethal = (e.timer < e.hitEnd) BY DEF MirrorOf
 <2>2. m.size = CASE e.phase = 0 /\ ~e.fadeAlpha -> Growing(e)
                  [] e.phase = 2 /\ ~e.fadeAlpha /\ e.fade > 0 -> Shrinking(e)
                  [] OTHER -> s
   BY DEF MirrorOf
 <2>3. e.fade > 0 <=> e.fade # 0 BY DEF LaserStates
 <2> HIDE DEF s, m
 <2>4. m.size = z BY <2>2, <2>3
 <2> QED BY <2>1, <2>4
<1>5. /\ over => m.l = [e EXCEPT !.inUse = FALSE]
      /\ ~over => m.l = IF e.start >= FarAway THEN [e EXCEPT !.inUse = FALSE]
                        ELSE [e EXCEPT !.timer = @ + 1]
  BY DEF MirrorOf
<1>6. Magnitude(z) <= Magnitude(z) BY <1>3 DEF Magnitude
<1> HIDE DEF g, s, z, x, m
<1>7. CASE over
 <2>1. x.l = [e EXCEPT !.inUse = FALSE] /\ x.tail = FALSE BY <1>3, <1>7
 <2>2. Closed(x).l = x.l /\ Closed(x).calls = x.calls BY <1>3, <2>1, ClosedFields
 <2>3. m.l.inUse = FALSE /\ Closed(x).l.inUse = FALSE BY <1>5, <1>7, <2>1, <2>2 DEF LaserStates
 <2>4. Mirrors(m, Closed(x), e) BY <1>3, <1>4, <1>6, <2>2, <2>3 DEF Mirrors
 <2> QED BY <1>2, <2>4 DEF m, x, g
<1>8. CASE ~over
 <2>1. x.l = e /\ x.tail = TRUE BY <1>3, <1>8
 <2>2. m.l.inUse = Closed(x).l.inUse /\ (Closed(x).l.inUse => m.l = Closed(x).l)
   BY <1>3, <1>5, <1>8, <2>1, SameEnd DEF InFlight
 <2>3. Closed(x).calls = x.calls BY <1>3, ClosedFields
 <2>4. Mirrors(m, Closed(x), e) BY <1>3, <1>4, <1>6, <2>2, <2>3 DEF Mirrors
 <2> QED BY <1>2, <2>4 DEF m, x, g
<1> QED BY <1>7, <1>8

\* One update of the laser and what the online policy's copy makes of it;
\* the length of the active phase is left alone.
LEMMA Mirrored ==
  ASSUME NEW l \in LaserStates, Admitted(l), Flying(l), l.duration > 0
  PROVE  /\ MirrorUpdate(l).l.inUse = NativeUpdate(l).l.inUse
         /\ NativeUpdate(l).l.inUse => MirrorUpdate(l).l = NativeUpdate(l).l
         /\ MirrorUpdate(l).lethal <=> NativeUpdate(l).calls # << >>
         /\ BeamSize(Extended(l)) >= Half1(l.width) =>
              \A i \in DOMAIN NativeUpdate(l).calls :
                Magnitude(NativeUpdate(l).calls[i]) <= Magnitude(MirrorUpdate(l).size)
<1> DEFINE e == Extended(l)
           n == NativeUpdate(l)
           m == MirrorUpdate(l)
<1>1. /\ e \in LaserStates /\ Admitted(e) /\ e.duration = l.duration /\ e.width = l.width
      /\ Flying(e)
 <2>1. Flying(e) BY DEF Extended, Flying, LaserStates
 <2> QED BY <2>1, Stretched
<1>2. /\ n = Closed(Despawning(Active(Starting(BegunWith(e)))))
      /\ m = MirrorOf(e)
  BY DEF NativeUpdate, Begun1, MirrorUpdate
<1> HIDE DEF e, n, m
<1>3. Mirrors(m, n, e)
 <2>1. e.phase = 0 \/ e.phase = 1 \/ e.phase = 2 BY <1>1 DEF LaserStates
 <2> QED BY <1>1, <1>2, <2>1, MirrorsStart, MirrorsActive, MirrorsFading
<1> QED BY <1>1, <1>3 DEF Mirrors, e, n, m

LEMMA LastingUpdate ==
  ASSUME NEW l \in LaserStates, Admitted(l)
  PROVE  NativeUpdate(l).l.duration = l.duration
<1> DEFINE e == Extended(l)
           a == BegunWith(e)
           b == Starting(a)
           c == Active(b)
           d == Despawning(c)
           a1 == PolicyBegun(e)
           b1 == PolicyStarting(a1)
           c1 == PolicyActive(b1)
           d1 == PolicyDespawning(c1)
<1>1. e \in LaserStates /\ Admitted(e) /\ e.duration = l.duration BY Stretched
<1>2. NativeUpdate(l) = Closed(d) BY DEF NativeUpdate, Begun1
<1> HIDE DEF e
<1>3. Alike(a, a1) /\ a.calls = << >> /\ a.l = e BY <1>1, BegunAlike DEF BegunWith
<1> HIDE DEF a, a1
<1>4. Alike(b, b1) /\ b.l.duration = a.l.duration
 <2>1. Alike(b, b1) BY <1>3, StartAlike
 <2>2. a \in LaserSteps BY <1>3 DEF Alike
 <2> QED BY <1>3, <2>1, <2>2, Lasting
<1> HIDE DEF b, b1
<1>5. Alike(c, c1) /\ c.l.duration = b.l.duration
 <2>1. Alike(c, c1) BY <1>4, ActiveAlike
 <2>2. b \in LaserSteps BY <1>4 DEF Alike
 <2> QED BY <1>4, <2>1, <2>2, Lasting
<1> HIDE DEF c, c1
<1>6. d \in LaserSteps /\ d.l.duration = c.l.duration
 <2>1. Covered(d, d1) BY <1>5, DespawnCovered
 <2>2. c \in LaserSteps /\ d \in LaserSteps BY <1>5, <2>1 DEF Alike, Covered
 <2> QED BY <1>5, <2>2, Lasting
<1> HIDE DEF d
<1>7. d.l \in LaserStates BY <1>6 DEF LaserSteps
<1>8. Closed(d).l.duration = d.l.duration
 <2>1. Closed(d).l = IF ~d.tail THEN d.l
                     ELSE [d.l EXCEPT !.inUse = d.l.start < FarAway, !.timer = d.l.timer + 1]
   BY <1>6, ClosedFields
 <2> QED BY <1>7, <2>1 DEF LaserStates
<1> QED BY <1>1, <1>2, <1>3, <1>4, <1>5, <1>6, <1>8

LEMMA LaserBegin ==
  ASSUME LaserInit
  PROVE  LaserInv
<1>1. PICK birth \in LaserBirths :
        laser = birth /\ foreseen = birth /\ mirrored = birth /\ hit = NoHit
  BY DEF LaserInit
<1>2. birth \in LaserStates /\ Admitted(birth) BY LaserAssumption
<1>3. LaserTyped /\ CopiesInStep BY <1>1, <1>2 DEF LaserTyped, CopiesInStep
<1>4. CoveredLaser
 <2>1. hit.calls = << >> /\ hit.lethal = FALSE /\ hit.seen = 0 /\ hit.centre = 0
       /\ hit.long = FALSE
   BY <1>1 DEF NoHit
 <2>2. DOMAIN hit.calls = {} BY <2>1
 <2> QED BY <1>1, <2>1, <2>2 DEF CoveredLaser
<1> QED BY <1>3, <1>4 DEF LaserInv

LEMMA UpdateStep ==
  ASSUME LaserInv, LaserUpdate
  PROVE  LaserInv'
<1> DEFINE n == NativeUpdate(laser)
           f == PolicyUpdate(laser)
           m == Mirror1(mirrored)
           e == Extended(laser)
<1>1. LaserTyped /\ CopiesInStep BY DEF LaserInv
<1>2. /\ laser \in LaserStates /\ Admitted(laser) /\ laser.inUse /\ Flying(laser)
      /\ mirrored \in LaserStates /\ Admitted(mirrored) /\ foreseen = laser
  BY <1>1 DEF LaserUpdate, LaserTyped, CopiesInStep, Flying
<1>3. Foresee(foreseen) = f BY <1>2 DEF Foresee
<1>4. /\ laser' = n.l /\ foreseen' = f.l /\ mirrored' = m.l
      /\ hit' = [calls |-> n.calls, centre |-> Centre(e), seen |-> Centre(e),
                 lethal |-> f.lethal, size |-> f.size, mirror |-> m.lethal, mirrorSize |-> m.size,
                 long |-> BeamSize(e) >= Half1(laser.width)]
  BY <1>2, <1>3 DEF LaserUpdate
<1>5. /\ n \in LaserSteps /\ Admitted(n.l) /\ f \in ForecastSteps /\ Admitted(f.l)
      /\ f.l.inUse = n.l.inUse /\ (n.l.inUse => f.l = n.l)
  BY <1>2, Foreseen
<1>6. /\ f.lethal <=> n.calls # << >>
      /\ \A i \in DOMAIN n.calls : Magnitude(n.calls[i]) <= Magnitude(f.size)
  BY <1>2, Foreseen
<1>7. n.l.duration = laser.duration BY <1>2, LastingUpdate
<1>8. m.l \in LaserStates /\ Admitted(m.l)
 <2>1. CASE ~mirrored.inUse BY <1>2, <2>1 DEF Mirror1
 <2>2. CASE mirrored.inUse
  <3>1. Extended(mirrored) \in LaserStates /\ Admitted(Extended(mirrored)) BY <1>2, Stretched
  <3> QED BY <2>2, <3>1, MirrorTyped DEF Mirror1, MirrorUpdate
 <2> QED BY <2>1, <2>2
<1>9. ASSUME laser.duration > 0
      PROVE  /\ m.l.inUse = n.l.inUse /\ (n.l.inUse => m.l = n.l)
             /\ m.lethal \in BOOLEAN /\ (m.lethal <=> n.calls # << >>)
             /\ BeamSize(e) >= Half1(laser.width) =>
                  \A i \in DOMAIN n.calls : Magnitude(n.calls[i]) <= Magnitude(m.size)
 <2>1. mirrored = laser BY <1>1, <1>2, <1>9 DEF CopiesInStep
 <2>2. m = MirrorUpdate(laser) BY <1>2, <2>1 DEF Mirror1
 <2>3. m.lethal \in BOOLEAN
  <3>1. Extended(laser) \in LaserStates /\ Admitted(Extended(laser)) BY <1>2, Stretched
  <3> QED BY <2>2, <3>1, MirrorTyped DEF MirrorUpdate
 <2> HIDE DEF n, m, e
 <2>4. m.l.inUse = n.l.inUse /\ (n.l.inUse => m.l = n.l) /\ (m.lethal <=> n.calls # << >>)
   BY <1>2, <1>9, <2>2, Mirrored DEF n
 <2>5. BeamSize(e) >= Half1(laser.width) =>
         \A i \in DOMAIN n.calls : Magnitude(n.calls[i]) <= Magnitude(m.size)
   BY <1>2, <1>9, <2>2, Mirrored DEF n, e
 <2> QED BY <2>3, <2>4, <2>5
<1> HIDE DEF n, f, m, e
<1>10. LaserTyped'
 <2>1. n.l \in LaserStates /\ f.l \in LaserStates BY <1>5 DEF LaserSteps, ForecastSteps
 <2> QED BY <1>4, <1>5, <1>8, <2>1 DEF LaserTyped
<1>11. CopiesInStep' BY <1>4, <1>5, <1>7, <1>9 DEF CopiesInStep
<1>12. CoveredLaser'
 <2>1. /\ hit'.calls = n.calls /\ hit'.seen = hit'.centre /\ hit'.lethal = f.lethal
       /\ hit'.size = f.size /\ hit'.mirror = m.lethal /\ hit'.mirrorSize = m.size
       /\ hit'.long = (BeamSize(e) >= Half1(laser.width))
   BY <1>4
 <2>2. f.lethal \in BOOLEAN BY <1>5 DEF ForecastSteps
 <2>3. hit'.lethal = (hit'.calls # << >>) BY <1>6, <2>1, <2>2
 <2>4. \A i \in DOMAIN hit'.calls : Magnitude(hit'.calls[i]) <= Magnitude(hit'.size) BY <1>6, <2>1
 <2>5. ASSUME laser'.duration > 0, hit'.long
       PROVE  /\ mirrored'.inUse = laser'.inUse
              /\ hit'.mirror = (hit'.calls # << >>)
              /\ \A i \in DOMAIN hit'.calls : Magnitude(hit'.calls[i]) <= Magnitude(hit'.mirrorSize)
  <3>1. laser.duration > 0 BY <1>4, <1>7, <2>5
  <3>2. BeamSize(e) >= Half1(laser.width) BY <2>1, <2>5
  <3>3. mirrored'.inUse = laser'.inUse BY <1>4, <1>9, <3>1
  <3>4. hit'.mirror = (hit'.calls # << >>) BY <1>9, <2>1, <3>1
  <3>5. \A i \in DOMAIN hit'.calls : Magnitude(hit'.calls[i]) <= Magnitude(hit'.mirrorSize)
    BY <1>9, <2>1, <3>1, <3>2
  <3> QED BY <3>3, <3>4, <3>5
 <2>6. foreseen'.inUse = laser'.inUse BY <1>4, <1>5
 <2> QED BY <2>1, <2>3, <2>4, <2>5, <2>6 DEF CoveredLaser
<1> QED BY <1>10, <1>11, <1>12 DEF LaserInv

LEMMA LaserStep ==
  ASSUME LaserInv, [LaserNext]_laserVars
  PROVE  LaserInv'
<1>1. CASE LaserUpdate BY <1>1, UpdateStep
<1>2. CASE LookAgain
 <2>1. /\ laser.inUse /\ laser' = laser /\ hit' = hit /\ foreseen' = laser /\ mirrored' = laser
   BY <1>2 DEF LookAgain
 <2> QED BY <2>1 DEF LaserInv, LaserTyped, CopiesInStep, CoveredLaser
<1>3. CASE UNCHANGED laserVars BY <1>3 DEF laserVars, LaserInv, LaserTyped, CopiesInStep, CoveredLaser
<1> QED BY <1>1, <1>2, <1>3 DEF LaserNext

\* Whatever laser is born, the reactive policy's copy of it is the laser
\* as long as it is in use, and the online policy's copy as well when the
\* active phase lasts (a laser whose active phase is empty is where one
\* phase per update falls behind).
THEOREM LaserInvariance == LaserSpec => []LaserInv
<1>1. LaserInit => LaserInv BY LaserBegin
<1>2. LaserInv /\ [LaserNext]_laserVars => LaserInv' BY LaserStep
<1> QED BY <1>1, <1>2, PTL DEF LaserSpec

\* The forecast of a laser (native_policy.hpp, advance) covers every
\* collision call the game makes of it, and no other update; so does the
\* online policy's (online.cpp, laser_forecast) when the laser is longer
\* than half its width and its active phase lasts.
THEOREM LaserCovered == LaserSpec => []CoveredLaser
<1>1. LaserInv => CoveredLaser BY DEF LaserInv
<1> QED BY <1>1, LaserInvariance, PTL

----
\* The choice of the reactive policies.  First what a minimum, a sum and a
\* recursive function over a range are; then the parts a decision is made
\* of, in the order of HazardChoice; at the end the invariant.
\* Finite sets, orders and recursion.  A property that holds of the first
\* number of a range and of each one's successor holds of all.
LEMMA Upward ==
  ASSUME NEW low \in Nat, NEW n \in Nat, NEW S, low \in S, \A k \in low .. n - 1 : k \in S => k + 1 \in S
  PROVE  \A k \in low .. n : k \in S
<1> DEFINE Bad == {k \in low .. n : k \notin S}
<1>1. ASSUME Bad # {} PROVE FALSE
 <2>1. PICK k \in Bad : \A j \in Bad : k <= j
  <3>1. Bad \subseteq Nat OBVIOUS
  <3> QED BY <1>1, <3>1, Least
 <2>2. k - 1 \in low .. n - 1 /\ k - 1 \notin Bad /\ (k - 1) + 1 = k BY <2>1
 <2> QED BY <2>1, <2>2
<1> QED BY <1>1

\* What is defined by recursion over a range exists, and has the type its
\* steps keep.
Follows1(f, low, n, base, g, V) ==
    f \in [low .. n -> V] /\ f = [k \in low .. n |-> IF k = low THEN base ELSE g[<<k, f[k - 1]>>]]

LEMMA Unfolds ==
  ASSUME NEW low \in Nat, NEW n \in Nat, low <= n, NEW V, NEW base \in V, NEW g \in [(low .. n) \X V -> V]
  PROVE  \E f : Follows1(f, low, n, base, g, V)
<1> DEFINE Fit(m, f) == f \in [low .. m -> V] /\ \A k \in low .. m : f[k] = IF k = low THEN base ELSE g[<<k, f[k - 1]>>]
           S == {m \in low .. n : \E f : Fit(m, f)}
<1>1. low \in S
 <2> DEFINE e == [k \in low .. low |-> base]
 <2>1. Fit(low, e) OBVIOUS
 <2> HIDE DEF e, Fit
 <2> QED BY <2>1
<1>2. ASSUME NEW m \in low .. n - 1, m \in S PROVE m + 1 \in S
 <2>1. PICK f : Fit(m, f) BY <1>2
 <2> DEFINE v == g[<<m + 1, f[m]>>]
            h == [k \in low .. m + 1 |-> IF k = m + 1 THEN v ELSE f[k]]
 <2>2. v \in V
  <3>1. f[m] \in V /\ m + 1 \in low .. n BY <2>1
  <3> QED BY <3>1
 <2>3. h \in [low .. m + 1 -> V] BY <2>1, <2>2
 <2>4. ASSUME NEW k \in low .. m + 1 PROVE h[k] = IF k = low THEN base ELSE g[<<k, h[k - 1]>>]
  <3>1. CASE k = m + 1
   <4>1. k # low /\ k - 1 = m /\ m \in low .. m + 1 /\ m # m + 1 BY <3>1
   <4> QED BY <3>1, <4>1
  <3>2. CASE k # m + 1
   <4>1. k \in low .. m /\ (k # low => k - 1 \in low .. m + 1 /\ k - 1 # m + 1) BY <3>2
   <4> QED BY <2>1, <3>2, <4>1
  <3> QED BY <3>1, <3>2
 <2> HIDE DEF h
 <2>5. Fit(m + 1, h) BY <2>3, <2>4
 <2> HIDE DEF Fit
 <2> QED BY <2>5
<1> HIDE DEF S
<1>3. \A m \in low .. n : m \in S BY <1>1, <1>2, Upward
<1>4. PICK f : Fit(n, f) BY <1>3 DEF S
<1>5. f = [k \in low .. n |-> f[k]] BY <1>4
<1> QED BY <1>4, <1>5 DEF Follows1

\* An image of a finite set, and what is inside one, is finite.
LEMMA Image ==
  ASSUME NEW S, IsFiniteSet(S), NEW f, NEW T, T \subseteq {f[x] : x \in S}
  PROVE  IsFiniteSet(T)
<1> DEFINE U == {f[x] : x \in S}
           h == [x \in S |-> f[x]]
<1>1. h \in Surjection(S, U) BY DEF Surjection
<1>2. IsFiniteSet(U) BY <1>1, FS_Surjection
<1> QED BY <1>2, FS_Subset

----
\* A strict order on a finite set, as a set of pairs: whoever is earlier
\* has fewer before him, so no two have as many and one is first.
EarlierIn(R, S, n) == {m \in S : <<m, n>> \in R}
Ordered(R, S) ==
    /\ \A a \in S : <<a, a>> \notin R
    /\ \A a, b, c \in S : <<a, b>> \in R /\ <<b, c>> \in R => <<a, c>> \in R
    /\ \A a, b \in S : a # b => <<a, b>> \in R \/ <<b, a>> \in R

LEMMA Places1 ==
  ASSUME NEW S, IsFiniteSet(S), NEW R, Ordered(R, S)
  PROVE  /\ \A n \in S : IsFiniteSet(EarlierIn(R, S, n)) /\ Cardinality(EarlierIn(R, S, n)) \in Nat
         /\ \A m, n \in S : <<m, n>> \in R => Cardinality(EarlierIn(R, S, m)) < Cardinality(EarlierIn(R, S, n))
         /\ \A m, n \in S : Cardinality(EarlierIn(R, S, m)) = Cardinality(EarlierIn(R, S, n)) => m = n
<1> DEFINE E(n) == EarlierIn(R, S, n)
<1>1. ASSUME NEW n \in S PROVE IsFiniteSet(E(n)) /\ Cardinality(E(n)) \in Nat
 <2>1. E(n) \in SUBSET S BY DEF EarlierIn
 <2> HIDE DEF E
 <2> QED BY <2>1, FS_Subset, FS_CardinalityType
<1>2. ASSUME NEW m \in S, NEW n \in S, <<m, n>> \in R PROVE Cardinality(E(m)) < Cardinality(E(n))
 <2>1. E(m) \in SUBSET E(n) /\ m \in E(n) /\ m \notin E(m) BY <1>2 DEF EarlierIn, Ordered
 <2> HIDE DEF E
 <2>2. Cardinality(E(m)) <= Cardinality(E(n)) /\ Cardinality(E(m)) # Cardinality(E(n)) BY <1>1, <2>1, FS_Subset
 <2> QED BY <1>1, <2>2
<1>3. ASSUME NEW m \in S, NEW n \in S, m # n PROVE Cardinality(E(m)) # Cardinality(E(n))
 <2>1. <<m, n>> \in R \/ <<n, m>> \in R BY <1>3 DEF Ordered
 <2> HIDE DEF E
 <2>2. Cardinality(E(m)) < Cardinality(E(n)) \/ Cardinality(E(n)) < Cardinality(E(m)) BY <1>2, <2>1
 <2> QED BY <1>1, <2>2
<1> QED BY <1>1, <1>2, <1>3

LEMMA Smallest ==
  ASSUME NEW S, IsFiniteSet(S), S # {}, NEW R, Ordered(R, S)
  PROVE  \E n \in S : EarlierIn(R, S, n) = {} /\ \A m \in S : m # n => <<n, m>> \in R
<1> DEFINE N == {Cardinality(EarlierIn(R, S, n)) : n \in S}
<1>1. N \subseteq Nat /\ N # {} BY Places1
<1>2. PICK k \in N : \A j \in N : k <= j
 <2> HIDE DEF N
 <2> QED BY <1>1, Least
<1>3. PICK n \in S : k = Cardinality(EarlierIn(R, S, n)) BY <1>2
<1>4. ASSUME NEW m \in S PROVE <<m, n>> \notin R
 <2>1. Cardinality(EarlierIn(R, S, m)) \in N /\ k \in Nat BY <1>1, <1>2
 <2>2. k <= Cardinality(EarlierIn(R, S, m)) /\ Cardinality(EarlierIn(R, S, m)) \in Nat BY <1>1, <1>2, <2>1
 <2> HIDE DEF N
 <2> QED BY <1>3, <2>1, <2>2, Places1
<1> HIDE DEF N
<1>5. EarlierIn(R, S, n) = {} BY <1>4 DEF EarlierIn
<1>6. \A m \in S : m # n => <<n, m>> \in R BY <1>4 DEF Ordered
<1> QED BY <1>5, <1>6

\* The least and the greatest of finitely many numbers.
LEMMA Extremes ==
  ASSUME NEW S, IsFiniteSet(S), S # {}, S \subseteq Int
  PROVE  /\ Min(S) \in S /\ \A x \in S : Min(S) <= x
         /\ Max(S) \in S /\ \A x \in S : Max(S) >= x
<1> DEFINE R == {z \in S \X S : z[1] < z[2]}
           Q == {z \in S \X S : z[2] < z[1]}
<1>1. (\A a, b \in S : <<a, b>> \in R <=> a < b) /\ (\A a, b \in S : <<a, b>> \in Q <=> b < a) OBVIOUS
<1> HIDE DEF R, Q
<1>2. Ordered(R, S) /\ Ordered(Q, S)
 <2>1. Ordered(R, S) BY <1>1 DEF Ordered
 <2>2. Ordered(Q, S) BY <1>1 DEF Ordered
 <2> QED BY <2>1, <2>2
<1>3. PICK a \in S : \A m \in S : m # a => <<a, m>> \in R BY <1>2, Smallest
<1>4. PICK b \in S : \A m \in S : m # b => <<b, m>> \in Q BY <1>2, Smallest
<1>5. \A x \in S : a <= x /\ b >= x
 <2> TAKE x \in S
 <2>1. a \in Int /\ b \in Int /\ x \in Int OBVIOUS
 <2>2. (x # a => a < x) /\ (x # b => x < b) BY <1>1, <1>3, <1>4
 <2> QED BY <2>1, <2>2
<1>6. Min(S) \in S /\ \A x \in S : Min(S) <= x BY <1>5, Zenon DEF Min
<1>7. Max(S) \in S /\ \A x \in S : Max(S) >= x BY <1>5, Zenon DEF Max
<1> QED BY <1>6, <1>7

\* A sum over a finite set, as the fold that defines it: by recursion over
\* the number of elements.
Picked(s) == CHOOSE x \in s : TRUE
Totals(I, W, S) == I = [s \in SUBSET S |-> IF s = {} THEN 0 ELSE W[Picked(s)] + I[s \ {Picked(s)}]]

LEMMA TotalIs ==
  ASSUME NEW S, IsFiniteSet(S), NEW W \in [S -> Int]
  PROVE  (\E I : Totals(I, W, S)) /\ \A I : Totals(I, W, S) => I[S] \in Int
<1> DEFINE V == [SUBSET S -> Int]
           N == Cardinality(S)
<1>1. \A s \in SUBSET S : Cardinality(s) \in 0 .. N /\ (Cardinality(s) = 0 <=> s = {})
 <2> TAKE s \in SUBSET S
 <2>1. IsFiniteSet(s) /\ Cardinality(s) <= N BY FS_Subset
 <2>2. Cardinality(s) \in Nat /\ N \in Nat /\ (Cardinality(s) = 0 <=> s = {})
   BY <2>1, FS_CardinalityType, FS_EmptySet
 <2> QED BY <2>1, <2>2
<1>5. \A s \in SUBSET S : s # {} => /\ Picked(s) \in s /\ s \ {Picked(s)} \in SUBSET S
                                    /\ Cardinality(s \ {Picked(s)}) = Cardinality(s) - 1
 <2> TAKE s \in SUBSET S
 <2> HAVE s # {}
 <2>1. Picked(s) \in s /\ IsFiniteSet(s) BY FS_Subset DEF Picked
 <2>2. Cardinality(s \ {Picked(s)}) = Cardinality(s) - 1 BY <2>1, FS_RemoveElement
 <2> QED BY <2>1, <2>2
<1>2. N \in Nat BY FS_CardinalityType
<1> HIDE DEF N
<1>3. \E I : Totals(I, W, S)
 <2> DEFINE More(z) == [s \in SUBSET S |-> IF s = {} THEN 0 ELSE W[Picked(s)] + z[2][s \ {Picked(s)}]]
            g == [z \in (0 .. N) \X V |-> More(z)]
            z0 == [s \in SUBSET S |-> 0]
 <2>1. z0 \in V OBVIOUS
 <2>2. ASSUME NEW z \in (0 .. N) \X V PROVE More(z) \in V
  <3>1. \A s \in SUBSET S : s # {} => W[Picked(s)] \in Int /\ z[2][s \ {Picked(s)}] \in Int BY <1>5
  <3> QED BY <3>1
 <2>3. g \in [(0 .. N) \X V -> V]
  <3> HIDE DEF More, V
  <3> QED BY <2>2
 <2> HIDE DEF z0, g, V
 <2>4. PICK f : Follows1(f, 0, N, z0, g, V) BY <1>2, <2>1, <2>3, Unfolds
 <2>5. \A k \in 0 .. N : f[k] \in V /\ f[k] = IF k = 0 THEN z0 ELSE g[<<k, f[k - 1]>>] BY <2>4 DEF Follows1
 <2> DEFINE I == [s \in SUBSET S |-> f[Cardinality(s)][s]]
 <2>6. ASSUME NEW s \in SUBSET S PROVE I[s] = IF s = {} THEN 0 ELSE W[Picked(s)] + I[s \ {Picked(s)}]
  <3>1. CASE s = {}
   <4>1. Cardinality(s) = 0 /\ 0 \in 0 .. N BY <1>1, <1>2, <3>1
   <4>2. f[0] = z0 BY <2>5, <4>1
   <4> QED BY <3>1, <4>1, <4>2 DEF z0
  <3>2. CASE s # {}
   <4> DEFINE k == Cardinality(s)
              t == s \ {Picked(s)}
   <4>1. k \in 0 .. N /\ k - 1 = Cardinality(t) /\ t \in SUBSET S /\ k # 0 /\ k \in 0 .. N /\ k - 1 \in 0 .. N
    <5>1. k \in 0 .. N /\ k # 0 /\ t \in SUBSET S /\ Cardinality(t) = k - 1 BY <1>1, <1>5, <3>2
    <5> HIDE DEF k, t
    <5> QED BY <1>2, <5>1
   <4>2. f[k] = g[<<k, f[k - 1]>>] /\ f[k - 1] \in V BY <2>5, <4>1
   <4>3. g[<<k, f[k - 1]>>] = More(<<k, f[k - 1]>>)
    <5> HIDE DEF More
    <5> QED BY <4>1, <4>2 DEF g
   <4>4. f[k][s] = W[Picked(s)] + f[k - 1][t] BY <3>2, <4>2, <4>3
   <4> QED BY <3>2, <4>1, <4>4
  <3> QED BY <3>1, <3>2
 <2>7. Totals(I, W, S)
  <3>1. I = [s \in SUBSET S |-> I[s]] OBVIOUS
  <3> HIDE DEF I
  <3> QED BY <2>6, <3>1 DEF Totals
 <2> HIDE DEF I
 <2> QED BY <2>7
<1>4. ASSUME NEW I, Totals(I, W, S) PROVE I[S] \in Int
 <2>1. \A s \in SUBSET S : I[s] = IF s = {} THEN 0 ELSE W[Picked(s)] + I[s \ {Picked(s)}] BY <1>4 DEF Totals
 <2> DEFINE K == {k \in 0 .. N : \A s \in SUBSET S : Cardinality(s) = k => I[s] \in Int}
 <2>2. 0 \in K
  <3>1. \A s \in SUBSET S : Cardinality(s) = 0 => I[s] = 0 BY <1>1, <2>1
  <3> QED BY <1>2, <3>1
 <2>3. ASSUME NEW k \in 0 .. N - 1, k \in K PROVE k + 1 \in K
  <3>1. ASSUME NEW s \in SUBSET S, Cardinality(s) = k + 1 PROVE I[s] \in Int
   <4>1. s # {} /\ Cardinality(s \ {Picked(s)}) = k /\ s \ {Picked(s)} \in SUBSET S /\ Picked(s) \in S
     BY <1>1, <1>2, <1>5, <3>1
   <4>2. I[s \ {Picked(s)}] \in Int /\ W[Picked(s)] \in Int BY <2>3, <4>1
   <4> QED BY <2>1, <4>1, <4>2
  <3> QED BY <1>2, <3>1
 <2> HIDE DEF K
 <2>4. N \in K BY <1>2, <2>2, <2>3, Upward
 <2> QED BY <2>4 DEF K, N
<1> QED BY <1>3, <1>4

LEMMA DangerIs == ASSUME NEW gap \in Int, NEW k \in Nat \ {0} PROVE Danger(gap, k) \in Int
<1> DEFINE p == Max({0, gap}) + 1
           q == p * p
           r == q * k
<1>1. p \in Nat \ {0} BY MaxOfTwo
<1> HIDE DEF p
<1>2. q \in Nat \ {0} BY <1>1
<1> HIDE DEF q
<1>3. r \in Nat \ {0} BY <1>2
<1> HIDE DEF r
<1>4. Scale1 \div r \in Int BY <1>3 DEF Scale1
<1> QED BY <1>4 DEF Danger, r, q, p

LEMMA DangersIs ==
  ASSUME NEW S, IsFiniteSet(S), \A h \in S : h.gap \in Int /\ h.k \in Nat \ {0}
  PROVE  MapThenSumSet(DangerOf, S) \in Int /\ MapThenSumSet(DangerOfBeam, S) \in Int
<1>1. MapThenSumSet(DangerOf, S) \in Int
 <2> DEFINE W == [h \in S |-> DangerOf(h)]
            Solves(I) == I = [s \in SUBSET S |-> IF s = {} THEN 0 ELSE DangerOf(Picked(s)) + I[s \ {Picked(s)}]]
 <2>1. W \in [S -> Int] BY DangerIs DEF DangerOf
 <2>2. MapThenSumSet(DangerOf, S) = (CHOOSE I : Solves(I))[S] BY Zenon DEF MapThenSumSet, MapThenFoldSet, Picked
 <2>3. \A I : Solves(I) <=> Totals(I, W, S)
  <3>1. \A s \in SUBSET S : s # {} => W[Picked(s)] = DangerOf(Picked(s)) BY DEF Picked
  <3> QED BY <3>1 DEF Totals
 <2> HIDE DEF W, Solves
 <2>4. (\E I : Solves(I)) /\ \A I : Solves(I) => I[S] \in Int BY <2>1, <2>3, TotalIs
 <2> QED BY <2>2, <2>4, Zenon
<1>2. MapThenSumSet(DangerOfBeam, S) \in Int
 <2> DEFINE W == [h \in S |-> DangerOfBeam(h)]
            Solves(I) == I = [s \in SUBSET S |-> IF s = {} THEN 0 ELSE DangerOfBeam(Picked(s)) + I[s \ {Picked(s)}]]
 <2>1. W \in [S -> Int]
  <3>1. \A h \in S : Half1(h.gap) \in Int BY DEF Half1
  <3> QED BY <3>1, DangerIs DEF DangerOfBeam
 <2>2. MapThenSumSet(DangerOfBeam, S) = (CHOOSE I : Solves(I))[S]
   BY Zenon DEF MapThenSumSet, MapThenFoldSet, Picked
 <2>3. \A I : Solves(I) <=> Totals(I, W, S)
  <3>1. \A s \in SUBSET S : s # {} => W[Picked(s)] = DangerOfBeam(Picked(s)) BY DEF Picked
  <3> QED BY <3>1 DEF Totals
 <2> HIDE DEF W, Solves
 <2>4. (\E I : Solves(I)) /\ \A I : Solves(I) => I[S] \in Int BY <2>1, <2>3, TotalIs
 <2> QED BY <2>2, <2>4, Zenon
<1> QED BY <1>1, <1>2

----
\* The player.  He stays in the field, and a step takes him no further
\* than the longer stride on either axis.
Grounds == [x : 0 .. FieldX, y : 0 .. FieldY]

LEMMA ChoiceSizes ==
  /\ FieldX \in Nat /\ FieldY \in Nat /\ Axis \in Nat /\ Diagonal \in Nat /\ Diagonal <= Axis
  /\ HalfX \in Nat /\ HalfY \in Nat /\ Margin \in Nat
  /\ BulletHorizon \in Nat /\ LaserHorizon \in Nat /\ Family \in Nat \ {0}
BY ChoiceAssumption

LEMMA Horizons == Horizon1 \in Nat /\ BulletHorizon <= Horizon1 /\ LaserHorizon <= Horizon1
BY ChoiceSizes, MaxOfTwo DEF Horizon1

LEMMA Turns ==
  ASSUME NEW d \in Direction
  PROVE  /\ Sideways(d) \in {-1, 0, 1} /\ Upwards(d) \in {-1, 0, 1} /\ d = 3 * (Upwards(d) + 1) + Sideways(d) + 1
         /\ Stride(d) \in Nat /\ Stride(d) <= Axis
         /\ Sideways(d) * Stride(d) \in -Axis .. Axis /\ Upwards(d) * Stride(d) \in -Axis .. Axis
<1>1. Sideways(d) \in {-1, 0, 1} /\ Upwards(d) \in {-1, 0, 1} /\ d = 3 * (Upwards(d) + 1) + Sideways(d) + 1
  BY DEF Direction, Sideways, Upwards
<1>2. Stride(d) \in Nat /\ Stride(d) <= Axis BY ChoiceSizes DEF Stride
<1>3. Sideways(d) * Stride(d) \in -Axis .. Axis /\ Upwards(d) * Stride(d) \in -Axis .. Axis
 <2> DEFINE t == Stride(d)
 <2> HIDE DEF t
 <2>1. ASSUME NEW u \in {-1, 0, 1} PROVE t \in Nat /\ t <= Axis => u * t \in -Axis .. Axis BY ChoiceSizes
 <2> QED BY <1>1, <1>2, <2>1 DEF t
<1> QED BY <1>1, <1>2, <1>3

LEMMA StepIs ==
  ASSUME NEW p \in Points, NEW d \in Direction
  PROVE  /\ Stepped(p, d) \in Grounds
         /\ p \in Grounds => /\ Stepped(p, d).x - p.x \in -Axis .. Axis
                             /\ Stepped(p, d).y - p.y \in -Axis .. Axis
<1> DEFINE a == Sideways(d) * Stride(d)
           b == Upwards(d) * Stride(d)
<1>1. a \in -Axis .. Axis /\ b \in -Axis .. Axis BY Turns
<1>2. Stepped(p, d) = [x |-> Clamped(p.x + a, FieldX), y |-> Clamped(p.y + b, FieldY)] BY DEF Stepped
<1> HIDE DEF a, b
<1> QED BY <1>1, <1>2, ChoiceSizes DEF Points, Grounds, Clamped

LEMMA Grounded == Grounds \subseteq Points
BY DEF Grounds, Points

LEMMA Seen ==
  ASSUME NEW s, Observed(s)
  PROVE  /\ s.at \in Grounds /\ s.pending \in Direction /\ s.first \in Nat /\ s.tree \in BOOLEAN
         /\ s.bullets \in Seq(Shots) /\ s.lasers \in Seq(Beams) /\ s.bodies \subseteq Bodies
         /\ s.due \subseteq DueBeams /\ s.contexts \subseteq Contexts /\ s.spawns \subseteq DueShots
BY DEF Observed, Grounds, Direction

\* A path follows what its directions say, and never leaves the field.
LEMMA PathIs ==
  ASSUME NEW s, Observed(s), NEW i \in Direction, NEW c \in Direction
  PROVE  LET at == PathOf(s, i, c)
         IN  /\ at \in [0 .. Horizon1 -> Grounds] /\ at[0] = s.at
             /\ \A k \in 1 .. Horizon1 : at[k] = Stepped(at[k - 1], Heading(s, k, i, c))
<1> DEFINE Solves(h) == h = [k \in 0 .. Horizon1 |-> IF k = 0 THEN s.at ELSE Stepped(h[k - 1], Heading(s, k, i, c))]
           g == [z \in (0 .. Horizon1) \X Grounds |-> Stepped(z[2], Heading(s, z[1], i, c))]
<1>1. PathOf(s, i, c) = CHOOSE h : Solves(h) BY DEF PathOf
<1>2. \A k : Heading(s, k, i, c) \in Direction BY Seen DEF Heading
<1>3. g \in [(0 .. Horizon1) \X Grounds -> Grounds] BY <1>2, StepIs, Grounded
<1>4. PICK f : Follows1(f, 0, Horizon1, s.at, g, Grounds)
 <2>1. s.at \in Grounds /\ 0 <= Horizon1 /\ Horizon1 \in Nat BY Horizons, Seen
 <2> HIDE DEF g
 <2> QED BY <1>3, <2>1, Unfolds
<1>5. Solves(f)
 <2>3. f \in [0 .. Horizon1 -> Grounds] BY <1>4 DEF Follows1
 <2>1. f = [k \in 0 .. Horizon1 |-> IF k = 0 THEN s.at ELSE g[<<k, f[k - 1]>>]] BY <1>4 DEF Follows1
 <2>2. \A k \in 0 .. Horizon1 : k # 0 => g[<<k, f[k - 1]>>] = Stepped(f[k - 1], Heading(s, k, i, c))
  <3>1. \A k \in 0 .. Horizon1 : k # 0 => f[k - 1] \in Grounds BY <2>3, Horizons
  <3> QED BY <3>1
 <2> HIDE DEF g
 <2> QED BY <2>1, <2>2
<1> DEFINE at == PathOf(s, i, c)
<1>6. Solves(at)
 <2> HIDE DEF Solves
 <2> QED BY <1>1, <1>5, Zenon
<1> HIDE DEF at
<1>7. at[0] = s.at /\ \A k \in 1 .. Horizon1 : at[k] = Stepped(at[k - 1], Heading(s, k, i, c)) BY <1>6, Horizons
<1>8. \A k \in 0 .. Horizon1 : at[k] \in Grounds
 <2> DEFINE S == {k \in 0 .. Horizon1 : at[k] \in Grounds}
 <2>1. 0 \in S BY <1>7, Horizons, Seen
 <2>2. ASSUME NEW k \in 0 .. Horizon1 - 1, k \in S PROVE k + 1 \in S
  <3>1. k + 1 \in 1 .. Horizon1 /\ (k + 1) - 1 = k BY Horizons
  <3>2. at[k + 1] = Stepped(at[k], Heading(s, k + 1, i, c)) BY <1>7, <3>1
  <3>3. at[k + 1] \in Grounds BY <1>2, <2>2, <3>2, StepIs, Grounded
  <3> QED BY <3>1, <3>3
 <2> HIDE DEF S
 <2>3. \A k \in 0 .. Horizon1 : k \in S BY <2>1, <2>2, Horizons, Upward
 <2> QED BY <2>3 DEF S
<1>9. at \in [0 .. Horizon1 -> Grounds] BY <1>6, <1>8
<1> QED BY <1>7, <1>9 DEF at

\* Places that can be reached are no further than the strides so far.
Close(p, q, reach) == p.x - q.x \in -reach .. reach /\ p.y - q.y \in -reach .. reach

LEMMA ReachIs ==
  ASSUME NEW s, Observed(s), NEW k \in 0 .. BulletHorizon, NEW p \in Reachable(s)[k]
  PROVE  p \in Grounds /\ Close(p, s.at, Axis * k)
<1> DEFINE V == SUBSET Grounds
           Solves(h) == h = [n \in 0 .. BulletHorizon |-> IF n = 0 THEN {s.at} ELSE Onward(h[n - 1])]
           g == [z \in (0 .. BulletHorizon) \X V |-> Onward(z[2])]
<1>1. Reachable(s) = CHOOSE h : Solves(h) BY DEF Reachable
<1>2. \A P \in V : Onward(P) \in V BY StepIs, Grounded DEF Onward
<1>3. g \in [(0 .. BulletHorizon) \X V -> V] BY <1>2
<1>4. PICK f : Follows1(f, 0, BulletHorizon, {s.at}, g, V)
 <2>1. {s.at} \in V BY Seen
 <2> HIDE DEF g, V
 <2> QED BY <1>3, <2>1, ChoiceSizes, Unfolds
<1>5. Solves(f)
 <2>3. f \in [0 .. BulletHorizon -> V] BY <1>4 DEF Follows1
 <2>1. f = [n \in 0 .. BulletHorizon |-> IF n = 0 THEN {s.at} ELSE g[<<n, f[n - 1]>>]] BY <1>4 DEF Follows1
 <2>2. \A n \in 0 .. BulletHorizon : n # 0 => g[<<n, f[n - 1]>>] = Onward(f[n - 1])
  <3>1. \A n \in 0 .. BulletHorizon : n # 0 => f[n - 1] \in V BY <2>3, ChoiceSizes
  <3> HIDE DEF V
  <3> QED BY <3>1
 <2> HIDE DEF g
 <2> QED BY <2>1, <2>2
<1> DEFINE r == Reachable(s)
<1>6. Solves(r)
 <2> HIDE DEF Solves
 <2> QED BY <1>1, <1>5, Zenon
<1> HIDE DEF r
<1> DEFINE S == {n \in 0 .. BulletHorizon : \A q \in r[n] : q \in Grounds /\ Close(q, s.at, Axis * n)}
<1>7. 0 \in S BY <1>6, ChoiceSizes, Seen DEF Close, Grounds
<1>8. ASSUME NEW n \in 0 .. BulletHorizon - 1, n \in S PROVE n + 1 \in S
 <2>1. n + 1 \in 0 .. BulletHorizon /\ n + 1 # 0 /\ (n + 1) - 1 = n BY ChoiceSizes
 <2>2. r[n + 1] = Onward(r[n]) BY <1>6, <2>1
 <2>3. ASSUME NEW q \in r[n + 1] PROVE q \in Grounds /\ Close(q, s.at, Axis * (n + 1))
  <3>1. PICK o \in r[n], d \in Direction : q = Stepped(o, d) BY <2>2 DEF Onward
  <3>2. o \in Grounds /\ Close(o, s.at, Axis * n) BY <1>8
  <3>3. q \in Grounds /\ q.x - o.x \in -Axis .. Axis /\ q.y - o.y \in -Axis .. Axis
    BY <3>1, <3>2, StepIs, Grounded
  <3> DEFINE a == Axis * n
             b == Axis * (n + 1)
  <3>4. a \in Nat /\ b = a + Axis BY ChoiceSizes
  <3>5. Close(o, s.at, a) /\ s.at \in Grounds BY <3>2, Seen
  <3> HIDE DEF a, b
  <3>6. Close(q, s.at, b) BY <3>2, <3>3, <3>4, <3>5, ChoiceSizes DEF Close, Grounds
  <3> QED BY <3>3, <3>6 DEF b
 <2> QED BY <2>1, <2>3
<1>9. k \in S
 <2> HIDE DEF S
 <2> QED BY <1>7, <1>8, ChoiceSizes, Upward
<1> QED BY <1>9 DEF r

\* A box that is left out is further away than that.
LEMMA PruningSound ==
  ASSUME NEW s, Observed(s), NEW k \in 1 .. BulletHorizon, NEW i \in DOMAIN s.bullets,
         Box1(s.bullets[i], k) \notin Keeps(s, k), NEW p \in Reachable(s)[k]
  PROVE  BulletGap(p, s.bullets[i], k) > 0
<1> DEFINE b == s.bullets[i]
           u == b.x + k * b.vx
           v == b.y + k * b.vy
           a == Axis * k
           c == Axis * (k + 1)
           o == s.at
<1>1. ~Within(o, Box1(b, k), Reach1(k)) BY DEF Keeps
<1>2. u \in Int /\ v \in Int /\ b.half \in Nat
 <2>1. b \in Shots BY Seen
 <2> HIDE DEF b
 <2> QED BY <2>1 DEF Shots
<1>3. p \in Grounds /\ o \in Grounds /\ Close(p, o, a) BY ReachIs, Seen
<1>4. a \in Nat /\ c = a + Axis BY ChoiceSizes
<1>5. /\ Box1(b, k).x0 = u - b.half /\ Box1(b, k).x1 = u + b.half
      /\ Box1(b, k).y0 = v - b.half /\ Box1(b, k).y1 = v + b.half
 <2>1. Box1(b, k) = [x0 |-> u - b.half, x1 |-> u + b.half, y0 |-> v - b.half, y1 |-> v + b.half]
  <3>1. b \in Shots BY Seen
  <3> HIDE DEF b
  <3>2. b.x \in Int /\ b.y \in Int /\ b.half \in Int /\ k * b.vx \in Int /\ k * b.vy \in Int BY <3>1 DEF Shots
  <3> DEFINE m == k * b.vx
             n == k * b.vy
  <3>3. Box1(b, k) = [x0 |-> b.x + (m - b.half), x1 |-> b.x + m + b.half, y0 |-> b.y + (n - b.half), y1 |-> b.y + n + b.half]
    BY DEF Box1
  <3>4. u = b.x + m /\ v = b.y + n OBVIOUS
  <3> HIDE DEF m, n, u, v
  <3> QED BY <3>2, <3>3, <3>4 DEF m, n
 <2> HIDE DEF b, u, v
 <2> QED BY <2>1
<1> DEFINE m == Max({HalfX, HalfY})
<1>6. m \in Nat /\ m >= HalfX /\ m >= HalfY BY ChoiceSizes, MaxOfTwo
<1>7. Reach1(k) = c + m + Margin BY DEF Reach1
<1>8. BulletGap(p, b, k) = Max({Magnitude(p.x - u) - HalfX - b.half, Magnitude(p.y - v) - HalfY - b.half})
  BY DEF BulletGap, Gap
<1>9. Within(o, Box1(b, k), Reach1(k)) <=>
        /\ Max({u - b.half - o.x, o.x - (u + b.half)}) <= Reach1(k)
        /\ Max({v - b.half - o.y, o.y - (v + b.half)}) <= Reach1(k)
  BY <1>5 DEF Within
<1> HIDE DEF b, u, v, a, c, m, o
<1>10. o.x \in Int /\ o.y \in Int /\ p.x \in Int /\ p.y \in Int BY <1>3 DEF Grounds
<1>11. /\ Max({u - b.half - o.x, o.x - (u + b.half)}) \in {u - b.half - o.x, o.x - (u + b.half)}
       /\ Max({v - b.half - o.y, o.y - (v + b.half)}) \in {v - b.half - o.y, o.y - (v + b.half)}
 <2> DEFINE A == u - b.half - o.x
            B == o.x - (u + b.half)
            C == v - b.half - o.y
            D == o.y - (v + b.half)
 <2>1. A \in Int /\ B \in Int /\ C \in Int /\ D \in Int BY <1>2, <1>10
 <2> HIDE DEF A, B, C, D
 <2>2. Max({A, B}) \in {A, B} /\ Max({C, D}) \in {C, D} BY <2>1, MaxOfTwo
 <2> QED BY <2>2 DEF A, B, C, D
<1> DEFINE e == Magnitude(p.x - u) - HalfX - b.half
           f == Magnitude(p.y - v) - HalfY - b.half
<1>12. e \in Int /\ f \in Int /\ (e > 0 \/ f > 0)
  BY <1>1, <1>2, <1>3, <1>4, <1>6, <1>7, <1>9, <1>10, <1>11, ChoiceSizes DEF Close, Magnitude
<1> HIDE DEF e, f
<1>13. Max({e, f}) > 0 BY <1>12, MaxOfTwo
<1> QED BY <1>8, <1>13 DEF e, f, b

----
\* The player next to a laser.
LEMMA LocalIs ==
  ASSUME NEW p \in Points, NEW at \in Points, NEW angle \in 0 .. 3
  PROVE  /\ Local(p, at, angle).x \in Int
         /\ Local(p, at, angle).y = CASE angle = 0 -> p.y - at.y [] angle = 1 -> -(p.x - at.x)
                                      [] angle = 2 -> -(p.y - at.y) [] OTHER -> p.x - at.x
         /\ Local(p, at, angle).y \in Int
<1> DEFINE x == p.x - at.x
           y == p.y - at.y
<1>1. x \in Int /\ y \in Int BY DEF Points
<1>2. Local(p, at, angle) = CASE angle = 0 -> [x |-> x, y |-> y] [] angle = 1 -> [x |-> y, y |-> -x]
                              [] angle = 2 -> [x |-> -x, y |-> -y] [] OTHER -> [x |-> -y, y |-> x]
  BY DEF Local
<1> HIDE DEF x, y
<1>3. CASE angle = 0 BY <1>1, <1>2, <1>3 DEF x, y
<1>4. CASE angle = 1 BY <1>1, <1>2, <1>4 DEF x, y
<1>5. CASE angle = 2 BY <1>1, <1>2, <1>5 DEF x, y
<1>6. CASE angle = 3 BY <1>1, <1>2, <1>6 DEF x, y
<1> QED BY <1>3, <1>4, <1>5, <1>6

\* What a laser is to a path: where it lies and how wide it is.
Lies(v) == v.at \in Points /\ v.angle \in 0 .. 3 /\ v.l \in LaserStates /\ Admitted(v.l)

LEMMA LaserGapIs ==
  ASSUME NEW p \in Points, NEW v, Lies(v), NEW centre \in Int, NEW size \in Int
  PROVE  LET q == Local(p, v.at, v.angle)
         IN  /\ LaserGap(p, v, centre, size) \in Int
             /\ LaserGap(p, v, centre, size) <= 0 <=>
                  /\ Magnitude(2 * q.x - centre) <= 2 * HalfX + Magnitude(size)
                  /\ Magnitude(2 * q.y) <= 2 * HalfY + Half1(v.l.width)
<1> DEFINE q == Local(p, v.at, v.angle)
           w == Half1(v.l.width)
           m == Magnitude(2 * q.x - centre)
           n == Magnitude(2 * q.y)
           z == Magnitude(size)
           a == m - 2 * HalfX - z
           b == n - 2 * HalfY - w
<1>1. q.x \in Int /\ q.y \in Int /\ HalfX \in Nat /\ HalfY \in Nat /\ w \in Int
  BY LocalIs, ChoiceSizes, Sized DEF Lies
<1>2. LaserGap(p, v, centre, size) = Max({a, b}) BY DEF LaserGap
<1> HIDE DEF q, w
<1>3. m \in Int /\ n \in Int /\ z \in Int BY <1>1 DEF Magnitude
<1> HIDE DEF m, n, z
<1>4. a \in Int /\ b \in Int BY <1>1, <1>3
<1>5. (a <= 0 <=> m <= 2 * HalfX + z) /\ (b <= 0 <=> n <= 2 * HalfY + w) BY <1>1, <1>3
<1> HIDE DEF a, b
<1>6. Max({a, b}) \in Int /\ (Max({a, b}) <= 0 <=> a <= 0 /\ b <= 0) BY <1>4, MaxOfTwo
<1>7. /\ LaserGap(p, v, centre, size) \in Int
      /\ LaserGap(p, v, centre, size) <= 0 <=> m <= 2 * HalfX + z /\ n <= 2 * HalfY + w
  BY <1>2, <1>5, <1>6
<1> QED BY <1>7 DEF m, n, z, w, q

\* A larger box is met wherever a smaller one over the same centre is.
LEMMA LargerMet ==
  ASSUME NEW p \in Points, NEW v, Lies(v), NEW centre \in Int, NEW size \in Int, NEW larger \in Int,
         Magnitude(size) <= Magnitude(larger), LaserGap(p, v, centre, size) <= 0
  PROVE  LaserGap(p, v, centre, larger) <= 0
<1> DEFINE q == Local(p, v.at, v.angle)
<1>1. /\ Magnitude(2 * q.x - centre) <= 2 * HalfX + Magnitude(size)
      /\ Magnitude(2 * q.y) <= 2 * HalfY + Half1(v.l.width)
  BY LaserGapIs
<1>2. q.x \in Int /\ HalfX \in Int BY LocalIs, ChoiceSizes DEF Lies
<1> HIDE DEF q
<1>3. Magnitude(2 * q.x - centre) <= 2 * HalfX + Magnitude(larger) BY <1>1, <1>2 DEF Magnitude
<1> QED BY <1>1, <1>3, LaserGapIs DEF q

----
\* The forecast of a laser next to the laser.
ForetoldSet == [l : Pooled, lethal : BOOLEAN, size : Int, there : BOOLEAN]
NativeSet == [l : Pooled, calls : Seq(Int)]

LEMMA ForecastsAre ==
  ASSUME NEW v, Lies(v)
  PROVE  /\ Forecasts(v) \in [0 .. LaserHorizon -> ForetoldSet] /\ Forecasts(v)[0].l = v.l
         /\ \A k \in 1 .. LaserHorizon : Forecasts(v)[k] = NextForecast(Forecasts(v)[k - 1])
<1> DEFINE base == [l |-> v.l, lethal |-> FALSE, size |-> 0, there |-> TRUE]
           Solves(h) == h = [k \in 0 .. LaserHorizon |-> IF k = 0 THEN base ELSE NextForecast(h[k - 1])]
           g == [z \in (0 .. LaserHorizon) \X ForetoldSet |-> NextForecast(z[2])]
           f == Forecasts(v)
<1>1. f = CHOOSE h : Solves(h) BY DEF Forecasts
<1>2. base \in ForetoldSet /\ base.l = v.l BY DEF ForetoldSet, Pooled, Lies
<1>3. ASSUME NEW was \in ForetoldSet PROVE NextForecast(was) \in ForetoldSet
 <2>1. CASE was.l.inUse
  <3> DEFINE p == PolicyUpdate(was.l)
  <3>1. p \in ForecastSteps /\ Admitted(p.l) BY Foreseen DEF ForetoldSet, Pooled
  <3>2. NextForecast(was) = [l |-> p.l, lethal |-> p.lethal, size |-> p.size, there |-> TRUE]
    BY <2>1 DEF NextForecast, Foretold1
  <3> HIDE DEF p
  <3> QED BY <3>1, <3>2 DEF ForecastSteps, ForetoldSet, Pooled
 <2>2. CASE ~was.l.inUse
  <3>1. NextForecast(was) = [was EXCEPT !.lethal = FALSE, !.there = FALSE] BY <2>2 DEF NextForecast
  <3> QED BY <3>1 DEF ForetoldSet
 <2> QED BY <2>1, <2>2
<1>4. g \in [(0 .. LaserHorizon) \X ForetoldSet -> ForetoldSet] BY <1>3
<1> HIDE DEF base
<1>5. PICK h : Follows1(h, 0, LaserHorizon, base, g, ForetoldSet)
 <2>1. 0 <= LaserHorizon /\ LaserHorizon \in Nat BY ChoiceSizes
 <2> HIDE DEF g
 <2> QED BY <1>2, <1>4, <2>1, Unfolds
<1>6. h \in [0 .. LaserHorizon -> ForetoldSet] BY <1>5 DEF Follows1
<1>7. Solves(h)
 <2>1. h = [k \in 0 .. LaserHorizon |-> IF k = 0 THEN base ELSE g[<<k, h[k - 1]>>]] BY <1>5 DEF Follows1
 <2>2. \A k \in 0 .. LaserHorizon : k # 0 => g[<<k, h[k - 1]>>] = NextForecast(h[k - 1])
  <3>1. \A k \in 0 .. LaserHorizon : k # 0 => h[k - 1] \in ForetoldSet BY <1>6, ChoiceSizes
  <3> QED BY <3>1
 <2> HIDE DEF g
 <2> QED BY <2>1, <2>2
<1>8. Solves(f)
 <2> HIDE DEF Solves, f
 <2> QED BY <1>1, <1>7, Zenon
<1> HIDE DEF f
<1>9. f[0] = base /\ \A k \in 1 .. LaserHorizon : f[k] = NextForecast(f[k - 1]) BY <1>8, ChoiceSizes
<1>10. \A k \in 0 .. LaserHorizon : f[k] \in ForetoldSet
 <2> DEFINE S == {k \in 0 .. LaserHorizon : f[k] \in ForetoldSet}
 <2>1. 0 \in S BY <1>2, <1>9, ChoiceSizes
 <2>2. ASSUME NEW k \in 0 .. LaserHorizon - 1, k \in S PROVE k + 1 \in S
  <3>1. k + 1 \in 1 .. LaserHorizon /\ (k + 1) - 1 = k BY ChoiceSizes
  <3>2. f[k + 1] = NextForecast(f[k]) BY <1>9, <3>1
  <3> QED BY <1>3, <2>2, <3>1, <3>2
 <2> HIDE DEF S
 <2>3. \A k \in 0 .. LaserHorizon : k \in S BY <2>1, <2>2, ChoiceSizes, Upward
 <2> QED BY <2>3 DEF S
<1>11. f \in [0 .. LaserHorizon -> ForetoldSet] BY <1>8, <1>10
<1> QED BY <1>2, <1>9, <1>11 DEF f

LEMMA NativesAre ==
  ASSUME NEW v, Lies(v)
  PROVE  /\ Natives(v) \in [0 .. LaserHorizon -> NativeSet] /\ Natives(v)[0] = [l |-> v.l, calls |-> << >>]
         /\ \A k \in 1 .. LaserHorizon : Natives(v)[k] = NextNative(Natives(v)[k - 1])
<1> DEFINE base == [l |-> v.l, calls |-> << >>]
           Solves(h) == h = [k \in 0 .. LaserHorizon |-> IF k = 0 THEN base ELSE NextNative(h[k - 1])]
           g == [z \in (0 .. LaserHorizon) \X NativeSet |-> NextNative(z[2])]
           f == Natives(v)
<1>1. f = CHOOSE h : Solves(h) BY DEF Natives
<1>2. base \in NativeSet /\ base.l = v.l BY DEF NativeSet, Pooled, Lies
<1>3. ASSUME NEW was \in NativeSet PROVE NextNative(was) \in NativeSet
 <2>1. CASE was.l.inUse
  <3> DEFINE n == NativeUpdate(was.l)
  <3>1. n \in LaserSteps /\ Admitted(n.l) BY Foreseen DEF NativeSet, Pooled
  <3>2. NextNative(was) = [l |-> n.l, calls |-> n.calls] BY <2>1 DEF NextNative, Native1
  <3> HIDE DEF n
  <3> QED BY <3>1, <3>2 DEF LaserSteps, NativeSet, Pooled
 <2>2. CASE ~was.l.inUse
  <3>1. NextNative(was) = [was EXCEPT !.calls = << >>] BY <2>2 DEF NextNative
  <3>2. << >> \in Seq(Int) OBVIOUS
  <3> QED BY <3>1, <3>2 DEF NativeSet
 <2> QED BY <2>1, <2>2
<1>4. g \in [(0 .. LaserHorizon) \X NativeSet -> NativeSet] BY <1>3
<1> HIDE DEF base
<1>5. PICK h : Follows1(h, 0, LaserHorizon, base, g, NativeSet)
 <2>1. 0 <= LaserHorizon /\ LaserHorizon \in Nat BY ChoiceSizes
 <2> HIDE DEF g
 <2> QED BY <1>2, <1>4, <2>1, Unfolds
<1>6. h \in [0 .. LaserHorizon -> NativeSet] BY <1>5 DEF Follows1
<1>7. Solves(h)
 <2>1. h = [k \in 0 .. LaserHorizon |-> IF k = 0 THEN base ELSE g[<<k, h[k - 1]>>]] BY <1>5 DEF Follows1
 <2>2. \A k \in 0 .. LaserHorizon : k # 0 => g[<<k, h[k - 1]>>] = NextNative(h[k - 1])
  <3>1. \A k \in 0 .. LaserHorizon : k # 0 => h[k - 1] \in NativeSet BY <1>6, ChoiceSizes
  <3> QED BY <3>1
 <2> HIDE DEF g
 <2> QED BY <2>1, <2>2
<1>8. Solves(f)
 <2> HIDE DEF Solves, f
 <2> QED BY <1>1, <1>7, Zenon
<1> HIDE DEF f
<1>9. f[0] = base /\ \A k \in 1 .. LaserHorizon : f[k] = NextNative(f[k - 1]) BY <1>8, ChoiceSizes
<1>10. \A k \in 0 .. LaserHorizon : f[k] \in NativeSet
 <2> DEFINE S == {k \in 0 .. LaserHorizon : f[k] \in NativeSet}
 <2>1. 0 \in S BY <1>2, <1>9, ChoiceSizes
 <2>2. ASSUME NEW k \in 0 .. LaserHorizon - 1, k \in S PROVE k + 1 \in S
  <3>1. k + 1 \in 1 .. LaserHorizon /\ (k + 1) - 1 = k BY ChoiceSizes
  <3>2. f[k + 1] = NextNative(f[k]) BY <1>9, <3>1
  <3> QED BY <1>3, <2>2, <3>1, <3>2
 <2> HIDE DEF S
 <2>3. \A k \in 0 .. LaserHorizon : k \in S BY <2>1, <2>2, ChoiceSizes, Upward
 <2> QED BY <2>3 DEF S
<1>11. f \in [0 .. LaserHorizon -> NativeSet] BY <1>8, <1>10
<1> QED BY <1>9, <1>11 DEF f, base
\* At every update the forecast is deadly when the game makes a call, over
\* the same centre and with a box that no call exceeds.
Shadowed(f, n) ==
    /\ f.l.inUse = n.l.inUse /\ (n.l.inUse => f.l = n.l)
    /\ n.calls # << >> => f.there /\ f.lethal /\ Centre(f.l) = Centre(n.l)
    /\ \A i \in DOMAIN n.calls : Magnitude(n.calls[i]) <= Magnitude(f.size)

LEMMA ShadowStep ==
  ASSUME NEW f \in ForetoldSet, NEW n \in NativeSet, Shadowed(f, n)
  PROVE  Shadowed(NextForecast(f), NextNative(n))
<1>1. CASE n.l.inUse
 <2> DEFINE p == PolicyUpdate(n.l)
            u == NativeUpdate(n.l)
 <2>1. f.l = n.l /\ n.l \in LaserStates /\ Admitted(n.l) BY <1>1 DEF Shadowed, NativeSet, Pooled
 <2>2. /\ p.l.inUse = u.l.inUse /\ (u.l.inUse => p.l = u.l) /\ p.l.start = u.l.start /\ p.l.end = u.l.end
       /\ u.calls # << >> => p.lethal
       /\ \A i \in DOMAIN u.calls : Magnitude(u.calls[i]) <= Magnitude(p.size)
   BY <2>1, Foreseen
 <2>3. NextForecast(f) = Foretold1(p) /\ NextNative(n) = Native1(u) BY <1>1, <2>1 DEF NextForecast, NextNative
 <2> HIDE DEF p, u
 <2>4. Centre(p.l) = Centre(u.l) BY <2>2 DEF Centre
 <2> QED BY <2>2, <2>3, <2>4 DEF Shadowed, Foretold1, Native1
<1>2. CASE ~n.l.inUse
 <2>1. NextForecast(f) = [f EXCEPT !.lethal = FALSE, !.there = FALSE] /\ NextNative(n) = [n EXCEPT !.calls = << >>]
   BY <1>2 DEF NextForecast, NextNative, Shadowed
 <2>2. NextForecast(f).l = f.l /\ NextNative(n).l = n.l /\ NextNative(n).calls = << >>
   BY <2>1 DEF ForetoldSet, NativeSet
 <2> QED BY <1>2, <2>2 DEF Shadowed
<1> QED BY <1>1, <1>2

LEMMA Covers ==
  ASSUME NEW v, Lies(v), NEW k \in 0 .. LaserHorizon
  PROVE  Shadowed(Forecasts(v)[k], Natives(v)[k])
<1> DEFINE S == {n \in 0 .. LaserHorizon : Shadowed(Forecasts(v)[n], Natives(v)[n])}
<1>1. 0 \in S
 <2>1. Natives(v)[0].l = v.l /\ Forecasts(v)[0].l = v.l /\ Natives(v)[0].calls = << >>
  <3>1. Natives(v)[0] = [l |-> v.l, calls |-> << >>] BY NativesAre
  <3>2. Forecasts(v)[0].l = v.l BY ForecastsAre
  <3> QED BY <3>1, <3>2
 <2> QED BY <2>1, ChoiceSizes DEF Shadowed
<1>2. ASSUME NEW n \in 0 .. LaserHorizon - 1, n \in S PROVE n + 1 \in S
 <2>1. n + 1 \in 1 .. LaserHorizon /\ (n + 1) - 1 = n /\ n \in 0 .. LaserHorizon /\ n + 1 \in 0 .. LaserHorizon
   BY ChoiceSizes
 <2>2. Forecasts(v)[n] \in ForetoldSet /\ Natives(v)[n] \in NativeSet BY <2>1, ForecastsAre, NativesAre
 <2>3. Forecasts(v)[n + 1] = NextForecast(Forecasts(v)[n]) /\ Natives(v)[n + 1] = NextNative(Natives(v)[n])
   BY <2>1, ForecastsAre, NativesAre
 <2> QED BY <1>2, <2>1, <2>2, <2>3, ShadowStep
<1> HIDE DEF S
<1>3. \A n \in 0 .. LaserHorizon : n \in S BY <1>1, <1>2, ChoiceSizes, Upward
<1> QED BY <1>3 DEF S

\* So a player whom the game meets was told so.
LEMMA MetForetold ==
  ASSUME NEW v, Lies(v), NEW k \in 0 .. LaserHorizon, NEW p \in Points, MetBy(p, v, Natives(v)[k])
  PROVE  LET f == Forecasts(v)[k] IN f.there /\ f.lethal /\ LaserGap(p, v, Centre(f.l), f.size) <= 0
<1> DEFINE f == Forecasts(v)[k]
           n == Natives(v)[k]
<1>1. f \in ForetoldSet /\ n \in NativeSet /\ Shadowed(f, n) BY ForecastsAre, NativesAre, Covers
<1>2. PICK i \in DOMAIN n.calls : LaserGap(p, v, Centre(n.l), n.calls[i]) <= 0 BY DEF MetBy
<1> HIDE DEF f, n
<1>3. n.calls # << >> /\ n.calls[i] \in Int /\ f.size \in Int /\ n.l \in LaserStates
  BY <1>1, <1>2 DEF NativeSet, ForetoldSet, Pooled
<1>4. f.there /\ f.lethal /\ Centre(f.l) = Centre(n.l) /\ Magnitude(n.calls[i]) <= Magnitude(f.size)
  BY <1>1, <1>3 DEF Shadowed
<1>5. Centre(n.l) \in Int BY <1>3, Sized
<1>6. LaserGap(p, v, Centre(f.l), f.size) <= 0 BY <1>2, <1>3, <1>4, <1>5, LargerMet
<1> QED BY <1>4, <1>6 DEF f

LEMMA LeastOfTwo == ASSUME NEW x \in Int, NEW y \in Int PROVE Min({x, y}) = IF x <= y THEN x ELSE y
<1> DEFINE S == {x, y}
           m == IF x <= y THEN x ELSE y
<1>1. m \in S /\ \A z \in S : m <= z OBVIOUS
<1>2. \A a \in S : (\A z \in S : a <= z) => a = m OBVIOUS
<1> HIDE DEF S, m
<1>3. Min(S) = m BY <1>1, <1>2 DEF Min
<1> QED BY <1>3 DEF S, m

----
\* The masks.  Whatever the warnings, some direction meets the fewest of
\* them at the largest distance.
ScoreSet == [overlaps : Nat, clearance : Int]

LEMMA Minimum ==
  ASSUME NEW S, IsFiniteSet(S), \A h \in S : h.gap \in Int
  PROVE  Min({h.gap : h \in S} \union {FarOff}) \in Int
<1> DEFINE f == [h \in S |-> h.gap]
           T == {h.gap : h \in S}
<1>1. T \subseteq {f[h] : h \in S} /\ T \union {FarOff} \subseteq Int /\ FarOff \in T \union {FarOff}
  BY DEF FarOff
<1> HIDE DEF f, T
<1>2. IsFiniteSet(T) BY <1>1, Image
<1>3. IsFiniteSet(T \union {FarOff}) BY <1>2, FS_Singleton, FS_Union
<1> DEFINE U == T \union {FarOff}
<1>4. IsFiniteSet(U) /\ U # {} /\ U \subseteq Int BY <1>1, <1>3
<1> HIDE DEF U
<1>5. Min(U) \in U BY <1>4, Extremes
<1>6. Min(U) \in Int BY <1>4, <1>5
<1> QED BY <1>6 DEF U, T

LEMMA ScoreIs ==
  ASSUME NEW S, IsFiniteSet(S), \A h \in S : h.gap \in Int
  PROVE  ScoreOf(S) \in ScoreSet
<1> DEFINE T == {h \in S : h.gap <= 0}
<1>1. T \in SUBSET S OBVIOUS
<1> HIDE DEF T
<1>2. Cardinality(T) \in Nat BY <1>1, FS_Subset, FS_CardinalityType
<1> QED BY <1>2, Minimum DEF ScoreOf, ScoreSet, T

LEMMA MaskKeeps ==
  ASSUME NEW score \in [Direction -> ScoreSet]
  PROVE  MaskOf(score) # {}
<1> DEFINE f == [d \in Direction |-> score[d].overlaps]
           g == [d \in Direction |-> score[d].clearance]
           T == {score[d].overlaps : d \in Direction}
           least == Min(T)
           U == {score[d].clearance : d \in {e \in Direction : score[e].overlaps = least}}
<1>1. IsFiniteSet(Direction) /\ Idle \in Direction
 <2>1. \A a, b \in Int : IsFiniteSet(a .. b) BY FS_Interval
 <2>2. 0 \in Int /\ 8 \in Int /\ Idle \in Direction BY DEF Idle, Direction
 <2>3. IsFiniteSet(Direction) BY <2>1, <2>2, Zenon DEF Direction
 <2> QED BY <2>2, <2>3
<1>2. T \subseteq {f[d] : d \in Direction} /\ T \subseteq Int /\ T # {} BY <1>1 DEF ScoreSet
<1>3. least \in T
 <2> HIDE DEF T, f
 <2> QED BY <1>1, <1>2, Image, Extremes
<1> HIDE DEF least
<1>4. U \subseteq {g[d] : d \in Direction} /\ U \subseteq Int /\ U # {} BY <1>3 DEF ScoreSet
<1>5. Max(U) \in U
 <2> HIDE DEF U, g, T, f
 <2>1. IsFiniteSet(U) BY <1>1, <1>4, Image
 <2> QED BY <1>4, <2>1, Extremes
<1>6. PICK d \in Direction : score[d].overlaps = least /\ score[d].clearance = Max(U)
 <2> DEFINE m == Max(U)
 <2> HIDE DEF m
 <2> QED BY <1>5 DEF m
<1>7. d \in MaskFrom(score, least) BY <1>6, Zenon DEF MaskFrom, Clearest
<1> QED BY <1>7 DEF MaskOf, least

LEMMA Unions ==
  ASSUME NEW S, IsFiniteSet(S), NEW f, \A x \in S : IsFiniteSet(f[x]), NEW T, T \subseteq UNION {f[x] : x \in S}
  PROVE  IsFiniteSet(T)
<1> DEFINE F == {f[x] : x \in S}
<1>1. \A U \in F : IsFiniteSet(U) OBVIOUS
<1>2. IsFiniteSet(F) BY Image
<1> HIDE DEF F
<1>3. IsFiniteSet(UNION F) BY <1>1, <1>2, FS_UNION
<1>4. T \in SUBSET UNION F BY DEF F
<1> QED BY <1>3, <1>4, FS_Subset

\* Where a constant path goes, from the decision's place and input.
Focus(s, n) == [s EXCEPT !.first = n]

LEMMA FocusIs ==
  ASSUME NEW s, Observed(s), NEW n \in Nat
  PROVE  /\ Observed(Focus(s, n)) /\ Focus(s, n).first = n /\ Focus(s, n).at = s.at /\ Focus(s, n).pending = s.pending
         /\ Focus(s, n).bullets = s.bullets /\ Focus(s, n).lasers = s.lasers /\ Focus(s, n).bodies = s.bodies
<1>1. /\ Focus(s, n).first = n /\ Focus(s, n).at = s.at /\ Focus(s, n).pending = s.pending
      /\ Focus(s, n).bullets = s.bullets /\ Focus(s, n).lasers = s.lasers /\ Focus(s, n).bodies = s.bodies
      /\ Focus(s, n).due = s.due /\ Focus(s, n).contexts = s.contexts /\ Focus(s, n).spawns = s.spawns
      /\ Focus(s, n).tree = s.tree
  BY DEF Observed, Focus
<1>2. Observed(Focus(s, n)) BY <1>1 DEF Observed, Focus
<1> QED BY <1>1, <1>2

LEMMA ConstantIs ==
  ASSUME NEW s, Observed(s), NEW d \in Direction
  PROVE  /\ Constant(s, d) \in [0 .. Horizon1 -> Grounds] /\ Constant(s, d)[0] = s.at
         /\ \A k \in 1 .. Horizon1 : Constant(s, d)[k] = Stepped(Constant(s, d)[k - 1], IF k = 1 THEN s.pending ELSE d)
<1> DEFINE f == Focus(s, 0)
<1>1. Constant(s, d) = PathOf(f, d, d) BY DEF Constant, Focus
<1>2. Observed(f) /\ f.at = s.at /\ f.pending = s.pending BY FocusIs
<1> HIDE DEF f
<1>3. \A k : Heading(f, k, d, d) = IF k = 1 THEN s.pending ELSE d BY <1>2 DEF Heading
<1> QED BY <1>1, <1>2, <1>3, PathIs

\* The warnings of a script: updates of the forecast, finitely many.
Alerts(c) == [first : Nat \ {0}, last : 0 .. LaserHorizon, height : Nat, of : {c}]

LEMMA WarningsAre ==
  ASSUME NEW c \in Contexts
  PROVE  Warnings(c) \subseteq Alerts(c) /\ IsFiniteSet(Warnings(c))
<1>1. \A ex, first, last : /\ Warned(c, ex, first, last) \subseteq {[first |-> first, last |-> last, height |-> Height(ex), of |-> c]}
                           /\ Warned(c, ex, first, last) # {} => ~(last < 1)
  BY DEF Warned
<1>2. \A ex : Height(ex) \in Nat BY DEF Height
<1>3. \A ex : \A first \in Nat \ {0}, last \in Int : last <= LaserHorizon => Warned(c, ex, first, last) \subseteq Alerts(c)
  BY <1>1, <1>2 DEF Alerts
<1>4. \A ex, first, last : IsFiniteSet(Warned(c, ex, first, last))
 <2> TAKE ex, first, last
 <2>1. IsFiniteSet({[first |-> first, last |-> last, height |-> Height(ex), of |-> c]}) BY FS_Singleton
 <2> QED BY <1>1, <2>1, FS_Subset
<1>5. LastUpdate(c) \in Int /\ LastUpdate(c) <= LaserHorizon
 <2> DEFINE l == LaserHorizon
            w == c.wait
            m == Min({l, w})
 <2>1. l \in Int /\ w \in Int BY ChoiceSizes DEF Contexts
 <2>2. LastUpdate(c) = l \/ LastUpdate(c) = m BY DEF LastUpdate
 <2> HIDE DEF l, w
 <2>3. m \in Int /\ m <= l BY <2>1, LeastOfTwo
 <2> QED BY <2>1, <2>2, <2>3 DEF l
<1> DEFINE A == IF c.perFrame < 0 THEN {} ELSE Warned(c, c.perFrame, 1, LastUpdate(c))
           B == IF c.op = "other" \/ ~c.enabled \/ c.variable \/ c.wait < 0 \/ c.wait + 1 > LaserHorizon THEN {}
                ELSE Warned(c, c.raw, c.wait + 1, IF c.op = "repeat" THEN LaserHorizon ELSE c.wait + 1)
<1>6. A \subseteq Alerts(c) /\ B \subseteq Alerts(c)
 <2>0. c.wait \in Int /\ LaserHorizon \in Nat BY ChoiceSizes DEF Contexts
 <2> DEFINE x == LastUpdate(c)
            y == c.wait + 1
            z == IF c.op = "repeat" THEN LaserHorizon ELSE y
 <2>1. A \subseteq Alerts(c)
  <3>1. x \in Int /\ x <= LaserHorizon /\ 1 \in Nat \ {0} BY <1>5
  <3> HIDE DEF x
  <3>2. Warned(c, c.perFrame, 1, x) \subseteq Alerts(c) BY <1>3, <3>1
  <3> QED BY <3>2 DEF x
 <2>2. CASE c.wait < 0 \/ y > LaserHorizon BY <2>1, <2>2
 <2>3. CASE ~(c.wait < 0 \/ y > LaserHorizon)
  <3>1. y \in Nat \ {0} /\ z \in Int /\ z <= LaserHorizon BY <2>0, <2>3
  <3> HIDE DEF y, z
  <3>2. Warned(c, c.raw, y, z) \subseteq Alerts(c) BY <1>3, <3>1
  <3>3. B = {} \/ B = Warned(c, c.raw, y, z) BY DEF y, z
  <3> HIDE DEF A, B
  <3> QED BY <2>1, <3>2, <3>3
 <2> QED BY <2>2, <2>3
<1>7. IsFiniteSet(A) /\ IsFiniteSet(B) BY <1>4, FS_EmptySet
<1>8. Warnings(c) = A \union B BY DEF Warnings
<1> HIDE DEF A, B
<1> QED BY <1>6, <1>7, <1>8, FS_Union

\* No adapter forbids every direction.
LEMMA ScoredMask ==
  ASSUME NEW gaps, \A d \in Direction : IsFiniteSet(gaps[d]) /\ \A h \in gaps[d] : h.gap \in Int
  PROVE  MaskOf([d \in Direction |-> ScoreOf(gaps[d])]) # {}
<1> DEFINE score == [d \in Direction |-> ScoreOf(gaps[d])]
<1>1. \A d \in Direction : ScoreOf(gaps[d]) \in ScoreSet
 <2> TAKE d \in Direction
 <2> DEFINE S == gaps[d]
 <2>1. IsFiniteSet(S) /\ \A h \in S : h.gap \in Int OBVIOUS
 <2> HIDE DEF S
 <2>2. ScoreOf(S) \in ScoreSet BY <2>1, ScoreIs
 <2> QED BY <2>2 DEF S
<1>2. score \in [Direction -> ScoreSet] BY <1>1
<1> HIDE DEF score
<1>3. MaskOf(score) # {} BY <1>2, MaskKeeps
<1> QED BY <1>3 DEF score

LEMMA RangeFinite == \A a, b \in Int : IsFiniteSet(a .. b)
BY FS_Interval

LEMMA PathFrames ==
  ASSUME NEW s, Observed(s), NEW d \in Direction
  PROVE  /\ \A k \in 1 .. LaserHorizon : Constant(s, d)[k] \in Points
         /\ \A k \in 1 .. BulletHorizon : Constant(s, d)[k] \in Points
         /\ \A k \in 0 .. Horizon1 : Constant(s, d)[k] \in Points
<1>1. Constant(s, d) \in [0 .. Horizon1 -> Grounds] BY ConstantIs
<1> DEFINE path == Constant(s, d)
<1> HIDE DEF path
<1>2. \A k \in 0 .. Horizon1 : path[k] \in Points BY <1>1, Grounded DEF path
<1>3. \A k \in 1 .. LaserHorizon : k \in 0 .. Horizon1 BY ChoiceSizes, Horizons
<1>4. \A k \in 1 .. BulletHorizon : k \in 0 .. Horizon1 BY ChoiceSizes, Horizons
<1> QED BY <1>2, <1>3, <1>4 DEF path

LEMMA DirectGapIs ==
  ASSUME NEW p \in Points, NEW at \in Points, NEW angle \in 0 .. 3, NEW height \in Nat
  PROVE  DirectGap(Local(p, at, angle), height) \in Int
<1> DEFINE q == Local(p, at, angle)
           a == Magnitude(2 * q.x - FarOff) - 2 * HalfX - FarOff
           b == 2 * Magnitude(q.y) - 2 * HalfY - height
<1>1. q.x \in Int /\ q.y \in Int BY LocalIs
<1>2. DirectGap(q, height) = Max({a, b}) BY DEF DirectGap
<1> HIDE DEF q
<1>3. a \in Int /\ b \in Int BY <1>1, ChoiceSizes DEF Magnitude, FarOff
<1> HIDE DEF a, b
<1>4. Max({a, b}) \in Int BY <1>3, MaxOfTwo
<1> QED BY <1>2, <1>4 DEF q

LEMMA DirectFree == ASSUME NEW s, Observed(s) PROVE DirectMask(s) # {}
<1> DEFINE f == [c \in s.contexts |-> Warnings(c)]
           W == UNION {Warnings(c) : c \in s.contexts}
<1>1. IsFiniteSet(s.contexts) /\ s.contexts \subseteq Contexts BY Seen DEF Observed
<1>2. IsFiniteSet(W)
 <2>1. W \subseteq UNION {f[c] : c \in s.contexts} /\ \A c \in s.contexts : IsFiniteSet(f[c])
   BY <1>1, WarningsAre
 <2> HIDE DEF W, f
 <2> QED BY <1>1, <2>1, Unions
<1>3. \A w \in W : /\ w.first \in Nat \ {0} /\ w.last \in 0 .. LaserHorizon /\ w.height \in Nat
                   /\ w.of.at \in Points /\ w.of.angle \in 0 .. 3
 <2> TAKE w \in W
 <2>1. PICK c \in s.contexts : w \in Warnings(c) OBVIOUS
 <2>2. w \in Alerts(c) /\ c \in Contexts BY <1>1, <2>1, WarningsAre
 <2> QED BY <2>2 DEF Alerts, Contexts
<1>4. DirectMask(s) = DirectBy(s, W) BY DEF DirectMask
<1> HIDE DEF W
<1>5. CASE W = {} BY <1>4, <1>5 DEF DirectBy, Direction
<1>6. CASE W # {}
 <2> DEFINE gaps == [d \in Direction |-> DirectGaps(Constant(s, d), W)]
 <2>1. ASSUME NEW d \in Direction
       PROVE  IsFiniteSet(DirectGaps(Constant(s, d), W)) /\ \A h \in DirectGaps(Constant(s, d), W) : h.gap \in Int
  <3> DEFINE path == Constant(s, d)
             one(w, k) == [gap |-> DirectGap(Local(path[k], w.of.at, w.of.angle), w.height), at |-> <<k, w>>]
             g == [w \in W |-> {one(w, k) : k \in w.first .. w.last}]
             U == DirectGaps(path, W)
  <3>1. U = UNION {{one(w, k) : k \in w.first .. w.last} : w \in W} BY DEF DirectGaps
  <3>2. \A w \in W : \A k \in w.first .. w.last : path[k] \in Points BY <1>3, ChoiceSizes, PathFrames
  <3> HIDE DEF path, U
  <3>3. \A w \in W : \A k \in w.first .. w.last : one(w, k).gap \in Int
   <4> TAKE w \in W
   <4> TAKE k \in w.first .. w.last
   <4>1. path[k] \in Points /\ w.of.at \in Points /\ w.of.angle \in 0 .. 3 /\ w.height \in Nat BY <1>3, <3>2
   <4> QED BY <4>1, DirectGapIs
  <3>4. \A w \in W : IsFiniteSet(g[w])
   <4> TAKE w \in W
   <4> DEFINE h == [k \in w.first .. w.last |-> one(w, k)]
   <4>1. IsFiniteSet(w.first .. w.last) BY <1>3, RangeFinite
   <4>2. g[w] \subseteq {h[k] : k \in w.first .. w.last} OBVIOUS
   <4> HIDE DEF g, h
   <4> QED BY <4>1, <4>2, Image
  <3>5. IsFiniteSet(U)
   <4>1. U \subseteq UNION {g[w] : w \in W} BY <3>1
   <4> HIDE DEF g
   <4> QED BY <1>2, <3>4, <4>1, Unions
  <3>6. \A h \in U : h.gap \in Int
   <4> HIDE DEF one
   <4> QED BY <3>1, <3>3
  <3> QED BY <3>5, <3>6 DEF U, path
 <2>2. \A d \in Direction : IsFiniteSet(gaps[d]) /\ \A h \in gaps[d] : h.gap \in Int BY <2>1
 <2>3. DirectBy(s, W) = MaskOf([d \in Direction |-> ScoreOf(gaps[d])]) BY <1>6 DEF DirectBy
 <2> HIDE DEF gaps
 <2> QED BY <1>4, <2>2, <2>3, ScoredMask
<1> QED BY <1>5, <1>6

LEMMA DueLie == ASSUME NEW v \in DueBeams PROVE Lies(v)
BY DEF DueBeams, Pooled, Lies

LEMMA DueGapIs ==
  ASSUME NEW v, Lies(v), NEW k \in 0 .. LaserHorizon, NEW p \in Points
  PROVE  LaserGap(p, v, Centre(Forecasts(v)[k].l), Forecasts(v)[k].size) \in Int
<1> DEFINE f == Forecasts(v)[k]
<1>1. f \in ForetoldSet BY ForecastsAre
<1> HIDE DEF f
<1>2. Centre(f.l) \in Int /\ f.size \in Int BY <1>1, Sized DEF ForetoldSet, Pooled
<1>3. LaserGap(p, v, Centre(f.l), f.size) \in Int BY <1>2, LaserGapIs
<1> QED BY <1>3 DEF f

LEMMA ImminentFree == ASSUME NEW s, Observed(s) PROVE ImminentMask(s) # {}
<1> DEFINE D == {w \in s.due : ~w.suppressed}
<1>1. IsFiniteSet(D) /\ D \subseteq DueBeams
 <2>1. IsFiniteSet(s.due) /\ D \in SUBSET s.due /\ s.due \subseteq DueBeams BY Seen DEF Observed
 <2> HIDE DEF D
 <2> QED BY <2>1, FS_Subset
<1>2. ASSUME NEW d \in Direction
      PROVE  IsFiniteSet(ImminentGaps(s, Constant(s, d))) /\ \A h \in ImminentGaps(s, Constant(s, d)) : h.gap \in Int
 <2> DEFINE path == Constant(s, d)
            g == [v \in D |-> DueGaps(path, v, Forecasts(v))]
            U == ImminentGaps(s, path)
            all == UNION {DueGaps(path, v, Forecasts(v)) : v \in D}
 <2>1. U \subseteq all BY DEF ImminentGaps
 <2>2. \A k \in 1 .. LaserHorizon : path[k] \in Points BY PathFrames
 <2> HIDE DEF path, U
 <2>3. ASSUME NEW v \in D PROVE IsFiniteSet(g[v]) /\ \A h \in g[v] : h.gap \in Int
  <3> DEFINE table == Forecasts(v)
             one == [k \in 1 .. LaserHorizon |-> DueGap(path, v, k, table[k])]
  <3>1. g[v] = {one[k] : k \in 1 .. LaserHorizon} BY DEF DueGaps
  <3>2. \A k \in 1 .. LaserHorizon : one[k].gap \in Int
   <4> TAKE k \in 1 .. LaserHorizon
   <4>1. path[k] \in Points /\ Lies(v) /\ k \in 0 .. LaserHorizon BY <1>1, <2>2, DueLie, ChoiceSizes
   <4>2. one[k].gap = LaserGap(path[k], v, Centre(Forecasts(v)[k].l), Forecasts(v)[k].size) BY DEF DueGap
   <4> HIDE DEF one
   <4> QED BY <4>1, <4>2, DueGapIs
  <3>3. IsFiniteSet(1 .. LaserHorizon) BY ChoiceSizes, RangeFinite
  <3> HIDE DEF g, one
  <3>4. IsFiniteSet(g[v]) BY <3>1, <3>3, Image
  <3> QED BY <3>1, <3>2, <3>4
 <2>4. IsFiniteSet(U)
  <3>1. U \subseteq UNION {g[v] : v \in D} BY <2>1
  <3> HIDE DEF g, D
  <3> QED BY <1>1, <2>3, <3>1, Unions
 <2>5. \A h \in U : h.gap \in Int BY <2>1, <2>3
 <2> QED BY <2>4, <2>5 DEF U, path
<1> DEFINE gaps == [d \in Direction |-> ImminentGaps(s, Constant(s, d))]
<1>3. \A d \in Direction : IsFiniteSet(gaps[d]) /\ \A h \in gaps[d] : h.gap \in Int BY <1>2
<1>4. ImminentMask(s) = Direction \/ ImminentMask(s) = MaskOf([d \in Direction |-> ScoreOf(gaps[d])])
  BY DEF ImminentMask
<1> HIDE DEF gaps
<1>5. MaskOf([d \in Direction |-> ScoreOf(gaps[d])]) # {} BY <1>3, ScoredMask
<1> QED BY <1>4, <1>5 DEF Direction

LEMMA GapIs ==
  ASSUME NEW p \in Points, NEW x \in Int, NEW y \in Int, NEW halfX \in Nat, NEW halfY \in Nat
  PROVE  Gap(p, x, y, halfX, halfY) \in Int
<1> DEFINE a == Magnitude(p.x - x) - HalfX - halfX
           b == Magnitude(p.y - y) - HalfY - halfY
<1>1. a \in Int /\ b \in Int BY ChoiceSizes DEF Magnitude, Points
<1>2. Gap(p, x, y, halfX, halfY) = Max({a, b}) BY DEF Gap
<1> HIDE DEF a, b
<1>3. Max({a, b}) \in Int BY <1>1, MaxOfTwo
<1> QED BY <1>2, <1>3

LEMMA UpcomingFree == ASSUME NEW s, Observed(s) PROVE UpcomingMask(s) # {}
<1> DEFINE K == 1 .. BulletHorizon
<1>1. IsFiniteSet(K) /\ IsFiniteSet(s.spawns) /\ s.spawns \subseteq DueShots
  BY ChoiceSizes, RangeFinite, Seen DEF Observed
<1>2. ASSUME NEW d \in Direction
      PROVE  IsFiniteSet(UpcomingGaps(s, Constant(s, d))) /\ \A h \in UpcomingGaps(s, Constant(s, d)) : h.gap \in Int
 <2> DEFINE path == Constant(s, d)
            U == UpcomingGaps(s, path)
            x(b, k) == b.x + (k - b.update) * b.vx
            y(b, k) == b.y + (k - b.update) * b.vy
            one(b, k) == [gap |-> Gap(path[k], x(b, k), y(b, k), b.half, b.half), at |-> <<k, b>>]
            g == [k \in K |-> {one(b, k) : b \in FiredAt(s, k)}]
 <2>1. U = UNION {{one(b, k) : b \in FiredAt(s, k)} : k \in K} BY DEF UpcomingGaps
 <2>2. \A k \in K : path[k] \in Points BY PathFrames
 <2> HIDE DEF path, U
 <2>3. ASSUME NEW k \in K PROVE IsFiniteSet(g[k]) /\ \A h \in g[k] : h.gap \in Int
  <3>1. FiredAt(s, k) \in SUBSET s.spawns BY DEF FiredAt
  <3>2. IsFiniteSet(FiredAt(s, k)) BY <1>1, <3>1, FS_Subset
  <3>3. \A b \in FiredAt(s, k) : one(b, k).gap \in Int
   <4> TAKE b \in FiredAt(s, k)
   <4>1. b \in DueShots /\ k \in Int BY <1>1, <3>1
   <4>2. x(b, k) \in Int /\ y(b, k) \in Int /\ b.half \in Nat
    <5>1. b.x \in Int /\ b.y \in Int /\ b.vx \in Int /\ b.vy \in Int /\ b.half \in Nat /\ k - b.update \in Int
      BY <4>1 DEF DueShots
    <5> QED BY <5>1
   <4> DEFINE u == x(b, k)
              v == y(b, k)
   <4> HIDE DEF u, v
   <4>3. one(b, k).gap = Gap(path[k], u, v, b.half, b.half) BY DEF u, v
   <4>4. u \in Int /\ v \in Int BY <4>2 DEF u, v
   <4> HIDE DEF one
   <4> QED BY <2>2, <4>2, <4>3, <4>4, GapIs
  <3> DEFINE F == FiredAt(s, k)
             h == [b \in F |-> one(b, k)]
  <3>4. g[k] = {h[b] : b \in F} OBVIOUS
  <3> HIDE DEF g, h, F
  <3>5. IsFiniteSet(g[k]) BY <3>2, <3>4, Image DEF F
  <3>6. \A z \in g[k] : z.gap \in Int BY <3>3 DEF g
  <3> QED BY <3>5, <3>6
 <2>4. IsFiniteSet(U)
  <3>1. U \subseteq UNION {g[k] : k \in K} BY <2>1
  <3> HIDE DEF g, K
  <3> QED BY <1>1, <2>3, <3>1, Unions
 <2>5. \A h \in U : h.gap \in Int
  <3> HIDE DEF one
  <3> QED BY <2>1, <2>3
 <2> QED BY <2>4, <2>5 DEF U, path
<1> DEFINE gaps == [d \in Direction |-> UpcomingGaps(s, Constant(s, d))]
<1>3. \A d \in Direction : IsFiniteSet(gaps[d]) /\ \A h \in gaps[d] : h.gap \in Int BY <1>2
<1>4. UpcomingMask(s) = Direction \/ UpcomingMask(s) = MaskOf([d \in Direction |-> ScoreOf(gaps[d])])
  BY DEF UpcomingMask
<1> HIDE DEF gaps
<1>5. MaskOf([d \in Direction |-> ScoreOf(gaps[d])]) # {} BY <1>3, ScoredMask
<1> QED BY <1>4, <1>5 DEF Direction

\* A laser a script will put up is warned of.
Installs(c, k) == c.op = "repeat" /\ c.enabled /\ c.wait >= 0 /\ k >= c.wait + 1
Fires(c, k) == c.op # "other" /\ c.enabled /\ c.wait >= 0 /\ k = c.wait + 1

LEMMA HitsAre ==
  ASSUME NEW c \in Contexts, NEW h \in DirectHits(c)
  PROVE  \E k \in 1 .. LaserHorizon : /\ h = <<k, h[2]>>
                                      /\ \/ h[2] = c.perFrame /\ ~Installs(c, k)
                                         \/ h[2] = c.raw /\ (Installs(c, k) \/ (Fires(c, k) /\ c.op = "call"))
<1> DEFINE due(k) == c.op # "other" /\ c.enabled /\ c.wait >= 0 /\ k = c.wait + 1
           Solves(z) == z = [k \in 0 .. LaserHorizon |->
                               IF k = 0 THEN c.perFrame ELSE IF due(k) /\ c.op = "repeat" THEN c.raw ELSE z[k - 1]]
           e == [k \in 0 .. LaserHorizon |-> IF Installs(c, k) THEN c.raw ELSE c.perFrame]
           installed == CHOOSE z : Solves(z)
<1>1. DirectHits(c) = {<<k, installed[k]>> : k \in 1 .. LaserHorizon} \union {<<k, c.raw>> : k \in {j \in 1 .. LaserHorizon : due(j) /\ c.op = "call"}}
  BY DEF DirectHits
<1>2. c.wait \in Int /\ LaserHorizon \in Nat BY ChoiceSizes DEF Contexts
<1>3. Solves(e)
 <2>1. \A k \in 0 .. LaserHorizon : (IF Installs(c, k) THEN c.raw ELSE c.perFrame) =
         IF k = 0 THEN c.perFrame ELSE IF due(k) /\ c.op = "repeat" THEN c.raw ELSE e[k - 1]
   BY <1>2 DEF Installs
 <2> QED BY <2>1
<1>4. Solves(installed)
 <2> HIDE DEF Solves
 <2> QED BY <1>3, Zenon
<1> HIDE DEF installed
<1>5. \A k \in 0 .. LaserHorizon : installed[k] = e[k]
 <2>1. \A k \in 0 .. LaserHorizon : installed[k] = IF k = 0 THEN c.perFrame ELSE IF due(k) /\ c.op = "repeat" THEN c.raw ELSE installed[k - 1]
   BY <1>4
 <2> DEFINE S == {k \in 0 .. LaserHorizon : installed[k] = e[k]}
 <2>2. 0 \in S BY <1>2, <2>1 DEF Installs
 <2>3. ASSUME NEW k \in 0 .. LaserHorizon - 1, k \in S PROVE k + 1 \in S
  <3>1. k + 1 \in 0 .. LaserHorizon /\ k + 1 # 0 /\ (k + 1) - 1 = k /\ k \in 0 .. LaserHorizon BY <1>2
  <3>2. installed[k + 1] = IF due(k + 1) /\ c.op = "repeat" THEN c.raw ELSE installed[k] BY <2>1, <3>1
  <3> QED BY <1>2, <2>3, <3>1, <3>2 DEF Installs
 <2> HIDE DEF S
 <2>4. \A k \in 0 .. LaserHorizon : k \in S BY <1>2, <2>2, <2>3, Upward
 <2> QED BY <2>4 DEF S
<1>6. CASE h \in {<<k, installed[k]>> : k \in 1 .. LaserHorizon}
 <2>1. PICK k \in 1 .. LaserHorizon : h = <<k, installed[k]>> BY <1>6
 <2>2. installed[k] = IF Installs(c, k) THEN c.raw ELSE c.perFrame BY <1>2, <1>5
 <2> QED BY <2>1, <2>2
<1>7. CASE h \in {<<k, c.raw>> : k \in {j \in 1 .. LaserHorizon : due(j) /\ c.op = "call"}} BY <1>7 DEF Fires
<1> QED BY <1>1, <1>6, <1>7

LEMMA HitsWarned ==
  ASSUME NEW c \in Contexts, c.stable, ~c.variable, NEW h \in DirectHits(c), Height(h[2]) > 0
  PROVE  \E w \in Warnings(c) : w.height = Height(h[2]) /\ h[1] \in w.first .. w.last
<1>1. PICK k \in 1 .. LaserHorizon : /\ h = <<k, h[2]>>
                                     /\ \/ h[2] = c.perFrame /\ ~Installs(c, k)
                                        \/ h[2] = c.raw /\ (Installs(c, k) \/ (Fires(c, k) /\ c.op = "call"))
  BY HitsAre
<1> DEFINE r == h[2]
<1>2. h[1] = k /\ Height(r) > 0
 <2> DEFINE z == h[2]
 <2>1. h = <<k, z>> BY <1>1
 <2> HIDE DEF z
 <2> QED BY <2>1 DEF z
<1> HIDE DEF r
<1>3. r \in {9, 11, 25} BY <1>2 DEF Height
<1>4. c.wait \in Int /\ c.raw \in Int /\ c.perFrame \in Int /\ LaserHorizon \in Nat BY ChoiceSizes DEF Contexts
<1>5. \A first, last : ~(last < 1) => [first |-> first, last |-> last, height |-> Height(r), of |-> c] \in Warned(c, r, first, last)
  BY <1>2 DEF Warned
<1>6. CASE r = c.perFrame /\ ~Installs(c, k)
 <2> DEFINE l == LastUpdate(c)
            w == [first |-> 1, last |-> l, height |-> Height(r), of |-> c]
 <2>1. l \in Int /\ k <= l
  <3>1. CASE c.op = "repeat" /\ c.enabled /\ ~c.variable /\ c.raw < 0 /\ c.wait >= 0
   <4>1. l = Min({LaserHorizon, c.wait}) BY <3>1 DEF LastUpdate
   <4>2. k <= c.wait BY <1>4, <1>6, <3>1 DEF Installs
   <4> QED BY <1>4, <4>1, <4>2, LeastOfTwo
  <3>2. CASE ~(c.op = "repeat" /\ c.enabled /\ ~c.variable /\ c.raw < 0 /\ c.wait >= 0)
    BY <1>4, <3>2 DEF LastUpdate
  <3> QED BY <3>1, <3>2
 <2> HIDE DEF l
 <2>2. w \in Warned(c, r, 1, l) BY <1>5, <2>1
 <2>3. w \in Warnings(c) BY <1>3, <1>6, <2>2 DEF Warnings, l
 <2>4. w.height = Height(r) /\ k \in w.first .. w.last BY <2>1
 <2> HIDE DEF w
 <2> QED BY <1>2, <2>3, <2>4 DEF r
<1>7. CASE r = c.raw /\ (Installs(c, k) \/ (Fires(c, k) /\ c.op = "call"))
 <2> DEFINE y == c.wait + 1
            l == IF c.op = "repeat" THEN LaserHorizon ELSE y
            w == [first |-> y, last |-> l, height |-> Height(r), of |-> c]
 <2>1. y \in Int /\ l \in Int /\ y <= k /\ k <= l /\ ~(l < 1) /\ ~(y > LaserHorizon) /\ c.op # "other" /\ c.enabled /\ ~(c.wait < 0)
   BY <1>4, <1>7 DEF Installs, Fires
 <2>2. w \in Warned(c, r, y, l) BY <1>5, <2>1
 <2>3. w \in Warnings(c) BY <1>7, <2>1, <2>2 DEF Warnings
 <2>4. w.height = Height(r) /\ k \in w.first .. w.last
  <3> HIDE DEF y, l
  <3> QED BY <2>1
 <2> HIDE DEF w
 <2> QED BY <1>2, <2>3, <2>4 DEF r
<1> QED BY <1>1, <1>6, <1>7 DEF r

\* And so is whom a due laser meets.
LEMMA DueWarned ==
  ASSUME NEW s, Observed(s), NEW v \in s.due, NEW d \in Direction
  PROVE  AllWarned(Constant(s, d), v, Natives(v), Forecasts(v))
<1> DEFINE path == Constant(s, d)
           table == Forecasts(v)
<1>1. Lies(v) BY Seen, DueLie
<1>2. \A k \in 1 .. LaserHorizon : path[k] \in Points /\ k \in 0 .. LaserHorizon BY PathFrames, ChoiceSizes
<1> HIDE DEF path
<1>3. ASSUME NEW k \in 1 .. LaserHorizon, MetBy(path[k], v, Natives(v)[k])
      PROVE  \E h \in DueGaps(path, v, table) : h.at = <<k, v>> /\ h.lethal /\ h.gap <= 0
 <2> DEFINE f == table[k]
            h == DueGap(path, v, k, f)
 <2>1. f.there /\ f.lethal /\ LaserGap(path[k], v, Centre(f.l), f.size) <= 0 BY <1>1, <1>2, <1>3, MetForetold
 <2>2. h \in DueGaps(path, v, table) BY DEF DueGaps
 <2> HIDE DEF table
 <2>3. h.at = <<k, v>> /\ h.lethal /\ h.gap <= 0 BY <2>1 DEF DueGap
 <2> HIDE DEF h
 <2> QED BY <2>2, <2>3
<1>4. AllWarned(path, v, Natives(v), table)
 <2> HIDE DEF table
 <2> QED BY <1>3 DEF AllWarned
<1> QED BY <1>4 DEF path

----
\* The order of better: strict and total on what a path may score.
Marks == [first : Int, clearance : Int, danger : Int, centre : Int, action : Direction, continuation : Direction]
Lexical(m, n) ==
    \/ m[1] < n[1]
    \/ m[1] = n[1] /\ m[2] < n[2]
    \/ m[1] = n[1] /\ m[2] = n[2] /\ m[3] < n[3]
    \/ m[1] = n[1] /\ m[2] = n[2] /\ m[3] = n[3] /\ m[4] < n[4]
    \/ m[1] = n[1] /\ m[2] = n[2] /\ m[3] = n[3] /\ m[4] = n[4] /\ m[5] < n[5]
    \/ m[1] = n[1] /\ m[2] = n[2] /\ m[3] = n[3] /\ m[4] = n[4] /\ m[5] = n[5] /\ m[6] < n[6]

LEMMA PrecedesIs == ASSUME NEW m, NEW n PROVE Precedes(m, n) <=> Lexical(m, n)
<1>1. ASSUME Precedes(m, n) PROVE Lexical(m, n)
 <2>1. PICK i \in 1 .. 6 : m[i] < n[i] /\ \A j \in 1 .. i - 1 : m[j] = n[j] BY <1>1 DEF Precedes
 <2>2. i \in {1, 2, 3, 4, 5, 6} OBVIOUS
 <2>3. i = 1 => Lexical(m, n) BY <2>1 DEF Lexical
 <2>4. i = 2 => Lexical(m, n) BY <2>1 DEF Lexical
 <2>5. i = 3 => Lexical(m, n) BY <2>1 DEF Lexical
 <2>6. i = 4 => Lexical(m, n) BY <2>1 DEF Lexical
 <2>7. i = 5 => Lexical(m, n) BY <2>1 DEF Lexical
 <2>8. i = 6 => Lexical(m, n) BY <2>1 DEF Lexical
 <2> QED BY <2>2, <2>3, <2>4, <2>5, <2>6, <2>7, <2>8
<1>2. ASSUME Lexical(m, n) PROVE Precedes(m, n)
 <2> DEFINE Fits(i) == i \in 1 .. 6 /\ m[i] < n[i] /\ \A j \in 1 .. i - 1 : m[j] = n[j]
 <2>1. Fits(1) \/ Fits(2) \/ Fits(3) \/ Fits(4) \/ Fits(5) \/ Fits(6)
  <3>1. /\ 1 .. 1 - 1 = {} /\ 1 .. 2 - 1 = {1} /\ 1 .. 3 - 1 = {1, 2} /\ 1 .. 4 - 1 = {1, 2, 3}
        /\ 1 .. 5 - 1 = {1, 2, 3, 4} /\ 1 .. 6 - 1 = {1, 2, 3, 4, 5}
    OBVIOUS
  <3>2. \A i \in {1, 2, 3, 4, 5, 6} : i \in 1 .. 6 OBVIOUS
  <3> QED BY <1>2, <3>1, <3>2 DEF Lexical
 <2>2. \A i : Fits(i) => Precedes(m, n) BY DEF Precedes
 <2> HIDE DEF Fits
 <2> QED BY <2>1, <2>2
<1> QED BY <1>1, <1>2

LEMMA InputIs ==
  ASSUME NEW d \in Direction
  PROVE  /\ Input1(d) \in Int
         /\ \A e \in Direction : Input1(d) = Input1(e) => d = e
<1>1. \A c \in Direction : Sideways(c) \in {-1, 0, 1} /\ Upwards(c) \in {-1, 0, 1} /\ c = 3 * (Upwards(c) + 1) + Sideways(c) + 1
  BY Turns
<1>2. Input1(d) \in Int BY DEF Input1
<1>3. ASSUME NEW e \in Direction, Input1(d) = Input1(e) PROVE d = e
 <2> DEFINE a == Sideways(d)
            b == Upwards(d)
            x == Sideways(e)
            y == Upwards(e)
 <2>1. /\ a \in {-1, 0, 1} /\ b \in {-1, 0, 1} /\ d = 3 * (b + 1) + a + 1
       /\ x \in {-1, 0, 1} /\ y \in {-1, 0, 1} /\ e = 3 * (y + 1) + x + 1
   BY <1>1
 <2>2. (IF a < 0 THEN 64 ELSE IF a > 0 THEN 128 ELSE 0) + (IF b < 0 THEN 16 ELSE IF b > 0 THEN 32 ELSE 0)
       = (IF x < 0 THEN 64 ELSE IF x > 0 THEN 128 ELSE 0) + (IF y < 0 THEN 16 ELSE IF y > 0 THEN 32 ELSE 0)
   BY <1>3 DEF Input1
 <2> HIDE DEF a, b, x, y
 <2> QED BY <2>1, <2>2
<1> QED BY <1>2, <1>3

LEMMA MeritIs ==
  ASSUME NEW a \in Marks
  PROVE  LET m == MeritOf(a)
         IN  /\ m[1] \in Int /\ m[2] \in Int /\ m[3] \in Int /\ m[4] \in Int /\ m[5] \in Int /\ m[6] \in Int
             /\ m[1] = -a.first
<1> DEFINE m == MeritOf(a)
           p == -a.first
           q == -a.clearance
           x == Input1(a.action)
           y == Input1(a.continuation)
<1>1. /\ p \in Int /\ q \in Int /\ a.danger \in Int /\ a.centre \in Int /\ x \in Int /\ y \in Int
  BY InputIs DEF Marks
<1>2. m = <<p, q, a.danger, a.centre, x, y>> BY DEF MeritOf
<1> HIDE DEF m, p, q, x, y
<1>3. m[1] = p /\ m[2] = q /\ m[3] = a.danger /\ m[4] = a.centre /\ m[5] = x /\ m[6] = y BY <1>2
<1> QED BY <1>1, <1>3 DEF m, p

LEMMA MeritTells ==
  ASSUME NEW a \in Marks, NEW b \in Marks,
         \A i \in {1, 2, 3, 4, 5, 6} : MeritOf(a)[i] = MeritOf(b)[i]
  PROVE  a = b
<1> DEFINE m == MeritOf(a)
           n == MeritOf(b)
<1>1. /\ m[1] = -a.first /\ m[2] = -a.clearance /\ m[3] = a.danger /\ m[4] = a.centre
      /\ m[5] = Input1(a.action) /\ m[6] = Input1(a.continuation)
  BY DEF MeritOf
<1>2. /\ n[1] = -b.first /\ n[2] = -b.clearance /\ n[3] = b.danger /\ n[4] = b.centre
      /\ n[5] = Input1(b.action) /\ n[6] = Input1(b.continuation)
  BY DEF MeritOf
<1>3. m[1] = n[1] /\ m[2] = n[2] /\ m[3] = n[3] /\ m[4] = n[4] /\ m[5] = n[5] /\ m[6] = n[6] OBVIOUS
<1> HIDE DEF m, n
<1>4. /\ a.first \in Int /\ b.first \in Int /\ a.clearance \in Int /\ b.clearance \in Int
      /\ a.action \in Direction /\ b.action \in Direction /\ a.continuation \in Direction /\ b.continuation \in Direction
  BY DEF Marks
<1>5. a.first = b.first /\ a.clearance = b.clearance /\ a.danger = b.danger /\ a.centre = b.centre
  BY <1>1, <1>2, <1>3, <1>4
<1>6. Input1(a.action) = Input1(b.action) /\ Input1(a.continuation) = Input1(b.continuation) BY <1>1, <1>2, <1>3
<1>7. a.action = b.action /\ a.continuation = b.continuation BY <1>4, <1>6, InputIs
<1> QED BY <1>5, <1>7 DEF Marks

LEMMA BetterOrders ==
  /\ \A a \in Marks : ~Better1(a, a)
  /\ \A a, b, c \in Marks : Better1(a, b) /\ Better1(b, c) => Better1(a, c)
  /\ \A a, b \in Marks : a # b => Better1(a, b) \/ Better1(b, a)
  /\ \A a, b \in Marks : Better1(a, b) => a.first >= b.first
<1>1. \A a, b : Better1(a, b) <=> Lexical(MeritOf(a), MeritOf(b)) BY PrecedesIs DEF Better1
<1> DEFINE Ints(m) == m[1] \in Int /\ m[2] \in Int /\ m[3] \in Int /\ m[4] \in Int /\ m[5] \in Int /\ m[6] \in Int
<1>2. \A a \in Marks : Ints(MeritOf(a)) /\ MeritOf(a)[1] = -a.first /\ a.first \in Int
 <2>1. \A a \in Marks : a.first \in Int BY DEF Marks
 <2>2. \A a \in Marks : Ints(MeritOf(a)) /\ MeritOf(a)[1] = -a.first BY MeritIs
 <2> QED BY <2>1, <2>2
<1>3. \A m : Ints(m) => ~Lexical(m, m) BY DEF Lexical
<1>4. \A m, n, o : Ints(m) /\ Ints(n) /\ Ints(o) /\ Lexical(m, n) /\ Lexical(n, o) => Lexical(m, o)
  BY DEF Lexical
<1>5. \A m, n : Ints(m) /\ Ints(n) /\ ~Lexical(m, n) /\ ~Lexical(n, m) => \A i \in {1, 2, 3, 4, 5, 6} : m[i] = n[i]
  BY DEF Lexical
<1>6. \A m, n : Ints(m) /\ Ints(n) /\ Lexical(m, n) => m[1] <= n[1] BY DEF Lexical
<1> HIDE DEF Ints
<1>7. \A a \in Marks : ~Better1(a, a) BY <1>1, <1>2, <1>3
<1>8. \A a, b, c \in Marks : Better1(a, b) /\ Better1(b, c) => Better1(a, c) BY <1>1, <1>2, <1>4
<1>9. ASSUME NEW a \in Marks, NEW b \in Marks, a # b PROVE Better1(a, b) \/ Better1(b, a)
 <2>1. Ints(MeritOf(a)) /\ Ints(MeritOf(b)) BY <1>2
 <2>2. CASE ~Lexical(MeritOf(a), MeritOf(b)) /\ ~Lexical(MeritOf(b), MeritOf(a))
  <3>1. \A i \in {1, 2, 3, 4, 5, 6} : MeritOf(a)[i] = MeritOf(b)[i] BY <1>5, <2>1, <2>2
  <3> QED BY <1>9, <3>1, MeritTells
 <2> QED BY <1>1, <2>2
<1>10. ASSUME NEW a \in Marks, NEW b \in Marks, Better1(a, b) PROVE a.first >= b.first
 <2>1. MeritOf(a)[1] <= MeritOf(b)[1] BY <1>1, <1>2, <1>6, <1>10
 <2> QED BY <1>2, <2>1
<1> QED BY <1>7, <1>8, <1>9, <1>10

\* So of finitely many scores there is a best one.
LEMMA BestIs ==
  ASSUME NEW S, IsFiniteSet(S), S # {}, S \subseteq Marks
  PROVE  BestOf(S) \in S /\ \A t \in S : BestOf(S).first >= t.first
<1> DEFINE R == {z \in S \X S : Better1(z[1], z[2])}
           Best(c) == \A t \in S \ {c} : Better1(c, t)
<1>1. \A a, b \in S : <<a, b>> \in R <=> Better1(a, b) OBVIOUS
<1> HIDE DEF R
<1>2. Ordered(R, S) BY <1>1, BetterOrders DEF Ordered
<1>3. PICK c \in S : \A m \in S : m # c => <<c, m>> \in R BY <1>2, Smallest
<1>4. Best(c) BY <1>1, <1>3
<1>5. BestOf(S) \in S /\ Best(BestOf(S))
 <2>1. BestOf(S) = CHOOSE z \in S : Best(z) BY DEF BestOf
 <2> HIDE DEF Best
 <2> QED BY <1>4, <2>1, Zenon
<1> DEFINE best == BestOf(S)
<1> HIDE DEF best
<1>6. \A t \in S : t # best => Better1(best, t) BY <1>5 DEF best
<1>7. \A t \in S : best.first >= t.first
 <2> TAKE t \in S
 <2>1. best \in Marks /\ t \in Marks BY <1>5 DEF best
 <2>2. t.first \in Int BY <2>1 DEF Marks
 <2>3. CASE t = best BY <2>2, <2>3
 <2>4. CASE t # best BY <1>6, <2>1, <2>4, BetterOrders
 <2> QED BY <2>3, <2>4
<1> QED BY <1>5, <1>7 DEF best

----
\* A constant path on one axis: it goes one way until it meets the edge.
Drift(f, v, c, n, F) == f[1] = v /\ \A k \in 2 .. n : f[k] = Clamped(f[k - 1] + c, F)
Drifted(v, c, k) == v + c * (k - 1)

LEMMA Drifts ==
  ASSUME NEW F \in Nat, NEW v \in 0 .. F, NEW c \in Int, NEW n \in Nat, NEW f, Drift(f, v, c, n, F), NEW k \in 1 .. n
  PROVE  f[k] = Clamped(Drifted(v, c, k), F)
<1> DEFINE S == {m \in 1 .. n : f[m] = Clamped(v + c * (m - 1), F)}
<1>1. 1 \in S
 <2>1. c * (1 - 1) = 0 /\ 1 \in 1 .. n OBVIOUS
 <2> QED BY <2>1 DEF Clamped, Drift
<1>2. ASSUME NEW m \in 1 .. n - 1, m \in S PROVE m + 1 \in S
 <2>1. m + 1 \in 2 .. n /\ (m + 1) - 1 = m /\ m + 1 \in 1 .. n OBVIOUS
 <2> DEFINE a == c * (m - 1)
            b == c * m
 <2>2. a \in Int /\ b = a + c OBVIOUS
 <2>3. (c >= 0 => a >= 0) /\ (c <= 0 => a <= 0)
  <3>1. m - 1 \in Nat OBVIOUS
  <3> DEFINE t == m - 1
  <3> HIDE DEF t
  <3>2. t \in Nat => (c >= 0 => c * t >= 0) /\ (c <= 0 => c * t <= 0) OBVIOUS
  <3> QED BY <3>1, <3>2 DEF t
 <2>4. f[m] = Clamped(v + a, F) /\ f[m + 1] = Clamped(f[m] + c, F) BY <1>2, <2>1 DEF Drift
 <2>5. f[m + 1] = Clamped(v + b, F)
  <3> DEFINE x == f[m]
             y == f[m + 1]
  <3>1. x = Clamped(v + a, F) /\ y = Clamped(x + c, F) BY <2>4
  <3> HIDE DEF a, b, x, y
  <3>2. y = Clamped(v + b, F) BY <2>2, <2>3, <3>1 DEF Clamped
  <3> QED BY <3>2 DEF y
 <2> QED BY <2>1, <2>5
<1> HIDE DEF S
<1>3. k \in S BY <1>1, <1>2, Upward
<1> QED BY <1>3 DEF S, Drifted

LEMMA Spans ==
  ASSUME NEW F \in Nat, NEW v \in 0 .. F, NEW c \in Int, NEW n \in Nat, NEW t \in 1 .. n
  PROVE  LET a == Clamped(v + c, F)
             b == Clamped(v + c * n, F)
             x == Clamped(v + c * t, F)
         IN  (a <= x /\ x <= b) \/ (b <= x /\ x <= a)
<1> DEFINE p == c * t
           q == c * n
<1>1. p \in Int /\ q \in Int OBVIOUS
<1>2. (c >= 0 => c <= p /\ p <= q) /\ (c <= 0 => c >= p /\ p >= q)
 <2> DEFINE u == t - 1
            w == n - t
 <2>1. u \in Nat /\ w \in Nat /\ p = c * u + c /\ q = p + c * w OBVIOUS
 <2> HIDE DEF u, w
 <2>2. \A z \in Nat : (c >= 0 => c * z >= 0) /\ (c <= 0 => c * z <= 0) OBVIOUS
 <2> DEFINE g == c * u
            h == c * w
 <2>3. (c >= 0 => g >= 0 /\ h >= 0) /\ (c <= 0 => g <= 0 /\ h <= 0) /\ g \in Int /\ h \in Int /\ p = g + c /\ q = p + h
   BY <2>1, <2>2
 <2> HIDE DEF g, h, p, q
 <2> QED BY <2>3
<1> HIDE DEF p, q
<1>3. LET a == Clamped(v + c, F)
          b == Clamped(v + q, F)
          x == Clamped(v + p, F)
      IN  (a <= x /\ x <= b) \/ (b <= x /\ x <= a)
  BY <1>1, <1>2 DEF Clamped
<1> QED BY <1>3 DEF p, q

Between(a, x, b) == (a <= x /\ x <= b) \/ (b <= x /\ x <= a)

\* So it lies in the rectangle that pruning looks at.
LEMMA PathSpans ==
  ASSUME NEW s, Observed(s), NEW d \in Direction, NEW k \in 2 .. LaserHorizon
  PROVE  LET from == Stepped(s.at, s.pending)
             first == Stepped(from, d)
             last == After(from, d, LaserHorizon - 1)
             p == Constant(s, d)[k]
         IN  /\ Between(first.x, p.x, last.x) /\ Between(first.y, p.y, last.y)
             /\ first \in Grounds /\ last \in Grounds /\ p \in Grounds
<1> DEFINE path == Constant(s, d)
           from == Stepped(s.at, s.pending)
           first == Stepped(from, d)
           last == After(from, d, LaserHorizon - 1)
           g == Sideways(d) * Stride(d)
           h == Upwards(d) * Stride(d)
           n == LaserHorizon - 1
<1>1. from \in Grounds /\ first \in Grounds BY Seen, StepIs, Grounded
<1>2. g \in Int /\ h \in Int /\ n \in Nat BY ChoiceSizes, Turns
<1>3. /\ first = [x |-> Clamped(from.x + g, FieldX), y |-> Clamped(from.y + h, FieldY)]
      /\ last = [x |-> Clamped(from.x + g * n, FieldX), y |-> Clamped(from.y + h * n, FieldY)]
  BY DEF Stepped, After
<1>4. path[1] = from /\ \A m \in 2 .. LaserHorizon : path[m] = Stepped(path[m - 1], d)
 <2>1. \A m \in 1 .. Horizon1 : path[m] = Stepped(path[m - 1], IF m = 1 THEN s.pending ELSE d) BY ConstantIs
 <2>2. path[0] = s.at BY ConstantIs
 <2> HIDE DEF path
 <2>3. 1 \in 1 .. Horizon1 /\ \A m \in 2 .. LaserHorizon : m \in 1 .. Horizon1 /\ m # 1 BY ChoiceSizes, Horizons
 <2> QED BY <2>1, <2>2, <2>3
<1>5. path[k] \in Grounds
 <2>1. path \in [0 .. Horizon1 -> Grounds] BY ConstantIs
 <2> HIDE DEF path
 <2>2. k \in 0 .. Horizon1 BY ChoiceSizes, Horizons
 <2> QED BY <2>1, <2>2
<1> HIDE DEF path
<1> DEFINE fx == [m \in 1 .. LaserHorizon |-> path[m].x]
           fy == [m \in 1 .. LaserHorizon |-> path[m].y]
<1>6. /\ fx[1] = from.x /\ \A m \in 2 .. LaserHorizon : fx[m] = Clamped(fx[m - 1] + g, FieldX)
      /\ fy[1] = from.y /\ \A m \in 2 .. LaserHorizon : fy[m] = Clamped(fy[m - 1] + h, FieldY)
 <2>1. 1 \in 1 .. LaserHorizon /\ \A m \in 2 .. LaserHorizon : m \in 1 .. LaserHorizon /\ m - 1 \in 1 .. LaserHorizon
   BY ChoiceSizes
 <2>2. \A m \in 2 .. LaserHorizon : /\ path[m].x = Clamped(path[m - 1].x + g, FieldX)
                                    /\ path[m].y = Clamped(path[m - 1].y + h, FieldY)
  <3> TAKE m \in 2 .. LaserHorizon
  <3> DEFINE z == path[m - 1]
  <3>1. path[m] = Stepped(z, d) BY <1>4
  <3> HIDE DEF z
  <3>2. path[m] = [x |-> Clamped(z.x + g, FieldX), y |-> Clamped(z.y + h, FieldY)] BY <3>1 DEF Stepped
  <3> QED BY <3>2 DEF z
 <2> HIDE DEF g, h, from
 <2> QED BY <1>4, <2>1, <2>2
<1>7. FieldX \in Nat /\ FieldY \in Nat /\ from.x \in 0 .. FieldX /\ from.y \in 0 .. FieldY /\ LaserHorizon \in Nat /\ k \in 1 .. LaserHorizon
 <2>1. from.x \in 0 .. FieldX /\ from.y \in 0 .. FieldY
  <3> HIDE DEF from
  <3> QED BY <1>1 DEF Grounds
 <2> QED BY <2>1, ChoiceSizes
<1> HIDE DEF g, h, from, first, last
<1>8. fx[k] = Clamped(from.x + g * (k - 1), FieldX) /\ fy[k] = Clamped(from.y + h * (k - 1), FieldY)
 <2> DEFINE u == from.x
            w == from.y
 <2>3. Drift(fx, u, g, LaserHorizon, FieldX) BY <1>6 DEF Drift
 <2>4. Drift(fy, w, h, LaserHorizon, FieldY) BY <1>6 DEF Drift
 <2>5. u \in 0 .. FieldX /\ w \in 0 .. FieldY BY <1>7
 <2> HIDE DEF fx, fy, u, w, n
 <2>1. fx[k] = Clamped(Drifted(u, g, k), FieldX) BY <1>2, <1>7, <2>3, <2>5, Drifts
 <2>2. fy[k] = Clamped(Drifted(w, h, k), FieldY) BY <1>2, <1>7, <2>4, <2>5, Drifts
 <2> QED BY <2>1, <2>2 DEF u, w, Drifted
<1>9. path[k].x = Clamped(from.x + g * (k - 1), FieldX) /\ path[k].y = Clamped(from.y + h * (k - 1), FieldY)
  BY <1>7, <1>8
<1> DEFINE t == k - 1
<1>10. t \in 1 .. n BY <1>7
<1> HIDE DEF n, t, fx, fy
<1>11. /\ Between(Clamped(from.x + g, FieldX), Clamped(from.x + g * t, FieldX), Clamped(from.x + g * n, FieldX))
       /\ Between(Clamped(from.y + h, FieldY), Clamped(from.y + h * t, FieldY), Clamped(from.y + h * n, FieldY))
  BY <1>2, <1>7, <1>10, Spans DEF Between
<1>12. Between(first.x, path[k].x, last.x) /\ Between(first.y, path[k].y, last.y) BY <1>3, <1>9, <1>11 DEF t
<1>13. last \in Grounds
 <2>1. g * n \in Int /\ h * n \in Int BY <1>2
 <2> DEFINE a == g * n
            b == h * n
 <2> HIDE DEF a, b
 <2>2. a \in Int /\ b \in Int BY <2>1 DEF a, b
 <2>3. Clamped(from.x + a, FieldX) \in 0 .. FieldX /\ Clamped(from.y + b, FieldY) \in 0 .. FieldY
   BY <1>7, <2>2 DEF Clamped
 <2> QED BY <1>3, <2>3 DEF Grounds, a, b
<1> QED BY <1>1, <1>5, <1>12, <1>13 DEF path, from, first, last, n

\* What lies between the corners lies between them across the laser.
LEMMA CornersBound ==
  ASSUME NEW v, Lies(v), NEW a \in Grounds, NEW b \in Grounds, NEW p \in Grounds,
         Between(a.x, p.x, b.x), Between(a.y, p.y, b.y)
  PROVE  /\ IsFiniteSet(Across(v, a, b)) /\ Across(v, a, b) \subseteq Int /\ Across(v, a, b) # {}
         /\ \E lo, hi \in Across(v, a, b) : lo <= Local(p, v.at, v.angle).y /\ Local(p, v.at, v.angle).y <= hi
<1> DEFINE corner(x, y) == [x |-> x, y |-> y]
           Y(q) == Local(q, v.at, v.angle).y
           A == Across(v, a, b)
<1>1. a.x \in Int /\ a.y \in Int /\ b.x \in Int /\ b.y \in Int /\ p.x \in Int /\ p.y \in Int /\ a \in Points /\ b \in Points /\ p \in Points
  BY Grounded DEF Points
<1>2. v.at \in Points /\ v.angle \in 0 .. 3 BY DEF Lies
<1>3. v.at.x \in Int /\ v.at.y \in Int BY <1>2 DEF Points
<1>4. A = {Y(corner(a.x, a.y)), Y(corner(a.x, b.y)), Y(corner(b.x, a.y)), Y(corner(b.x, b.y))} BY DEF Across
<1>5. \A x, y \in Int : corner(x, y) \in Points BY DEF Points
<1> HIDE DEF A
<1>6. ASSUME NEW q \in Points
      PROVE  Y(q) \in Int /\ Y(q) = CASE v.angle = 0 -> q.y - v.at.y [] v.angle = 1 -> -(q.x - v.at.x)
                                      [] v.angle = 2 -> -(q.y - v.at.y) [] OTHER -> q.x - v.at.x
  BY <1>2, LocalIs
<1> DEFINE c1 == corner(a.x, a.y)
           c2 == corner(a.x, b.y)
           c3 == corner(b.x, a.y)
           c4 == corner(b.x, b.y)
<1>7. /\ c1 \in Points /\ c2 \in Points /\ c3 \in Points /\ c4 \in Points
      /\ c1.x = a.x /\ c1.y = a.y /\ c2.x = a.x /\ c2.y = b.y /\ c3.x = b.x /\ c3.y = a.y /\ c4.x = b.x /\ c4.y = b.y
  BY <1>1, <1>5
<1>8. A = {Y(c1), Y(c2), Y(c3), Y(c4)} BY <1>4
<1> HIDE DEF Y, c1, c2, c3, c4
<1>9. Y(c1) \in Int /\ Y(c2) \in Int /\ Y(c3) \in Int /\ Y(c4) \in Int /\ Y(p) \in Int BY <1>1, <1>6, <1>7
<1>10. A \subseteq Int /\ A # {} /\ IsFiniteSet(A)
 <2>1. IsFiniteSet({Y(c1), Y(c2), Y(c3)} \union {Y(c4)})
  <3>1. IsFiniteSet({Y(c1)}) /\ IsFiniteSet({Y(c2)}) /\ IsFiniteSet({Y(c3)}) /\ IsFiniteSet({Y(c4)})
    BY FS_Singleton
  <3>2. IsFiniteSet({Y(c1)} \union {Y(c2)} \union {Y(c3)} \union {Y(c4)}) BY <3>1, FS_Union
  <3>3. {Y(c1)} \union {Y(c2)} \union {Y(c3)} \union {Y(c4)} = {Y(c1), Y(c2), Y(c3)} \union {Y(c4)} OBVIOUS
  <3> QED BY <3>2, <3>3
 <2>2. A = {Y(c1), Y(c2), Y(c3)} \union {Y(c4)} BY <1>8
 <2> QED BY <1>8, <1>9, <2>1, <2>2
<1>11. \E lo, hi \in A : lo <= Y(p) /\ Y(p) <= hi
 <2>1. \/ v.angle = 0 /\ Y(p) = p.y - v.at.y /\ Y(c1) = a.y - v.at.y /\ Y(c4) = b.y - v.at.y
       \/ v.angle = 1 /\ Y(p) = -(p.x - v.at.x) /\ Y(c1) = -(a.x - v.at.x) /\ Y(c4) = -(b.x - v.at.x)
       \/ v.angle = 2 /\ Y(p) = -(p.y - v.at.y) /\ Y(c1) = -(a.y - v.at.y) /\ Y(c4) = -(b.y - v.at.y)
       \/ v.angle = 3 /\ Y(p) = p.x - v.at.x /\ Y(c1) = a.x - v.at.x /\ Y(c4) = b.x - v.at.x
   BY <1>1, <1>2, <1>6, <1>7
 <2>2. (Y(c1) <= Y(p) /\ Y(p) <= Y(c4)) \/ (Y(c4) <= Y(p) /\ Y(p) <= Y(c1))
   BY <1>1, <1>3, <1>9, <2>1 DEF Between
 <2> QED BY <1>8, <2>2
<1> QED BY <1>10, <1>11 DEF A, Y

\* A laser that is pruned has nothing to say about a path.
LEMMA PrunedMisses ==
  ASSUME NEW s, Observed(s), NEW v, Lies(v), NEW d \in Direction, NEW k \in 2 .. LaserHorizon, Pruned(s, v, d),
         NEW centre \in Int, NEW size \in Int
  PROVE  ~(LaserGap(Constant(s, d)[k], v, centre, size) <= 0)
<1> DEFINE from == Stepped(s.at, s.pending)
           a == Stepped(from, d)
           b == After(from, d, LaserHorizon - 1)
           p == Constant(s, d)[k]
           y == Local(p, v.at, v.angle).y
           A == Across(v, a, b)
           w == Half1(v.l.width)
           reach == Half1(w) + HalfY
<1>1. ~MayOverlap(v, a, b) BY ChoiceSizes DEF Pruned, Misses
<1>2. ~Touches(A, reach) BY <1>1 DEF MayOverlap
<1>3. Between(a.x, p.x, b.x) /\ Between(a.y, p.y, b.y) /\ a \in Grounds /\ b \in Grounds /\ p \in Grounds
  BY PathSpans
<1> HIDE DEF a, b, p
<1>4. /\ IsFiniteSet(A) /\ A \subseteq Int /\ A # {}
      /\ \E lo, hi \in A : lo <= y /\ y <= hi
  BY <1>3, CornersBound
<1>5. y \in Int /\ w \in Int /\ HalfY \in Nat /\ p \in Points
  BY <1>3, Grounded, LocalIs, Sized, ChoiceSizes DEF Lies
<1> HIDE DEF A, w
<1>6. (\A x \in A : Min(A) <= x) /\ (\A x \in A : Max(A) >= x) /\ Min(A) \in Int /\ Max(A) \in Int
  BY <1>4, Extremes
<1>7. reach \in Int /\ 2 * reach + 2 > 2 * HalfY + w BY <1>5 DEF Half1
<1> HIDE DEF reach, y
<1>8. y < -reach \/ y > reach
 <2>1. PICK lo \in A, hi \in A : lo <= y /\ y <= hi BY <1>4
 <2>2. ~(Max(A) >= -reach) \/ ~(Min(A) <= reach) BY <1>2 DEF Touches
 <2>3. lo \in Int /\ hi \in Int /\ Min(A) <= lo /\ Max(A) >= hi BY <1>4, <1>6, <2>1
 <2> DEFINE least == Min(A)
            most == Max(A)
 <2>4. least \in Int /\ most \in Int BY <1>6
 <2> HIDE DEF least, most
 <2> QED BY <1>5, <1>7, <2>1, <2>2, <2>3, <2>4 DEF least, most
<1>9. Magnitude(2 * y) > 2 * HalfY + w BY <1>5, <1>7, <1>8 DEF Magnitude
<1>10. Magnitude(2 * y) \in Int BY <1>5 DEF Magnitude
<1>11. LaserGap(p, v, centre, size) <= 0 => Magnitude(2 * y) <= 2 * HalfY + w BY <1>5, LaserGapIs DEF y, w
<1>12. ~(LaserGap(p, v, centre, size) <= 0) BY <1>5, <1>9, <1>10, <1>11
<1> QED BY <1>12 DEF p

----
\* What a path scores.
Paths == [0 .. Horizon1 -> Grounds]

LEMMA Sighted ==
  ASSUME NEW s, Observed(s)
  PROVE  /\ \A i \in DOMAIN s.bullets : s.bullets[i] \in Shots
         /\ \A i \in DOMAIN s.lasers : s.lasers[i] \in Beams /\ Lies(s.lasers[i])
         /\ IsFiniteSet(DOMAIN s.bullets) /\ IsFiniteSet(DOMAIN s.lasers)
<1>1. s.bullets \in Seq(Shots) /\ s.lasers \in Seq(Beams) BY Seen
<1>2. \A i \in DOMAIN s.bullets : s.bullets[i] \in Shots BY <1>1
<1>3. \A i \in DOMAIN s.lasers : s.lasers[i] \in Beams BY <1>1
<1>4. \A v \in Beams : Lies(v) BY DEF Beams, Pooled, Lies
<1>5. DOMAIN s.bullets = 1 .. Len(s.bullets) /\ Len(s.bullets) \in Int /\ DOMAIN s.lasers = 1 .. Len(s.lasers) /\ Len(s.lasers) \in Int
  BY <1>1
<1>6. 1 \in Int OBVIOUS
<1>7. IsFiniteSet(DOMAIN s.bullets) /\ IsFiniteSet(DOMAIN s.lasers) BY <1>5, <1>6, RangeFinite, Zenon
<1> QED BY <1>2, <1>3, <1>4, <1>7

LEMMA BulletGapIs ==
  ASSUME NEW b \in Shots, NEW p \in Points, NEW k \in Nat
  PROVE  BulletGap(p, b, k) \in Int
<1> DEFINE x == b.x + k * b.vx
           y == b.y + k * b.vy
<1>1. x \in Int /\ y \in Int /\ b.half \in Nat BY DEF Shots
<1>2. BulletGap(p, b, k) = Gap(p, x, y, b.half, b.half) BY DEF BulletGap
<1> HIDE DEF x, y
<1> QED BY <1>1, <1>2, GapIs

LEMMA ShotGapsAre ==
  ASSUME NEW s, Observed(s), NEW at \in Paths
  PROVE  /\ IsFiniteSet(ShotGaps(s, at))
         /\ \A h \in ShotGaps(s, at) : h.gap \in Int /\ h.k \in Nat \ {0} /\ h.k \in 0 .. Horizon1 + 1
<1> DEFINE K == 2 .. BulletHorizon
           I == {j \in DOMAIN s.bullets : Visible(s.bullets[j])}
           one(k, i) == [k |-> k, of |-> i, gap |-> BulletGap(at[k], s.bullets[i], k), hard |-> Hard(s.bullets[i])]
           e == [z \in K \X I |-> one(z[1], z[2])]
           U == ShotGaps(s, at)
<1>1. U = {one(k, i) : k \in K, i \in I} BY DEF ShotGaps
<1>2. IsFiniteSet(I)
 <2>1. I \in SUBSET DOMAIN s.bullets /\ IsFiniteSet(DOMAIN s.bullets) BY Sighted
 <2> HIDE DEF I
 <2> QED BY <2>1, FS_Subset
<1>3. IsFiniteSet(K) BY ChoiceSizes, RangeFinite
<1>4. \A k \in K : k \in Nat \ {0} /\ k \in 0 .. Horizon1 + 1 /\ k \in 0 .. Horizon1 /\ at[k] \in Points
 <2> TAKE k \in K
 <2>1. k \in Nat \ {0} /\ k \in 0 .. Horizon1 + 1 /\ k \in 0 .. Horizon1 BY ChoiceSizes, Horizons
 <2> QED BY <2>1, Grounded DEF Paths
<1>5. \A i \in I : s.bullets[i] \in Shots BY Sighted
<1> HIDE DEF K, I, U
<1>6. IsFiniteSet(K \X I) BY <1>2, <1>3, FS_Product
<1>7. IsFiniteSet(U)
 <2> DEFINE P == K \X I
 <2>1. U \subseteq {e[z] : z \in P}
  <3> HIDE DEF one
  <3>1. \A k \in K, i \in I : <<k, i>> \in P /\ one(k, i) = e[<<k, i>>] OBVIOUS
  <3> HIDE DEF P, e
  <3>2. ASSUME NEW u \in U PROVE u \in {e[z] : z \in P}
   <4>1. PICK k \in K, i \in I : u = one(k, i) BY <1>1
   <4> QED BY <3>1, <4>1
  <3> QED BY <3>2
 <2> HIDE DEF P, e
 <2> QED BY <1>6, <2>1, Image DEF P
<1>8. \A h \in U : h.gap \in Int /\ h.k \in Nat \ {0} /\ h.k \in 0 .. Horizon1 + 1
 <2> TAKE h \in U
 <2>1. PICK k \in K, i \in I : h = one(k, i) BY <1>1
 <2>2. BulletGap(at[k], s.bullets[i], k) \in Int BY <1>4, <1>5, BulletGapIs
 <2> QED BY <1>4, <2>1, <2>2
<1> QED BY <1>7, <1>8 DEF U

LEMMA TableIs ==
  ASSUME NEW s, Observed(s), NEW i \in DOMAIN s.lasers
  PROVE  ForecastTable(s)[i] = Forecasts(s.lasers[i])
BY DEF ForecastTable

LEMMA BeamGapsAre ==
  ASSUME NEW s, Observed(s), NEW at \in Paths, NEW d \in Direction
  PROVE  LET U == BeamGaps(s, ForecastTable(s), at, d)
         IN  IsFiniteSet(U) /\ \A h \in U : h.gap \in Int /\ h.k \in Nat \ {0} /\ h.k \in 0 .. Horizon1 + 1
<1> DEFINE K == 2 .. LaserHorizon
           I == {j \in DOMAIN s.lasers : ~Pruned(s, s.lasers[j], d)}
           table == ForecastTable(s)
           one(k, i) == BeamGap(s, at, k, i, table[i][k])
           e == [z \in K \X I |-> one(z[1], z[2])]
           U == BeamGaps(s, table, at, d)
<1>1. U \subseteq {one(k, i) : k \in K, i \in I} BY DEF BeamGaps
<1>2. IsFiniteSet(I)
 <2>1. I \in SUBSET DOMAIN s.lasers /\ IsFiniteSet(DOMAIN s.lasers) BY Sighted
 <2> HIDE DEF I
 <2> QED BY <2>1, FS_Subset
<1>3. IsFiniteSet(K) BY ChoiceSizes, RangeFinite
<1>4. \A k \in K : k \in Nat \ {0} /\ k \in 0 .. Horizon1 + 1 /\ k \in 0 .. LaserHorizon /\ at[k] \in Points
 <2> TAKE k \in K
 <2>1. k \in Nat \ {0} /\ k \in 0 .. Horizon1 + 1 /\ k \in 0 .. Horizon1 /\ k \in 0 .. LaserHorizon
   BY ChoiceSizes, Horizons
 <2> QED BY <2>1, Grounded DEF Paths
<1>5. \A i \in I : Lies(s.lasers[i]) /\ table[i] = Forecasts(s.lasers[i]) BY Sighted, TableIs
<1> HIDE DEF K, I, U, table
<1>6. IsFiniteSet(K \X I) BY <1>2, <1>3, FS_Product
<1>7. IsFiniteSet(U)
 <2> DEFINE P == K \X I
 <2>1. U \subseteq {e[z] : z \in P}
  <3> HIDE DEF one
  <3>1. \A k \in K, i \in I : <<k, i>> \in P /\ one(k, i) = e[<<k, i>>] OBVIOUS
  <3> HIDE DEF P, e
  <3>2. ASSUME NEW u \in U PROVE u \in {e[z] : z \in P}
   <4>1. PICK k \in K, i \in I : u = one(k, i) BY <1>1
   <4> QED BY <3>1, <4>1
  <3> QED BY <3>2
 <2> HIDE DEF P, e
 <2> QED BY <1>6, <2>1, Image DEF P
<1>8. \A h \in U : h.gap \in Int /\ h.k \in Nat \ {0} /\ h.k \in 0 .. Horizon1 + 1
 <2> TAKE h \in U
 <2>1. PICK k \in K, i \in I : h = one(k, i) BY <1>1
 <2> DEFINE v == s.lasers[i]
            f == table[i][k]
 <2>2. h.gap = LaserGap(at[k], v, Centre(f.l), f.size) /\ h.k = k BY <2>1 DEF BeamGap
 <2>3. Lies(v) /\ f = Forecasts(v)[k] BY <1>5
 <2> HIDE DEF v, f
 <2>4. LaserGap(at[k], v, Centre(f.l), f.size) \in Int BY <1>4, <2>3, DueGapIs
 <2> QED BY <1>4, <2>2, <2>4
<1> QED BY <1>7, <1>8 DEF U, table

LEMMA LeastIs == ASSUME NEW S, IsFiniteSet(S), S \subseteq Int, NEW b \in Int PROVE
  LET T == S \union {b} IN IsFiniteSet(T) /\ Min(T) \in T /\ Min(T) \in Int /\ \A x \in T : Min(T) <= x
<1> DEFINE T == S \union {b}
<1>1. IsFiniteSet(T) /\ T # {} /\ T \subseteq Int BY FS_Singleton, FS_Union
<1> HIDE DEF T
<1>2. Min(T) \in T /\ \A x \in T : Min(T) <= x BY <1>1, Extremes
<1>3. Min(T) \in Int BY <1>1, <1>2
<1> QED BY <1>1, <1>2, <1>3 DEF T

LEMMA LegsScore ==
  ASSUME NEW s, Observed(s), NEW i \in Direction, NEW c \in Direction
  PROVE  EvaluateLegs(s, ForecastTable(s), i, c) \in Marks
<1> DEFINE at == PathOf(s, i, c)
           table == ForecastTable(s)
           shots == ShotGaps(s, at)
           beams == BeamGaps(s, table, at, i)
           A == {h.k : h \in {g \in shots : g.gap <= 0 /\ g.hard}}
           B == {h.k : h \in {g \in beams : g.gap <= 0}}
           C == {k \in 2 .. Horizon1 : BodyMet(s, at, k)}
           Q == {2 * h.gap : h \in shots}
           R == {h.gap : h \in beams}
<1>1. at \in Paths BY PathIs DEF Paths
<1>2. /\ EvaluateLegs(s, table, i, c) =
            [first |-> Min(A \union B \union C \union {Horizon1 + 1}),
             clearance |-> Min(Q \union R \union {FarOff}),
             danger |-> MapThenSumSet(DangerOf, shots) + MapThenSumSet(DangerOfBeam, beams),
             centre |-> OffCentre(at[Min({2, Horizon1})]),
             action |-> i, continuation |-> c]
  BY Zenon DEF EvaluateLegs, EvaluatePath, Scored, FirstOverlap
<1> HIDE DEF at
<1>3. IsFiniteSet(shots) /\ \A h \in shots : h.gap \in Int /\ h.k \in Nat \ {0} /\ h.k \in 0 .. Horizon1 + 1
  BY <1>1, ShotGapsAre
<1>4. IsFiniteSet(beams) /\ \A h \in beams : h.gap \in Int /\ h.k \in Nat \ {0} /\ h.k \in 0 .. Horizon1 + 1
  BY <1>1, BeamGapsAre
<1> HIDE DEF shots, beams, table
<1>5. MapThenSumSet(DangerOf, shots) \in Int /\ MapThenSumSet(DangerOfBeam, beams) \in Int
  BY <1>3, <1>4, DangersIs
<1>6. Min(A \union B \union C \union {Horizon1 + 1}) \in Int
 <2> DEFINE T == A \union B \union C
            N == 0 .. Horizon1 + 1
 <2>1. T \in SUBSET N BY <1>3, <1>4, Horizons
 <2>2. IsFiniteSet(N) /\ N \subseteq Int /\ Horizon1 + 1 \in Int BY RangeFinite, Horizons
 <2> HIDE DEF T, N
 <2>3. IsFiniteSet(T) /\ T \subseteq Int BY <2>1, <2>2, FS_Subset
 <2>4. Min(T \union {Horizon1 + 1}) \in Int BY <2>2, <2>3, LeastIs
 <2> QED BY <2>4 DEF T
<1>7. Min(Q \union R \union {FarOff}) \in Int
 <2> DEFINE q == [h \in shots |-> 2 * h.gap]
            r == [h \in beams |-> h.gap]
            T == Q \union R
 <2>1. Q \subseteq {q[h] : h \in shots} /\ R \subseteq {r[h] : h \in beams} /\ Q \subseteq Int /\ R \subseteq Int /\ FarOff \in Int
   BY <1>3, <1>4 DEF FarOff
 <2>6. Q \subseteq {q[h] : h \in shots} BY <2>1
 <2>7. R \subseteq {r[h] : h \in beams} BY <2>1
 <2> HIDE DEF q, r, Q, R
 <2>2. IsFiniteSet(Q) BY <1>3, <2>6, Image
 <2>3. IsFiniteSet(R) BY <1>4, <2>7, Image
 <2>4. IsFiniteSet(T) /\ T \subseteq Int BY <2>1, <2>2, <2>3, FS_Union
 <2> HIDE DEF T
 <2>5. Min(T \union {FarOff}) \in Int BY <2>1, <2>4, LeastIs
 <2> QED BY <2>5 DEF T
<1>8. OffCentre(at[Min({2, Horizon1})]) \in Int
 <2> DEFINE m == Min({2, Horizon1})
 <2>1. m \in 0 .. Horizon1 BY Horizons, LeastOfTwo
 <2> HIDE DEF m
 <2>2. at[m] \in Points BY <1>1, <2>1, Grounded DEF Paths
 <2> DEFINE p == at[m]
            x == 2 * p.x - FieldX
            y == 2 * p.y - FieldY
 <2>3. x \in Int /\ y \in Int BY <2>2, ChoiceSizes DEF Points
 <2>4. OffCentre(p) = x * x + y * y BY DEF OffCentre
 <2> HIDE DEF p, x, y
 <2>5. OffCentre(p) \in Int BY <2>3, <2>4
 <2> QED BY <2>5 DEF p, m
<1>9. EvaluateLegs(s, table, i, c) \in Marks
 <2> DEFINE a == Min(A \union B \union C \union {Horizon1 + 1})
            b == Min(Q \union R \union {FarOff})
            e == MapThenSumSet(DangerOf, shots) + MapThenSumSet(DangerOfBeam, beams)
            g == OffCentre(at[Min({2, Horizon1})])
 <2>1. a \in Int /\ b \in Int /\ e \in Int /\ g \in Int BY <1>5, <1>6, <1>7, <1>8
 <2>2. EvaluateLegs(s, table, i, c) = [first |-> a, clearance |-> b, danger |-> e, centre |-> g, action |-> i, continuation |-> c]
   BY <1>2
 <2> HIDE DEF a, b, e, g
 <2> QED BY <2>1, <2>2 DEF Marks
<1> QED BY <1>9 DEF table

----
\* When a constant path is first hit, as the forecasts have it: said of
\* every laser, whatever is pruned and however many legs there are.
Strikes(f, p, v) == f.there /\ f.lethal /\ LaserGap(p, v, Centre(f.l), f.size) <= 0
HitAt(s, table, p, k) ==
    \/ k <= BulletHorizon /\ \E j \in DOMAIN s.bullets : Hard(s.bullets[j]) /\ BulletGap(p, s.bullets[j], k) <= 0
    \/ k <= LaserHorizon /\ \E j \in DOMAIN s.lasers : Strikes(table[j][k], p, s.lasers[j])
HitsOn(s, table, at) == {k \in 2 .. Horizon1 : HitAt(s, table, at[k], k) \/ BodyMet(s, at, k)}

LEMMA SamePath ==
  ASSUME NEW s, Observed(s), NEW d \in Direction
  PROVE  PathOf(s, d, d) = Constant(s, d)
<1> DEFINE f == PathOf(s, d, d)
           g == Constant(s, d)
           S == {k \in 0 .. Horizon1 : f[k] = g[k]}
           go(k) == IF k = 1 THEN s.pending ELSE d
<1>1. f \in [0 .. Horizon1 -> Grounds] /\ f[0] = s.at /\ \A k \in 1 .. Horizon1 : f[k] = Stepped(f[k - 1], Heading(s, k, d, d))
  BY PathIs
<1>2. g \in [0 .. Horizon1 -> Grounds] /\ g[0] = s.at /\ \A k \in 1 .. Horizon1 : g[k] = Stepped(g[k - 1], go(k))
  BY ConstantIs
<1>3. \A k : Heading(s, k, d, d) = go(k) BY DEF Heading
<1> HIDE DEF f, g, go
<1>4. 0 \in S BY <1>1, <1>2, Horizons
<1>5. ASSUME NEW k \in 0 .. Horizon1 - 1, k \in S PROVE k + 1 \in S
 <2>1. k + 1 \in 1 .. Horizon1 /\ (k + 1) - 1 = k /\ k + 1 \in 0 .. Horizon1 BY Horizons
 <2>2. f[k + 1] = Stepped(f[k], go(k + 1)) /\ g[k + 1] = Stepped(g[k], go(k + 1)) BY <1>1, <1>2, <1>3, <2>1
 <2> QED BY <1>5, <2>1, <2>2
<1> HIDE DEF S
<1>6. \A k \in 0 .. Horizon1 : k \in S BY <1>4, <1>5, Horizons, Upward
<1>7. \A k \in 0 .. Horizon1 : f[k] = g[k] BY <1>6 DEF S
<1>8. f = g
 <2>1. f \in [0 .. Horizon1 -> Grounds] /\ g \in [0 .. Horizon1 -> Grounds] BY <1>1, <1>2
 <2>2. f = [k \in 0 .. Horizon1 |-> f[k]] /\ g = [k \in 0 .. Horizon1 |-> g[k]] BY <2>1
 <2>3. [k \in 0 .. Horizon1 |-> f[k]] = [k \in 0 .. Horizon1 |-> g[k]] BY <1>7
 <2> QED BY <2>2, <2>3
<1> QED BY <1>8 DEF f, g

LEMMA OverlapIs ==
  ASSUME NEW s, Observed(s), NEW d \in Direction
  PROVE  Claim(s, ForecastTable(s), d) = Min(HitsOn(s, ForecastTable(s), Constant(s, d)) \union {Horizon1 + 1})
<1> DEFINE at == Constant(s, d)
           table == ForecastTable(s)
           shots == ShotGaps(s, at)
           beams == BeamGaps(s, table, at, d)
           A == {h.k : h \in {g \in shots : g.gap <= 0 /\ g.hard}}
           B == {h.k : h \in {g \in beams : g.gap <= 0}}
           C == {k \in 2 .. Horizon1 : BodyMet(s, at, k)}
           X == {k \in 2 .. BulletHorizon : \E j \in DOMAIN s.bullets : Hard(s.bullets[j]) /\ BulletGap(at[k], s.bullets[j], k) <= 0}
           Y == {k \in 2 .. LaserHorizon : \E j \in DOMAIN s.lasers : Strikes(table[j][k], at[k], s.lasers[j])}
<1>1. Claim(s, table, d) = Min(A \union B \union C \union {Horizon1 + 1})
 <2> DEFINE e == Min(A \union B \union C \union {Horizon1 + 1})
            p == Min({2 * h.gap : h \in shots} \union {h.gap : h \in beams} \union {FarOff})
            q == MapThenSumSet(DangerOf, shots) + MapThenSumSet(DangerOfBeam, beams)
            r == OffCentre(at[Min({2, Horizon1})])
 <2>1. EvaluateLegs(s, table, d, d) = [first |-> e, clearance |-> p, danger |-> q, centre |-> r, action |-> d, continuation |-> d]
  <3>1. PathOf(s, d, d) = at BY SamePath
  <3> QED BY <3>1, Zenon DEF EvaluateLegs, EvaluatePath, Scored, FirstOverlap
 <2> HIDE DEF e, p, q, r
 <2>2. Claim(s, table, d) = e BY <2>1 DEF Claim
 <2> QED BY <2>2 DEF e
<1>2. A = X
 <2> DEFINE one(k, j) == [k |-> k, of |-> j, gap |-> BulletGap(at[k], s.bullets[j], k), hard |-> Hard(s.bullets[j])]
            K == 2 .. BulletHorizon
            J == {j \in DOMAIN s.bullets : Visible(s.bullets[j])}
 <2>1. shots = {one(k, j) : k \in K, j \in J} BY DEF ShotGaps
 <2>2. \A j \in DOMAIN s.bullets : Hard(s.bullets[j]) => j \in J BY DEF Hard, Visible
 <2>3. \A j \in J : j \in DOMAIN s.bullets OBVIOUS
 <2> HIDE DEF at, K, J, shots
 <2>4. ASSUME NEW k \in A PROVE k \in X
  <3>1. PICK h \in shots : h.k = k /\ h.gap <= 0 /\ h.hard BY <2>4
  <3>2. PICK n \in K, j \in J : h = one(n, j) BY <2>1
  <3>3. n = k /\ BulletGap(at[k], s.bullets[j], k) <= 0 /\ Hard(s.bullets[j]) BY <3>1, <3>2
  <3> QED BY <2>3, <3>3 DEF K
 <2>5. ASSUME NEW k \in X PROVE k \in A
  <3>1. PICK j \in DOMAIN s.bullets : Hard(s.bullets[j]) /\ BulletGap(at[k], s.bullets[j], k) <= 0 BY <2>5
  <3>2. k \in K /\ j \in J BY <2>2, <3>1 DEF K
  <3> DEFINE h == one(k, j)
  <3>3. h.k = k /\ h.gap <= 0 /\ h.hard BY <3>1
  <3>4. h \in shots
   <4> HIDE DEF one
   <4> QED BY <2>1, <3>2
  <3> HIDE DEF h
  <3> QED BY <3>3, <3>4
 <2> HIDE DEF A, X
 <2> QED BY <2>4, <2>5
<1>3. B = Y
 <2> DEFINE one(k, j) == BeamGap(s, at, k, j, table[j][k])
            K == 2 .. LaserHorizon
            J == {j \in DOMAIN s.lasers : ~Pruned(s, s.lasers[j], d)}
 <2>1. beams = {h \in {one(k, j) : k \in K, j \in J} : h.lethal} BY DEF BeamGaps
 <2>2. ASSUME NEW k \in K, NEW j \in DOMAIN s.lasers, Strikes(table[j][k], at[k], s.lasers[j]) PROVE j \in J
  <3>1. CASE Pruned(s, s.lasers[j], d)
   <4> DEFINE v == s.lasers[j]
              f == table[j][k]
   <4>1. Lies(v) /\ f = Forecasts(v)[k] /\ k \in 0 .. LaserHorizon BY Sighted, TableIs, ChoiceSizes
   <4>2. f \in ForetoldSet BY <4>1, ForecastsAre
   <4>3. Centre(f.l) \in Int /\ f.size \in Int
    <5> HIDE DEF f
    <5> QED BY <4>2, Sized DEF ForetoldSet, Pooled
   <4>4. ~(LaserGap(at[k], v, Centre(f.l), f.size) <= 0) BY <3>1, <4>1, <4>3, PrunedMisses
   <4> QED BY <2>2, <4>4 DEF Strikes
  <3> QED BY <3>1
 <2>3. \A j \in J : j \in DOMAIN s.lasers OBVIOUS
 <2>4. \A k, j : /\ one(k, j).k = k /\ one(k, j).gap = LaserGap(at[k], s.lasers[j], Centre(table[j][k].l), table[j][k].size)
                 /\ one(k, j).lethal <=> table[j][k].there /\ table[j][k].lethal
   BY DEF BeamGap
 <2> HIDE DEF at, J, beams, table, one
 <2>5. ASSUME NEW k \in B PROVE k \in Y
  <3>1. PICK h \in beams : h.k = k /\ h.gap <= 0 BY <2>5
  <3>2. PICK n \in K, j \in J : h = one(n, j) /\ h.lethal BY <2>1
  <3>3. n = k BY <2>4, <3>1, <3>2
  <3>5. table[j][k].there /\ table[j][k].lethal BY <2>4, <3>2, <3>3
  <3>6. LaserGap(at[k], s.lasers[j], Centre(table[j][k].l), table[j][k].size) <= 0 BY <2>4, <3>1, <3>2, <3>3
  <3>7. Strikes(table[j][k], at[k], s.lasers[j]) BY <3>5, <3>6 DEF Strikes
  <3> QED BY <2>3, <3>2, <3>3, <3>7
 <2>6. ASSUME NEW k \in Y PROVE k \in B
  <3>1. PICK j \in DOMAIN s.lasers : Strikes(table[j][k], at[k], s.lasers[j]) BY <2>6
  <3>2. k \in K /\ j \in J BY <2>2, <2>6, <3>1
  <3> DEFINE h == one(k, j)
  <3>3. h.k = k /\ h.gap <= 0 /\ h.lethal BY <2>4, <3>1 DEF Strikes
  <3>4. h \in beams BY <2>1, <3>2, <3>3
  <3> HIDE DEF h
  <3> QED BY <3>3, <3>4
 <2> HIDE DEF B, Y
 <2> QED BY <2>5, <2>6
<1>4. X \union Y \union C = HitsOn(s, table, at)
 <2>1. \A k \in 2 .. Horizon1 : /\ k \in 2 .. BulletHorizon <=> k <= BulletHorizon
                                /\ k \in 2 .. LaserHorizon <=> k <= LaserHorizon
   BY ChoiceSizes, Horizons
 <2>2. \A k : (k \in 2 .. BulletHorizon => k \in 2 .. Horizon1) /\ (k \in 2 .. LaserHorizon => k \in 2 .. Horizon1)
   BY ChoiceSizes, Horizons
 <2> HIDE DEF at, table
 <2> QED BY <2>1, <2>2 DEF HitsOn, HitAt
<1> HIDE DEF at, table, A, B, C, X, Y
<1> QED BY <1>1, <1>2, <1>3, <1>4 DEF at, table

\* A claim counts only what is observed, so the number of updates of the
\* first leg does not enter.
LEMMA ClaimAlike ==
  ASSUME NEW s, Observed(s), NEW n \in Nat, NEW d \in Direction
  PROVE  Claim(Focus(s, n), ForecastTable(s), d) = Claim(s, ForecastTable(s), d)
<1> DEFINE f == Focus(s, n)
<1>1. Observed(f) /\ f.bullets = s.bullets /\ f.lasers = s.lasers /\ f.bodies = s.bodies BY FocusIs
<1>2. Constant(f, d) = Constant(s, d)
 <2>1. Focus(f, 0) = Focus(s, 0) BY DEF Observed, Focus
 <2>2. Constant(f, d) = PathOf(Focus(f, 0), d, d) /\ Constant(s, d) = PathOf(Focus(s, 0), d, d)
   BY Zenon DEF Constant, Focus
 <2> HIDE DEF f
 <2> QED BY <2>1, <2>2
<1>3. ForecastTable(f) = ForecastTable(s)
 <2> HIDE DEF f
 <2> QED BY <1>1 DEF ForecastTable
<1> DEFINE table == ForecastTable(s)
           at == Constant(s, d)
<1> HIDE DEF f, table, at
<1>4. HitsOn(f, table, at) = HitsOn(s, table, at) BY <1>1 DEF HitsOn, HitAt, BodyMet
<1>5. Claim(f, table, d) = Min(HitsOn(f, table, at) \union {Horizon1 + 1})
  BY <1>1, <1>2, <1>3, OverlapIs DEF table, at
<1>6. Claim(s, table, d) = Min(HitsOn(s, table, at) \union {Horizon1 + 1}) BY OverlapIs DEF table, at
<1> QED BY <1>4, <1>5, <1>6 DEF f, table

LEMMA HitsAreInts ==
  ASSUME NEW S, S \subseteq 2 .. Horizon1
  PROVE  LET T == S \union {Horizon1 + 1} IN Min(T) \in T /\ Min(T) \in Int /\ \A x \in T : Min(T) <= x
<1>1. S \in SUBSET (2 .. Horizon1) /\ IsFiniteSet(2 .. Horizon1) /\ Horizon1 + 1 \in Int
  BY Horizons, RangeFinite
<1>2. IsFiniteSet(S) BY <1>1, FS_Subset
<1>3. S \subseteq Int BY Horizons
<1> QED BY <1>1, <1>2, <1>3, LeastIs

\* What meets the player was counted: no direction is safer in the
\* policy's eyes than in the game's.
LEMMA ClaimHonest ==
  ASSUME NEW s, Observed(s), NEW d \in Direction
  PROVE  Claim(s, ForecastTable(s), d) <= RealFirst(s, Constant(s, d))
<1> DEFINE at == Constant(s, d)
           table == ForecastTable(s)
           H == HitsOn(s, table, at)
           real(k) == \/ k <= BulletHorizon /\ \E j \in DOMAIN s.bullets : Hard(s.bullets[j]) /\ BulletGap(at[k], s.bullets[j], k) <= 0
                      \/ k <= LaserHorizon /\ \E j \in DOMAIN s.lasers : LaserMeets(at[k], s.lasers[j], k)
                      \/ BodyMet(s, at, k)
           R == {k \in 2 .. Horizon1 : real(k)}
<1>1. RealFirst(s, at) = Min(R \union {Horizon1 + 1}) BY Zenon DEF RealFirst
<1>2. R \subseteq H
 <2>1. ASSUME NEW k \in 2 .. Horizon1, k <= LaserHorizon, NEW j \in DOMAIN s.lasers, LaserMeets(at[k], s.lasers[j], k)
       PROVE  Strikes(table[j][k], at[k], s.lasers[j])
  <3> DEFINE v == s.lasers[j]
             p == at[k]
  <3>1. Lies(v) /\ table[j] = Forecasts(v) BY Sighted, TableIs
  <3>2. k \in 0 .. LaserHorizon /\ k \in 0 .. Horizon1 BY <2>1, ChoiceSizes, Horizons
  <3>3. p \in Points BY <3>2, PathFrames
  <3>4. MetBy(p, v, Natives(v)[k]) BY <2>1 DEF LaserMeets
  <3> HIDE DEF v, p, table
  <3>5. Strikes(Forecasts(v)[k], p, v) BY <3>1, <3>2, <3>3, <3>4, MetForetold DEF Strikes
  <3> QED BY <3>1, <3>5 DEF v, p
 <2> HIDE DEF at, table
 <2> QED BY <2>1 DEF HitsOn, HitAt
<1>3. Claim(s, table, d) = Min(H \union {Horizon1 + 1}) BY OverlapIs
<1>4. R \subseteq 2 .. Horizon1 /\ H \subseteq 2 .. Horizon1 BY DEF HitsOn
<1> HIDE DEF R, H
<1> DEFINE T == H \union {Horizon1 + 1}
           U == R \union {Horizon1 + 1}
<1>5. Min(U) \in U BY <1>4, HitsAreInts
<1>6. \A x \in T : Min(T) <= x BY <1>4, HitsAreInts
<1>7. U \subseteq T BY <1>2
<1> HIDE DEF T, U
<1>8. Min(T) <= Min(U) BY <1>5, <1>6, <1>7
<1> QED BY <1>1, <1>3, <1>8 DEF T, U

\* Whatever is left, the choice survives as long as any of it.
Pairs(s, mask) == {q \in mask \X Direction : s.first > 0 \/ q[1] = q[2]}

LEMMA ReactiveBest ==
  ASSUME NEW s, Observed(s), NEW mask, mask \subseteq Direction, NEW d \in mask
  PROVE  Reactive(s, mask).first >= Claim(s, ForecastTable(s), d) /\ Reactive(s, mask) \in Marks
<1> DEFINE table == ForecastTable(s)
           P == Pairs(s, mask)
           e == [p \in P |-> EvaluateLegs(s, table, p[1], p[2])]
           S == Candidates(s, table, mask)
           t == EvaluateLegs(s, table, d, d)
<1>1. S = {EvaluateLegs(s, table, p[1], p[2]) : p \in P} BY DEF Candidates, Pairs
<1>2. IsFiniteSet(P)
 <2>1. IsFiniteSet(Direction)
  <3>1. 0 \in Int /\ 8 \in Int OBVIOUS
  <3> QED BY <3>1, RangeFinite, Zenon DEF Direction
 <2>2. IsFiniteSet(Direction \X Direction) BY <2>1, FS_Product
 <2>3. P \in SUBSET (Direction \X Direction) BY DEF Pairs
 <2> HIDE DEF P
 <2> QED BY <2>2, <2>3, FS_Subset
<1>3. \A p \in P : p[1] \in Direction /\ p[2] \in Direction BY DEF Pairs
<1>4. <<d, d>> \in P BY DEF Pairs
<1> HIDE DEF P, S
<1>5. IsFiniteSet(S)
 <2>1. S \subseteq {e[p] : p \in P} BY <1>1
 <2> HIDE DEF e
 <2> QED BY <1>2, <2>1, Image
<1>6. S \subseteq Marks
 <2>1. \A p \in P : EvaluateLegs(s, table, p[1], p[2]) \in Marks BY <1>3, LegsScore
 <2> QED BY <1>1, <2>1
<1>7. t \in S BY <1>1, <1>4
<1>8. BestOf(S) \in S /\ BestOf(S).first >= t.first
 <2> HIDE DEF t
 <2> QED BY <1>5, <1>6, <1>7, BestIs
<1>9. Reactive(s, mask) = BestOf(S) BY DEF Reactive, S
<1>10. t.first = Claim(s, table, d) BY DEF Claim
<1> QED BY <1>6, <1>8, <1>9, <1>10

LEMMA RankingSound ==
  ASSUME NEW s, Observed(s), NEW mask, mask \subseteq Direction, NEW d \in Direction
  PROVE  LET claim == Claim(Focus(s, 0), ForecastTable(s), d)
         IN  /\ claim <= RealFirst(s, Constant(s, d))
             /\ claim = Claim(Focus(s, Horizon1), ForecastTable(s), d)
             /\ d \in mask => Reactive(s, mask).first >= claim
<1> DEFINE claim == Claim(s, ForecastTable(s), d)
<1>1. Claim(Focus(s, 0), ForecastTable(s), d) = claim /\ Claim(Focus(s, Horizon1), ForecastTable(s), d) = claim
  BY ClaimAlike, Horizons
<1>2. claim <= RealFirst(s, Constant(s, d)) BY ClaimHonest
<1>3. d \in mask => Reactive(s, mask).first >= claim BY ReactiveBest
<1> QED BY <1>1, <1>2, <1>3

----
\* The tree.  A node is a path so far, with its place among its siblings.
Nodes == [at : Grounds, rank : Nat, parent : Nat, trace : Seq(Direction), score : Marks]

LEMMA TreeGapsAre ==
  ASSUME NEW s, Observed(s), NEW p \in Points, NEW k \in Nat \ {0}
  PROVE  /\ IsFiniteSet(TreeGaps(s, p, k)) /\ \A h \in TreeGaps(s, p, k) : h.gap \in Int /\ h.k \in Nat \ {0}
         /\ \A j \in DOMAIN s.bullets : Hard(s.bullets[j]) =>
               \E h \in TreeGaps(s, p, k) : h.hard /\ h.gap = BulletGap(p, s.bullets[j], k)
<1> DEFINE I == {j \in DOMAIN s.bullets : Visible(s.bullets[j])}
           one(i) == [k |-> k, of |-> i, gap |-> BulletGap(p, s.bullets[i], k), hard |-> Hard(s.bullets[i])]
           e == [i \in I |-> one(i)]
           U == TreeGaps(s, p, k)
<1>1. U = {one(i) : i \in I} BY DEF TreeGaps
<1>2. IsFiniteSet(I)
 <2>1. I \in SUBSET DOMAIN s.bullets /\ IsFiniteSet(DOMAIN s.bullets) BY Sighted
 <2> HIDE DEF I
 <2> QED BY <2>1, FS_Subset
<1>3. \A i \in I : one(i).gap \in Int
 <2> TAKE i \in I
 <2>1. s.bullets[i] \in Shots /\ k \in Nat BY Sighted
 <2>2. BulletGap(p, s.bullets[i], k) \in Int BY <2>1, BulletGapIs
 <2> QED BY <2>2
<1>4. \A j \in DOMAIN s.bullets : Hard(s.bullets[j]) => j \in I BY DEF Hard, Visible
<1> HIDE DEF U, I
<1>5. IsFiniteSet(U)
 <2>1. U \subseteq {e[i] : i \in I} BY <1>1
 <2> HIDE DEF e
 <2> QED BY <1>2, <2>1, Image
<1>6. \A h \in U : h.gap \in Int /\ h.k \in Nat \ {0} BY <1>1, <1>3
<1>7. ASSUME NEW j \in DOMAIN s.bullets, Hard(s.bullets[j])
      PROVE  \E h \in U : h.hard /\ h.gap = BulletGap(p, s.bullets[j], k)
 <2> DEFINE h == one(j)
 <2>1. h.hard /\ h.gap = BulletGap(p, s.bullets[j], k) BY <1>7
 <2>2. h \in U
  <3> HIDE DEF one
  <3> QED BY <1>1, <1>4, <1>7
 <2> HIDE DEF h
 <2> QED BY <2>1, <2>2
<1> QED BY <1>5, <1>6, <1>7 DEF U

LEMMA GrownIs ==
  ASSUME NEW score \in Marks, NEW p \in Grounds, NEW S, IsFiniteSet(S), \A h \in S : h.gap \in Int /\ h.k \in Nat \ {0},
         NEW d \in Direction, NEW k \in Nat \ {0}
  PROVE  LET grown == Grown1(score, p, S, d, k)
         IN  /\ grown \in Marks /\ grown.continuation = d /\ grown.action = IF k = 2 THEN d ELSE score.action
             /\ grown.first <= score.first
             /\ k < grown.first => \A h \in S : h.hard => h.gap > 0
<1> DEFINE grown == Grown1(score, p, S, d, k)
           met == \E g \in S : g.gap <= 0 /\ g.hard
           a == IF met THEN Min({score.first, k}) ELSE score.first
           Q == {2 * g.gap : g \in S}
           b == Min(Q \union {score.clearance})
           e == score.danger + MapThenSumSet(DangerOf, S)
           g1 == IF k = 2 THEN OffCentre(p) ELSE score.centre
           u == IF k = 2 THEN d ELSE score.action
<1>1. grown = [first |-> a, clearance |-> b, danger |-> e, centre |-> g1, action |-> u, continuation |-> d]
  BY Zenon DEF Grown1
<1>2. score.first \in Int /\ score.clearance \in Int /\ score.danger \in Int /\ score.centre \in Int /\ score.action \in Direction
  BY DEF Marks
<1>3. a \in Int /\ a <= score.first /\ (met => a <= k)
 <2> DEFINE x == score.first
            m == Min({x, k})
 <2>1. x \in Int /\ k \in Int BY <1>2
 <2> HIDE DEF x
 <2>2. m = IF x <= k THEN x ELSE k BY <2>1, LeastOfTwo
 <2> HIDE DEF m
 <2>3. a = IF met THEN m ELSE x BY DEF m, x
 <2> HIDE DEF met, a
 <2> QED BY <2>1, <2>2, <2>3 DEF x
<1>4. b \in Int
 <2> DEFINE q == [g \in S |-> 2 * g.gap]
 <2>1. Q \subseteq {q[g] : g \in S} OBVIOUS
 <2>2. Q \subseteq Int OBVIOUS
 <2> HIDE DEF q, Q
 <2>3. IsFiniteSet(Q) BY <2>1, Image
 <2> QED BY <1>2, <2>2, <2>3, LeastIs
<1>5. e \in Int BY <1>2, DangersIs
<1>6. g1 \in Int
 <2> DEFINE x == 2 * p.x - FieldX
            y == 2 * p.y - FieldY
 <2>1. x \in Int /\ y \in Int BY ChoiceSizes DEF Grounds
 <2>2. OffCentre(p) = x * x + y * y BY DEF OffCentre
 <2> HIDE DEF x, y
 <2>3. OffCentre(p) \in Int BY <2>1, <2>2
 <2> QED BY <1>2, <2>3
<1>7. u \in Direction BY <1>2
<1>8. k < a => \A h \in S : h.hard => h.gap > 0
 <2>1. k < a => ~met
  <3> HIDE DEF met, a
  <3> QED BY <1>3
 <2>2. ~met => \A h \in S : h.hard => h.gap > 0 OBVIOUS
 <2> HIDE DEF met, a
 <2> QED BY <2>1, <2>2
<1> HIDE DEF a, b, e, g1, grown, u
<1>9. grown \in Marks /\ grown.first = a /\ grown.continuation = d /\ grown.action = u
  BY <1>1, <1>3, <1>4, <1>5, <1>6, <1>7 DEF Marks
<1> QED BY <1>3, <1>8, <1>9 DEF grown, u

LEMMA ExtendIs ==
  ASSUME NEW s, Observed(s), NEW n \in Nodes, NEW d \in Direction, NEW k \in Nat \ {0}
  PROVE  LET x == Extend(s, n, d, k)
         IN  /\ x \in Nodes /\ x.at = Stepped(n.at, d) /\ x.parent = n.rank /\ x.trace = Append(n.trace, d)
             /\ x.score.continuation = d /\ x.score.action = IF k = 2 THEN d ELSE n.score.action
             /\ x.score.first <= n.score.first
             /\ k < x.score.first => \A j \in DOMAIN s.bullets : Hard(s.bullets[j]) => BulletGap(x.at, s.bullets[j], k) > 0
<1> DEFINE p == Stepped(n.at, d)
           S == TreeGaps(s, p, k)
           g == Grown1(n.score, p, S, d, k)
           x == Extend(s, n, d, k)
<1>1. n.at \in Grounds /\ n.rank \in Nat /\ n.trace \in Seq(Direction) /\ n.score \in Marks BY DEF Nodes
<1>2. p \in Grounds /\ p \in Points BY <1>1, StepIs, Grounded
<1>3. x = [at |-> p, rank |-> 0, parent |-> n.rank, trace |-> Append(n.trace, d), score |-> g]
  BY DEF Extend, ExtendTo
<1> HIDE DEF p, x
<1>4. /\ IsFiniteSet(S) /\ \A h \in S : h.gap \in Int /\ h.k \in Nat \ {0}
      /\ \A j \in DOMAIN s.bullets : Hard(s.bullets[j]) => \E h \in S : h.hard /\ h.gap = BulletGap(p, s.bullets[j], k)
  BY <1>2, TreeGapsAre
<1> HIDE DEF S
<1>5. /\ g \in Marks /\ g.continuation = d /\ g.action = IF k = 2 THEN d ELSE n.score.action
      /\ g.first <= n.score.first
      /\ k < g.first => \A h \in S : h.hard => h.gap > 0
  BY <1>1, <1>2, <1>4, GrownIs
<1> HIDE DEF g
<1>6. x.at = p /\ x.rank = 0 /\ x.parent = n.rank /\ x.trace = Append(n.trace, d) /\ x.score = g BY <1>3
<1>7. Append(n.trace, d) \in Seq(Direction) BY <1>1
<1>8. x \in Nodes BY <1>1, <1>2, <1>3, <1>5, <1>7 DEF Nodes
<1>9. k < g.first => \A j \in DOMAIN s.bullets : Hard(s.bullets[j]) => BulletGap(p, s.bullets[j], k) > 0
  BY <1>4, <1>5
<1> QED BY <1>5, <1>6, <1>8, <1>9 DEF p, x

----
\* The order of nodes that differ in their score or in their parent.
Distinct(S) == S \subseteq Nodes /\ \A m, n \in S : m.score = n.score /\ m.parent = n.parent => m = n
AheadIn(S) == {z \in S \X S : Ahead1(z[1], z[2])}

LEMMA AheadOrders ==
  ASSUME NEW S, Distinct(S)
  PROVE  /\ Ordered(AheadIn(S), S)
         /\ \A n \in S : EarlierIn(AheadIn(S), S, n) = {m \in S : Ahead1(m, n)}
         /\ \A m, n \in S : <<m, n>> \in AheadIn(S) <=> Ahead1(m, n)
<1> DEFINE R == AheadIn(S)
<1>1. \A m, n \in S : <<m, n>> \in R <=> Ahead1(m, n) BY DEF AheadIn
<1>2. \A n \in S : n.score \in Marks /\ n.parent \in Nat BY DEF Distinct, Nodes
<1> HIDE DEF R
<1>3. \A n \in S : <<n, n>> \notin R BY <1>1, <1>2, BetterOrders DEF Ahead1
<1>4. ASSUME NEW a \in S, NEW b \in S, NEW c \in S, <<a, b>> \in R, <<b, c>> \in R PROVE <<a, c>> \in R
 <2>1. Ahead1(a, b) /\ Ahead1(b, c) BY <1>1, <1>4
 <2>2. /\ Better1(a.score, b.score) \/ (a.score = b.score /\ a.parent < b.parent)
       /\ Better1(b.score, c.score) \/ (b.score = c.score /\ b.parent < c.parent)
   BY <2>1 DEF Ahead1
 <2> DEFINE x == a.score
            y == b.score
            z == c.score
 <2>3. x \in Marks /\ y \in Marks /\ z \in Marks /\ a.parent \in Nat /\ b.parent \in Nat /\ c.parent \in Nat
   BY <1>2
 <2> HIDE DEF x, y, z
 <2>4. Better1(x, y) /\ Better1(y, z) => Better1(x, z) BY <2>3, BetterOrders
 <2>5. Better1(x, z) \/ (x = z /\ a.parent < c.parent) BY <2>2, <2>3, <2>4 DEF x, y, z
 <2>6. Ahead1(a, c) BY <2>5 DEF Ahead1, x, z
 <2> QED BY <1>1, <2>6
<1>5. ASSUME NEW a \in S, NEW b \in S, a # b PROVE <<a, b>> \in R \/ <<b, a>> \in R
 <2>1. a.score # b.score \/ a.parent # b.parent BY <1>5 DEF Distinct
 <2>2. CASE a.score # b.score BY <1>1, <1>2, <2>2, BetterOrders DEF Ahead1
 <2>3. CASE a.score = b.score /\ a.parent # b.parent
  <3>1. a.parent < b.parent \/ b.parent < a.parent BY <1>2, <2>3
  <3> QED BY <1>1, <2>3, <3>1 DEF Ahead1
 <2> QED BY <2>1, <2>2, <2>3
<1>6. Ordered(R, S) BY <1>3, <1>4, <1>5 DEF Ordered
<1>7. \A n \in S : EarlierIn(R, S, n) = {m \in S : Ahead1(m, n)} BY <1>1 DEF EarlierIn
<1> QED BY <1>1, <1>6, <1>7 DEF R

\* Of each first direction the best prefixes stay, and no more than
\* Family of them.
LEMMA DiverseIs ==
  ASSUME NEW S, IsFiniteSet(S), Distinct(S)
  PROVE  LET D == Diverse(S)
         IN  /\ D \subseteq S /\ IsFiniteSet(D) /\ Distinct(D) /\ Cardinality(D) <= 9 * Family
             /\ \A n \in S : \E m \in D : m.score.action = n.score.action
<1> DEFINE D == Diverse(S)
           Of(a) == {n \in S : n.score.action = a}
           place(n) == Cardinality(EarlierIn(AheadIn(Of(n.score.action)), Of(n.score.action), n))
<1>1. \A a : IsFiniteSet(Of(a)) /\ Distinct(Of(a))
 <2> TAKE a
 <2>1. Of(a) \in SUBSET S OBVIOUS
 <2>2. Distinct(Of(a)) BY DEF Distinct
 <2> HIDE DEF Of
 <2> QED BY <2>1, <2>2, FS_Subset
<1>2. ASSUME NEW n \in S
      PROVE  /\ {m \in S : m.score.action = n.score.action /\ Ahead1(m, n)} = EarlierIn(AheadIn(Of(n.score.action)), Of(n.score.action), n)
             /\ n \in Of(n.score.action)
 <2> DEFINE C == Of(n.score.action)
 <2>1. n \in C /\ {m \in S : m.score.action = n.score.action /\ Ahead1(m, n)} = {m \in C : Ahead1(m, n)} OBVIOUS
 <2>2. Distinct(C) BY <1>1
 <2> HIDE DEF C
 <2>3. EarlierIn(AheadIn(C), C, n) = {m \in C : Ahead1(m, n)} BY <2>1, <2>2, AheadOrders
 <2> QED BY <2>1, <2>3 DEF C
<1>3. D = {n \in S : place(n) < Family} BY <1>2 DEF Diverse
<1>4. \A a : \A n \in Of(a) : n.score.action = a /\ n \in S OBVIOUS
<1>5. \A n \in S : n.score.action \in Direction
 <2> TAKE n \in S
 <2>1. n.score \in Marks BY DEF Distinct, Nodes
 <2> QED BY <2>1 DEF Marks
<1> HIDE DEF D, Of
<1>6. ASSUME NEW n \in S PROVE place(n) \in Nat
 <2> DEFINE C == Of(n.score.action)
 <2>1. IsFiniteSet(C) /\ Ordered(AheadIn(C), C) /\ n \in C BY <1>1, <1>2, AheadOrders
 <2> HIDE DEF C
 <2>2. Cardinality(EarlierIn(AheadIn(C), C, n)) \in Nat BY <2>1, Places1
 <2> QED BY <2>2 DEF C
<1>7. ASSUME NEW m \in S, NEW n \in S, m.score.action = n.score.action, place(m) = place(n) PROVE m = n
 <2> DEFINE C == Of(n.score.action)
 <2>1. IsFiniteSet(C) /\ Ordered(AheadIn(C), C) /\ n \in C /\ m \in C BY <1>1, <1>2, <1>7, AheadOrders
 <2>2. Cardinality(EarlierIn(AheadIn(C), C, m)) = Cardinality(EarlierIn(AheadIn(C), C, n)) BY <1>7
 <2> HIDE DEF C
 <2> QED BY <2>1, <2>2, Places1
<1>8. \A n \in S : \E m \in D : m.score.action = n.score.action
 <2> TAKE n \in S
 <2> DEFINE a == n.score.action
            C == Of(a)
 <2>1. IsFiniteSet(C) /\ Ordered(AheadIn(C), C) /\ C # {} BY <1>1, <1>2, AheadOrders
 <2>2. PICK m \in C : EarlierIn(AheadIn(C), C, m) = {}
  <3> HIDE DEF C
  <3> QED BY <2>1, Smallest
 <2>3. m.score.action = a /\ m \in S BY <1>4
 <2>4. place(m) = Cardinality(EarlierIn(AheadIn(C), C, m)) BY <2>3
 <2>5. place(m) = 0
  <3> HIDE DEF C, place
  <3> QED BY <2>2, <2>4, FS_EmptySet
 <2>6. place(m) < Family
  <3> HIDE DEF place
  <3> QED BY <2>5, ChoiceSizes
 <2>7. m \in D
  <3> HIDE DEF place
  <3> QED BY <1>3, <2>3, <2>6
 <2> QED BY <2>3, <2>7
<1> HIDE DEF place
<1>9. D \in SUBSET S /\ IsFiniteSet(D) /\ Distinct(D)
 <2>1. D \in SUBSET S BY <1>3
 <2> QED BY <2>1, FS_Subset DEF Distinct
<1>10. Cardinality(D) <= 9 * Family
 <2> DEFINE N == 0 .. Family - 1
            P == Direction \X N
            f == [n \in D |-> <<n.score.action, place(n)>>]
 <2>1. f \in [D -> P]
  <3>1. \A n \in D : n.score.action \in Direction /\ place(n) \in N BY <1>3, <1>5, <1>6, ChoiceSizes
  <3> QED BY <3>1
 <2>2. \A a, b \in D : f[a] = f[b] => a = b BY <1>3, <1>7
 <2>3. f \in Injection(D, P)
  <3> HIDE DEF f, P
  <3> QED BY <2>1, <2>2 DEF Injection, IsInjective
 <2>4. IsFiniteSet(Direction) /\ Cardinality(Direction) = 9
  <3>1. \A a, b \in Int : IsFiniteSet(a .. b) /\ Cardinality(a .. b) = IF a > b THEN 0 ELSE b - a + 1
    BY FS_Interval
  <3>2. IsFiniteSet(0 .. 8) /\ Cardinality(0 .. 8) = IF 0 > 8 THEN 0 ELSE 8 - 0 + 1
   <4>1. 0 \in Int /\ 8 \in Int OBVIOUS
   <4> QED BY <3>1, <4>1, Zenon
  <3>3. (IF 0 > 8 THEN 0 ELSE 8 - 0 + 1) = 9 OBVIOUS
  <3> QED BY <3>2, <3>3 DEF Direction
 <2>5. IsFiniteSet(N) /\ Cardinality(N) = Family BY FS_Interval, ChoiceSizes
 <2> HIDE DEF N, f
 <2>6. IsFiniteSet(P) /\ Cardinality(P) = Cardinality(Direction) * Cardinality(N) BY <2>4, <2>5, FS_Product
 <2> HIDE DEF P
 <2>7. Cardinality(D) <= Cardinality(P) BY <2>3, <2>6, FS_Injection
 <2> QED BY <2>4, <2>5, <2>6, <2>7
<1> QED BY <1>8, <1>9, <1>10 DEF D

\* Numbering gives everyone a number of his own.
Ranked(m, r) == [m EXCEPT !.rank = r]

LEMMA NumberedIs ==
  ASSUME NEW S, IsFiniteSet(S), S # {}, Distinct(S)
  PROVE  LET N == Numbered(S)
         IN  /\ IsFiniteSet(N) /\ Cardinality(N) <= Cardinality(S) /\ N \subseteq Nodes
             /\ \A m, n \in N : m.rank = n.rank => m = n
             /\ \E n \in N : n.rank = 0
             /\ \A n \in N : \E m \in S : n = Ranked(m, n.rank)
             /\ \A m \in S : \E n \in N : n = Ranked(m, n.rank)
<1> DEFINE N == Numbered(S)
           R == AheadIn(S)
           place == [n \in S |-> Cardinality(EarlierIn(R, S, n))]
           f == [n \in S |-> Ranked(n, place[n])]
<1>1. Ordered(R, S) /\ \A n \in S : EarlierIn(R, S, n) = {m \in S : Ahead1(m, n)} BY AheadOrders
<1>2. N = {f[n] : n \in S} BY <1>1 DEF Numbered, Ranked
<1> HIDE DEF R
<1>3. \A n \in S : place[n] \in Nat BY <1>1, Places1
<1>4. \A m, n \in S : place[m] = place[n] => m = n BY <1>1, Places1
<1>5. \E n \in S : place[n] = 0
 <2>1. PICK n \in S : EarlierIn(R, S, n) = {} BY <1>1, Smallest
 <2>2. place[n] = Cardinality({}) BY <2>1
 <2> QED BY <2>2, FS_EmptySet
<1> HIDE DEF place
<1>6. \A n \in S : f[n] \in Nodes /\ f[n].rank = place[n] /\ f[n] = Ranked(n, f[n].rank)
  BY <1>3 DEF Distinct, Nodes, Ranked
<1> HIDE DEF f, N
<1>7. IsFiniteSet(N) /\ Cardinality(N) <= Cardinality(S)
 <2>1. f \in Surjection(S, N)
  <3>1. f \in [S -> N]
   <4>1. f = [n \in S |-> f[n]] BY DEF f
   <4> QED BY <1>2, <4>1
  <3> QED BY <1>2, <3>1 DEF Surjection
 <2> QED BY <2>1, FS_Surjection
<1>8. N \subseteq Nodes BY <1>2, <1>6
<1>9. \A m, n \in N : m.rank = n.rank => m = n BY <1>2, <1>4, <1>6
<1>10. \E n \in N : n.rank = 0 BY <1>2, <1>5, <1>6
<1>11. \A n \in N : \E m \in S : n = Ranked(m, n.rank) BY <1>2, <1>6
<1>12. \A m \in S : \E n \in N : n = Ranked(m, n.rank) BY <1>2, <1>6
<1> QED BY <1>7, <1>8, <1>9, <1>10, <1>11, <1>12 DEF N

----
\* A layer of the tree: every node has walked where its trace says, and
\* what it scores is true of that walk.
Walks(s, n, k, at) ==
    /\ at \in [1 .. k -> Grounds] /\ at[1] = Stepped(s.at, s.pending) /\ at[k] = n.at
    /\ \A j \in 2 .. k : at[j] = Stepped(at[j - 1], n.trace[j - 1])
    /\ \A j \in 2 .. k : j < n.score.first =>
          \A i \in DOMAIN s.bullets : Hard(s.bullets[i]) => BulletGap(at[j], s.bullets[i], j) > 0
Walked(s, n, k) == Len(n.trace) = k - 1 /\ \E at : Walks(s, n, k, at)
Grow(s, S, k) == Numbered(Diverse({Extend(s, n, d, k) : n \in S, d \in Direction}))
Layer(s, S, k) ==
    /\ IsFiniteSet(S) /\ S # {} /\ S \subseteq Nodes
    /\ \A m, n \in S : m.rank = n.rank => m = n
    /\ \E n \in S : n.rank = 0
    /\ \A n \in S : Walked(s, n, k)
    /\ k >= 2 => /\ \A n \in S : n.score.action = n.trace[1]
                 /\ \A d \in Direction : \E n \in S : n.score.action = d
                 /\ Cardinality(S) <= 9 * Family

LEMMA RankedIs ==
  ASSUME NEW m \in Nodes, NEW r
  PROVE  LET n == Ranked(m, r) IN n.at = m.at /\ n.rank = r /\ n.parent = m.parent /\ n.trace = m.trace /\ n.score = m.score
BY DEF Ranked, Nodes

LEMMA WalksOn ==
  ASSUME NEW s, Observed(s), NEW n \in Nodes, NEW d \in Direction, NEW k \in Nat, k >= 2, Walked(s, n, k - 1)
  PROVE  Walked(s, Extend(s, n, d, k), k)
<1> DEFINE x == Extend(s, n, d, k)
<1>1. /\ x \in Nodes /\ x.at = Stepped(n.at, d) /\ x.trace = Append(n.trace, d) /\ x.score.first <= n.score.first
      /\ k < x.score.first => \A j \in DOMAIN s.bullets : Hard(s.bullets[j]) => BulletGap(x.at, s.bullets[j], k) > 0
  BY ExtendIs
<1> HIDE DEF x
<1>2. PICK at : Walks(s, n, k - 1, at) BY DEF Walked
<1>3. n.trace \in Seq(Direction) /\ Len(n.trace) = k - 2 /\ x.at \in Grounds BY <1>1 DEF Walked, Nodes
<1>4. Len(x.trace) = k - 1 /\ x.trace[k - 1] = d /\ \A j \in 1 .. k - 2 : x.trace[j] = n.trace[j] BY <1>1, <1>3
<1> DEFINE go == [j \in 1 .. k |-> IF j = k THEN x.at ELSE at[j]]
<1>5. \A j \in 1 .. k - 1 : go[j] = at[j] /\ at[j] \in Grounds BY <1>2 DEF Walks
<1>6. go \in [1 .. k -> Grounds] /\ go[k] = x.at
 <2>1. \A j \in 1 .. k : j # k => j \in 1 .. k - 1 OBVIOUS
 <2>2. \A j \in 1 .. k : (IF j = k THEN x.at ELSE at[j]) \in Grounds BY <1>3, <1>5, <2>1
 <2>3. k \in 1 .. k OBVIOUS
 <2> QED BY <2>2, <2>3
<1> HIDE DEF go
<1>7. go[1] = Stepped(s.at, s.pending) BY <1>2, <1>5 DEF Walks
<1>8. ASSUME NEW j \in 2 .. k PROVE go[j] = Stepped(go[j - 1], x.trace[j - 1])
 <2>1. CASE j = k
  <3>1. go[k - 1] = n.at /\ k - 1 \in 1 .. k - 1 BY <1>2, <1>5 DEF Walks
  <3> QED BY <1>1, <1>4, <1>6, <2>1, <3>1
 <2>2. CASE j # k
  <3>1. j \in 2 .. k - 1 /\ j \in 1 .. k - 1 /\ j - 1 \in 1 .. k - 1 /\ j - 1 \in 1 .. k - 2 BY <2>2
  <3>2. at[j] = Stepped(at[j - 1], n.trace[j - 1]) BY <1>2, <3>1 DEF Walks
  <3> QED BY <1>4, <1>5, <3>1, <3>2
 <2> QED BY <2>1, <2>2
<1>9. x.score.first \in Int /\ n.score.first \in Int
 <2>1. x.score \in Marks /\ n.score \in Marks BY <1>1 DEF Nodes
 <2> QED BY <2>1 DEF Marks
<1>10. ASSUME NEW j \in 2 .. k, j < x.score.first, NEW i \in DOMAIN s.bullets, Hard(s.bullets[i])
       PROVE  BulletGap(go[j], s.bullets[i], j) > 0
 <2>1. CASE j = k BY <1>1, <1>6, <1>10, <2>1
 <2>2. CASE j # k
  <3>1. j \in 2 .. k - 1 /\ j \in 1 .. k - 1 /\ j < n.score.first BY <1>1, <1>9, <1>10, <2>2
  <3>2. BulletGap(at[j], s.bullets[i], j) > 0 BY <1>2, <1>10, <3>1 DEF Walks
  <3> QED BY <1>5, <3>1, <3>2
 <2> QED BY <2>1, <2>2
<1>11. Walks(s, x, k, go) BY <1>6, <1>7, <1>8, <1>10 DEF Walks
<1>12. Walked(s, x, k) BY <1>4, <1>11 DEF Walked
<1> QED BY <1>12 DEF x

LEMMA RootIs == ASSUME NEW s, Observed(s) PROVE Layer(s, {Root(s)}, 1)
<1> DEFINE r == Root(s)
           p == Stepped(s.at, s.pending)
           q == [first |-> Horizon1 + 1, clearance |-> FarOff, danger |-> 0, centre |-> 0, action |-> Idle, continuation |-> Idle]
<1>1. r = [at |-> p, rank |-> 0, parent |-> 0, trace |-> << >>, score |-> q] BY DEF Root
<1>2. p \in Grounds BY Seen, StepIs, Grounded
<1>3. q \in Marks BY Horizons DEF Marks, FarOff, Idle, Direction
<1>4. << >> \in Seq(Direction) /\ Len(<< >>) = 0 OBVIOUS
<1> HIDE DEF p, q, r
<1>5. r \in Nodes /\ r.rank = 0 /\ r.at = p /\ r.trace = << >> BY <1>1, <1>2, <1>3, <1>4 DEF Nodes
<1> DEFINE at == [j \in 1 .. 1 |-> p]
<1>6. Walks(s, r, 1, at)
 <2>1. at \in [1 .. 1 -> Grounds] /\ at[1] = p /\ 2 .. 1 = {} BY <1>2
 <2> HIDE DEF at
 <2> QED BY <1>5, <2>1 DEF Walks, p
<1> HIDE DEF at
<1>7. Walked(s, r, 1) BY <1>4, <1>5, <1>6 DEF Walked
<1>8. IsFiniteSet({r}) BY FS_Singleton
<1> QED BY <1>5, <1>7, <1>8 DEF Layer, r

LEMMA LayerStep ==
  ASSUME NEW s, Observed(s), NEW k \in Nat, k >= 2, NEW S, Layer(s, S, k - 1)
  PROVE  Layer(s, Grow(s, S, k), k)
<1> DEFINE x(n, d) == Extend(s, n, d, k)
           X == {x(n, d) : n \in S, d \in Direction}
           D == Diverse(X)
           N == Numbered(D)
<1>1. Grow(s, S, k) = N BY DEF Grow
<1>2. IsFiniteSet(S) /\ S # {} /\ S \subseteq Nodes /\ k \in Nat \ {0} /\ Idle \in Direction
  BY DEF Layer, Idle, Direction
<1>3. IsFiniteSet(X)
 <2> DEFINE P == S \X Direction
            e == [z \in P |-> x(z[1], z[2])]
 <2>1. IsFiniteSet(Direction)
  <3>1. 0 \in Int /\ 8 \in Int OBVIOUS
  <3> QED BY <3>1, RangeFinite, Zenon DEF Direction
 <2>2. IsFiniteSet(P) BY <1>2, <2>1, FS_Product
 <2>3. X \subseteq {e[z] : z \in P}
  <3> HIDE DEF x
  <3>1. \A n \in S, d \in Direction : <<n, d>> \in P /\ x(n, d) = e[<<n, d>>] OBVIOUS
  <3> HIDE DEF P, e
  <3>3. \A u \in X : \E n \in S, d \in Direction : u = x(n, d) OBVIOUS
  <3> HIDE DEF X
  <3>2. ASSUME NEW u \in X PROVE u \in {e[z] : z \in P}
   <4>1. PICK n \in S, d \in Direction : u = x(n, d) BY <3>3
   <4> QED BY <3>1, <4>1
  <3> QED BY <3>2
 <2> HIDE DEF P, e, X
 <2> QED BY <2>2, <2>3, Image
<1>4. ASSUME NEW n \in S, NEW d \in Direction
      PROVE  /\ x(n, d) \in Nodes /\ x(n, d).parent = n.rank /\ x(n, d).trace = Append(n.trace, d)
             /\ x(n, d).score.continuation = d /\ x(n, d).score.action = IF k = 2 THEN d ELSE n.score.action
             /\ Walked(s, x(n, d), k)
 <2>1. n \in Nodes /\ Walked(s, n, k - 1) BY <1>2 DEF Layer
 <2>2. Walked(s, x(n, d), k) BY <2>1, WalksOn
 <2> QED BY <1>2, <2>1, <2>2, ExtendIs
<1>5. ASSUME NEW n \in S, NEW d \in Direction
      PROVE  x(n, d).score.action = x(n, d).trace[1]
 <2>1. n.trace \in Seq(Direction) /\ Len(n.trace) = k - 2
  <3>1. n \in Nodes /\ Walked(s, n, k - 1) BY <1>2 DEF Layer
  <3> QED BY <3>1 DEF Nodes, Walked
 <2>2. CASE k = 2
  <3>1. Append(n.trace, d)[1] = d BY <2>1, <2>2
  <3> QED BY <1>4, <2>2, <3>1
 <2>3. CASE k # 2
  <3>1. Append(n.trace, d)[1] = n.trace[1] BY <2>1, <2>3
  <3>2. n.score.action = n.trace[1] BY <2>3 DEF Layer
  <3>3. x(n, d).score.action = n.score.action /\ x(n, d).trace = Append(n.trace, d) BY <1>4, <2>3
  <3> HIDE DEF x
  <3> QED BY <3>1, <3>2, <3>3
 <2> QED BY <2>2, <2>3
<1>6. \A d \in Direction : \E n \in S, c \in Direction : x(n, c).score.action = d
 <2> TAKE d \in Direction
 <2>1. CASE k = 2
  <3>1. PICK n \in S : TRUE BY <1>2
  <3>2. x(n, d).score.action = d BY <1>4, <2>1
  <3> HIDE DEF x
  <3> QED BY <3>2
 <2>2. CASE k # 2
  <3>1. PICK n \in S : n.score.action = d BY <2>2 DEF Layer
  <3>2. x(n, Idle).score.action = d BY <1>2, <1>4, <2>2, <3>1
  <3> HIDE DEF x
  <3> QED BY <1>2, <3>2
 <2> QED BY <2>1, <2>2
<1> HIDE DEF x
<1>7. Distinct(X)
 <2>1. X \subseteq Nodes BY <1>4
 <2>2. ASSUME NEW a \in X, NEW b \in X, a.score = b.score, a.parent = b.parent PROVE a = b
  <3>1. PICK m \in S, c \in Direction : a = x(m, c) OBVIOUS
  <3>2. PICK n \in S, d \in Direction : b = x(n, d) OBVIOUS
  <3>3. c = d /\ m.rank = n.rank BY <1>4, <2>2, <3>1, <3>2
  <3>4. m = n BY <3>3 DEF Layer
  <3> QED BY <3>1, <3>2, <3>3, <3>4
 <2> HIDE DEF X
 <2> QED BY <2>1, <2>2 DEF Distinct
<1>8. \A u \in X : Walked(s, u, k) /\ u.score.action = u.trace[1] BY <1>4, <1>5
<1>9. \A d \in Direction : \E u \in X : u.score.action = d BY <1>6
<1> HIDE DEF X
<1>10. /\ D \subseteq X /\ IsFiniteSet(D) /\ Distinct(D) /\ Cardinality(D) <= 9 * Family
       /\ \A n \in X : \E m \in D : m.score.action = n.score.action
  BY <1>3, <1>7, DiverseIs
<1> HIDE DEF D
<1>11. D # {} /\ \A d \in Direction : \E m \in D : m.score.action = d
 <2>1. \A d \in Direction : \E m \in D : m.score.action = d BY <1>9, <1>10
 <2> QED BY <1>2, <2>1
<1>12. /\ IsFiniteSet(N) /\ Cardinality(N) <= Cardinality(D) /\ N \subseteq Nodes
       /\ \A m, n \in N : m.rank = n.rank => m = n
       /\ \E n \in N : n.rank = 0
       /\ \A n \in N : \E m \in D : n = Ranked(m, n.rank)
       /\ \A m \in D : \E n \in N : n = Ranked(m, n.rank)
  BY <1>10, <1>11, NumberedIs
<1>13. Cardinality(N) <= 9 * Family
 <2>1. Cardinality(N) \in Int /\ Cardinality(D) \in Int /\ 9 * Family \in Int
   BY <1>10, <1>12, FS_CardinalityType, ChoiceSizes
 <2> DEFINE a == Cardinality(N)
            b == Cardinality(D)
            c == 9 * Family
 <2>2. a \in Int /\ b \in Int /\ c \in Int /\ a <= b /\ b <= c BY <1>10, <1>12, <2>1
 <2> HIDE DEF a, b, c
 <2>3. a <= c BY <2>2
 <2> QED BY <2>3 DEF a, c
<1> HIDE DEF N
<1>14. ASSUME NEW m \in D, NEW r
       PROVE  LET n == Ranked(m, r)
              IN  n.at = m.at /\ n.trace = m.trace /\ n.score = m.score
 <2>1. m \in Nodes BY <1>7, <1>10 DEF Distinct
 <2> QED BY <2>1, RankedIs
<1>15. \A n \in N : Walked(s, n, k) /\ n.score.action = n.trace[1]
 <2> TAKE n \in N
 <2>1. PICK m \in D : n = Ranked(m, n.rank) BY <1>12
 <2> DEFINE r == n.rank
 <2> HIDE DEF r
 <2>2. n.at = m.at /\ n.trace = m.trace /\ n.score = m.score
  <3>1. n = Ranked(m, r) BY <2>1 DEF r
  <3> QED BY <1>14, <3>1
 <2>3. Walked(s, m, k) /\ m.score.action = m.trace[1] BY <1>8, <1>10
 <2> QED BY <2>2, <2>3 DEF Walked, Walks
<1>16. \A d \in Direction : \E n \in N : n.score.action = d
 <2> TAKE d \in Direction
 <2>1. PICK m \in D : m.score.action = d BY <1>11
 <2>2. PICK n \in N : n = Ranked(m, n.rank) BY <1>12
 <2> DEFINE r == n.rank
 <2> HIDE DEF r
 <2>3. n = Ranked(m, r) BY <2>2 DEF r
 <2>4. n.score = m.score BY <1>14, <2>3
 <2> QED BY <2>1, <2>4
<1>17. N # {} BY <1>12
<1> QED BY <1>1, <1>12, <1>13, <1>15, <1>16, <1>17 DEF Layer

----
\* So the last layer is what is promised of the tree.
LEMMA TreeIs == ASSUME NEW s, Observed(s), BulletHorizon >= 1 PROVE Layer(s, Tree(s), BulletHorizon)
<1> DEFINE V == {S \in SUBSET Nodes : \E k \in 1 .. BulletHorizon : Layer(s, S, k)}
           next1(S, k) == IF \E m \in 2 .. BulletHorizon : m = k /\ Layer(s, S, k - 1) THEN Grow(s, S, k) ELSE {Root(s)}
           g == [z \in (1 .. BulletHorizon) \X V |-> next1(z[2], z[1])]
           Solves(h) == h = [k \in 1 .. BulletHorizon |-> IF k = 1 THEN {Root(s)} ELSE Grow(s, h[k - 1], k)]
<1>1. Tree(s) = (CHOOSE h : Solves(h))[BulletHorizon] BY DEF Tree, Grow
<1>2. BulletHorizon \in Nat /\ 1 \in 1 .. BulletHorizon BY ChoiceSizes
<1>3. {Root(s)} \in V /\ Layer(s, {Root(s)}, 1) BY <1>2, RootIs DEF Layer
<1>4. ASSUME NEW S, NEW k \in 2 .. BulletHorizon, Layer(s, S, k - 1) PROVE Grow(s, S, k) \in V /\ Layer(s, Grow(s, S, k), k)
 <2>1. k \in Nat /\ k >= 2 /\ k \in 1 .. BulletHorizon BY <1>2
 <2>2. Layer(s, Grow(s, S, k), k) BY <1>4, <2>1, LayerStep
 <2> QED BY <2>1, <2>2 DEF Layer
<1>5. g \in [(1 .. BulletHorizon) \X V -> V]
 <2>1. ASSUME NEW z \in (1 .. BulletHorizon) \X V PROVE next1(z[2], z[1]) \in V
  <3> DEFINE S == z[2]
             k == z[1]
  <3> HIDE DEF S, k, V
  <3>1. CASE \E m \in 2 .. BulletHorizon : m = k /\ Layer(s, S, k - 1)
   <4>1. k \in 2 .. BulletHorizon /\ Layer(s, S, k - 1) BY <3>1
   <4>2. Grow(s, S, k) \in V BY <1>4, <4>1
   <4> QED BY <3>1, <4>2 DEF S, k
  <3>2. CASE ~\E m \in 2 .. BulletHorizon : m = k /\ Layer(s, S, k - 1) BY <1>3, <3>2 DEF S, k
  <3> QED BY <3>1, <3>2
 <2> HIDE DEF V, next1
 <2> QED BY <2>1
<1> HIDE DEF V
<1>6. PICK f : Follows1(f, 1, BulletHorizon, {Root(s)}, g, V)
 <2>1. 1 <= BulletHorizon /\ 1 \in Nat /\ BulletHorizon \in Nat BY <1>2
 <2> HIDE DEF g
 <2> QED BY <1>3, <1>5, <2>1, Unfolds
<1>7. f \in [1 .. BulletHorizon -> V] BY <1>6 DEF Follows1
<1>8. f = [k \in 1 .. BulletHorizon |-> IF k = 1 THEN {Root(s)} ELSE g[<<k, f[k - 1]>>]] BY <1>6 DEF Follows1
<1>9. \A k \in 1 .. BulletHorizon : k # 1 => g[<<k, f[k - 1]>>] = next1(f[k - 1], k)
 <2>1. \A k \in 1 .. BulletHorizon : k # 1 => f[k - 1] \in V BY <1>2, <1>7
 <2> HIDE DEF next1
 <2> QED BY <2>1
<1> HIDE DEF g
<1>10. \A k \in 1 .. BulletHorizon : Layer(s, f[k], k) /\ (k # 1 => f[k] = Grow(s, f[k - 1], k))
 <2> DEFINE S == {k \in 1 .. BulletHorizon : Layer(s, f[k], k) /\ (k # 1 => f[k] = Grow(s, f[k - 1], k))}
 <2>1. 1 \in S
  <3>1. f[1] = {Root(s)} BY <1>2, <1>8
  <3> QED BY <1>2, <1>3, <3>1
 <2>2. ASSUME NEW k \in 1 .. BulletHorizon - 1, k \in S PROVE k + 1 \in S
  <3>1. k + 1 \in 2 .. BulletHorizon /\ k + 1 \in 1 .. BulletHorizon /\ (k + 1) - 1 = k /\ k + 1 # 1 BY <1>2
  <3>2. Layer(s, f[k], k) BY <2>2
  <3>3. f[k + 1] = next1(f[k], k + 1)
   <4> HIDE DEF next1
   <4> QED BY <1>8, <1>9, <3>1
  <3>4. next1(f[k], k + 1) = Grow(s, f[k], k + 1) BY <3>1, <3>2
  <3>5. Layer(s, Grow(s, f[k], k + 1), k + 1) BY <1>4, <3>1, <3>2
  <3> QED BY <3>1, <3>3, <3>4, <3>5
 <2> HIDE DEF S
 <2>3. \A k \in 1 .. BulletHorizon : k \in S BY <1>2, <2>1, <2>2, Upward
 <2> QED BY <2>3 DEF S
<1> HIDE DEF next1
<1>11. Solves(f)
 <2>1. f[1] = {Root(s)} BY <1>2, <1>8
 <2>2. \A k \in 1 .. BulletHorizon : f[k] = IF k = 1 THEN {Root(s)} ELSE Grow(s, f[k - 1], k) BY <1>10, <2>1
 <2>3. f = [k \in 1 .. BulletHorizon |-> f[k]] BY <1>7
 <2> QED BY <2>2, <2>3
<1> DEFINE b == CHOOSE h : Solves(h)
<1>12. Solves(b)
 <2> HIDE DEF Solves
 <2> QED BY <1>11, Zenon
<1> HIDE DEF b
<1>13. \A k \in 1 .. BulletHorizon : b[k] = f[k]
 <2> DEFINE S == {k \in 1 .. BulletHorizon : b[k] = f[k]}
 <2>0. \A k \in 1 .. BulletHorizon : b[k] = IF k = 1 THEN {Root(s)} ELSE Grow(s, b[k - 1], k) BY <1>12
 <2>1. 1 \in S BY <1>2, <1>8, <2>0
 <2>2. ASSUME NEW k \in 1 .. BulletHorizon - 1, k \in S PROVE k + 1 \in S
  <3>1. k + 1 \in 1 .. BulletHorizon /\ (k + 1) - 1 = k /\ k + 1 # 1 BY <1>2
  <3>2. b[k + 1] = Grow(s, b[k], k + 1) /\ f[k + 1] = Grow(s, f[k], k + 1) BY <1>10, <2>0, <3>1
  <3> QED BY <2>2, <3>1, <3>2
 <2> HIDE DEF S
 <2>3. \A k \in 1 .. BulletHorizon : k \in S BY <1>2, <2>1, <2>2, Upward
 <2> QED BY <2>3 DEF S
<1>14. Tree(s) = b[BulletHorizon] BY <1>1 DEF b
<1>15. BulletHorizon \in 1 .. BulletHorizon BY <1>2
<1> QED BY <1>10, <1>13, <1>14, <1>15

LEMMA TreeTrue ==
  ASSUME NEW s, Observed(s), s.tree, chosen = (CHOOSE n \in Tree(s) : n.rank = 0).score
  PROVE  TrueTree(s, Tree(s))
<1> DEFINE beam == Tree(s)
           best == CHOOSE n \in beam : n.rank = 0
           B == BulletHorizon
<1>1. B \in Nat /\ B >= 2 BY ChoiceSizes DEF Observed
<1>2. Layer(s, beam, B) BY <1>1, TreeIs
<1> HIDE DEF beam
<1>3. best \in beam /\ best.rank = 0
 <2>1. \E n \in beam : n.rank = 0 BY <1>2 DEF Layer
 <2> QED BY <2>1, Zenon
<1> HIDE DEF best
<1>4. chosen = best.score BY DEF best, beam
<1>5. best.score.action = best.trace[1] /\ Walked(s, best, B) BY <1>1, <1>2, <1>3 DEF Layer
<1>6. {n.score.action : n \in beam} = Direction
 <2>1. \A n \in beam : n.score.action \in Direction
  <3>1. \A n \in beam : n.score \in Marks BY <1>2 DEF Layer, Nodes
  <3> QED BY <3>1 DEF Marks
 <2>2. \A d \in Direction : \E n \in beam : n.score.action = d BY <1>1, <1>2 DEF Layer
 <2> QED BY <2>1, <2>2
<1>7. Cardinality(beam) <= 9 * Family BY <1>1, <1>2 DEF Layer
<1>8. PICK walk : Walks(s, best, B, walk) BY <1>5 DEF Walked
<1> DEFINE Solves(h) == h = [k \in 1 .. B |-> IF k = 1 THEN Stepped(s.at, s.pending) ELSE Stepped(h[k - 1], best.trace[k - 1])]
           at == CHOOSE h : Solves(h)
<1>9. /\ walk \in [1 .. B -> Grounds] /\ walk[1] = Stepped(s.at, s.pending)
      /\ \A k \in 2 .. B : walk[k] = Stepped(walk[k - 1], best.trace[k - 1])
  BY <1>8 DEF Walks
<1>10. \A k \in 1 .. B : k # 1 => k \in 2 .. B BY <1>1
<1>11. Solves(walk)
 <2>1. \A k \in 1 .. B : walk[k] = IF k = 1 THEN Stepped(s.at, s.pending) ELSE Stepped(walk[k - 1], best.trace[k - 1])
   BY <1>9, <1>10
 <2>2. walk = [k \in 1 .. B |-> walk[k]] BY <1>9
 <2> QED BY <2>1, <2>2
<1>12. Solves(at)
 <2> HIDE DEF Solves
 <2> QED BY <1>11, Zenon
<1> HIDE DEF at
<1>13. \A k \in 1 .. B : at[k] = walk[k]
 <2> DEFINE S == {k \in 1 .. B : at[k] = walk[k]}
 <2>0. \A k \in 1 .. B : at[k] = IF k = 1 THEN Stepped(s.at, s.pending) ELSE Stepped(at[k - 1], best.trace[k - 1])
   BY <1>12
 <2>1. 1 \in S BY <1>1, <1>9, <2>0
 <2>2. ASSUME NEW k \in 1 .. B - 1, k \in S PROVE k + 1 \in S
  <3>1. k + 1 \in 1 .. B /\ (k + 1) - 1 = k /\ k + 1 # 1 /\ k + 1 \in 2 .. B BY <1>1
  <3>2. at[k + 1] = Stepped(at[k], best.trace[k]) BY <2>0, <3>1
  <3>3. walk[k + 1] = Stepped(walk[k], best.trace[k]) BY <1>9, <3>1
  <3> QED BY <2>2, <3>1, <3>2, <3>3
 <2> HIDE DEF S
 <2>3. \A k \in 1 .. B : k \in S BY <1>1, <2>1, <2>2, Upward
 <2> QED BY <2>3 DEF S
<1>14. TruePath(s, at, best.score.first)
 <2>1. \A k \in 2 .. B : k \in 1 .. B BY <1>1
 <2>2. \A k \in 2 .. B : k < best.score.first =>
          \A i \in DOMAIN s.bullets : Hard(s.bullets[i]) => BulletGap(walk[k], s.bullets[i], k) > 0
   BY <1>8 DEF Walks
 <2> QED BY <1>13, <2>1, <2>2 DEF TruePath
<1>15. TrueChoice(s, best) BY <1>4, <1>5, <1>14 DEF TrueChoice, at
<1> QED BY <1>6, <1>7, <1>15 DEF TrueTree, beam, best

----
\* A decision, and what is known of it after each of its steps.
ChoiceSpec == ChoiceInit /\ [][ChoiceNext]_choiceVars
ChoiceInv ==
    /\ situation \in Situations /\ allowed \in SUBSET Direction
    /\ step \in {"observed", "masked", "failed", "chosen", "pruned"}
    /\ step = "chosen" =>
          chosen = IF situation.tree THEN (CHOOSE n \in Tree(situation) : n.rank = 0).score ELSE Reactive(situation, allowed)
    /\ step = "pruned" => kept = [k \in 1 .. BulletHorizon |-> Keeps(situation, k)]

LEMMA MasksNarrow == ASSUME NEW s PROVE DirectMask(s) \in SUBSET Direction
<1>1. \A score : MaskOf(score) \subseteq Direction BY DEF MaskOf, MaskFrom
<1> QED BY <1>1 DEF DirectMask, DirectBy

LEMMA ChoiceBegins == ChoiceInit => ChoiceInv
BY DEF ChoiceInit, ChoiceInv

LEMMA ChoiceStep == ChoiceInv /\ [ChoiceNext]_choiceVars => ChoiceInv'
<1> SUFFICES ASSUME ChoiceInv, [ChoiceNext]_choiceVars PROVE ChoiceInv' OBVIOUS
<1>1. CASE Mask1
 <2>1. allowed' \in SUBSET Direction BY <1>1, MasksNarrow DEF Mask1, ChoiceInv
 <2> QED BY <1>1, <2>1 DEF Mask1, ChoiceInv
<1>2. CASE Choose1 BY <1>2 DEF Choose1, ChoiceInv
<1>3. CASE ChooseByTree BY <1>3 DEF ChooseByTree, ChoiceInv
<1>4. CASE Prune BY <1>4 DEF Prune, ChoiceInv
<1>5. CASE UNCHANGED choiceVars BY <1>5 DEF choiceVars, ChoiceInv
<1> QED BY <1>1, <1>2, <1>3, <1>4, <1>5 DEF ChoiceNext

LEMMA ChoiceIsSound == ASSUME ChoiceInv PROVE SoundChoice
<1>1. Observed(situation) BY ChoiceAssumption DEF ChoiceInv
<1>2. SoundRanking
 <2>1. ASSUME step = "chosen", ~situation.tree, NEW d \in Direction
       PROVE  ClaimHolds(situation, ForecastTable(situation), d, Claim([situation EXCEPT !.first = 0], ForecastTable(situation), d))
  <3>1. chosen = Reactive(situation, allowed) /\ allowed \subseteq Direction BY <2>1 DEF ChoiceInv
  <3>2. /\ Claim(Focus(situation, 0), ForecastTable(situation), d) <= RealFirst(situation, Constant(situation, d))
        /\ Claim(Focus(situation, 0), ForecastTable(situation), d) = Claim(Focus(situation, Horizon1), ForecastTable(situation), d)
        /\ d \in allowed => Reactive(situation, allowed).first >= Claim(Focus(situation, 0), ForecastTable(situation), d)
    BY <1>1, <3>1, RankingSound
  <3> QED BY <3>1, <3>2, Zenon DEF ClaimHolds, Focus
 <2> QED BY <2>1, Zenon DEF SoundRanking, RankedBy
<1>3. SoundMasks
 <2>1. ASSUME NEW c \in situation.contexts, c.stable /\ ~c.variable, NEW h \in DirectHits(c), Height(h[2]) > 0
       PROVE  \E w \in Warnings(c) : w.height = Height(h[2]) /\ h[1] \in w.first .. w.last
   BY <1>1, <2>1, Seen, HitsWarned
 <2>2. {} \notin {DirectMask(situation), ImminentMask(situation), UpcomingMask(situation)}
   BY <1>1, DirectFree, ImminentFree, UpcomingFree
 <2>3. ASSUME NEW v \in situation.due, NEW d \in allowed
       PROVE  AllWarned(Constant(situation, d), v, Natives(v), Forecasts(v))
  <3>1. d \in Direction BY DEF ChoiceInv
  <3> QED BY <1>1, <3>1, DueWarned
 <2> QED BY <2>1, <2>2, <2>3, Zenon DEF SoundMasks
<1>4. SoundTree
 <2>1. ASSUME step = "chosen", situation.tree PROVE TrueTree(situation, Tree(situation))
  <3>1. chosen = (CHOOSE n \in Tree(situation) : n.rank = 0).score BY <2>1 DEF ChoiceInv
  <3> QED BY <1>1, <2>1, <3>1, TreeTrue
 <2> QED BY <2>1 DEF SoundTree
<1>5. SoundPruning
 <2>1. ASSUME step = "pruned", NEW k \in 1 .. BulletHorizon, NEW i \in DOMAIN situation.bullets,
              Box1(situation.bullets[i], k) \notin kept[k], NEW p \in Reachable(situation)[k]
       PROVE  BulletGap(p, situation.bullets[i], k) > 0
  <3>1. kept[k] = Keeps(situation, k) BY <2>1 DEF ChoiceInv
  <3> QED BY <1>1, <2>1, <3>1, PruningSound
 <2> QED BY <2>1 DEF SoundPruning
<1> QED BY <1>2, <1>3, <1>4, <1>5 DEF SoundChoice

\* Whatever a decision observes, each of its steps leaves what the next
\* one rests on: a mask is a set of directions, what is chosen is Reactive
\* of that mask or the first node of the tree, and what is kept is Keeps.
THEOREM ChoiceInvariance == ChoiceSpec => []ChoiceInv
BY ChoiceBegins, ChoiceStep, PTL DEF ChoiceSpec

\* For every observation, field, hurtbox, stride, horizon, margin and family:
\* no direction is ranked safer than it is (native_policy.hpp, evaluate),
\* no adapter forbids every direction or overlooks a laser it was warned
\* of, the tree says of its choice what is true of its path
\* (observed_path_policy.hpp), and no box that was pruned can be touched
\* (online.cpp, prune_unreachable).
THEOREM ChoicesSound == ChoiceSpec => []SoundChoice
BY ChoiceInvariance, ChoiceIsSound, PTL
====
