---- MODULE LiveWorker ----
(***************************************************************************)
(* The unpaused executor of tools/online_live.cpp and the policy worker of *)
(* src/online_live.cpp.  The owner runs the native game at 60 ticks a      *)
(* second, submits one observation per update to a bounded FIFO and takes  *)
(* whatever reply is in a one-place mailbox when the tick comes; a worker  *)
(* thread answers at its own pace, or fails.  One mutex guards the shared  *)
(* state, so a critical section is one step; between two of them the clock *)
(* and the other thread move as they please.                               *)
(***************************************************************************)
EXTENDS Integers, Sequences

CONSTANTS Capacity,   \* requests the FIFO holds (4 in the code)
          Frames,     \* updates the owner may execute (o.frames)
          Period,     \* clock units from a tick to the next
          Tolerance,  \* how far past the next tick is an overrun
          Seconds     \* clock at which the loop gives up (o.seconds)

ASSUME CapacityAssumption == Capacity \in Nat \ {0}
ASSUME FramesAssumption == Frames \in Nat \ {0}
ASSUME ClockAssumption == /\ Period \in Nat \ {0}
                          /\ Tolerance \in Nat
                          /\ Seconds \in Nat

VARIABLES
  now,        \* the clock
  queue,      \* requests waiting: [update, epoch]
  mailbox,    \* the reply waiting, or NoReply
  stopping, accounted,   \* stopping, stop_accounted
  error,      \* the worker has failed
  submitted,  \* next_update, which is also stats.submitted
  stats,      \* the other counters of Statistics; used: replies executed
  worker, job, expired,  \* worker: step, request in hand, observe only
  fed,        \* how many observations the policy has seen, by the last one
  owner,      \* executor: next step
  acted, epoch, chosen, outcome,   \* actions.size(), epoch, reply, outcome
  destroying  \* stop is being called by the destructor

shared == <<queue, mailbox, stopping, accounted, error, submitted, stats>>
workerVars == <<worker, job, expired, fed>>
ownerVars == <<owner, acted, epoch, chosen, outcome, destroying>>
vars == <<now, shared, workerVars, ownerVars>>

Tick(updates) == updates * Period
Deadline(request) == Tick(request.update + 1)
Overrun(deadline) == now > deadline + Tolerance

(* Bound: beyond it every deadline of the run has passed. *)
EndOfTime == Tick(Frames + 1) + Tolerance + 1

NoReply == [update |-> -1, epoch |-> -1, finished |-> -1]
NoJob == [update |-> -1, epoch |-> -1]
Counters == {"observed_only", "decisions", "failed_requests", "stale_replies",
             "overwritten_replies", "abandoned_requests", "abandoned_replies", "used"}
Count(counter) == [stats EXCEPT ![counter] = @ + 1]

Init == /\ now = 0
        /\ queue = <<>> /\ mailbox = NoReply
        /\ stopping = FALSE /\ accounted = FALSE /\ error = FALSE
        /\ submitted = 0 /\ stats = [c \in Counters |-> 0]
        /\ worker = "start" /\ job = NoJob /\ expired = FALSE /\ fed = 0
        /\ owner = "setup" /\ acted = 0 /\ epoch = 0 /\ chosen = NoReply
        /\ outcome = "budget" /\ destroying = FALSE

Passing == /\ now < EndOfTime
           /\ now' = now + 1
           /\ UNCHANGED <<shared, workerVars, ownerVars>>
----
(* The worker thread: Impl::run.                                           *)

(* The floating-point environment of the constructor is installed.         *)
Start == /\ worker = "start"
         /\ worker' = "idle"
         /\ UNCHANGED <<now, shared, job, expired, fed, ownerVars>>

(* The first critical section: leave, pop a request, or wait.  stopping is *)
(* looked at first, so what is still queued then stays queued.             *)
Fetch ==
  /\ worker = "idle"
  /\ \/ /\ stopping
        /\ worker' = "exited"
        /\ UNCHANGED <<queue, job>>
     \/ /\ ~stopping /\ queue # <<>>
        /\ job' = Head(queue)
        /\ queue' = Tail(queue)
        /\ worker' = "popped"
     \/ /\ ~stopping /\ queue = <<>>
        /\ worker' = "asleep"
        /\ UNCHANGED <<queue, job>>
  /\ UNCHANGED <<now, mailbox, stopping, accounted, error, submitted, stats,
                 expired, fed, ownerVars>>

(* Outside the lock: an expired request is only observed.                  *)
Begin == /\ worker = "popped"
         /\ expired' = (now >= Deadline(job))
         /\ worker' = "working"
         /\ UNCHANGED <<now, shared, job, fed, ownerVars>>

(* A version in which an expired observation is dropped instead of         *)
(* observed.                                                               *)
DropExpired ==
  /\ worker = "working"
  /\ worker' = "idle"
  /\ job' = NoJob
  /\ IF expired
     THEN /\ stats' = Count("observed_only")
          /\ UNCHANGED <<mailbox, fed>>
     ELSE /\ fed' = job.update + 1
          /\ stats' = [Count("decisions") EXCEPT !["overwritten_replies"] =
                         @ + IF mailbox # NoReply THEN 1 ELSE 0]
          /\ mailbox' = [update |-> job.update, epoch |-> job.epoch, finished |-> now]
  /\ UNCHANGED <<now, queue, stopping, accounted, error, submitted, expired, ownerVars>>

(* The second critical section: the reply is stamped as it is published.   *)
Finish ==
  /\ worker = "working"
  /\ worker' = "idle"
  /\ job' = NoJob
  /\ fed' = job.update + 1
  /\ IF expired
     THEN stats' = Count("observed_only") /\ UNCHANGED mailbox
     ELSE /\ stats' = [Count("decisions") EXCEPT !["overwritten_replies"] =
                         @ + IF mailbox # NoReply THEN 1 ELSE 0]
          /\ mailbox' = [update |-> job.update, epoch |-> job.epoch, finished |-> now]
  /\ UNCHANGED <<now, queue, stopping, accounted, error, submitted, expired, ownerVars>>

(* The catch block: the policy threw while a request was in hand, or the   *)
(* environment could not be installed.                                     *)
Fail ==
  /\ worker \in {"start", "working"}
  /\ stats' = IF worker = "working" THEN Count("failed_requests") ELSE stats
  /\ error' = TRUE
  /\ stopping' = TRUE
  /\ worker' = "exited"
  /\ job' = NoJob
  /\ UNCHANGED <<now, queue, mailbox, accounted, submitted, expired, fed, ownerVars>>
----
(* The owner: run of the executor, and the members of Worker it calls.     *)

Throw(what) == /\ outcome' = what
               /\ owner' = "stop"

Notify == worker' = IF worker = "asleep" THEN "idle" ELSE worker

(* submit refuses a stopped worker and a full queue, and counts a request  *)
(* only once it is queued.  The update is acted, which is next_update.     *)
Refused == stopping \/ error \/ acted # submitted \/ Len(queue) = Capacity

(* A version in which the worker is not notified. *)
SubmitInSilence(next) ==
  IF Refused
  THEN /\ Throw("runtime_error")
       /\ UNCHANGED <<queue, submitted, workerVars>>
  ELSE /\ queue' = Append(queue, [update |-> acted, epoch |-> epoch])
       /\ submitted' = submitted + 1
       /\ owner' = next
       /\ UNCHANGED <<workerVars, outcome>>

SubmitThen(next) ==
  IF Refused
  THEN /\ Throw("runtime_error")
       /\ UNCHANGED <<queue, submitted, workerVars>>
  ELSE /\ queue' = Append(queue, [update |-> acted, epoch |-> epoch])
       /\ submitted' = submitted + 1
       /\ Notify
       /\ owner' = next
       /\ UNCHANGED <<job, expired, fed, outcome>>

(* The first submission is outside the try block: a refusal unwinds run,   *)
(* and the destructor of the worker is what stops it.                      *)
Setup == /\ owner = "setup"
         /\ SubmitThen("loop")
         /\ destroying' = (owner' = "stop")
         /\ UNCHANGED <<now, mailbox, stopping, accounted, error, stats,
                        acted, epoch, chosen>>

Loop == /\ owner = "loop"
        /\ owner' = IF acted < Frames /\ now < Seconds THEN "sleep" ELSE "stop"
        /\ UNCHANGED <<now, shared, workerVars, acted, epoch, chosen, outcome, destroying>>

WakeUp == /\ owner = "sleep"
          /\ now >= Tick(acted + 1)
          /\ IF Overrun(Tick(acted + 2))
             THEN Throw("deadline")
             ELSE owner' = "check" /\ UNCHANGED outcome
          /\ UNCHANGED <<now, shared, workerVars, acted, epoch, chosen, destroying>>

CheckFailure == /\ owner = "check"
                /\ IF error
                   THEN Throw("runtime_error")
                   ELSE owner' = "take" /\ UNCHANGED outcome
                /\ UNCHANGED <<now, shared, workerVars, acted, epoch, chosen, destroying>>

(* A version in which the update of the reply is not compared. *)
UsableThisEpoch(reply) == reply.epoch = epoch /\ reply.finished <= Tick(acted + 1)

Usable(reply) == /\ reply.update = acted
                 /\ reply.epoch = epoch
                 /\ reply.finished <= Tick(acted + 1)

(* A version in which the owner waits for a reply. *)
TakeWhenThere == /\ owner = "take"
                 /\ mailbox # NoReply
                 /\ mailbox' = NoReply
                 /\ chosen' = IF Usable(mailbox) THEN mailbox ELSE NoReply
                 /\ stats' = Count(IF Usable(mailbox) THEN "used" ELSE "stale_replies")
                 /\ owner' = "step"
                 /\ UNCHANGED <<now, queue, stopping, accounted, error, submitted,
                                workerVars, acted, epoch, outcome, destroying>>

(* take empties the mailbox, whatever it holds.                            *)
Take == /\ owner = "take"
        /\ mailbox' = NoReply
        /\ \/ /\ mailbox = NoReply
              /\ chosen' = NoReply
              /\ UNCHANGED stats
           \/ /\ mailbox # NoReply /\ Usable(mailbox)
              /\ chosen' = mailbox
              /\ stats' = Count("used")
           \/ /\ mailbox # NoReply /\ ~Usable(mailbox)
              /\ chosen' = NoReply
              /\ stats' = Count("stale_replies")
        /\ owner' = "step"
        /\ UNCHANGED <<now, queue, stopping, accounted, error, submitted, workerVars,
                       acted, epoch, outcome, destroying>>

(* session.step on the reply's input or the fallback.  It may throw before *)
(* the input is recorded; the checks after it may reject what it led to.   *)
StepThrows == /\ owner = "step"
              /\ Throw("runtime_error")
              /\ chosen' = NoReply
              /\ UNCHANGED <<now, shared, workerVars, acted, epoch, destroying>>

StepRejected == /\ owner = "step"
                /\ acted' = acted + 1
                /\ chosen' = NoReply
                /\ \E what \in {"death", "runtime_error"} : Throw(what)
                /\ UNCHANGED <<now, shared, workerVars, epoch, destroying>>

(* changed: the stage or the spell is another one.                         *)
Step(changed, complete) ==
  /\ owner = "step"
  /\ acted' = acted + 1
  /\ chosen' = NoReply
  /\ epoch' = IF changed THEN epoch + 1 ELSE epoch
  /\ outcome' = IF complete THEN "complete" ELSE outcome
  /\ owner' = IF ~complete /\ acted + 1 < Frames THEN "submit" ELSE "tail"
  /\ UNCHANGED <<now, shared, workerVars, destroying>>

Submit == /\ owner = "submit"
          /\ SubmitThen("tail")
          /\ UNCHANGED <<now, mailbox, stopping, accounted, error, stats,
                         acted, epoch, chosen, destroying>>

(* The overrun at the end of an update prevails over completion.           *)
TailCheck == /\ owner = "tail"
             /\ IF Overrun(Tick(acted + 1))
                THEN Throw("deadline")
                ELSE /\ owner' = IF outcome = "complete" THEN "stop" ELSE "loop"
                     /\ UNCHANGED outcome
             /\ UNCHANGED <<now, shared, workerVars, acted, epoch, chosen, destroying>>
----
(* Worker::stop, called by run and again by the destructor.                *)

(* A version in which stop_accounted is not consulted. *)
AccountAlways ==
  /\ owner = "stop"
  /\ stopping' = TRUE
  /\ accounted' = TRUE
  /\ stats' = [stats EXCEPT !["abandoned_requests"] = @ + Len(queue)]
  /\ owner' = "notify"
  /\ UNCHANGED <<now, queue, mailbox, error, submitted, workerVars,
                 acted, epoch, chosen, outcome, destroying>>

Stop == /\ owner = "stop"
        /\ stopping' = TRUE
        /\ accounted' = TRUE
        /\ stats' = [stats EXCEPT !["abandoned_requests"] =
                       @ + IF accounted THEN 0 ELSE Len(queue)]
        /\ owner' = "notify"
        /\ UNCHANGED <<now, queue, mailbox, error, submitted, workerVars,
                       acted, epoch, chosen, outcome, destroying>>

(* A version in which stop joins without waking the worker. *)
JoinAsleep == /\ owner = "notify"
              /\ owner' = "join"
              /\ UNCHANGED <<now, shared, workerVars, acted, epoch, chosen,
                             outcome, destroying>>

NotifyStop == /\ owner = "notify"
              /\ Notify
              /\ owner' = "join"
              /\ UNCHANGED <<now, shared, job, expired, fed, acted, epoch, chosen,
                             outcome, destroying>>

Join == /\ owner = "join"
        /\ worker = "exited"
        /\ owner' = "drain"
        /\ UNCHANGED <<now, shared, workerVars, acted, epoch, chosen, outcome, destroying>>

Drain == /\ owner = "drain"
         /\ mailbox' = NoReply
         /\ stats' = IF mailbox # NoReply THEN Count("abandoned_replies") ELSE stats
         /\ owner' = IF destroying THEN "gone" ELSE "verdict"
         /\ UNCHANGED <<now, queue, stopping, accounted, error, submitted, workerVars,
                        acted, epoch, chosen, outcome, destroying>>

(* A version in which a failure of the worker is not looked for after the  *)
(* loop.                                                                   *)
TrustTheLoop == /\ owner = "verdict"
                /\ owner' = "report"
                /\ UNCHANGED <<now, shared, workerVars, acted, epoch, chosen,
                               outcome, destroying>>

Verdict == /\ owner = "verdict"
           /\ outcome' = IF error THEN "runtime_error" ELSE outcome
           /\ owner' = "report"
           /\ UNCHANGED <<now, shared, workerVars, acted, epoch, chosen, destroying>>

Destroy == /\ owner = "report"
           /\ owner' = "stop"
           /\ destroying' = TRUE
           /\ UNCHANGED <<now, shared, workerVars, acted, epoch, chosen, outcome>>
----
Worker == Start \/ Fetch \/ Begin \/ Finish \/ Fail

Owner == \/ Setup \/ Loop \/ WakeUp \/ CheckFailure \/ Take
         \/ StepThrows \/ StepRejected
         \/ \E changed, complete \in BOOLEAN : Step(changed, complete)
         \/ Submit \/ TailCheck
         \/ Stop \/ NotifyStop \/ Join \/ Drain \/ Verdict \/ Destroy

Next == Passing \/ Worker \/ Owner

(* Time passes and the owner's thread is scheduled; of the worker nothing  *)
(* is assumed: its search may take for ever.                               *)
Unattended == Init /\ [][Next]_vars /\ WF_vars(Passing) /\ WF_vars(Owner)

(* The search of one decision is bounded, so the worker moves as well.     *)
Spec == Unattended /\ WF_vars(Worker)
----
Updates == 0 .. Frames
OwnerSteps == {"setup", "loop", "sleep", "check", "take", "step", "submit", "tail",
               "stop", "notify", "join", "drain", "verdict", "report", "gone"}
WorkerSteps == {"start", "idle", "asleep", "popped", "working", "exited"}
Requests == [update : Updates, epoch : Updates]
Replies == [update : Updates, epoch : Updates, finished : 0 .. EndOfTime]

(* Types; the FIFO is never longer than its capacity.                      *)
TypeOK ==
  /\ now \in 0 .. EndOfTime
  /\ queue \in Seq(Requests) /\ Len(queue) <= Capacity
  /\ mailbox \in Replies \cup {NoReply} /\ chosen \in Replies \cup {NoReply}
  /\ stopping \in BOOLEAN /\ accounted \in BOOLEAN /\ error \in BOOLEAN
  /\ submitted \in Updates /\ acted \in Updates /\ epoch \in Updates /\ fed \in Updates
  /\ stats \in [Counters -> Nat]
  /\ worker \in WorkerSteps /\ job \in Requests \cup {NoJob} /\ expired \in BOOLEAN
  /\ owner \in OwnerSteps /\ destroying \in BOOLEAN
  /\ outcome \in {"budget", "complete", "death", "deadline", "runtime_error"}

(* No request is lost or counted twice: each one submitted was observed,   *)
(* decided, failed, is in the worker's hand or waits, and the waiting ones *)
(* are the abandoned ones once stop has accounted for them (lines 83-120,  *)
(* 133-144, 155-176), whichever of the two threads gets there first.       *)
InHand == IF job = NoJob THEN 0 ELSE 1
AllRequestsAccounted ==
  /\ submitted = stats["observed_only"] + stats["decisions"] + stats["failed_requests"]
                   + InHand + Len(queue)
  /\ stats["abandoned_requests"] = IF accounted THEN Len(queue) ELSE 0

(* No reply is lost or counted twice: each decision was executed, refused  *)
(* as stale, overwritten, abandoned, or is in the mailbox.                 *)
AllRepliesAccounted ==
  stats["decisions"] = stats["used"] + stats["stale_replies"] + stats["overwritten_replies"]
                        + stats["abandoned_replies"] + IF mailbox = NoReply THEN 0 ELSE 1

(* Nothing that was asked or answered disappears or is counted twice,      *)
(* whichever of submission, search, failure and stop comes first.          *)
NothingUnaccounted == AllRequestsAccounted /\ AllRepliesAccounted

(* A reply that is executed answers the state the game is in: the policy   *)
(* has then seen every observation submitted and has nothing else to do.   *)
UsedReplyIsCaughtUp ==
  chosen # NoReply => fed = acted + 1 /\ fed = submitted /\ queue = <<>> /\ job = NoJob

(* The worker never sleeps on work or through stop: it waits only while    *)
(* the queue is empty, and after stopping is set only until stop notifies. *)
NoLostWakeup ==
  worker = "asleep" => queue = <<>> /\ (stopping => owner = "notify")

(* A failure of the policy is reported whenever it happens, also when the  *)
(* game completed before the owner could see it (tools/online_live.cpp     *)
(* lines 393-398).                                                         *)
FailureNeverMasked ==
  owner \in {"report", "gone"} /\ error => outcome = "runtime_error"

(* The policy's history has no hole: expired or not, observations reach it *)
(* one update after the other (online_live.hpp lines 29-30).               *)
ConsecutiveHistory == [][fed' # fed => fed' = fed + 1]_vars

(* Every run ends: the worker is woken, joined and accounted for, twice.   *)
Terminates == <>(owner = "gone")

(* Native execution never waits for the search: the owner leaves its loop  *)
(* even if the worker takes no step at all.                                *)
LoopLeft == owner \in {"stop", "notify", "join", "drain", "verdict", "report", "gone"}
NeverWaits == <>LoopLeft
====
