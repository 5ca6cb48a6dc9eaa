---- MODULE LiveWorkerProofs ----
(***************************************************************************)
(* For every capacity, number of updates, period, tolerance and time limit *)
(* the executor and its worker keep the invariants of LiveWorker: nothing  *)
(* is lost between the two threads, the policy sees every observation in   *)
(* order, a reply is executed only in the state it answers, no wakeup is   *)
(* missed and no failure is masked.                                        *)
(***************************************************************************)
EXTENDS LiveWorker, TLAPS

\* Where the executor is determines how far it has submitted.
OwnerInv ==
  /\ owner \in {"setup", "submit"} => submitted = acted /\ acted < Frames
  /\ owner \in {"sleep", "check", "take", "step"} => submitted = acted + 1 /\ acted < Frames
  /\ owner = "loop" => submitted = acted + 1 \/ acted = Frames
  /\ owner = "tail" => submitted = acted + 1 \/ acted = Frames \/ outcome = "complete"
  /\ epoch <= acted
  /\ chosen # NoReply => owner = "step"

\* The updates in the worker's hand and in the FIFO are the last ones
\* submitted, without a hole; a worker that goes on has seen all others.
FifoInv ==
  /\ worker \in {"popped", "working"} <=> job # NoJob
  /\ \A i \in 1 .. Len(queue) : queue[i].update = submitted - Len(queue) + i - 1
  /\ job # NoJob => job.update = submitted - Len(queue) - 1
  /\ worker # "exited" => fed + InHand + Len(queue) = submitted
  /\ fed + InHand + Len(queue) <= submitted
  /\ mailbox # NoReply => mailbox.update < fed

\* Once the threads are joined the worker has exited; what the destructor
\* finds is a failure already reported or none at all.
StopInv ==
  /\ accounted => stopping
  /\ owner \in {"drain", "verdict", "report", "gone"} => worker = "exited"
  /\ destroying => owner \in {"stop", "notify", "join", "drain", "gone"}
  /\ destroying => outcome = "runtime_error" \/ (worker = "exited" /\ ~error)
  /\ owner = "gone" => destroying

IInv == /\ TypeOK /\ OwnerInv /\ FifoInv /\ StopInv
        /\ AllRequestsAccounted /\ AllRepliesAccounted
        /\ UsedReplyIsCaughtUp /\ NoLostWakeup /\ FailureNeverMasked
----
LEMMA EndOfTimeType == EndOfTime \in Nat
<1>1. Frames + 1 \in Nat /\ Period \in Nat /\ Tolerance \in Nat BY FramesAssumption, ClockAssumption
<1>2. (Frames + 1) * Period \in Nat BY <1>1
<1> QED BY <1>1, <1>2 DEF EndOfTime, Tick

LEMMA InitInv == Init => IInv
<1> SUFFICES ASSUME Init PROVE IInv OBVIOUS
<1>1. TypeOK
 <2>1. queue \in Seq(Requests) /\ Len(queue) <= Capacity BY CapacityAssumption DEF Init
 <2>2. now \in 0 .. EndOfTime BY EndOfTimeType DEF Init
 <2>3. stats \in [Counters -> Nat] BY DEF Init
 <2>4. /\ mailbox = NoReply /\ chosen = NoReply /\ job = NoJob
       /\ submitted \in Updates /\ acted \in Updates /\ epoch \in Updates /\ fed \in Updates
   BY FramesAssumption DEF Init, Updates
 <2>5. /\ stopping \in BOOLEAN /\ accounted \in BOOLEAN /\ error \in BOOLEAN
       /\ expired \in BOOLEAN /\ destroying \in BOOLEAN
       /\ worker \in WorkerSteps /\ owner \in OwnerSteps /\ outcome = "budget"
   BY DEF Init, OwnerSteps, WorkerSteps
 <2> QED BY <2>1, <2>2, <2>3, <2>4, <2>5 DEF TypeOK
<1>2. OwnerInv /\ FifoInv /\ StopInv BY FramesAssumption DEF Init, OwnerInv, FifoInv, StopInv, InHand
<1>3. AllRequestsAccounted /\ AllRepliesAccounted
  BY DEF Init, AllRequestsAccounted, AllRepliesAccounted, InHand, Counters
<1>4. UsedReplyIsCaughtUp /\ NoLostWakeup /\ FailureNeverMasked
  BY DEF Init, UsedReplyIsCaughtUp, NoLostWakeup, FailureNeverMasked
<1> QED BY <1>1, <1>2, <1>3, <1>4 DEF IInv

LEMMA Numbers ==
  ASSUME TypeOK
  PROVE  /\ submitted \in Nat /\ acted \in Nat /\ fed \in Nat /\ Len(queue) \in Nat
         /\ InHand \in {0, 1}
         /\ stats["observed_only"] \in Nat /\ stats["decisions"] \in Nat
         /\ stats["failed_requests"] \in Nat /\ stats["stale_replies"] \in Nat
         /\ stats["overwritten_replies"] \in Nat /\ stats["abandoned_requests"] \in Nat
         /\ stats["abandoned_replies"] \in Nat /\ stats["used"] \in Nat
<1>1. stats \in [Counters -> Nat] /\ queue \in Seq(Requests) BY DEF TypeOK
<1>2. submitted \in Nat /\ acted \in Nat /\ fed \in Nat BY FramesAssumption DEF TypeOK, Updates
<1>3. Len(queue) \in Nat /\ InHand \in {0, 1} BY <1>1 DEF InHand
<1> QED BY <1>1, <1>2, <1>3 DEF Counters

\* Steps of the executor that leave the worker's side alone.
LEMMA LoopInv == ASSUME IInv, Loop PROVE IInv'
<1>1. TypeOK' /\ OwnerInv'
  BY FramesAssumption DEF IInv, TypeOK, OwnerInv, Loop, Throw, shared, workerVars, ownerVars,
     Updates, OwnerSteps
<1>2. FifoInv' /\ StopInv'
  BY DEF IInv, TypeOK, OwnerInv, FifoInv, StopInv, Loop, Throw, shared, workerVars, ownerVars, InHand
<1>3. AllRequestsAccounted' /\ AllRepliesAccounted' /\ UsedReplyIsCaughtUp' /\ NoLostWakeup'
      /\ FailureNeverMasked'
  BY DEF IInv, OwnerInv, StopInv, AllRequestsAccounted, AllRepliesAccounted, UsedReplyIsCaughtUp,
     NoLostWakeup, FailureNeverMasked, Loop, Throw, shared, workerVars, ownerVars, InHand
<1> QED BY <1>1, <1>2, <1>3 DEF IInv

LEMMA WakeUpInv == ASSUME IInv, WakeUp PROVE IInv'
<1>1. TypeOK' /\ OwnerInv'
  BY FramesAssumption DEF IInv, TypeOK, OwnerInv, WakeUp, Throw, shared, workerVars, ownerVars,
     Updates, OwnerSteps
<1>2. FifoInv' /\ StopInv'
  BY DEF IInv, TypeOK, OwnerInv, FifoInv, StopInv, WakeUp, Throw, shared, workerVars, ownerVars, InHand
<1>3. AllRequestsAccounted' /\ AllRepliesAccounted' /\ UsedReplyIsCaughtUp' /\ NoLostWakeup'
      /\ FailureNeverMasked'
  BY DEF IInv, OwnerInv, StopInv, AllRequestsAccounted, AllRepliesAccounted, UsedReplyIsCaughtUp,
     NoLostWakeup, FailureNeverMasked, WakeUp, Throw, shared, workerVars, ownerVars, InHand
<1> QED BY <1>1, <1>2, <1>3 DEF IInv

LEMMA StepThrowsInv == ASSUME IInv, StepThrows PROVE IInv'
<1>1. TypeOK' /\ OwnerInv'
  BY FramesAssumption DEF IInv, TypeOK, OwnerInv, StepThrows, Throw, shared, workerVars, ownerVars,
     Updates, OwnerSteps
<1>2. FifoInv' /\ StopInv'
  BY DEF IInv, TypeOK, OwnerInv, FifoInv, StopInv, StepThrows, Throw, shared, workerVars, ownerVars, InHand
<1>3. AllRequestsAccounted' /\ AllRepliesAccounted' /\ UsedReplyIsCaughtUp' /\ NoLostWakeup'
      /\ FailureNeverMasked'
  BY DEF IInv, OwnerInv, StopInv, AllRequestsAccounted, AllRepliesAccounted, UsedReplyIsCaughtUp,
     NoLostWakeup, FailureNeverMasked, StepThrows, Throw, shared, workerVars, ownerVars, InHand
<1> QED BY <1>1, <1>2, <1>3 DEF IInv

LEMMA CheckFailureInv == ASSUME IInv, CheckFailure PROVE IInv'
<1>1. TypeOK' /\ OwnerInv'
  BY FramesAssumption DEF IInv, TypeOK, OwnerInv, CheckFailure, Throw, shared, workerVars, ownerVars,
     Updates, OwnerSteps, WorkerSteps
<1>2. FifoInv' /\ StopInv'
  BY DEF IInv, TypeOK, OwnerInv, FifoInv, StopInv, CheckFailure, Throw, shared, workerVars, ownerVars, InHand
<1>3. AllRequestsAccounted' /\ AllRepliesAccounted' /\ UsedReplyIsCaughtUp' /\ NoLostWakeup'
      /\ FailureNeverMasked'
  BY DEF IInv, OwnerInv, FifoInv, StopInv, AllRequestsAccounted, AllRepliesAccounted,
     UsedReplyIsCaughtUp, NoLostWakeup, FailureNeverMasked, CheckFailure, Throw, shared, workerVars,
     ownerVars, InHand
<1> QED BY <1>1, <1>2, <1>3 DEF IInv

LEMMA StepRejectedInv == ASSUME IInv, StepRejected PROVE IInv'
<1>1. TypeOK' /\ OwnerInv'
  BY FramesAssumption DEF IInv, TypeOK, OwnerInv, StepRejected, Throw, shared, workerVars, ownerVars,
     Updates, OwnerSteps, WorkerSteps
<1>2. FifoInv' /\ StopInv'
  BY DEF IInv, TypeOK, OwnerInv, FifoInv, StopInv, StepRejected, Throw, shared, workerVars, ownerVars, InHand
<1>3. AllRequestsAccounted' /\ AllRepliesAccounted' /\ UsedReplyIsCaughtUp' /\ NoLostWakeup'
      /\ FailureNeverMasked'
  BY DEF IInv, OwnerInv, FifoInv, StopInv, AllRequestsAccounted, AllRepliesAccounted,
     UsedReplyIsCaughtUp, NoLostWakeup, FailureNeverMasked, StepRejected, Throw, shared, workerVars,
     ownerVars, InHand
<1> QED BY <1>1, <1>2, <1>3 DEF IInv

LEMMA StepInv == ASSUME IInv, NEW changed \in BOOLEAN, NEW complete \in BOOLEAN, Step(changed, complete) PROVE IInv'
<1>1. TypeOK' /\ OwnerInv'
  BY FramesAssumption DEF IInv, TypeOK, OwnerInv, Step, shared, workerVars, ownerVars,
     Updates, OwnerSteps, WorkerSteps
<1>2. FifoInv' /\ StopInv'
  BY DEF IInv, TypeOK, OwnerInv, FifoInv, StopInv, Step, shared, workerVars, ownerVars, InHand
<1>3. AllRequestsAccounted' /\ AllRepliesAccounted' /\ UsedReplyIsCaughtUp' /\ NoLostWakeup'
      /\ FailureNeverMasked'
  BY DEF IInv, OwnerInv, FifoInv, StopInv, AllRequestsAccounted, AllRepliesAccounted,
     UsedReplyIsCaughtUp, NoLostWakeup, FailureNeverMasked, Step, shared, workerVars, ownerVars, InHand
<1> QED BY <1>1, <1>2, <1>3 DEF IInv

LEMMA TailCheckInv == ASSUME IInv, TailCheck PROVE IInv'
<1>1. TypeOK' /\ OwnerInv'
  BY FramesAssumption DEF IInv, TypeOK, OwnerInv, TailCheck, Throw, shared, workerVars, ownerVars,
     Updates, OwnerSteps, WorkerSteps
<1>2. FifoInv' /\ StopInv'
  BY DEF IInv, TypeOK, OwnerInv, FifoInv, StopInv, TailCheck, Throw, shared, workerVars, ownerVars, InHand
<1>3. AllRequestsAccounted' /\ AllRepliesAccounted' /\ UsedReplyIsCaughtUp' /\ NoLostWakeup'
      /\ FailureNeverMasked'
  BY DEF IInv, OwnerInv, FifoInv, StopInv, AllRequestsAccounted, AllRepliesAccounted,
     UsedReplyIsCaughtUp, NoLostWakeup, FailureNeverMasked, TailCheck, Throw, shared, workerVars,
     ownerVars, InHand
<1> QED BY <1>1, <1>2, <1>3 DEF IInv

LEMMA NotifyStopInv == ASSUME IInv, NotifyStop PROVE IInv'
<1>1. TypeOK' /\ OwnerInv'
  BY FramesAssumption DEF IInv, TypeOK, OwnerInv, NotifyStop, Notify, shared, workerVars, ownerVars,
     Updates, OwnerSteps, WorkerSteps
<1>2. FifoInv' /\ StopInv'
  BY DEF IInv, TypeOK, OwnerInv, FifoInv, StopInv, NotifyStop, Notify, shared, workerVars, ownerVars, InHand
<1>3. AllRequestsAccounted' /\ AllRepliesAccounted' /\ UsedReplyIsCaughtUp' /\ NoLostWakeup'
      /\ FailureNeverMasked'
  BY DEF IInv, OwnerInv, FifoInv, StopInv, AllRequestsAccounted, AllRepliesAccounted,
     UsedReplyIsCaughtUp, NoLostWakeup, FailureNeverMasked, NotifyStop, Notify, shared, workerVars,
     ownerVars, InHand
<1> QED BY <1>1, <1>2, <1>3 DEF IInv

LEMMA JoinInv == ASSUME IInv, Join PROVE IInv'
<1>1. TypeOK' /\ OwnerInv'
  BY FramesAssumption DEF IInv, TypeOK, OwnerInv, Join, shared, workerVars, ownerVars,
     Updates, OwnerSteps, WorkerSteps
<1>2. FifoInv' /\ StopInv'
  BY DEF IInv, TypeOK, OwnerInv, FifoInv, StopInv, Join, shared, workerVars, ownerVars, InHand
<1>3. AllRequestsAccounted' /\ AllRepliesAccounted' /\ UsedReplyIsCaughtUp' /\ NoLostWakeup'
      /\ FailureNeverMasked'
  BY DEF IInv, OwnerInv, FifoInv, StopInv, AllRequestsAccounted, AllRepliesAccounted,
     UsedReplyIsCaughtUp, NoLostWakeup, FailureNeverMasked, Join, shared, workerVars, ownerVars, InHand
<1> QED BY <1>1, <1>2, <1>3 DEF IInv

LEMMA VerdictInv == ASSUME IInv, Verdict PROVE IInv'
<1>1. TypeOK' /\ OwnerInv'
  BY FramesAssumption DEF IInv, TypeOK, OwnerInv, Verdict, shared, workerVars, ownerVars,
     Updates, OwnerSteps, WorkerSteps
<1>2. FifoInv' /\ StopInv'
  BY DEF IInv, TypeOK, OwnerInv, FifoInv, StopInv, Verdict, shared, workerVars, ownerVars, InHand
<1>3. AllRequestsAccounted' /\ AllRepliesAccounted' /\ UsedReplyIsCaughtUp' /\ NoLostWakeup'
      /\ FailureNeverMasked'
  BY DEF IInv, OwnerInv, FifoInv, StopInv, AllRequestsAccounted, AllRepliesAccounted,
     UsedReplyIsCaughtUp, NoLostWakeup, FailureNeverMasked, Verdict, shared, workerVars, ownerVars, InHand
<1> QED BY <1>1, <1>2, <1>3 DEF IInv

LEMMA DestroyInv == ASSUME IInv, Destroy PROVE IInv'
<1>1. TypeOK' /\ OwnerInv'
  BY FramesAssumption DEF IInv, TypeOK, OwnerInv, Destroy, shared, workerVars, ownerVars,
     Updates, OwnerSteps, WorkerSteps
<1>2. FifoInv' /\ StopInv'
  BY DEF IInv, TypeOK, OwnerInv, FifoInv, StopInv, FailureNeverMasked, Destroy, shared, workerVars, ownerVars,
     InHand
<1>3. AllRequestsAccounted' /\ AllRepliesAccounted' /\ UsedReplyIsCaughtUp' /\ NoLostWakeup'
      /\ FailureNeverMasked'
  BY DEF IInv, OwnerInv, FifoInv, StopInv, AllRequestsAccounted, AllRepliesAccounted,
     UsedReplyIsCaughtUp, NoLostWakeup, FailureNeverMasked, Destroy, shared, workerVars, ownerVars, InHand
<1> QED BY <1>1, <1>2, <1>3 DEF IInv
----
LEMMA PassingInv == ASSUME IInv, Passing PROVE IInv'
<1>1. TypeOK' /\ OwnerInv'
  BY FramesAssumption, EndOfTimeType DEF IInv, TypeOK, OwnerInv, Passing, shared, workerVars, ownerVars,
     Updates, OwnerSteps, WorkerSteps
<1>2. FifoInv' /\ StopInv'
  BY DEF IInv, TypeOK, OwnerInv, FifoInv, StopInv, Passing, shared, workerVars, ownerVars, InHand
<1>3. AllRequestsAccounted' /\ AllRepliesAccounted' /\ UsedReplyIsCaughtUp' /\ NoLostWakeup'
      /\ FailureNeverMasked'
  BY DEF IInv, OwnerInv, FifoInv, StopInv, AllRequestsAccounted, AllRepliesAccounted,
     UsedReplyIsCaughtUp, NoLostWakeup, FailureNeverMasked, Passing, shared, workerVars, ownerVars, InHand
<1> QED BY <1>1, <1>2, <1>3 DEF IInv

LEMMA StartInv == ASSUME IInv, Start PROVE IInv'
<1>1. TypeOK' /\ OwnerInv'
  BY FramesAssumption DEF IInv, TypeOK, OwnerInv, Start, shared, workerVars, ownerVars,
     Updates, OwnerSteps, WorkerSteps
<1>2. FifoInv' /\ StopInv'
  BY DEF IInv, TypeOK, OwnerInv, FifoInv, StopInv, Start, shared, workerVars, ownerVars, InHand
<1>3. AllRequestsAccounted' /\ AllRepliesAccounted' /\ UsedReplyIsCaughtUp' /\ NoLostWakeup'
      /\ FailureNeverMasked'
  BY DEF IInv, OwnerInv, FifoInv, StopInv, AllRequestsAccounted, AllRepliesAccounted,
     UsedReplyIsCaughtUp, NoLostWakeup, FailureNeverMasked, Start, shared, workerVars, ownerVars, InHand
<1> QED BY <1>1, <1>2, <1>3 DEF IInv

LEMMA BeginInv == ASSUME IInv, Begin PROVE IInv'
<1>1. TypeOK' /\ OwnerInv'
  BY FramesAssumption DEF IInv, TypeOK, OwnerInv, Begin, shared, workerVars, ownerVars,
     Updates, OwnerSteps, WorkerSteps
<1>2. FifoInv' /\ StopInv'
  BY DEF IInv, TypeOK, OwnerInv, FifoInv, StopInv, Begin, shared, workerVars, ownerVars, InHand
<1>3. AllRequestsAccounted' /\ AllRepliesAccounted' /\ UsedReplyIsCaughtUp' /\ NoLostWakeup'
      /\ FailureNeverMasked'
  BY DEF IInv, OwnerInv, FifoInv, StopInv, AllRequestsAccounted, AllRepliesAccounted,
     UsedReplyIsCaughtUp, NoLostWakeup, FailureNeverMasked, Begin, shared, workerVars, ownerVars, InHand
<1> QED BY <1>1, <1>2, <1>3 DEF IInv

\* The three cases of the critical section: leaving, popping, waiting.
LEMMA FetchInv == ASSUME IInv, Fetch PROVE IInv'
<1>1. CASE stopping
 <2>1. worker' = "exited" /\ UNCHANGED <<queue, job>> BY <1>1 DEF Fetch
 <2>2. TypeOK' /\ OwnerInv' /\ FifoInv' /\ StopInv'
   BY <2>1 DEF IInv, TypeOK, OwnerInv, FifoInv, StopInv, Fetch, ownerVars, WorkerSteps, InHand
 <2>3. AllRequestsAccounted' /\ AllRepliesAccounted' /\ UsedReplyIsCaughtUp' /\ NoLostWakeup'
       /\ FailureNeverMasked'
   BY <2>1 DEF IInv, AllRequestsAccounted, AllRepliesAccounted, UsedReplyIsCaughtUp, NoLostWakeup,
      FailureNeverMasked, Fetch, ownerVars, InHand
 <2> QED BY <2>2, <2>3 DEF IInv
<1>2. CASE ~stopping /\ queue # <<>>
 <2>1. /\ job' = Head(queue) /\ queue' = Tail(queue) /\ worker' = "popped"
       /\ job = NoJob
   BY <1>2 DEF Fetch, IInv, FifoInv
 <2>2. /\ queue \in Seq(Requests) /\ Len(queue) \in Nat \ {0}
       /\ Head(queue) \in Requests /\ Head(queue) = queue[1]
       /\ Tail(queue) \in Seq(Requests) /\ Len(Tail(queue)) = Len(queue) - 1
       /\ \A i \in 1 .. Len(queue) - 1 : Tail(queue)[i] = queue[i + 1]
   BY <1>2 DEF IInv, TypeOK
 <2>3. job' \in Requests /\ job' # NoJob /\ job'.update = submitted - Len(queue)
  <3>1. job' # NoJob BY <2>1, <2>2 DEF Requests, NoJob, Updates
  <3> QED BY <2>1, <2>2, <3>1 DEF IInv, FifoInv, TypeOK, Updates
 <2>4. InHand = 0 /\ InHand' = 1 BY <2>1, <2>3 DEF InHand
 <2>0. TypeOK' BY <2>1, <2>2, <2>3, CapacityAssumption DEF IInv, TypeOK, Fetch, ownerVars, WorkerSteps
 <2>5. OwnerInv' /\ StopInv' BY <2>1, <1>2 DEF IInv, OwnerInv, StopInv, Fetch, ownerVars
 <2>6. FifoInv'
  <3>1. \A i \in 1 .. Len(queue') : queue'[i].update = submitted' - Len(queue') + i - 1
    BY <2>1, <2>2 DEF IInv, FifoInv, TypeOK, Updates, Fetch
  <3>2. fed + Len(queue) = submitted /\ fed \in Nat BY <2>4, Numbers DEF IInv, FifoInv, Fetch
  <3>3. job'.update = submitted' - Len(queue') - 1 /\ fed' + 1 + Len(queue') = submitted'
    BY <2>1, <2>2, <2>3, <3>2, Numbers DEF IInv, Fetch
  <3>4. /\ fed' + InHand' + Len(queue') = submitted'
        /\ fed' + InHand' + Len(queue') <= submitted'
    BY <2>2, <2>4, <3>2, <3>3, Numbers DEF IInv, Fetch
  <3>5. worker' = "popped" /\ job' # NoJob /\ UNCHANGED <<mailbox, fed>> BY <2>1, <2>3 DEF Fetch
  <3>6. mailbox' # NoReply => mailbox'.update < fed' BY <3>5 DEF IInv, FifoInv
  <3>7. worker' \in {"popped", "working"} <=> job' # NoJob BY <3>5
  <3> QED BY <3>1, <3>3, <3>4, <3>6, <3>7, <2>1 DEF FifoInv
 <2>7. AllRequestsAccounted' /\ AllRepliesAccounted'
   BY SMTT(30), <2>1, <2>2, <2>4, <1>2, Numbers
   DEF IInv, StopInv, AllRequestsAccounted, AllRepliesAccounted, Fetch
 <2>8. UsedReplyIsCaughtUp' /\ NoLostWakeup' /\ FailureNeverMasked'
   BY <2>1, <1>2 DEF IInv, UsedReplyIsCaughtUp, NoLostWakeup, FailureNeverMasked, Fetch, ownerVars
 <2> QED BY <2>0, <2>5, <2>6, <2>7, <2>8 DEF IInv
<1>3. CASE ~stopping /\ queue = <<>>
 <2>1. worker' = "asleep" /\ UNCHANGED <<queue, job>> BY <1>3 DEF Fetch
 <2>2. TypeOK' /\ OwnerInv' /\ FifoInv' /\ StopInv'
   BY <2>1 DEF IInv, TypeOK, OwnerInv, FifoInv, StopInv, Fetch, ownerVars, WorkerSteps, InHand
 <2>3. AllRequestsAccounted' /\ AllRepliesAccounted' /\ UsedReplyIsCaughtUp' /\ NoLostWakeup'
       /\ FailureNeverMasked'
   BY <2>1, <1>3 DEF IInv, AllRequestsAccounted, AllRepliesAccounted, UsedReplyIsCaughtUp,
      NoLostWakeup, FailureNeverMasked, Fetch, ownerVars, InHand
 <2> QED BY <2>2, <2>3 DEF IInv
<1> QED BY <1>1, <1>2, <1>3

LEMMA FinishInv == ASSUME IInv, Finish PROVE IInv'
<1>1. /\ job \in Requests /\ job # NoJob /\ InHand = 1 /\ job' = NoJob /\ InHand' = 0
      /\ job.update \in Updates /\ job.epoch \in Updates
      /\ worker = "working" /\ worker' = "idle" /\ owner' = owner
  BY DEF IInv, FifoInv, TypeOK, Finish, InHand, Requests, ownerVars
<1>2. /\ fed' = job.update + 1 /\ fed = job.update /\ fed' + Len(queue) = submitted
      /\ fed' \in Updates
 <2>1. job.update = submitted - Len(queue) - 1 /\ fed + 1 + Len(queue) = submitted BY <1>1 DEF IInv, FifoInv
 <2>2. fed' = job.update + 1 /\ submitted \in Updates BY DEF IInv, TypeOK, Finish
 <2>3. submitted \in Nat /\ submitted <= Frames /\ fed \in Nat /\ Len(queue) \in Nat
       /\ Frames \in Nat
   BY <2>2, Numbers, FramesAssumption DEF IInv, Updates
 <2>4. fed = job.update /\ fed' + Len(queue) = submitted BY <2>1, <2>2, <2>3
 <2>5. fed' \in Updates BY <2>2, <2>3, <2>4 DEF Updates
 <2> QED BY <2>2, <2>4, <2>5
<1>3. \/ /\ stats' = Count("observed_only") /\ mailbox' = mailbox
      \/ /\ stats' = [Count("decisions") EXCEPT !["overwritten_replies"] =
                         @ + IF mailbox # NoReply THEN 1 ELSE 0]
         /\ mailbox' = [update |-> job.update, epoch |-> job.epoch, finished |-> now]
  BY DEF Finish
<1>4. /\ mailbox' \in Replies \cup {NoReply}
      /\ mailbox' # mailbox => mailbox' # NoReply /\ mailbox'.update = job.update
  BY <1>1, <1>3 DEF IInv, TypeOK, Replies, NoReply, Updates
<1>5. TypeOK'
 <2>1. stats' \in [Counters -> Nat] BY <1>3 DEF IInv, TypeOK, Count, Counters
 <2> QED BY <1>1, <1>2, <1>4, <2>1 DEF IInv, TypeOK, Finish, ownerVars, WorkerSteps
<1>6. OwnerInv' /\ StopInv' BY <1>1 DEF IInv, OwnerInv, StopInv, Finish, ownerVars
<1>7. FifoInv'
 <2>1. mailbox' # NoReply => mailbox'.update < fed'
   BY SMTT(30), <1>1, <1>2, <1>4 DEF IInv, FifoInv, TypeOK, Replies, Updates
 <2> QED BY SMTT(30), <1>1, <1>2, <2>1 DEF IInv, FifoInv, TypeOK, Finish, Updates
<1>8. AllRequestsAccounted'
 <2>1. stats'["observed_only"] + stats'["decisions"]
         = stats["observed_only"] + stats["decisions"] + 1
   BY <1>3 DEF IInv, TypeOK, Count, Counters
 <2>2. /\ stats'["failed_requests"] = stats["failed_requests"]
       /\ stats'["abandoned_requests"] = stats["abandoned_requests"]
   BY <1>3 DEF IInv, TypeOK, Count, Counters
 <2>3. UNCHANGED <<queue, submitted, accounted>> BY DEF Finish
 <2>4. /\ stats'["observed_only"] \in Nat /\ stats'["decisions"] \in Nat BY <1>5 DEF TypeOK, Counters
 <2> QED BY <1>1, <2>1, <2>2, <2>3, <2>4, Numbers DEF IInv, AllRequestsAccounted
<1>9. AllRepliesAccounted'
 <2>1. CASE mailbox' = mailbox /\ stats' = Count("observed_only")
   BY <2>1 DEF IInv, TypeOK, AllRepliesAccounted, Count, Counters
 <2>2. CASE stats' = [Count("decisions") EXCEPT !["overwritten_replies"] =
                        @ + IF mailbox # NoReply THEN 1 ELSE 0]
            /\ mailbox' # NoReply
  <3>1. /\ stats'["decisions"] = stats["decisions"] + 1
        /\ stats'["overwritten_replies"] = stats["overwritten_replies"]
                                           + IF mailbox = NoReply THEN 0 ELSE 1
        /\ \A c \in {"used", "stale_replies", "abandoned_replies"} : stats'[c] = stats[c]
        /\ \A c \in Counters : stats[c] \in Nat
    BY <2>2 DEF IInv, TypeOK, Count, Counters
  <3> QED BY <2>2, <3>1 DEF IInv, AllRepliesAccounted, Counters
 <2>3. [update |-> job.update, epoch |-> job.epoch, finished |-> now] # NoReply BY <1>1 DEF NoReply, Updates
 <2> QED BY <1>3, <2>1, <2>2, <2>3
<1>10. UsedReplyIsCaughtUp' /\ NoLostWakeup' /\ FailureNeverMasked'
  BY <1>1 DEF IInv, UsedReplyIsCaughtUp, NoLostWakeup, FailureNeverMasked, Finish, ownerVars
<1> QED BY <1>5, <1>6, <1>7, <1>8, <1>9, <1>10 DEF IInv

LEMMA FailInv == ASSUME IInv, Fail PROVE IInv'
<1>1. /\ worker' = "exited" /\ job' = NoJob /\ stopping' /\ error' /\ InHand' = 0
      /\ InHand = IF worker = "working" THEN 1 ELSE 0
  BY DEF IInv, FifoInv, Fail, InHand
<1>2. TypeOK'
 <2>1. stats' \in [Counters -> Nat] BY DEF IInv, TypeOK, Fail, Count, Counters
 <2> QED BY <1>1, <2>1 DEF IInv, TypeOK, Fail, ownerVars, WorkerSteps
<1>3. OwnerInv' /\ StopInv' BY <1>1 DEF IInv, OwnerInv, StopInv, Fail, ownerVars
<1>4. FifoInv' BY <1>1 DEF IInv, TypeOK, FifoInv, Fail, Updates
<1>5. AllRequestsAccounted' /\ AllRepliesAccounted'
 <2>1. /\ stats'["failed_requests"] = stats["failed_requests"] + InHand
       /\ \A c \in Counters \ {"failed_requests"} : stats'[c] = stats[c]
   BY <1>1 DEF IInv, TypeOK, Fail, Count, Counters
 <2>2. UNCHANGED <<queue, submitted, accounted, mailbox>> BY DEF Fail
 <2>3. AllRequestsAccounted'
  <3>1. /\ stats'["observed_only"] = stats["observed_only"]
        /\ stats'["decisions"] = stats["decisions"]
        /\ stats'["abandoned_requests"] = stats["abandoned_requests"]
    BY <2>1 DEF Counters
  <3> QED BY SMTT(30), <1>1, <2>1, <2>2, <3>1, Numbers DEF IInv, AllRequestsAccounted
 <2>4. AllRepliesAccounted' BY <2>1, <2>2 DEF IInv, AllRepliesAccounted, Counters
 <2> QED BY <2>3, <2>4
<1>6. UsedReplyIsCaughtUp' /\ NoLostWakeup' /\ FailureNeverMasked'
  BY <1>1 DEF IInv, StopInv, UsedReplyIsCaughtUp, NoLostWakeup, FailureNeverMasked, Fail, ownerVars
<1> QED BY <1>2, <1>3, <1>4, <1>5, <1>6 DEF IInv
----
\* A submission, at the start and after a step: refused, or queued.
LEMMA SubmitThenInv ==
  ASSUME IInv, owner \in {"setup", "submit"}, NEW next \in {"loop", "tail"}, SubmitThen(next),
         destroying' \in BOOLEAN, owner' # "stop" => ~destroying',
         UNCHANGED <<now, mailbox, stopping, accounted, error, stats, acted, epoch, chosen>>
  PROVE  IInv'
<1>0. submitted = acted /\ acted < Frames /\ chosen = NoReply BY DEF IInv, OwnerInv, StopInv
<1>1. CASE Refused
 <2>1. /\ outcome' = "runtime_error" /\ owner' = "stop"
       /\ UNCHANGED <<queue, submitted, worker, job, expired, fed>>
   BY <1>1 DEF SubmitThen, Throw, workerVars
 <2>2. TypeOK' /\ OwnerInv' /\ FifoInv' /\ StopInv'
   BY <1>0, <2>1 DEF IInv, TypeOK, OwnerInv, FifoInv, StopInv, OwnerSteps, InHand
 <2>3. AllRequestsAccounted' /\ AllRepliesAccounted' /\ UsedReplyIsCaughtUp' /\ NoLostWakeup'
       /\ FailureNeverMasked'
   BY <1>0, <2>1 DEF IInv, AllRequestsAccounted, AllRepliesAccounted, UsedReplyIsCaughtUp,
      NoLostWakeup, FailureNeverMasked, InHand
 <2> QED BY <2>2, <2>3 DEF IInv
<1>2. CASE ~Refused
 <2> DEFINE request == [update |-> acted, epoch |-> epoch]
 <2>1. /\ queue' = Append(queue, request) /\ submitted' = submitted + 1
       /\ worker' = (IF worker = "asleep" THEN "idle" ELSE worker)
       /\ owner' = next /\ UNCHANGED <<job, expired, fed, outcome>>
       /\ ~stopping /\ ~error /\ Len(queue) # Capacity
   BY <1>2 DEF SubmitThen, Notify, Refused
 <2>2. request \in Requests /\ request.update = acted BY DEF IInv, TypeOK, Requests
 <2>3. /\ queue \in Seq(Requests) /\ queue' \in Seq(Requests)
       /\ Len(queue') = Len(queue) + 1 /\ queue' # <<>>
       /\ queue'[Len(queue) + 1] = request
       /\ \A i \in 1 .. Len(queue) : queue'[i] = queue[i]
   BY <2>1, <2>2 DEF IInv, TypeOK
 <2>4. /\ InHand' = InHand /\ submitted' \in Updates /\ Len(queue') <= Capacity
       /\ Frames \in Nat
   BY <1>0, <2>1, <2>3, Numbers, CapacityAssumption, FramesAssumption DEF IInv, TypeOK, Updates, InHand
 <2>5. TypeOK' BY <2>1, <2>3, <2>4, <1>0 DEF IInv, TypeOK, OwnerSteps, WorkerSteps
 <2>6. OwnerInv' /\ StopInv' BY <1>0, <2>1 DEF IInv, OwnerInv, StopInv
 <2>7. FifoInv'
  <3>1. \A i \in 1 .. Len(queue') : queue'[i].update = submitted' - Len(queue') + i - 1
   <4> SUFFICES ASSUME NEW i \in 1 .. Len(queue')
                PROVE  queue'[i].update = submitted' - Len(queue') + i - 1
     OBVIOUS
   <4>1. CASE i \in 1 .. Len(queue) BY <4>1, <2>1, <2>3, Numbers DEF IInv, FifoInv
   <4>2. CASE i = Len(queue) + 1 BY <4>2, <1>0, <2>1, <2>2, <2>3, Numbers DEF IInv
   <4> QED BY <4>1, <4>2, <2>3, Numbers DEF IInv
  <3>2. submitted' - Len(queue') = submitted - Len(queue) BY <2>1, <2>3, Numbers DEF IInv
  <3>3. job' # NoJob => job'.update = submitted' - Len(queue') - 1 BY <2>1, <3>2 DEF IInv, FifoInv
  <3>4. worker' \in {"popped", "working"} <=> job' # NoJob BY <2>1 DEF IInv, FifoInv
  <3>5. /\ worker' # "exited" => fed' + InHand' + Len(queue') = submitted'
        /\ fed' + InHand' + Len(queue') <= submitted'
    BY SMTT(30), <2>1, <2>3, <2>4, Numbers DEF IInv, FifoInv
  <3> QED BY <3>1, <3>3, <3>4, <3>5, <2>1 DEF IInv, FifoInv
 <2>8. AllRequestsAccounted' /\ AllRepliesAccounted'
  <3>1. ~accounted /\ ~accounted' BY <2>1 DEF IInv, StopInv
  <3>2. stats["abandoned_requests"] = 0 BY <3>1 DEF IInv, AllRequestsAccounted
  <3>3. submitted = stats["observed_only"] + stats["decisions"] + stats["failed_requests"]
                      + InHand + Len(queue)
    BY DEF IInv, AllRequestsAccounted
  <3>4. submitted' = stats["observed_only"] + stats["decisions"] + stats["failed_requests"]
                      + InHand' + Len(queue')
   <4>1. TypeOK BY DEF IInv
   <4>2. stats["observed_only"] + stats["decisions"] + stats["failed_requests"]
           + InHand + (Len(queue) + 1) = submitted + 1
    <5>1. /\ stats["observed_only"] \in Nat /\ stats["decisions"] \in Nat
          /\ stats["failed_requests"] \in Nat /\ InHand \in Nat /\ Len(queue) \in Nat
      BY <4>1, Numbers
    <5> QED BY <3>3, <5>1
   <4> QED BY <2>1, <2>3, <2>4, <4>2
  <3>5. AllRequestsAccounted' BY <3>1, <3>2, <3>4 DEF AllRequestsAccounted
  <3> QED BY <3>5 DEF IInv, AllRepliesAccounted
 <2>9. UsedReplyIsCaughtUp' /\ NoLostWakeup' /\ FailureNeverMasked'
   BY <1>0, <2>1 DEF IInv, UsedReplyIsCaughtUp, NoLostWakeup, FailureNeverMasked
 <2> QED BY <2>5, <2>6, <2>7, <2>8, <2>9 DEF IInv
<1> QED BY <1>1, <1>2

LEMMA SetupInv == ASSUME IInv, Setup PROVE IInv'
<1>1. /\ SubmitThen("loop") /\ owner = "setup"
      /\ destroying' \in BOOLEAN /\ (owner' # "stop" => ~destroying')
      /\ UNCHANGED <<now, mailbox, stopping, accounted, error, stats, acted, epoch, chosen>>
  BY DEF Setup
<1> QED BY <1>1, SubmitThenInv

LEMMA SubmitInv == ASSUME IInv, Submit PROVE IInv'
<1>1. /\ SubmitThen("tail") /\ owner = "submit"
      /\ destroying' \in BOOLEAN /\ (owner' # "stop" => ~destroying')
      /\ UNCHANGED <<now, mailbox, stopping, accounted, error, stats, acted, epoch, chosen>>
  BY DEF Submit, IInv, TypeOK, StopInv
<1> QED BY <1>1, SubmitThenInv

\* A reply taken and used is the policy's answer to the last observation
\* submitted: the FIFO bounds what the policy can have seen.
LEMMA TakeInv == ASSUME IInv, Take PROVE IInv'
<1>1. /\ mailbox' = NoReply /\ owner' = "step" /\ submitted = acted + 1
      /\ UNCHANGED <<now, queue, stopping, accounted, error, submitted, worker, job, expired, fed,
                     acted, epoch, outcome, destroying>>
      /\ ~destroying /\ acted < Frames
  BY DEF Take, IInv, OwnerInv, StopInv, workerVars
<1>2. \/ mailbox = NoReply /\ chosen' = NoReply /\ stats' = stats
      \/ mailbox # NoReply /\ chosen' = mailbox /\ mailbox.update = acted /\ stats' = Count("used")
      \/ mailbox # NoReply /\ chosen' = NoReply /\ stats' = Count("stale_replies")
  BY DEF Take, Usable
<1>3. TypeOK'
 <2>1. stats' \in [Counters -> Nat] BY <1>2 DEF IInv, TypeOK, Count, Counters
 <2>2. chosen' \in Replies \cup {NoReply} BY <1>2 DEF IInv, TypeOK
 <2> QED BY <1>1, <2>1, <2>2 DEF IInv, TypeOK, OwnerSteps
<1>4. OwnerInv' /\ FifoInv' /\ StopInv' BY <1>1 DEF IInv, OwnerInv, FifoInv, StopInv, InHand
<1>5. AllRequestsAccounted'
 <2>1. /\ stats'["observed_only"] = stats["observed_only"]
       /\ stats'["decisions"] = stats["decisions"]
       /\ stats'["failed_requests"] = stats["failed_requests"]
       /\ stats'["abandoned_requests"] = stats["abandoned_requests"]
   BY <1>2 DEF IInv, TypeOK, Count, Counters
 <2> QED BY <1>1, <2>1 DEF IInv, AllRequestsAccounted, InHand
<1>6. AllRepliesAccounted'
 <2>1. CASE mailbox = NoReply /\ stats' = stats BY <1>1, <2>1 DEF IInv, AllRepliesAccounted
 <2>2. CASE mailbox # NoReply /\ stats' = Count("used")
  <3>1. /\ stats'["decisions"] = stats["decisions"]
        /\ stats'["used"] = stats["used"] + 1
        /\ stats'["stale_replies"] = stats["stale_replies"]
        /\ stats'["overwritten_replies"] = stats["overwritten_replies"]
        /\ stats'["abandoned_replies"] = stats["abandoned_replies"]
    BY <2>2 DEF IInv, TypeOK, Count, Counters
  <3>2. TypeOK BY DEF IInv
  <3>3. (stats["used"] + 1) + stats["stale_replies"] + stats["overwritten_replies"]
          + stats["abandoned_replies"] = stats["decisions"]
   <4>1. /\ stats["used"] \in Nat /\ stats["stale_replies"] \in Nat
         /\ stats["overwritten_replies"] \in Nat /\ stats["abandoned_replies"] \in Nat
     BY <3>2, Numbers
   <4>2. stats["decisions"] = stats["used"] + stats["stale_replies"]
           + stats["overwritten_replies"] + stats["abandoned_replies"] + 1
     BY <2>2 DEF IInv, AllRepliesAccounted
   <4> QED BY <4>1, <4>2
  <3>4. stats'["decisions"] = stats'["used"] + stats'["stale_replies"]
          + stats'["overwritten_replies"] + stats'["abandoned_replies"] + 0
    BY <3>1, <3>2, <3>3, Numbers
  <3> QED BY <1>1, <3>4 DEF AllRepliesAccounted
 <2>3. CASE mailbox # NoReply /\ stats' = Count("stale_replies")
  <3>1. /\ stats'["decisions"] = stats["decisions"]
        /\ stats'["used"] = stats["used"]
        /\ stats'["stale_replies"] = stats["stale_replies"] + 1
        /\ stats'["overwritten_replies"] = stats["overwritten_replies"]
        /\ stats'["abandoned_replies"] = stats["abandoned_replies"]
    BY <2>3 DEF IInv, TypeOK, Count, Counters
  <3> QED BY SMTT(30), <1>1, <2>3, <3>1, Numbers DEF IInv, AllRepliesAccounted
 <2> QED BY <1>2, <2>1, <2>2, <2>3
<1>7. UsedReplyIsCaughtUp'
 <2> SUFFICES ASSUME chosen' # NoReply
              PROVE  fed = acted + 1 /\ fed = submitted /\ queue = <<>> /\ job = NoJob
   BY <1>1 DEF UsedReplyIsCaughtUp
 <2>1. acted < fed BY <1>2 DEF IInv, FifoInv
 <2>2. fed + InHand + Len(queue) <= acted + 1 BY <1>1 DEF IInv, FifoInv
 <2>3. fed = acted + 1 /\ InHand = 0 /\ Len(queue) = 0 BY <2>1, <2>2, Numbers DEF IInv
 <2>4. queue = <<>> BY <2>3 DEF IInv, TypeOK
 <2> QED BY <1>1, <2>3, <2>4 DEF InHand
<1>8. NoLostWakeup' /\ FailureNeverMasked' BY <1>1 DEF IInv, NoLostWakeup, FailureNeverMasked, Take
<1> QED BY <1>3, <1>4, <1>5, <1>6, <1>7, <1>8 DEF IInv
----
LEMMA StopIInv == ASSUME IInv, Stop PROVE IInv'
<1>1. /\ stopping' /\ accounted' /\ owner = "stop" /\ owner' = "notify"
      /\ stopping' \in BOOLEAN /\ accounted' \in BOOLEAN
      /\ UNCHANGED <<now, queue, mailbox, error, submitted, worker, job, expired, fed,
                     acted, epoch, chosen, outcome, destroying>>
  BY DEF Stop, workerVars
<1>2. /\ stats' \in [Counters -> Nat]
      /\ stats'["abandoned_requests"] = Len(queue)
      /\ \A c \in Counters \ {"abandoned_requests"} : stats'[c] = stats[c]
 <2>1. stats \in [Counters -> Nat] /\ Len(queue) \in Nat BY Numbers DEF IInv, TypeOK
 <2>2. CASE accounted BY <2>1, <2>2 DEF Stop, IInv, AllRequestsAccounted, Counters
 <2>3. CASE ~accounted
  <3>1. stats["abandoned_requests"] = 0 BY <2>3 DEF IInv, AllRequestsAccounted
  <3>2. stats' = [stats EXCEPT !["abandoned_requests"] = @ + Len(queue)] BY <2>3 DEF Stop
  <3> QED BY <2>1, <3>1, <3>2 DEF Counters
 <2> QED BY <2>2, <2>3
<1>3. TypeOK' /\ OwnerInv' /\ StopInv' BY <1>1, <1>2 DEF IInv, TypeOK, OwnerInv, StopInv, OwnerSteps
<1>4. FifoInv' BY <1>1 DEF IInv, FifoInv, InHand
<1>5. AllRequestsAccounted' /\ AllRepliesAccounted'
  BY <1>1, <1>2 DEF IInv, AllRequestsAccounted, AllRepliesAccounted, Counters, InHand
<1>6. UsedReplyIsCaughtUp' /\ NoLostWakeup' /\ FailureNeverMasked'
  BY <1>1 DEF IInv, UsedReplyIsCaughtUp, NoLostWakeup, FailureNeverMasked
<1> QED BY <1>3, <1>4, <1>5, <1>6 DEF IInv

LEMMA DrainInv == ASSUME IInv, Drain PROVE IInv'
<1>1. /\ mailbox' = NoReply /\ owner = "drain"
      /\ owner' = (IF destroying THEN "gone" ELSE "verdict")
      /\ UNCHANGED <<now, queue, stopping, accounted, error, submitted, worker, job, expired, fed,
                     acted, epoch, chosen, outcome, destroying>>
      /\ stats' = IF mailbox # NoReply THEN Count("abandoned_replies") ELSE stats
      /\ worker = "exited"
  BY DEF Drain, workerVars, IInv, StopInv
<1>2. /\ stats' \in [Counters -> Nat]
      /\ stats'["abandoned_replies"]
           = stats["abandoned_replies"] + IF mailbox = NoReply THEN 0 ELSE 1
      /\ \A c \in Counters \ {"abandoned_replies"} : stats'[c] = stats[c]
  BY <1>1 DEF IInv, TypeOK, Count, Counters
<1>3. TypeOK' /\ OwnerInv' /\ StopInv' BY <1>1, <1>2 DEF IInv, TypeOK, OwnerInv, StopInv, OwnerSteps
<1>4. FifoInv' BY <1>1 DEF IInv, FifoInv, InHand
<1>5. AllRequestsAccounted' BY <1>1, <1>2 DEF IInv, AllRequestsAccounted, Counters, InHand
<1>6. AllRepliesAccounted'
 <2>1. /\ stats'["decisions"] = stats["decisions"]
       /\ stats'["used"] = stats["used"]
       /\ stats'["stale_replies"] = stats["stale_replies"]
       /\ stats'["overwritten_replies"] = stats["overwritten_replies"]
   BY <1>2 DEF Counters
 <2>2. CASE mailbox = NoReply BY <1>1, <1>2, <2>1, <2>2, Numbers DEF IInv, AllRepliesAccounted
 <2>3. CASE mailbox # NoReply
  <3>1. TypeOK BY DEF IInv
  <3>2. stats["used"] + stats["stale_replies"] + stats["overwritten_replies"]
          + (stats["abandoned_replies"] + 1) = stats["decisions"]
   <4>1. /\ stats["used"] \in Nat /\ stats["stale_replies"] \in Nat
         /\ stats["overwritten_replies"] \in Nat /\ stats["abandoned_replies"] \in Nat
     BY <3>1, Numbers
   <4>2. stats["decisions"] = stats["used"] + stats["stale_replies"]
           + stats["overwritten_replies"] + stats["abandoned_replies"] + 1
     BY <2>3 DEF IInv, AllRepliesAccounted
   <4> QED BY <4>1, <4>2
  <3>3. stats'["decisions"] = stats'["used"] + stats'["stale_replies"]
          + stats'["overwritten_replies"] + stats'["abandoned_replies"] + 0
    BY <1>2, <2>1, <2>3, <3>1, <3>2, Numbers
  <3> QED BY <1>1, <3>3 DEF AllRepliesAccounted
 <2> QED BY <2>2, <2>3
<1>7. UsedReplyIsCaughtUp' /\ NoLostWakeup' /\ FailureNeverMasked'
  BY <1>1 DEF IInv, StopInv, UsedReplyIsCaughtUp, NoLostWakeup, FailureNeverMasked
<1> QED BY <1>3, <1>4, <1>5, <1>6, <1>7 DEF IInv
----
LEMMA NextInv == ASSUME IInv, [Next]_vars PROVE IInv'
<1>1. CASE Passing BY <1>1, PassingInv
<1>2. CASE Worker BY <1>2, StartInv, FetchInv, BeginInv, FinishInv, FailInv DEF Worker
<1>3. CASE Owner
 <2>1. ASSUME NEW changed \in BOOLEAN, NEW complete \in BOOLEAN, Step(changed, complete)
       PROVE  IInv'
   BY <2>1, StepInv
 <2> QED BY <1>3, <2>1, SetupInv, LoopInv, WakeUpInv, CheckFailureInv, TakeInv, StepThrowsInv,
            StepRejectedInv, SubmitInv, TailCheckInv, StopIInv, NotifyStopInv, JoinInv, DrainInv,
            VerdictInv, DestroyInv DEF Owner
<1>4. CASE UNCHANGED vars
 <2>1. UNCHANGED <<now, queue, mailbox, stopping, accounted, error, submitted, stats, worker, job,
                   expired, fed, owner, acted, epoch, chosen, outcome, destroying>>
   BY <1>4 DEF vars, shared, workerVars, ownerVars
 <2>2. TypeOK' /\ OwnerInv' /\ FifoInv' /\ StopInv' BY <2>1 DEF IInv, TypeOK, OwnerInv, FifoInv, StopInv, InHand
 <2>3. AllRequestsAccounted' /\ AllRepliesAccounted' /\ UsedReplyIsCaughtUp' /\ NoLostWakeup'
       /\ FailureNeverMasked'
   BY <2>1 DEF IInv, AllRequestsAccounted, AllRepliesAccounted, UsedReplyIsCaughtUp,
      NoLostWakeup, FailureNeverMasked, InHand
 <2> QED BY <2>2, <2>3 DEF IInv
<1> QED BY <1>1, <1>2, <1>3, <1>4 DEF Next

\* The invariant holds from the first state on, with or without fairness.
THEOREM Invariance == Unattended => []IInv
<1> QED BY InitInv, NextInv, PTL DEF Unattended

\* Types, and the FIFO of the worker (online_live.cpp line 87) never holds
\* more requests than its capacity, whatever the capacity is.
THEOREM TypeCorrect == Spec => []TypeOK
<1>1. IInv => TypeOK BY DEF IInv
<1> QED BY <1>1, Invariance, PTL DEF Spec

\* Every request submitted is observed, decided, failed, in hand, queued
\* or abandoned, and is counted once, whichever thread stops first.
THEOREM RequestsAccounted == Spec => []AllRequestsAccounted
<1>1. IInv => AllRequestsAccounted BY DEF IInv
<1> QED BY <1>1, Invariance, PTL DEF Spec

\* Every decision published is used, stale, overwritten, abandoned or in
\* the mailbox, and is counted once.
THEOREM RepliesAccounted == Spec => []AllRepliesAccounted
<1>1. IInv => AllRepliesAccounted BY DEF IInv
<1> QED BY <1>1, Invariance, PTL DEF Spec

\* Both ledgers balance together, at every step of the two threads.
THEOREM EverythingAccounted == Spec => []NothingUnaccounted
BY RequestsAccounted, RepliesAccounted, PTL DEF NothingUnaccounted

\* The native step is driven only by the answer to the last observation
\* submitted, by a worker that has nothing left to do.
THEOREM CaughtUp == Spec => []UsedReplyIsCaughtUp
<1>1. IInv => UsedReplyIsCaughtUp BY DEF IInv
<1> QED BY <1>1, Invariance, PTL DEF Spec

\* The worker never sleeps while a request waits, nor through stop.
THEOREM WakeupNeverLost == Spec => []NoLostWakeup
<1>1. IInv => NoLostWakeup BY DEF IInv
<1> QED BY <1>1, Invariance, PTL DEF Spec

\* A policy that failed is reported as an error, whatever the game did.
THEOREM FailureReported == Spec => []FailureNeverMasked
<1>1. IInv => FailureNeverMasked BY DEF IInv
<1> QED BY <1>1, Invariance, PTL DEF Spec

\* The policy's history of observations grows by one update at a time.
THEOREM HistoryConsecutive == Spec => ConsecutiveHistory
<1>1. ASSUME IInv, [Next]_vars PROVE [fed' # fed => fed' = fed + 1]_vars
 <2> SUFFICES ASSUME Finish PROVE fed' = fed + 1
   BY <1>1 DEF Next, Worker, Owner, Passing, Start, Fetch, Begin, Fail, Setup, Loop, WakeUp,
      CheckFailure, Take, StepThrows, StepRejected, Step, Submit, SubmitThen, TailCheck, Stop,
      NotifyStop, Join, Drain, Verdict, Destroy, workerVars, vars
 <2>1. job # NoJob /\ worker # "exited" /\ InHand = 1 BY <1>1 DEF IInv, FifoInv, Finish, InHand
 <2>2. job.update = submitted - Len(queue) - 1 /\ fed + 1 + Len(queue) = submitted
   BY <1>1, <2>1 DEF IInv, FifoInv
 <2> QED BY <1>1, <2>2, Numbers DEF Finish, IInv
<1> QED BY <1>1, Invariance, PTL DEF Spec, Unattended, ConsecutiveHistory
====
