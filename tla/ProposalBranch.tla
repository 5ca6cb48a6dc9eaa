---- MODULE ProposalBranch ----
(* Two uses of a policy inside a forked branch (shadow_proposal.cpp).       *)
(* propose_after_lead plays the lead, decides in the world it led to and    *)
(* hands the proposals back through shared memory.  predict_with_policy     *)
(* goes on from a prefix by batches of the policy's inputs, an update at a  *)
(* time; where dialogues are to be advanced, one interrupts a batch.        *)
EXTENDS Integers, Sequences, FiniteSets

CONSTANTS
    Lead,         \* updates of the lead
    MaxProposals, \* proposals the shared memory has room for
    MaxInputs,    \* inputs of one of them
    Batch,        \* inputs a continuation takes from a proposal at once
    Continued     \* bounds the updates of a continuation

ASSUME ProposalBranchAssumption ==
    {Lead, MaxProposals, MaxInputs, Batch} \subseteq Nat \ {0} /\ Continued \in Nat

VARIABLES
    caller, \* step of propose_after_lead
    outOfTime,
    child,  \* [step, exit]
    memory, \* Result: [status, attempts, completed, count, lengths]
    answer, \* FutureProposals
    played  \* updates the child really began

proposeVars == <<caller, outOfTime, child, memory, answer, played>>

NoAnswer == [status |-> "none", inputs |-> << >>, attempts |-> 0, charged |-> 0]

Launch ==
    /\ caller = "idle" /\ caller' = "wait"
    /\ child' = [child EXCEPT !.step = "lead"]
    /\ UNCHANGED <<outOfTime, memory, answer, played>>

Elapse == caller = "wait" /\ ~outOfTime /\ outOfTime' = TRUE /\ UNCHANGED <<caller, child, memory, answer, played>>

Inside(step) == caller = "wait" /\ child.step = step
Then(step) == child' = [child EXCEPT !.step = step]
Says(status) == memory' = [memory EXCEPT !.status = status] /\ Then("leave")

Play ==
    /\ Inside("lead") /\ memory.completed < Lead
    /\ memory' = [memory EXCEPT !.attempts = @ + 1] /\ played' = played + 1
    /\ Then("playing")
    /\ UNCHANGED <<caller, outOfTime, answer>>

(* An update throws, kills the player, loses a capture, reaches the goal,  *)
(* or is observed by the policy.                                           *)
Finish1 ==
    /\ Inside("playing")
    /\ \/ Says("fault")
       \/ /\ \/ memory' = [memory EXCEPT !.completed = @ + 1] /\ Then("lead")
             \/ \E s \in {"death", "capture_failure", "terminal"} :
                   memory' = [memory EXCEPT !.completed = @ + 1, !.status = s] /\ Then("leave")
    /\ UNCHANGED <<caller, outOfTime, answer, played>>

(* A dialogue gives one sequence of full length, an ordinary policy one    *)
(* input, a valued one what it considered.  Every sequence is counted when *)
(* it is written; the status comes last.                                   *)
Consider ==
    /\ Inside("lead") /\ memory.completed = Lead
    /\ \/ \E n \in 1 .. MaxInputs : memory.count < MaxProposals /\ Then("lead")
              /\ memory' = [memory EXCEPT !.count = @ + 1, !.lengths = Append(@, n)]
       \/ Says("horizon")
       \/ Says("fault")
    /\ UNCHANGED <<caller, outOfTime, answer, played>>

Depart ==
    /\ Inside("leave") /\ child' = [step |-> "gone", exit |-> "zero"]
    /\ UNCHANGED <<caller, outOfTime, memory, answer, played>>

(* It crashes, is killed, or cannot ask for its parent's death.            *)
Perish ==
    /\ caller = "wait" /\ child.step \notin {"none", "gone"}
    /\ child' = [step |-> "gone", exit |-> "other"]
    /\ UNCHANGED <<caller, outOfTime, memory, answer, played>>

Answered(timeout, failed) ==
    LET status == IF timeout THEN "timeout"
                  ELSE IF failed \/ child.exit # "zero" THEN "fault" ELSE memory.status
    IN  answer' = [status |-> status, attempts |-> memory.attempts,
                   charged |-> IF status \in {"timeout", "fault"} THEN Lead ELSE memory.completed,
                   inputs |-> IF status = "horizon" THEN SubSeq(memory.lengths, 1, memory.count) ELSE << >>]

(* waitpid sees the child gone, or fails; or the deadline has passed since *)
(* it was last seen alive, and it is killed.                               *)
Collect1 ==
    /\ caller = "wait" /\ child.step = "gone"
    /\ \E failed \in BOOLEAN : Answered(FALSE, failed)
    /\ caller' = "returned"
    /\ UNCHANGED <<outOfTime, child, memory, played>>
KillLate ==
    /\ caller = "wait" /\ outOfTime /\ child.step # "none"
    /\ Answered(TRUE, FALSE)
    /\ child' = [child EXCEPT !.step = "gone", !.exit = IF child.step = "gone" THEN @ ELSE "other"]
    /\ caller' = "returned"
    /\ UNCHANGED <<outOfTime, memory, played>>

----
VARIABLES
    advanceDialogue, \* whether a dialogue is answered, or the policy goes on through it
    now,      \* updates of the continuation observed so far
    talking,  \* a dialogue is present after the last of them
    batch,    \* [of, length, at]: when it was decided, its inputs, the place of the next
    asked,    \* the last input: [of, at]; of = 0 for an input of the dialogue
    lastTalk  \* the last update that a dialogue was present after

guideVars == <<advanceDialogue, now, talking, batch, asked, lastTalk>>

(* A version that goes on with its batch after the dialogue.               *)
SpeakAndKeep == batch' = batch
Speak == batch' = [batch EXCEPT !.length = 0, !.at = 0]

(* next_input, and observe after the update it leads to.                   *)
NextInput ==
    /\ now < Continued
    /\ IF advanceDialogue /\ talking
       THEN /\ Speak /\ asked' = [of |-> 0, at |-> 0]
       ELSE /\ \/ batch.at < batch.length /\ batch' = [batch EXCEPT !.at = @ + 1]
               \/ /\ batch.at = batch.length
                  /\ \E n \in 1 .. Batch : batch' = [of |-> now, length |-> n, at |-> 1]
            /\ asked' = [of |-> batch'.of, at |-> batch'.at]
    /\ now' = now + 1
    /\ talking' \in BOOLEAN
    /\ lastTalk' = IF talking' THEN now' ELSE lastTalk
    /\ UNCHANGED advanceDialogue

ProposeNext == Launch \/ Elapse \/ Play \/ Finish1 \/ Consider \/ Depart \/ Perish \/ Collect1 \/ KillLate

ProposeInit ==
    /\ caller = "idle" /\ outOfTime = FALSE /\ child = [step |-> "none", exit |-> "none"]
    /\ memory = [status |-> "incomplete", attempts |-> 0, completed |-> 0, count |-> 0, lengths |-> << >>]
    /\ answer = NoAnswer /\ played = 0
GuideInit ==
    /\ advanceDialogue \in BOOLEAN
    /\ now = 1 /\ talking \in BOOLEAN /\ lastTalk = IF talking THEN 1 ELSE 0
    /\ batch = [of |-> 0, length |-> 0, at |-> 0] /\ asked = [of |-> 0, at |-> 0]

----
(* What a policy said is used for the world it was said of.  Proposals are *)
(* only taken from a child that played the whole lead, finished writing    *)
(* them and left in good order; whatever it began is charged.  An input of *)
(* a continuation is the one its decision meant for this very update; and  *)
(* where dialogues are advanced, none came between the two.                *)
TimelyProposals ==
    /\ answer.status = "horizon" => memory.completed = Lead /\ child.exit = "zero"
    /\ answer.inputs # << >> => answer.inputs = memory.lengths
    /\ caller = "returned" => played <= answer.charged
    /\ asked.of > 0 => /\ asked.of + asked.at = now /\ asked.at <= Batch
                       /\ advanceDialogue => lastTalk = now \/ lastTalk < asked.of
====
