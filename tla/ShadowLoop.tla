---- MODULE ShadowLoop ----
(***************************************************************************)
(* The receding-horizon loop between the running game and its planner.     *)
(* The owner (tools/wine-shadow/observer.cpp) is the game: at each update  *)
(* it samples an input, calculates, appends a receipt to the journal and   *)
(* posts its sequence.  The controller (tools/shadow_online.cpp) follows   *)
(* the journal with a native shadow of the game, searches a certified      *)
(* future from the receipts it has, and publishes its inputs.  The owner   *)
(* never waits; a search takes as many updates as it takes.                *)
(*                                                                         *)
(* The command bridge is one register, as CommandBridge implements it.     *)
(* The game is deterministic, so a receipt is named by the inputs that led *)
(* to it: two packets are equal when the same inputs were executed.  A     *)
(* prediction certifies the inputs it was computed with, from the receipt  *)
(* it starts at, and nothing else.                                         *)
(***************************************************************************)
EXTENDS Integers, Sequences

CONSTANTS Inputs,          \* the inputs a player can give
          Lead,            \* active_lead: inputs a search leaves unchanged
          Horizon,         \* verified_horizon
          Publish,         \* publication_horizon
          Interval,        \* minimum_search_interval
          GameEnd          \* bound: the update at which the game completes

ASSUME InputsAssumption == Inputs # {}
ASSUME WindowAssumption ==
  /\ Lead \in Nat \ {0} /\ Interval \in Nat \ {0}
  /\ Publish \in Nat /\ Publish > Lead /\ Publish > Interval
  /\ Horizon \in Nat /\ Publish <= Horizon
ASSUME GameEndAssumption == GameEnd \in Nat \ {0}

VARIABLES
  \* the owner
  rows,        \* the journal frames.bin: the input of every update
  torn,        \* and at its end the piece of a row whose write fell short
  opc,         \* next step of the owner: input, calc, post, end, short, or over
  sampled,     \* the input sampled for the update under way
  examined,    \* the last generation looked at
  active,      \* the plan being executed, a private copy
  \* words of the command file
  latest,      \* the plan published last
  sequence, accepted, rejected, outcome, stopRequested,
  \* the controller
  cpc,         \* next step of the controller
  drained,     \* receipts the shadow has executed: actual.sequence
  queue,       \* ActionBuffer: inputs the owner is expected to execute next
  previous,    \* the prediction published last
  candidate,   \* the result of the search: prediction and unchanged inputs
  generation, lastSearch,
  plan         \* the plan about to be published

ownerVars == <<rows, torn, opc, sampled, examined, active, sequence, accepted, rejected,
               outcome>>
searchVars == <<queue, previous, candidate, generation, lastSearch, plan>>
vars == <<ownerVars, latest, stopRequested, cpc, drained, searchVars>>

NoPlan == [generation |-> 0, origin |-> 0, first_change |-> 0, inputs |-> <<>>]
NoPrediction == [origin |-> 0, inputs |-> <<>>]
NoCandidate == [prediction |-> NoPrediction, unchanged |-> 0]
Smaller(a, b) == IF a < b THEN a ELSE b

(* fallback: movement and focus are held, shooting goes on. *)
Fallback(previousInput) == previousInput

(* n inputs that follow last: the planned ones, then the fallback.         *)
Extended(last, planned, n) ==
  LET input[i \in 0 .. n] == IF i = 0 THEN last
                             ELSE IF i <= Len(planned) THEN planned[i]
                             ELSE Fallback(input[i - 1])
  IN [i \in 1 .. n |-> input[i]]

(* The inputs of a plan or a prediction that come after update s.          *)
After(p, s) == SubSeq(p.inputs, s - p.origin + 1, Len(p.inputs))

Executed(from, to) == SubSeq(rows, from + 1, to)

Init ==
  /\ rows = <<>> /\ torn = FALSE /\ opc = "input" /\ sampled = (CHOOSE i \in Inputs : TRUE)
  /\ examined = 0 /\ active = NoPlan
  /\ latest = NoPlan /\ sequence = 0 /\ accepted = 0 /\ rejected = 0
  /\ outcome = "Running" /\ stopRequested = FALSE
  /\ cpc = "drain" /\ drained = 0 /\ queue = <<>> /\ previous = NoPrediction
  /\ candidate = NoCandidate /\ generation = 0 /\ lastSearch = 0 /\ plan = NoPlan
----
(* The owner.                                                              *)

Valid(p) == /\ p.generation > 0 /\ p.generation % 2 = 0
            /\ Len(p.inputs) \in 1 .. Publish
            /\ p.first_change > p.origin
            /\ p.first_change <= p.origin + Len(p.inputs)

Timely(p, s) == Valid(p) /\ p.origin <= s /\ s + 1 < p.first_change

(* Only inputs after the last receipt are compared.                        *)
CompatibleLead(p) ==
  LET s == Len(rows) IN
  /\ Timely(p, s)
  /\ SubSeq(p.inputs, s - p.origin + 1, p.first_change - p.origin - 1)
       = Extended(rows[s], After(active, s), p.first_change - s - 1)

(* The input of the next update while a is executed.                       *)
NextInput(a) == Extended(rows[Len(rows)], After(a, Len(rows)), 1)[1]

(* Before the first receipt the input is the player's own.                 *)
FirstInput ==
  /\ opc = "input" /\ rows = <<>>
  /\ sampled' \in Inputs
  /\ opc' = "calc"
  /\ UNCHANGED <<rows, torn, examined, active, latest, sequence, accepted, rejected, outcome,
                 stopRequested, cpc, drained, searchVars>>

HonourStop ==
  /\ opc = "input" /\ rows # <<>> /\ stopRequested
  /\ outcome' = "Stopped"
  /\ opc' = "over"
  /\ UNCHANGED <<rows, torn, sampled, examined, active, latest, sequence, accepted, rejected,
                 stopRequested, cpc, drained, searchVars>>

SampleInput ==
  /\ opc = "input" /\ rows # <<>> /\ ~stopRequested
  /\ IF latest.generation = examined
     THEN /\ sampled' = NextInput(active)
          /\ UNCHANGED <<examined, active, accepted, rejected>>
     ELSE /\ examined' = latest.generation
          /\ IF CompatibleLead(latest)
             THEN /\ active' = latest
                  /\ accepted' = latest.generation
                  /\ sampled' = NextInput(latest)
                  /\ UNCHANGED rejected
             ELSE /\ rejected' = latest.generation
                  /\ sampled' = NextInput(active)
                  /\ UNCHANGED <<active, accepted>>
  /\ opc' = "calc"
  /\ UNCHANGED <<rows, torn, latest, sequence, outcome, stopRequested, cpc, drained, searchVars>>

(* calc_hook: the receipt is in the journal before its sequence is posted. *)
(* A short WriteFile leaves a piece of it, or nothing.                     *)
Calculate ==
  /\ opc = "calc"
  /\ \/ rows' = Append(rows, sampled) /\ opc' = "post" /\ UNCHANGED torn
     \/ torn' \in BOOLEAN /\ opc' = "short" /\ UNCHANGED rows
  /\ UNCHANGED <<sampled, examined, active, latest, sequence, accepted, rejected, outcome,
                 stopRequested, cpc, drained, searchVars>>

(* finish(Failure): a short write, or, before anything is written, a clock *)
(* that jumped, a capture that threw or the timing of the renderer.        *)
Fail ==
  /\ opc \in {"calc", "short"}
  /\ outcome' = "Failed"
  /\ opc' = "over"
  /\ UNCHANGED <<rows, torn, sampled, examined, active, latest, sequence, accepted, rejected,
                 stopRequested, cpc, drained, searchVars>>

(* A callback of a game that is loading or waiting consumes no receipt.    *)
Wait ==
  /\ opc = "calc"
  /\ opc' = "input"
  /\ UNCHANGED <<rows, torn, sampled, examined, active, latest, sequence, accepted, rejected, outcome,
                 stopRequested, cpc, drained, searchVars>>

Post ==
  /\ opc = "post"
  /\ sequence' = Len(rows)
  /\ opc' = "end"
  /\ UNCHANGED <<rows, torn, sampled, examined, active, latest, accepted, rejected, outcome,
                 stopRequested, cpc, drained, searchVars>>

(* A death or a spent budget may end the game at any update; it completes  *)
(* at GameEnd.                                                             *)
EndOrGoOn ==
  /\ opc = "end"
  /\ \/ outcome' = "Finished" /\ opc' = "over"
     \/ Len(rows) < GameEnd /\ opc' = "input" /\ UNCHANGED outcome
  /\ UNCHANGED <<rows, torn, sampled, examined, active, latest, sequence, accepted, rejected,
                 stopRequested, cpc, drained, searchVars>>

Owner == \/ FirstInput \/ HonourStop \/ SampleInput \/ Calculate \/ Wait \/ Fail \/ Post
         \/ EndOrGoOn
----
(* The controller.                                                         *)

(* ActionBuffer::confirm for every new receipt: the queue advances past    *)
(* the inputs that were executed, and is emptied by any other input.       *)
Confirmed(receipts) ==
  IF Len(receipts) <= Len(queue) /\ SubSeq(queue, 1, Len(receipts)) = receipts
  THEN SubSeq(queue, Len(receipts) + 1, Len(queue))
  ELSE <<>>

(* drain: every complete receipt in the journal.  At any of them the       *)
(* shadow may differ from the game once it has executed it, or fail to     *)
(* execute it; the controller then gives up and asks the owner to stop.    *)
DrainTo(next) ==
  /\ \/ /\ drained' = Len(rows)
        /\ queue' = Confirmed(Executed(drained, Len(rows)))
        /\ cpc' = next
        /\ UNCHANGED stopRequested
     \/ /\ Len(rows) > drained
        /\ \E last \in drained + 1 .. Len(rows) :
             /\ drained' \in {last - 1, last}
             /\ queue' = Confirmed(Executed(drained, last - 1))
        /\ stopRequested' = (stopRequested \/ outcome = "Running")
        /\ cpc' = "halted"
  /\ UNCHANGED <<ownerVars, latest, previous, candidate, generation, lastSearch, plan>>

Drain == cpc = "drain" /\ DrainTo("outcome")

(* A version in which the outcome is not looked at. *)
IgnoreOutcome ==
  /\ cpc = "outcome"
  /\ cpc' = "deadline"
  /\ UNCHANGED <<ownerVars, latest, stopRequested, drained, searchVars>>

LoadOutcome ==
  /\ cpc = "outcome"
  /\ cpc' = IF outcome # "Running" THEN "last_drain" ELSE "deadline"
  /\ UNCHANGED <<ownerVars, latest, stopRequested, drained, searchVars>>

(* A version in which the receipts written since the last drain are not    *)
(* fetched.                                                                *)
SkipLastDrain ==
  /\ cpc = "last_drain"
  /\ cpc' = "check_journal"
  /\ UNCHANGED <<ownerVars, latest, stopRequested, drained, searchVars>>

LastDrain == cpc = "last_drain" /\ DrainTo("check_journal")

(* truncated_shadow_journal, unless everything in the journal and          *)
(* everything posted has been executed.                                    *)
CheckJournal ==
  /\ cpc = "check_journal"
  /\ cpc' = IF drained = Len(rows) /\ ~torn /\ drained = sequence THEN "concluded"
                                                                   ELSE "truncated"
  /\ UNCHANGED <<ownerVars, latest, stopRequested, drained, searchVars>>

(* The wall budget may be spent.                                           *)
Deadline ==
  /\ cpc = "deadline"
  /\ \/ cpc' = "rejected" /\ UNCHANGED stopRequested
     \/ cpc' = "halted" /\ stopRequested' = TRUE
  /\ UNCHANGED <<ownerVars, latest, drained, searchVars>>

(* A rejected plan is not what the owner executes: the queue is reset.     *)
LoadRejected ==
  /\ cpc = "rejected"
  /\ queue' = IF generation # 0 /\ rejected = generation THEN <<>> ELSE queue
  /\ cpc' = "gate"
  /\ UNCHANGED <<ownerVars, latest, stopRequested, drained, previous, candidate,
                 generation, lastSearch, plan>>

Pending == generation # 0 /\ accepted # generation /\ rejected # generation

Wanted == /\ drained > 0
          /\ Len(queue) <= Publish - Interval
          /\ drained >= lastSearch + Interval

LoadPending ==
  /\ cpc = "gate"
  /\ IF ~Pending /\ Wanted
     THEN cpc' = "search" /\ lastSearch' = drained
     ELSE cpc' = "drain" /\ UNCHANGED lastSearch
  /\ UNCHANGED <<ownerVars, latest, stopRequested, drained, queue, previous, candidate,
                 generation, plan>>

(* The complete rollouts from the shadow's state that begin with fixed:    *)
(* a full horizon, or fewer updates when the game completes within it.     *)
Certificates(fixed) ==
  LET length == Smaller(Horizon, GameEnd - drained)
  IN {[origin |-> drained, inputs |-> SubSeq(fixed \o tail, 1, length)] :
        tail \in [1 .. Horizon - Len(fixed) -> Inputs]}

Terminal(p) == p.origin + Len(p.inputs) = GameEnd

Consumed == drained - previous.origin

(* NominalExtension::eligible.  That a failed extension or a refresh that  *)
(* is due excludes the warm search is not kept: it may fail at any time.   *)
Eligible == LET published == Smaller(Len(previous.inputs), Publish)
            IN /\ previous.inputs # <<>>
               /\ Consumed < published
               /\ Len(queue) = published - Consumed
               /\ Len(queue) > Lead

(* A version in which the lead is the fallback whatever is queued. *)
HeldPrefix == Extended(rows[drained], <<>>, Lead)

(* The lead of a fresh search: what is queued, then the fallback.          *)
Prefix == Extended(rows[drained],
                   SubSeq(previous.inputs, Consumed + 1,
                          Consumed + Smaller(Len(queue), Len(previous.inputs) - Consumed)),
                   Lead)

SearchWarm ==
  /\ Eligible
  /\ LET warm == After(previous, drained)
     IN \E p \in Certificates(warm) :
          candidate' = [prediction |-> p,
                        unchanged |-> Smaller(Len(warm), Publish - Consumed)]

SearchFresh == \E p \in Certificates(Prefix) :
                 candidate' = [prediction |-> p, unchanged |-> Lead]

(* No certificate within the time budget.                                  *)
SearchFails == candidate' = NoCandidate

Search ==
  /\ cpc = "search"
  /\ \/ SearchFails
     \/ drained < GameEnd /\ (SearchWarm \/ SearchFresh)
  /\ cpc' = "searched"
  /\ UNCHANGED <<ownerVars, latest, stopRequested, drained, queue, previous, generation,
                 lastSearch, plan>>

(* A native branch that faults ends the controller.                        *)
SearchFaults ==
  /\ cpc = "search"
  /\ cpc' = "halted"
  /\ stopRequested' = (stopRequested \/ outcome = "Running")
  /\ UNCHANGED <<ownerVars, latest, drained, searchVars>>

CatchUp == cpc = "searched" /\ DrainTo("decide")

(* ActionBuffer::replace: the receipts since the origin are the ones       *)
(* predicted, and something is left to execute.                            *)
Replaces(p, window) ==
  LET consumed == drained - p.origin
  IN /\ consumed < Smaller(Len(p.inputs), window)
     /\ Executed(p.origin, drained) = SubSeq(p.inputs, 1, consumed)

(* A version in which the inputs executed since the origin are queued again. *)
QueueFromOrigin(p, window) == SubSeq(p.inputs, 1, Smaller(Len(p.inputs), window))

Queued(p, window) == SubSeq(p.inputs, drained - p.origin + 1, Smaller(Len(p.inputs), window))

Decide ==
  /\ cpc = "decide"
  /\ LET p == candidate.prediction
         proposal == [generation |-> generation + 2,
                      origin |-> p.origin,
                      first_change |-> p.origin + candidate.unchanged + 1,
                      inputs |-> SubSeq(p.inputs, 1, Smaller(Len(p.inputs), Publish))]
         terminalBeforeChange == Terminal(p) /\ Len(p.inputs) <= candidate.unchanged
     IN \/ /\ p.inputs # <<>> /\ terminalBeforeChange
           /\ cpc' = "drain"
           /\ UNCHANGED <<queue, plan>>
        \/ /\ p.inputs # <<>> /\ ~terminalBeforeChange
           /\ Timely(proposal, sequence) /\ Replaces(p, Publish)
           /\ queue' = Queued(p, Publish)
           /\ plan' = proposal
           /\ cpc' = "publish"
        \/ /\ \/ p.inputs = <<>>
              \/ ~terminalBeforeChange /\ ~(Timely(proposal, sequence) /\ Replaces(p, Publish))
           /\ cpc' = "retain"
           /\ UNCHANGED <<queue, plan>>
  /\ UNCHANGED <<ownerVars, latest, stopRequested, drained, previous, candidate, generation,
                 lastSearch>>

(* publish_retained and ActionBuffer::extend: a later window of the        *)
(* previous certificate, every queued input kept.                          *)
Retain ==
  /\ cpc = "retain"
  /\ LET pending == Len(queue)
         count == Smaller(Publish, Len(previous.inputs) - Consumed)
         proposal == [generation |-> generation + 2,
                      origin |-> drained,
                      first_change |-> drained + pending + 1,
                      inputs |-> SubSeq(previous.inputs, Consumed + 1, Consumed + count)]
         extends == /\ Horizon > Publish
                    /\ previous.inputs # <<>> /\ pending >= Lead
                    /\ Consumed < Len(previous.inputs) /\ count > pending
                    /\ Timely(proposal, sequence)
                    /\ queue = SubSeq(previous.inputs, Consumed + 1, Consumed + pending)
                    /\ Replaces(previous, Consumed + count)
     IN IF extends
        THEN /\ queue' = Queued(previous, Consumed + count)
             /\ plan' = proposal
             /\ candidate' = [prediction |-> previous, unchanged |-> pending]
             /\ cpc' = "publish"
        ELSE /\ cpc' = "drain"
             /\ candidate' = NoCandidate
             /\ UNCHANGED <<queue, plan>>
  /\ UNCHANGED <<ownerVars, latest, stopRequested, drained, previous, generation, lastSearch>>

PublishPlan ==
  /\ cpc = "publish"
  /\ latest' = plan
  /\ generation' = plan.generation
  /\ previous' = candidate.prediction
  /\ candidate' = NoCandidate
  /\ plan' = NoPlan
  /\ cpc' = "drain"
  /\ UNCHANGED <<ownerVars, stopRequested, drained, queue, lastSearch>>

Controller == \/ Drain \/ LoadOutcome \/ LastDrain \/ CheckJournal \/ Deadline
              \/ LoadRejected \/ LoadPending
              \/ Search \/ SearchFaults \/ CatchUp \/ Decide \/ Retain \/ PublishPlan

Next == Owner \/ Controller

(* The game runs at its own clock and the controller's loop polls: neither *)
(* ever waits for the other.                                               *)
Spec == Init /\ [][Next]_vars /\ WF_vars(Owner) /\ WF_vars(Controller)
----
Sequences == UNION {[1 .. n -> Inputs] : n \in 0 .. Horizon}
Plans == [generation : Nat, origin : 0 .. GameEnd, first_change : 0 .. GameEnd + Horizon,
          inputs : Sequences]
Predictions == [origin : 0 .. GameEnd, inputs : Sequences]

(* Types of the journal, the words of the command file and both programs.  *)
TypeOK ==
  /\ rows \in Seq(Inputs) /\ Len(rows) <= GameEnd /\ sampled \in Inputs
  /\ torn \in BOOLEAN /\ opc \in {"input", "calc", "short", "post", "end", "over"}
  /\ active \in Plans /\ latest \in Plans /\ plan \in Plans
  /\ examined \in Nat /\ accepted \in Nat /\ rejected \in Nat /\ generation \in Nat
  /\ sequence \in 0 .. GameEnd /\ drained \in 0 .. Len(rows)
  /\ outcome \in {"Running", "Finished", "Stopped", "Failed"} /\ stopRequested \in BOOLEAN
  /\ queue \in Sequences /\ Len(queue) <= Publish
  /\ previous \in Predictions /\ candidate.prediction \in Predictions
  /\ candidate.unchanged \in 0 .. Publish /\ lastSearch \in 0 .. GameEnd

(* The plan the owner executes is on the course it was certified for: every *)
(* input since its origin is the one it holds.                              *)
OnCourse(p) == LET end == Smaller(Len(rows), p.origin + Len(p.inputs))
               IN Executed(p.origin, end) = SubSeq(p.inputs, 1, end - p.origin)

(* As long as no plan has been rejected, no input is ever executed outside *)
(* the future it was certified in, however late plans are published and    *)
(* examined.                                                               *)
CertifiedUntilRejection == rejected = 0 => OnCourse(active)

(* The controller knows what the owner is going to do: while no plan has   *)
(* been rejected or waits to be examined, its queue is what is left of the *)
(* active plan after the receipts it has seen.                             *)
QueueMirrorsOwner ==
  rejected = 0 /\ accepted = generation /\ cpc \notin {"publish", "halted"}
    => queue = After(active, drained)

(* What is queued is what is left of the certificate published last: the   *)
(* search reads its lead from that certificate, and takes only the length  *)
(* of the queue from the queue (tools/shadow_online.cpp lines 437-446).    *)
QueueFollowsPrevious ==
  queue # <<>> /\ cpc \notin {"publish", "halted"}
    => /\ Consumed + Len(queue) <= Len(previous.inputs)
       /\ queue = SubSeq(previous.inputs, Consumed + 1, Consumed + Len(queue))

(* What the next search is founded on: the queue is what the owner is      *)
(* going to do, and the end of the certificate the search takes its lead   *)
(* from, however late a plan was examined, cut or retained.                *)
QueueIsKnown == QueueMirrorsOwner /\ QueueFollowsPrevious

(* The outcome says the journal is complete: the controller reports it     *)
(* truncated only when the write of a row fell short, and when it          *)
(* concludes it has executed every receipt there will ever be, up to the   *)
(* last sequence posted.                                                   *)
JournalComplete ==
  /\ cpc = "truncated" => torn /\ outcome = "Failed"
  /\ cpc = "concluded" => ~torn /\ drained = Len(rows) /\ sequence = Len(rows)

(* The end of the game, whatever brought it about, ends the controller.     *)
ControllerEnds == (opc = "over") ~> (cpc \in {"halted", "concluded", "truncated"})

(* What docs/ARCHITECTURE.md lines 206-207 say of the owner: a plan is not *)
(* accepted if any leading input, before its first change, is inconsistent *)
(* with what the owner had queued or fell back to.                         *)
RejectsInconsistentLead == [][active' # active => OnCourse(active')]_vars
====
