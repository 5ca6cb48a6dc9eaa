---- MODULE Repair ----
(* The headless repair search (tools/headless_repair.cpp): play a stage in *)
(* a fresh game process, and while it ends in a collision try to mend the  *)
(* run by holding one direction a little before the danger began; keep the *)
(* longest run; certify a completed one by a second, independent replay.   *)
(* A finished search can be resumed from its artifacts                     *)
(* (tools/headless_resume.hpp).  Every native update a child makes must be *)
(* accounted for, though a child may hang, answer too late, break the      *)
(* protocol, or be interrupted, and the search may be killed.              *)
EXTENDS Integers, Sequences, FiniteSets, SequencesExt, FiniteSetsExt

CONSTANTS
    Cap,        \* --frames: updates a child may make
    Rounds,     \* --rounds
    Rollbacks,  \* 8 in the code
    Directions, \* 9 in the code
    Segment,    \* half the horizon of the observed danger, 6 or 16 in the code
    Budget,     \* --update-budget
    MaxEpisodes \* bound: searches in a chain of resumes

ASSUME RepairAssumption ==
    /\ {Cap, Rounds, Rollbacks, Directions, Segment} \subseteq Nat \ {0}
    /\ Budget \in Nat /\ MaxEpisodes \in Nat

VARIABLES
    repair,   \* where the search is
    child,    \* the native process: phase, state, updates made, its report
    late,     \* the deadline in force has passed
    initial,  \* frames of the initial run
    current,  \* the selected run; name is 0 for the initial one
    best,     \* the best run of the round
    at,       \* the candidate of the round to try next
    count,    \* round, candidates, updates, prefixes, interrupted
    reason,   \* why the search will stop, "" while it goes on
    ledger,   \* ledger.tsv
    audit,    \* known and uncertain updates of the three phases
    summary,  \* summary.json
    prior,    \* the costs carried over from the search resumed
    actual    \* history: updates really made, by phase and before this search

repairVars == <<repair, child, late, initial, current, best, at, count, reason, ledger, audit,
                summary, prior, actual>>

Phases == 0 .. 2 \* initial run, candidates, verification replay
NoRun == [name |-> 0, outcome |-> "none", frames |-> 0, onset |-> 0]
NoChild == [phase |-> 0, state |-> "none", updates |-> 0, interrupted |-> FALSE, run |-> NoRun]
NoCosts == [known |-> 0, uncertain |-> 0]
ZeroCounts == [round |-> 1, candidates |-> 0, updates |-> 0, prefixes |-> 0, interrupted |-> 0]
Nothing == [outcome |-> "none"]
Total(f) == f[0] + f[1] + f[2]

RepairInit ==
    /\ repair = "begin" /\ child = NoChild /\ late = FALSE /\ initial = 0
    /\ current = NoRun /\ best = NoRun /\ at = 1 /\ count = ZeroCounts /\ reason = ""
    /\ ledger = << >>
    /\ audit = [known |-> [p \in Phases |-> 0], uncertain |-> [p \in Phases |-> 0]]
    /\ summary = Nothing /\ prior = NoCosts
    /\ actual = [phase |-> [p \in Phases |-> 0], before |-> 0, episode |-> 0]

----
(* A version that charges nothing until the process is back.               *)
ExecuteUncharged(phase) ==
    /\ child' = [NoChild EXCEPT !.phase = phase, !.state = "running"]
    /\ UNCHANGED audit

(* Audit::execute and run: the cost is uncertain from before the launch.   *)
Execute(phase) ==
    /\ child' = [NoChild EXCEPT !.phase = phase, !.state = "running"]
    /\ audit' = [audit EXCEPT !.uncertain[phase] = @ + Cap]

Validated(frames) ==
    audit' = [known |-> [audit.known EXCEPT ![child.phase] = @ + frames],
              uncertain |-> [audit.uncertain EXCEPT ![child.phase] = @ - Cap]]

(* The child: it updates, and ends with a report, or with one that breaks  *)
(* the protocol.  It never updates beyond its frame budget.                *)
Update ==
    /\ child.state = "running" /\ child.updates < Cap
    /\ child' = [child EXCEPT !.updates = @ + 1]
    /\ actual' = [actual EXCEPT !.phase[child.phase] = @ + 1]
    /\ UNCHANGED <<repair, late, initial, current, best, at, count, reason, ledger, audit, summary, prior>>

Exit(outcome, onset) ==
    /\ child.state = "running"
    /\ outcome \in {"complete", "collision"} => child.updates > 0
    /\ outcome = "limit" => child.updates = Cap
    /\ onset <= child.updates /\ (outcome # "collision" => onset = 0)
    /\ child' = [child EXCEPT !.state = "exited", !.run = [name |-> Len(ledger) + 1,
                     outcome |-> outcome, frames |-> child.updates, onset |-> onset]]
    /\ UNCHANGED <<repair, late, initial, current, best, at, count, reason, ledger, audit, summary, prior, actual>>

Deadline ==
    /\ repair # "over" /\ ~late
    /\ late' = TRUE
    /\ UNCHANGED <<repair, child, initial, current, best, at, count, reason, ledger, audit, summary, prior, actual>>

Terminate ==
    /\ child.state \in {"running", "exited"} /\ late /\ ~child.interrupted
    /\ child' = [child EXCEPT !.interrupted = TRUE]
    /\ UNCHANGED <<repair, late, initial, current, best, at, count, reason, ledger, audit, summary, prior, actual>>

KillChild ==
    /\ child.state = "running" /\ child.interrupted
    /\ child' = [child EXCEPT !.state = "exited", !.run.outcome = "bad"]
    /\ UNCHANGED <<repair, late, initial, current, best, at, count, reason, ledger, audit, summary, prior, actual>>

Reaped(phase) == child.state = "exited" /\ child.phase = phase

----
(* An exception anywhere: the costs so far go into the summary.            *)
Fail ==
    /\ repair' = "over" /\ child' = NoChild
    /\ summary' = [outcome |-> "error"]
    /\ UNCHANGED <<initial, current, best, at, count, reason, ledger, audit>>

Begin ==
    /\ repair = "begin"
    /\ Execute(0) /\ repair' = "initial" /\ late' = FALSE
    /\ actual' = [actual EXCEPT !.episode = 1]
    /\ UNCHANGED <<initial, current, best, at, count, reason, ledger, summary, prior>>

(* record, and for a resumed search agree: the selected run, regenerated   *)
(* from its prefix, must be what the artifacts say it was.                 *)
Regenerated == actual.episode = 1 \/ [child.run EXCEPT !.name = current.name] = current
InitialDone ==
    /\ repair = "initial" /\ Reaped(0)
    /\ IF child.interrupted \/ child.run.outcome = "bad" \/ ~Regenerated THEN Fail
       ELSE /\ Validated(child.run.frames)
            /\ initial' = child.run.frames
            /\ current' = [child.run EXCEPT !.name = 0] /\ best' = current'
            /\ child' = NoChild
            /\ IF child.run.outcome = "complete"
               THEN repair' = "verify" /\ reason' = "complete"
               ELSE repair' = "round" /\ reason' = "round-limit"
            /\ UNCHANGED <<at, count, ledger, summary>>
    /\ late' = FALSE
    /\ UNCHANGED <<prior, actual>>

(* A round starts where the danger of the selected run began. *)
Round ==
    /\ repair = "round"
    /\ IF count.round <= Rounds /\ current.outcome = "collision" /\ current.onset > 0
       THEN repair' = "search" /\ best' = current /\ at' = 1 /\ UNCHANGED reason
       ELSE /\ repair' = "summary" /\ UNCHANGED <<best, at>>
            /\ reason' = IF count.round > Rounds THEN "round-limit"
                         ELSE IF current.outcome # "collision" THEN "noncollision-terminal"
                         ELSE "no-supported-unsafe-transition"
    /\ UNCHANGED <<child, late, initial, current, count, ledger, audit, summary, prior, actual>>

(* The at-th candidate: the rollback, and the first frame it replaces. *)
Rollback == (at - 1) \div Directions + 1
Branch == current.onset - Rollback * Segment
Reachable == Branch > 0 /\ Branch - 1 + Segment <= Cap

Spent == count.candidates >= Rounds * Rollbacks * Directions \/ Budget - count.updates < Cap \/ late

(* The end of a round or of the search: a run that survived longer becomes *)
(* the selected one.                                                       *)
Promoted == IF best.frames > current.frames THEN best ELSE current
EndOfRound(why) ==
    /\ current' = Promoted
    /\ count' = [count EXCEPT !.round = @ + 1]
    /\ IF why = "" /\ best # current THEN repair' = "round" /\ UNCHANGED reason
       ELSE repair' = "summary" /\ reason' = IF why = "" THEN "no-progress-finite-family" ELSE why

Search ==
    /\ repair = "search"
    /\ IF at > Rollbacks * Directions THEN EndOfRound("") /\ UNCHANGED <<child, at, audit>>
       ELSE IF ~Reachable
       THEN at' = at + 1 /\ UNCHANGED <<repair, child, current, count, reason, audit>>
       ELSE IF Spent THEN EndOfRound("search-budget") /\ UNCHANGED <<child, at, audit>>
       ELSE /\ Execute(1) /\ repair' = "candidate"
            /\ count' = [count EXCEPT !.candidates = @ + 1]
            /\ UNCHANGED <<current, at, reason>>
    /\ UNCHANGED <<late, initial, best, ledger, summary, prior, actual>>

(* A child that was interrupted is never used, whatever it reported. *)
CandidateInterrupted ==
    /\ repair = "candidate" /\ Reaped(1) /\ child.interrupted
    /\ current' = Promoted /\ child' = NoChild
    /\ count' = [count EXCEPT !.interrupted = Cap]
    /\ repair' = "summary" /\ reason' = "interrupted-search-budget"
    /\ UNCHANGED <<late, initial, best, at, ledger, audit, summary, prior, actual>>

(* A candidate's prefix is the selected run's: one that ends inside it has *)
(* not replayed it.                                                        *)
Believable == child.run.outcome # "bad" /\ child.run.frames >= Branch

CandidateDone ==
    /\ repair = "candidate" /\ Reaped(1) /\ ~child.interrupted
    /\ IF ~Believable THEN Fail
       ELSE /\ Validated(child.run.frames)
            /\ count' = [count EXCEPT !.updates = @ + child.run.frames,
                                      !.prefixes = @ + Min({Branch - 1, child.run.frames})]
            /\ ledger' = Append(ledger, [branch |-> Branch, frames |-> child.run.frames,
                                         outcome |-> child.run.outcome])
            /\ child' = NoChild /\ at' = at + 1
            /\ IF child.run.outcome = "complete"
               THEN current' = child.run /\ repair' = "verify" /\ reason' = "complete" /\ UNCHANGED best
               ELSE /\ best' = IF child.run.outcome = "collision" /\ child.run.frames > best.frames
                               THEN child.run ELSE best
                    /\ repair' = "search" /\ UNCHANGED <<current, reason>>
            /\ UNCHANGED <<initial, summary>>
    /\ UNCHANGED <<late, prior, actual>>

Verify ==
    /\ repair = "verify"
    /\ Execute(2) /\ repair' = "replay" /\ late' = FALSE
    /\ UNCHANGED <<initial, current, best, at, count, reason, ledger, summary, prior, actual>>

ReplayDone ==
    /\ repair = "replay" /\ Reaped(2)
    /\ IF child.interrupted \/ [child.run EXCEPT !.name = current.name] # current THEN Fail
       ELSE /\ Validated(child.run.frames) /\ repair' = "summary" /\ child' = NoChild
            /\ UNCHANGED <<initial, current, best, at, count, reason, ledger, summary>>
    /\ UNCHANGED <<late, prior, actual>>

Summarise ==
    /\ repair = "summary"
    /\ repair' = "over"
    /\ summary' = [outcome |-> reason, selected |-> current, candidates |-> count.candidates,
                   updates |-> count.updates, prefixes |-> count.prefixes,
                   interrupted |-> count.interrupted, initial |-> initial,
                   verification |-> audit.known[2], prior |-> prior,
                   known |-> prior.known + Total(audit.known),
                   uncertain |-> prior.uncertain + Total(audit.uncertain)]
    /\ UNCHANGED <<child, late, initial, current, best, at, count, reason, ledger, audit, prior, actual>>

(* Killed: the child plays on, and there is no summary. *)
CrashRepair ==
    /\ repair \notin {"begin", "over", "killed"}
    /\ repair' = "killed"
    /\ UNCHANGED <<child, late, initial, current, best, at, count, reason, ledger, audit, summary, prior, actual>>

----
(* snapshot_resume: what the artifacts of an earlier search must show.     *)
Longer(b, name, row) == IF row.outcome = "collision" /\ row.frames > b.frames
                        THEN [name |-> name, frames |-> row.frames] ELSE b
LedgerBest(from, rows) ==
    LET upTo[n \in 0 .. Len(rows)] ==
          IF n = 0 THEN [name |-> 0, frames |-> from] ELSE Longer(upTo[n - 1], n, rows[n])
    IN  upTo[Len(rows)]
Summed(numbers) ==
    LET upTo[n \in 0 .. Len(numbers)] == IF n = 0 THEN 0 ELSE upTo[n - 1] + numbers[n]
    IN  upTo[Len(numbers)]
Known1(s) == s.initial + s.updates + s.verification + s.prior.known

Acceptable(s, rows) ==
    /\ s.outcome \notin {"none", "error"}
    /\ s.selected.outcome = "collision"
    /\ \A i \in DOMAIN rows : rows[i].outcome # "complete"
    /\ LedgerBest(s.initial, rows) = [name |-> s.selected.name, frames |-> s.selected.frames]
    /\ s.selected.frames > s.initial
    /\ s.updates = Summed([i \in DOMAIN rows |-> rows[i].frames])
    /\ s.prefixes = Summed([i \in DOMAIN rows |-> Min({rows[i].branch - 1, rows[i].frames})])
    /\ s.candidates = Len(rows) + (IF s.interrupted > 0 THEN 1 ELSE 0)
    /\ s.known = Known1(s) /\ s.uncertain = s.interrupted + s.prior.uncertain

Resume ==
    /\ repair = "over" /\ actual.episode < MaxEpisodes
    /\ Acceptable(summary, ledger)
    /\ prior' = [known |-> Known1(summary), uncertain |-> summary.interrupted + summary.prior.uncertain]
    /\ current' = summary.selected
    /\ repair' = "initial" /\ late' = FALSE
    /\ child' = [NoChild EXCEPT !.state = "running"]
    /\ audit' = [known |-> [p \in Phases |-> 0], uncertain |-> [p \in Phases |-> IF p = 0 THEN Cap ELSE 0]]
    /\ actual' = [phase |-> [p \in Phases |-> 0], before |-> actual.before + Total(actual.phase),
                  episode |-> actual.episode + 1]
    /\ best' = NoRun /\ at' = 1 /\ count' = ZeroCounts /\ reason' = "" /\ ledger' = << >>
    /\ initial' = 0 /\ summary' = Nothing

RepairStep ==
    \/ Begin \/ Terminate \/ KillChild \/ InitialDone \/ Round \/ Search \/ CandidateInterrupted
    \/ CandidateDone \/ Verify \/ ReplayDone \/ Summarise
RepairNext ==
    \/ RepairStep \/ Update \/ Deadline \/ CrashRepair \/ Resume
    \/ \E o \in {"complete", "collision", "limit", "bad"}, onset \in 0 .. Cap : Exit(o, onset)

----
(* The accounts cover the work: at every moment, in every phase, the       *)
(* updates the game processes really made are at least those known and at  *)
(* most those known and uncertain; candidates never exceed the budget; and *)
(* a summary says the same of the whole chain of searches it ends.         *)
CostsCover ==
    /\ \A p \in Phases : actual.phase[p] \in audit.known[p] .. audit.known[p] + audit.uncertain[p]
    /\ actual.phase[1] <= Budget
    /\ summary.outcome \notin {"none", "error"} =>
          actual.before + Total(actual.phase) \in summary.known .. summary.known + summary.uncertain

(* A completed search was replayed to the same end by a second process;    *)
(* and a search that ended with a longer collision than it began with has  *)
(* selected the very run that a resume will find in its ledger, so that it *)
(* can be resumed.                                                         *)
HonestSummary ==
    /\ summary.outcome = "complete" =>
          summary.selected.outcome = "complete" /\ summary.verification = summary.selected.frames
    /\ summary.outcome \notin {"none", "error", "complete"} /\ current.frames > initial =>
          Acceptable(summary, ledger)

(* Together: a search accounts for all it did and ends with a run that a   *)
(* second process, or a resumed search, comes to as well.                  *)
HonestRepair == CostsCover /\ HonestSummary
====
