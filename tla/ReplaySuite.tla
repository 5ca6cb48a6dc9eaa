---- MODULE ReplaySuite ----
(* The replay suite (tools/replay_suite.cpp): it replays every selected    *)
(* fixture of a pinned corpus in a process of its own, a few at a time,    *)
(* and leaves a report that a release may rest on.  Processes hang, exit   *)
(* with descendants, write too much; the operator interrupts; the files    *)
(* under test are rebuilt in the middle; a file operation of the suite     *)
(* fails; the suite itself is killed.  A step is one stretch of the suite  *)
(* between two places where a process may do something.                    *)
EXTENDS Integers, Sequences, FiniteSets, SequencesExt

CONSTANTS
    Manifests, \* fixture lists: sequences of records of id, file, hash, rows
    Corpora,   \* corpora: sets of records of file, hash
    CaseSets,  \* sets of fixture ids asked for with --case; {} asks for all
    Jobs       \* --jobs

ASSUME SuiteAssumption == Jobs \in Nat \ {0}

VARIABLES
    selected,    \* the fixtures to replay, in the order of the manifest
    suite,       \* where the suite is
    next,        \* fixtures launched
    active,      \* the children vector: index, timedOut, flooded
    cursor,      \* the child of active being polled
    interrupted, \* SIGINT or SIGTERM has arrived
    results,     \* the outcome recorded for each selected fixture
    report,      \* summary.json
    proc,        \* the process of each fixture: none, running, dying, exited, reaped
    kin,         \* whether it has descendants alive
    verdict,     \* what it did: good, bad, flood (too much output), or nothing yet
    expired,     \* its deadline has passed
    drift,       \* a file hashed at the start is not what it was
    taint,       \* history: that has been so since a replay was still to finish
    overdue      \* history: the replays polled after their deadline, still to finish

suiteVars == <<selected, suite, next, active, cursor, interrupted, results, report, proc, kin,
               verdict, expired, drift, taint, overdue>>
procVars == <<proc, kin, verdict, expired>>
worldVars == <<interrupted, drift, taint, overdue>>

(* fixtures: a list with a repeated id, file or replay, or an empty one, is *)
(* refused before anything is run.                                         *)
Accepted(manifest) ==
    /\ manifest # << >>
    /\ \A i, j \in DOMAIN manifest : i # j =>
          /\ manifest[i].id # manifest[j].id
          /\ manifest[i].file # manifest[j].file
          /\ manifest[i].hash # manifest[j].hash

(* validate_corpus: the corpus holds exactly the fixtures' replays. *)
Matches(corpus, manifest) == corpus = {[file |-> f.file, hash |-> f.hash] : f \in ToSet(manifest)}

Selection(manifest, choice) == SelectSeq(manifest, LAMBDA f : choice = {} \/ f.id \in choice)
Known(manifest, choice) == choice \subseteq {f.id : f \in ToSet(manifest)}

Fixture == DOMAIN selected
Outcome(outcome) == [outcome |-> outcome, results |-> results]

SuiteInit ==
    /\ selected = << >> /\ suite = "start" /\ next = 0 /\ active = << >> /\ cursor = 1
    /\ interrupted = FALSE /\ results = << >>
    /\ report = [outcome |-> "none", results |-> << >>]
    /\ proc = << >> /\ kin = << >> /\ verdict = << >> /\ expired = << >>
    /\ drift = FALSE /\ taint = FALSE /\ overdue = {}

Start(manifest, corpus, choice) ==
    /\ suite = "start"
    /\ IF Accepted(manifest) /\ Matches(corpus, manifest) /\ Known(manifest, choice)
       THEN LET chosen == Selection(manifest, choice)
                each(value) == [i \in DOMAIN chosen |-> value]
            IN  /\ selected' = chosen /\ suite' = "launch"
                /\ results' = each("pending")
                /\ report' = [outcome |-> "running", results |-> each("pending")]
                /\ proc' = each("none") /\ kin' = each(FALSE)
                /\ verdict' = each("none") /\ expired' = each(FALSE)
       ELSE suite' = "refused" /\ UNCHANGED <<selected, results, report, procVars>>
    /\ UNCHANGED <<next, active, cursor, worldVars>>

----
(* The children: kill_child ends a process and its group, but not at once. *)
Killed(which) == [i \in Fixture |-> IF i \in which /\ proc[i] = "running" THEN "dying" ELSE proc[i]]
(* A version that kills the process and not its group.                     *)
LeftBehind(which) == kin
Orphaned(which) == [i \in Fixture |-> kin[i] /\ i \notin which]

Run(i) ==
    /\ proc[i] = "running"
    /\ \/ /\ proc' = [proc EXCEPT ![i] = "exited"]
          /\ verdict' = [verdict EXCEPT ![i] = IF verdict[i] = "flood" THEN "flood" ELSE "bad"]
          /\ UNCHANGED kin
       \/ /\ verdict[i] = "none"
          /\ proc' = [proc EXCEPT ![i] = "exited"] /\ verdict' = [verdict EXCEPT ![i] = "good"]
          /\ UNCHANGED kin
       \/ verdict[i] = "none" /\ verdict' = [verdict EXCEPT ![i] = "flood"] /\ UNCHANGED <<proc, kin>>
       \/ ~kin[i] /\ kin' = [kin EXCEPT ![i] = TRUE] /\ UNCHANGED <<proc, verdict>>
    /\ UNCHANGED <<selected, suite, next, active, cursor, results, report, expired, worldVars>>

Die(i) ==
    /\ proc[i] = "dying"
    /\ proc' = [proc EXCEPT ![i] = "exited"]
    /\ verdict' = [verdict EXCEPT ![i] = IF verdict[i] = "none" THEN "bad" ELSE verdict[i]]
    /\ UNCHANGED <<selected, suite, next, active, cursor, results, report, kin, expired, worldVars>>

Expire(i) ==
    /\ proc[i] \in {"running", "exited"} /\ ~expired[i]
    /\ expired' = [expired EXCEPT ![i] = TRUE]
    /\ UNCHANGED <<selected, suite, next, active, cursor, results, report, proc, kin, verdict, worldVars>>

(* The operator, and whoever rebuilds the files under test or puts them    *)
(* back.                                                                   *)
Interrupt ==
    /\ suite \notin {"start", "refused", "done", "dead"} /\ ~interrupted
    /\ interrupted' = TRUE
    /\ UNCHANGED <<selected, suite, next, active, cursor, results, report, procVars, drift, taint,
                   overdue>>

Rebuild ==
    /\ suite \notin {"start", "refused", "done", "dead"}
    /\ drift' = ~drift
    /\ taint' = (drift' /\ \E i \in Fixture : results[i] = "pending")
    /\ UNCHANGED <<selected, suite, next, active, cursor, interrupted, results, report, procVars,
                   overdue>>

----
(* The loop: as many launches as there is room for, one pass over active. *)
Loop(work) == IF next < Len(selected) \/ work # << >> THEN "launch" ELSE "recheck"

Launch ==
    /\ suite = "launch"
    /\ IF interrupted \/ next = Len(selected) \/ Len(active) = Jobs
       THEN suite' = "drain" /\ cursor' = 1 /\ UNCHANGED <<next, active, proc>>
       ELSE \/ /\ next' = next + 1
               /\ active' = Append(active, [index |-> next', timedOut |-> FALSE, flooded |-> FALSE])
               /\ proc' = [proc EXCEPT ![next'] = "running"]
               /\ UNCHANGED <<suite, cursor>>
            \/ suite' = "unwind" /\ UNCHANGED <<next, active, cursor, proc>>
    /\ UNCHANGED <<selected, results, report, kin, verdict, expired, worldVars>>

(* drain, then the deadline: whoever floods its pipe, is late or is still  *)
(* there when the operator interrupts is killed.                           *)
Drain ==
    /\ suite = "drain" /\ cursor <= Len(active)
    /\ LET i == active[cursor].index
           floods == active[cursor].flooded \/ verdict[i] = "flood"
           late == interrupted \/ expired[i]
       IN  /\ active' = [active EXCEPT ![cursor].flooded = floods,
                                       ![cursor].timedOut = IF late THEN ~interrupted ELSE @]
           /\ proc' = Killed({j \in {i} : floods \/ late})
           /\ kin' = Orphaned({j \in {i} : floods \/ late})
           /\ overdue' = overdue \union {j \in {i} : expired[j] /\ results[j] = "pending"}
    /\ suite' = "wait"
    /\ UNCHANGED <<selected, next, cursor, results, report, verdict, expired, interrupted, drift,
                   taint>>

DrainFails ==
    /\ suite = "drain" /\ cursor <= Len(active)
    /\ suite' = "unwind"
    /\ UNCHANGED <<selected, next, active, cursor, results, report, procVars, worldVars>>

(* finish: why a child's replay counts.                                    *)
(* A version in which a replay that was killed for being late may count.   *)
FinishedLate(child) ==
    IF ~interrupted /\ ~child.flooded /\ verdict[child.index] = "good" THEN "passed" ELSE "failed"

Finished(child) ==
    IF /\ ~interrupted /\ ~child.timedOut
       /\ ~child.flooded /\ verdict[child.index] = "good"
    THEN "passed" ELSE "failed"

(* waitpid without hanging; a reaped child is drained again, its group is  *)
(* killed, its fixture gets its result, its capture is removed, and the    *)
(* report says so.                                                         *)
Alive ==
    /\ suite = "wait" /\ proc[active[cursor].index] \in {"running", "dying"}
    /\ cursor' = cursor + 1 /\ suite' = "drain"
    /\ UNCHANGED <<selected, next, active, results, report, procVars, worldVars>>

Collect ==
    LET child == [active[cursor] EXCEPT !.flooded = @ \/ verdict[active[cursor].index] = "flood"]
        i == child.index
    IN  /\ suite = "wait" /\ proc[i] = "exited"
        /\ proc' = [proc EXCEPT ![i] = "reaped"] /\ kin' = [kin EXCEPT ![i] = FALSE]
        /\ results' = [results EXCEPT ![i] = Finished(child)]
        /\ \/ active' = RemoveAt(active, cursor) /\ suite' = "drain"
              /\ report' = [outcome |-> "running", results |-> results']
           \/ active' = RemoveAt(active, cursor) /\ suite' = "unwind" /\ UNCHANGED report
           \/ suite' = "unwind" /\ UNCHANGED <<active, report>>
        /\ UNCHANGED <<selected, next, cursor, verdict, expired, worldVars>>

EndOfPass ==
    /\ suite = "drain" /\ cursor > Len(active)
    /\ suite' = IF interrupted /\ active = << >> THEN "unwind" ELSE Loop(active)
    /\ UNCHANGED <<selected, next, active, cursor, results, report, procVars, worldVars>>

(* Every replay has ended: the files must still be the ones of the start. *)
(* A version that trusts the hashes of the start.                          *)
RecheckNothing ==
    /\ suite = "recheck"
    /\ suite' = "conclude"
    /\ UNCHANGED <<selected, next, active, cursor, results, report, procVars, worldVars>>

Recheck ==
    /\ suite = "recheck"
    /\ suite' = IF drift THEN "unwind" ELSE "conclude"
    /\ UNCHANGED <<selected, next, active, cursor, results, report, procVars, worldVars>>

Conclude ==
    /\ suite = "conclude"
    /\ \/ /\ report' = Outcome(IF \A i \in Fixture : results[i] = "passed" THEN "passed" ELSE "failed")
          /\ suite' = "done"
       \/ suite' = "unwind" /\ UNCHANGED report
    /\ UNCHANGED <<selected, next, active, cursor, results, procVars, worldVars>>

(* A Failure: ~Children kills what is left and waits for all of it, then   *)
(* the report is written, if it can be.                                    *)
Unwind ==
    /\ suite = "unwind"
    /\ LET left == {active[c].index : c \in DOMAIN active}
       IN  proc' = Killed(left) /\ kin' = Orphaned(left)
    /\ suite' = "reap"
    /\ UNCHANGED <<selected, next, active, cursor, results, report, verdict, expired, worldVars>>

Reap ==
    /\ suite = "reap"
    /\ \A c \in DOMAIN active : proc[active[c].index] # "dying"
    /\ LET left == {active[c].index : c \in DOMAIN active}
       IN  proc' = [i \in Fixture |-> IF i \in left THEN "reaped" ELSE proc[i]]
    /\ active' = << >> /\ suite' = "done"
    /\ report' = Outcome("failed") \/ UNCHANGED report
    /\ UNCHANGED <<selected, next, cursor, results, kin, verdict, expired, worldVars>>

Crash ==
    /\ suite \notin {"start", "refused", "done", "dead"}
    /\ suite' = "dead"
    /\ UNCHANGED <<selected, next, active, cursor, results, report, procVars, worldVars>>

SuiteStep ==
    \/ \E m \in Manifests, c \in Corpora, s \in CaseSets : Start(m, c, s)
    \/ Launch \/ Drain \/ DrainFails \/ Alive \/ Collect \/ EndOfPass
    \/ Recheck \/ Conclude \/ Unwind \/ Reap
ProcStep == \E i \in Fixture : Run(i) \/ Die(i) \/ Expire(i)
SuiteNext == SuiteStep \/ ProcStep \/ Interrupt \/ Rebuild \/ Crash

----
(* What a reader may take from the report, at any time: a fixture said to  *)
(* have passed did replay to its own trace, no poll found its deadline     *)
(* past, and its process and its group are gone; a suite said to           *)
(* have passed passed every selected fixture, and the files it rests on    *)
(* were, after the last replay, what they were before the first: a change  *)
(* made meanwhile had been undone.  (That none was made the two hashes     *)
(* cannot tell.)                                                           *)
HonestSuite ==
    /\ \A i \in DOMAIN report.results : report.results[i] = "passed" =>
          verdict[i] = "good" /\ i \notin overdue /\ proc[i] = "reaped" /\ ~kin[i]
    /\ report.outcome = "passed" =>
          /\ \A i \in Fixture : report.results[i] = "passed"
          /\ ~taint

(* The suite ends whatever its children do, and unless it was itself       *)
(* killed it leaves none of them running.                                  *)
SuiteOver == suite \in {"refused", "dead"} \/
    (suite = "done" /\ \A i \in Fixture : proc[i] \in {"none", "reaped"} /\ ~kin[i])
SuiteEnds == suite = "launch" ~> SuiteOver
====
