---- MODULE CampaignProofs ----
(***************************************************************************)
(* Five of the offline tools, for every corpus, number of jobs, game and   *)
(* budget.                                                                 *)
(*                                                                         *)
(* The replay suite: its report never says more than what was replayed,    *)
(* and a suite that ends by itself leaves no process behind.  The argument *)
(* follows a child: it is in the children vector from its launch until it  *)
(* has been reaped, a result is only recorded for a child that was reaped, *)
(* and nothing reaped is launched again.                                   *)
(*                                                                         *)
(* The repair search: its books, its ledger and the run it selects agree,  *)
(* over an interruption at any point and over resumes.                     *)
(*                                                                         *)
(* The planner's search: a checkpoint alive is in the slot of its depth,   *)
(* so the one release that is sent goes to the oldest of them, and what    *)
(* any of them has committed is part of a game nobody dies in.             *)
(*                                                                         *)
(* The native run: what its report says is true of the game it played, a   *)
(* tape played again tells the same, and the probe's branches agree.       *)
(*                                                                         *)
(* The selections: which worlds, nodes and updates are chosen.  A finite   *)
(* set in a linear order has a rank for each of its members; what is said  *)
(* of a selection is said of the ranks it takes.                           *)
(***************************************************************************)
EXTENDS ReplaySuite, Repair, PlanSearch, HeadlessRun, Selection, FiniteSetTheorems, SequenceTheorems,
        WellFoundedInduction, TLAPS

Child == [index : Nat \ {0}, timedOut : BOOLEAN, flooded : BOOLEAN]
Places == {"start", "refused", "launch", "drain", "wait", "recheck", "conclude", "unwind",
           "reap", "done", "dead"}
Results == {"pending", "passed", "failed"}
Procs == {"none", "running", "dying", "exited", "reaped"}
Verdicts == {"none", "good", "bad", "flood"}
Unreaped == {"running", "dying", "exited"}

SuiteTyped ==
    /\ suite \in Places /\ next \in Nat /\ cursor \in Nat \ {0} /\ active \in Seq(Child)
    /\ interrupted \in BOOLEAN /\ drift \in BOOLEAN /\ taint \in BOOLEAN
    /\ results \in [Fixture -> Results]
    /\ report \in [outcome : {"none", "running", "passed", "failed"},
                   results : [Fixture -> Results]]
    /\ proc \in [Fixture -> Procs] /\ kin \in [Fixture -> BOOLEAN]
    /\ verdict \in [Fixture -> Verdicts] /\ expired \in [Fixture -> BOOLEAN]

\* Whoever has been launched and not reaped is in the children vector, and
\* only they have descendants.
Held(i) == \E c \in DOMAIN active : active[c].index = i
Tracked ==
    /\ \A i \in Fixture : proc[i] # "none" => i \in 1 .. next
    /\ \A i \in Fixture : proc[i] \in Unreaped => Held(i)
    /\ \A c \in DOMAIN active : active[c].index \in 1 .. next
    /\ \A i \in Fixture : kin[i] => proc[i] \in Unreaped
    /\ suite = "wait" => cursor \in DOMAIN active
    /\ suite \in {"recheck", "conclude"} => active = << >>
    /\ suite = "reap" => \A i \in Fixture : proc[i] # "running" /\ ~kin[i]

\* A suite that ended by itself: nothing it launched is left.
NoneLeft == suite = "done" => \A i \in Fixture : proc[i] \in {"none", "reaped"} /\ ~kin[i]

\* What is recorded, what is reported, and what has changed meanwhile.
Harvested == \A i \in Fixture : results[i] = "passed" => verdict[i] = "good" /\ proc[i] = "reaped"
ToldSo ==
    /\ \A i \in Fixture : report.results[i] = "passed" => results[i] = "passed"
    /\ report.outcome = "passed" =>
         suite = "done" /\ ~taint /\ \A i \in Fixture : report.results[i] = "passed"
Unchanged ==
    /\ taint => drift
    /\ suite = "conclude" /\ taint => \E i \in Fixture : results[i] = "pending"

\* A replay polled too late is told so until its result is recorded.
Belated ==
    /\ suite = "start" => overdue = {}
    /\ \A i \in Fixture : i \in overdue => expired[i] /\ results[i] # "passed"
    /\ suite = "wait" /\ active[cursor].index \in Fixture \cap overdue =>
         interrupted \/ active[cursor].timedOut

SuiteInv == SuiteTyped /\ Tracked /\ NoneLeft /\ Harvested /\ ToldSo /\ Unchanged /\ Belated
SuiteSpec == SuiteInit /\ [][SuiteNext]_suiteVars

LEMMA SuiteBegin == SuiteInit => SuiteInv
<1> SUFFICES ASSUME SuiteInit PROVE SuiteInv OBVIOUS
<1>1. /\ selected = << >> /\ suite = "start" /\ next = 0 /\ active = << >> /\ cursor = 1
      /\ interrupted = FALSE /\ drift = FALSE /\ taint = FALSE /\ overdue = {}
      /\ results = << >> /\ proc = << >> /\ kin = << >> /\ verdict = << >> /\ expired = << >>
      /\ report = [outcome |-> "none", results |-> << >>]
  BY DEF SuiteInit
<1>2. Fixture = {} BY <1>1 DEF Fixture
<1>3. \A S : << >> \in [Fixture -> S] BY <1>2
<1>4. SuiteTyped
 <2>1. /\ << >> \in [Fixture -> Results] /\ << >> \in [Fixture -> Procs]
       /\ << >> \in [Fixture -> BOOLEAN] /\ << >> \in [Fixture -> Verdicts]
   BY <1>3
 <2>2. << >> \in Seq(Child) /\ suite \in Places BY <1>1 DEF Places
 <2>3. report \in [outcome : {"none", "running", "passed", "failed"},
                   results : [Fixture -> Results]]
   BY <1>1, <2>1
 <2>4. /\ results \in [Fixture -> Results] /\ proc \in [Fixture -> Procs]
       /\ kin \in [Fixture -> BOOLEAN] /\ verdict \in [Fixture -> Verdicts]
       /\ expired \in [Fixture -> BOOLEAN]
   BY <1>1, <2>1
 <2>5. next = 0 /\ cursor = 1 /\ interrupted = FALSE /\ drift = FALSE /\ taint = FALSE BY <1>1
 <2>6. /\ next \in Nat /\ cursor \in Nat \ {0}
       /\ interrupted \in BOOLEAN /\ drift \in BOOLEAN /\ taint \in BOOLEAN
  <3>1. next \in Nat BY <2>5
  <3>2. cursor \in Nat \ {0} BY <2>5
  <3>3. interrupted \in BOOLEAN BY <2>5, Zenon
  <3>4. drift \in BOOLEAN BY <2>5, Zenon
  <3>5. taint \in BOOLEAN BY <2>5, Zenon
  <3> QED BY <3>1, <3>2, <3>3, <3>4, <3>5
 <2>7. active \in Seq(Child) BY <1>1, <2>2
 <2> QED BY <2>2, <2>3, <2>4, <2>6, <2>7 DEF SuiteTyped
<1> QED BY <1>1, <1>2, <1>4
        DEF SuiteInv, Tracked, NoneLeft, Harvested, ToldSo, Unchanged, Belated

\* A child leaves the vector.
LEMMA Leaving ==
  ASSUME NEW s \in Seq(Child), NEW k \in DOMAIN s
  PROVE  /\ RemoveAt(s, k) \in Seq(Child)
         /\ \A c \in DOMAIN s : c # k => \E d \in DOMAIN RemoveAt(s, k) : RemoveAt(s, k)[d] = s[c]
         /\ \A d \in DOMAIN RemoveAt(s, k) : \E c \in DOMAIN s : RemoveAt(s, k)[d] = s[c]
<1> DEFINE a == SubSeq(s, 1, k - 1)
           b == SubSeq(s, k + 1, Len(s))
<1>1. k \in 1 .. Len(s) /\ Len(s) \in Nat /\ k \in Int OBVIOUS
<1>2. /\ a \in Seq(Child) /\ Len(a) = k - 1
      /\ \A i \in 1 .. k - 1 : a[i] = s[i]
 <2>1. \A i \in 1 .. k - 1 : s[i] \in Child BY <1>1
 <2>2. /\ a \in Seq(Child) /\ Len(a) = IF 1 <= k - 1 THEN (k - 1) - 1 + 1 ELSE 0
       /\ \A i \in 1 .. (k - 1) - 1 + 1 : a[i] = s[1 + i - 1]
   BY <1>1, <2>1, SubSeqProperties
 <2> HIDE DEF a
 <2> QED BY <1>1, <2>2
<1>3. /\ b \in Seq(Child) /\ Len(b) = Len(s) - k
      /\ \A i \in 1 .. Len(s) - k : b[i] = s[k + i]
 <2>1. \A i \in k + 1 .. Len(s) : s[i] \in Child BY <1>1
 <2>2. /\ b \in Seq(Child) /\ Len(b) = IF k + 1 <= Len(s) THEN Len(s) - (k + 1) + 1 ELSE 0
       /\ \A i \in 1 .. Len(s) - (k + 1) + 1 : b[i] = s[(k + 1) + i - 1]
   BY <1>1, <2>1, SubSeqProperties
 <2> HIDE DEF b
 <2> QED BY <1>1, <2>2
<1>4. RemoveAt(s, k) = a \o b BY DEF RemoveAt
<1> HIDE DEF a, b
<1>5. /\ a \o b \in Seq(Child) /\ Len(a \o b) = Len(s) - 1
      /\ \A i \in 1 .. Len(s) - 1 : (a \o b)[i] = IF i <= k - 1 THEN a[i] ELSE b[i - (k - 1)]
  BY SMTT(30), <1>1, <1>2, <1>3, ConcatProperties
<1>6. ASSUME NEW c \in DOMAIN s, c # k
      PROVE  \E d \in DOMAIN (a \o b) : (a \o b)[d] = s[c]
 <2>1. DOMAIN (a \o b) = 1 .. Len(s) - 1 BY <1>5
 <2>2. CASE c < k
  <3>1. c \in 1 .. Len(s) - 1 /\ (a \o b)[c] = s[c] BY <1>1, <1>2, <1>5, <2>2
  <3> QED BY <2>1, <3>1
 <2>3. CASE c > k
  <3>1. c - 1 \in 1 .. Len(s) - 1 /\ c - 1 - (k - 1) = c - k /\ ~(c - 1 <= k - 1) BY <1>1, <2>3
  <3>2. (a \o b)[c - 1] = b[c - k] BY <1>5, <3>1
  <3>3. c - k \in 1 .. Len(s) - k /\ k + (c - k) = c BY <1>1, <2>3
  <3>4. (a \o b)[c - 1] = s[c] BY <1>3, <3>2, <3>3
  <3> QED BY <2>1, <3>1, <3>4
 <2> QED BY <1>1, <1>6, <2>2, <2>3
<1>7. ASSUME NEW d \in DOMAIN (a \o b)
      PROVE  \E c \in DOMAIN s : (a \o b)[d] = s[c]
 <2>1. d \in 1 .. Len(s) - 1 BY <1>5
 <2>2. CASE d <= k - 1
  <3>1. d \in 1 .. k - 1 /\ d \in 1 .. Len(s) BY <1>1, <2>1, <2>2
  <3>2. (a \o b)[d] = a[d] /\ a[d] = s[d] BY <1>2, <1>5, <2>1, <2>2, <3>1
  <3> QED BY <1>1, <3>1, <3>2
 <2>3. CASE ~(d <= k - 1)
  <3>1. d - (k - 1) \in 1 .. Len(s) - k /\ k + (d - (k - 1)) \in 1 .. Len(s)
   <4>1. k \in Nat /\ d \in Nat /\ d <= Len(s) - 1 /\ d > k - 1 BY <1>1, <2>1, <2>3
   <4>2. ASSUME NEW n \in Nat, d <= n - 1
         PROVE  d - (k - 1) \in 1 .. n - k /\ k + (d - (k - 1)) \in 1 .. n
     BY <4>1, <4>2
   <4> QED BY <1>1, <4>1, <4>2
  <3>2. (a \o b)[d] = b[d - (k - 1)] /\ b[d - (k - 1)] = s[k + (d - (k - 1))] BY <1>3, <1>5, <2>1, <2>3, <3>1
  <3> QED BY SMTT(30), <1>1, <3>1, <3>2
 <2> QED BY <2>2, <2>3
<1> QED BY <1>4, <1>5, <1>6, <1>7

\* Killing some of the children.
LEMMA Killing ==
  ASSUME SuiteTyped, NEW which
  PROVE  /\ Killed(which) \in [Fixture -> Procs] /\ Orphaned(which) \in [Fixture -> BOOLEAN]
         /\ \A i \in Fixture :
              /\ Killed(which)[i] = "none" <=> proc[i] = "none"
              /\ Killed(which)[i] = "reaped" <=> proc[i] = "reaped"
              /\ Killed(which)[i] \in Unreaped <=> proc[i] \in Unreaped
              /\ i \in which => Killed(which)[i] # "running" /\ ~Orphaned(which)[i]
              /\ Killed(which)[i] = "running" => proc[i] = "running"
              /\ Orphaned(which)[i] => kin[i]
<1>1. proc \in [Fixture -> Procs] /\ kin \in [Fixture -> BOOLEAN] BY DEF SuiteTyped
<1>2. ASSUME NEW i \in Fixture
      PROVE  /\ Killed(which)[i] = IF i \in which /\ proc[i] = "running" THEN "dying" ELSE proc[i]
             /\ Orphaned(which)[i] <=> kin[i] /\ i \notin which
  BY DEF Killed, Orphaned
<1>3. Killed(which) \in [Fixture -> Procs] /\ Orphaned(which) \in [Fixture -> BOOLEAN]
  BY <1>1 DEF Killed, Orphaned, Procs
<1> QED BY <1>1, <1>2, <1>3 DEF Procs, Unreaped

LEMMA StartStep ==
  ASSUME SuiteInv, NEW m, NEW c, NEW s, Start(m, c, s)
  PROVE  SuiteInv'
<1>1. SuiteTyped BY DEF SuiteInv
<1>2. /\ suite = "start"
      /\ next' = next /\ active' = active /\ cursor' = cursor
      /\ interrupted' = interrupted /\ drift' = drift /\ taint' = taint /\ overdue' = overdue
  BY DEF Start, worldVars
<1>3. CASE Accepted(m) /\ Matches(c, m) /\ Known(m, s)
 <2> DEFINE F == Fixture'
 <2>1. /\ suite' = "launch"
       /\ results' = [i \in F |-> "pending"]
       /\ report' = [outcome |-> "running", results |-> [i \in F |-> "pending"]]
       /\ proc' = [i \in F |-> "none"] /\ kin' = [i \in F |-> FALSE]
       /\ verdict' = [i \in F |-> "none"] /\ expired' = [i \in F |-> FALSE]
   BY <1>3 DEF Start, Fixture
 <2> HIDE DEF F
 <2>2. /\ results' \in [F -> Results] /\ [i \in F |-> "pending"] \in [F -> Results]
       /\ proc' \in [F -> Procs]
       /\ kin' \in [F -> BOOLEAN] /\ verdict' \in [F -> Verdicts] /\ expired' \in [F -> BOOLEAN]
   BY <2>1 DEF Results, Procs, Verdicts
 <2>3. report' \in [outcome : {"none", "running", "passed", "failed"}, results : [F -> Results]] BY <2>1, <2>2
 <2>4. \A i \in F : /\ results'[i] = "pending" /\ report'.results[i] = "pending"
                    /\ proc'[i] = "none" /\ ~kin'[i]
   BY <2>1
 <2>5. SuiteTyped' BY <1>1, <1>2, <2>1, <2>2, <2>3 DEF SuiteTyped, F, Places
 <2>6. Tracked'
  <3>1. \A d \in DOMAIN active' : active'[d].index \in 1 .. next' BY <1>2 DEF SuiteInv, Tracked
  <3> QED BY <2>1, <2>4, <3>1 DEF Tracked, F, Unreaped
 <2>7. NoneLeft' /\ Harvested' /\ ToldSo' BY <2>1, <2>4 DEF NoneLeft, Harvested, ToldSo, F
 <2>8. Unchanged' /\ Belated'
  <3>1. overdue' = {} BY <1>2 DEF SuiteInv, Belated
  <3>2. Belated' BY <2>1, <3>1 DEF Belated
  <3> QED BY <1>2, <2>1, <3>2 DEF Unchanged, SuiteInv
 <2> QED BY <2>5, <2>6, <2>7, <2>8 DEF SuiteInv
<1>4. CASE ~(Accepted(m) /\ Matches(c, m) /\ Known(m, s))
 <2>1. /\ suite' = "refused" /\ selected' = selected /\ results' = results /\ report' = report
       /\ proc' = proc /\ kin' = kin /\ verdict' = verdict /\ expired' = expired
   BY <1>4 DEF Start, procVars
 <2>2. Fixture' = Fixture BY <2>1 DEF Fixture
 <2>3. SuiteTyped' BY <1>1, <1>2, <2>1, <2>2 DEF SuiteTyped, Places
 <2>4. Tracked' /\ NoneLeft' /\ Harvested' /\ ToldSo' /\ Unchanged' /\ Belated'
   BY <1>2, <2>1, <2>2 DEF SuiteInv, Tracked, Held, NoneLeft, Harvested, ToldSo, Unchanged, Belated
 <2> QED BY <2>3, <2>4 DEF SuiteInv
<1> QED BY <1>3, <1>4

\* What a process does, or time, or whoever watches.
LEMMA RunStep ==
  ASSUME SuiteInv, NEW j \in Fixture, Run(j)
  PROVE  SuiteInv'
<1>1. SuiteTyped /\ Tracked /\ NoneLeft /\ Harvested /\ ToldSo /\ Unchanged /\ Belated BY DEF SuiteInv
<1>2. /\ selected' = selected /\ suite' = suite /\ next' = next /\ active' = active
      /\ cursor' = cursor /\ results' = results /\ report' = report /\ expired' = expired
      /\ interrupted' = interrupted /\ drift' = drift /\ taint' = taint /\ overdue' = overdue
      /\ proc[j] = "running"
  BY DEF Run, worldVars
<1>3. Fixture' = Fixture BY <1>2 DEF Fixture
<1>4. \E p \in {"running", "exited"}, v \in Verdicts, k \in BOOLEAN :
        /\ proc' = [proc EXCEPT ![j] = p] /\ verdict' = [verdict EXCEPT ![j] = v]
        /\ kin' = [kin EXCEPT ![j] = k]
 <2>1. /\ proc = [proc EXCEPT ![j] = "running"] /\ verdict = [verdict EXCEPT ![j] = verdict[j]]
       /\ kin = [kin EXCEPT ![j] = kin[j]] /\ kin[j] \in BOOLEAN /\ verdict[j] \in Verdicts
   BY <1>1, <1>2 DEF SuiteTyped
 <2>2. CASE proc' = [proc EXCEPT ![j] = "exited"] /\ kin' = kin
            /\ verdict' = [verdict EXCEPT ![j] = IF verdict[j] = "flood" THEN "flood" ELSE "bad"]
  <3> DEFINE v == IF verdict[j] = "flood" THEN "flood" ELSE "bad"
  <3>1. v \in Verdicts BY DEF Verdicts
  <3> HIDE DEF v
  <3>2. verdict' = [verdict EXCEPT ![j] = v] BY <2>2 DEF v
  <3> QED BY <2>1, <2>2, <3>1, <3>2
 <2>3. CASE proc' = [proc EXCEPT ![j] = "exited"] /\ kin' = kin
            /\ verdict' = [verdict EXCEPT ![j] = "good"]
   BY <2>1, <2>3 DEF Verdicts
 <2>4. CASE proc' = proc /\ kin' = kin /\ verdict' = [verdict EXCEPT ![j] = "flood"] BY <2>1, <2>4 DEF Verdicts
 <2>5. CASE proc' = proc /\ verdict' = verdict /\ kin' = [kin EXCEPT ![j] = TRUE] BY <2>1, <2>5
 <2> QED BY <2>2, <2>3, <2>4, <2>5 DEF Run
<1>5. PICK p \in {"running", "exited"}, v \in Verdicts, k \in BOOLEAN :
        /\ proc' = [proc EXCEPT ![j] = p] /\ verdict' = [verdict EXCEPT ![j] = v]
        /\ kin' = [kin EXCEPT ![j] = k]
  BY <1>4
<1>6. /\ proc' \in [Fixture -> Procs] /\ kin' \in [Fixture -> BOOLEAN]
      /\ verdict' \in [Fixture -> Verdicts]
      /\ proc'[j] \in {"running", "exited"}
      /\ \A i \in Fixture : i # j => proc'[i] = proc[i] /\ kin'[i] = kin[i] /\ verdict'[i] = verdict[i]
  BY <1>1, <1>5 DEF SuiteTyped, Procs
<1>7. SuiteTyped' BY <1>1, <1>2, <1>3, <1>6 DEF SuiteTyped
<1>8. Tracked'
 <2>1. suite # "reap" BY <1>1, <1>2 DEF Tracked
 <2>2. \A i \in Fixture : /\ proc'[i] # "none" <=> proc[i] # "none"
                          /\ proc'[i] \in Unreaped <=> proc[i] \in Unreaped
                          /\ kin'[i] => proc'[i] \in Unreaped
   BY <1>1, <1>2, <1>6 DEF Tracked, Unreaped
 <2> QED BY <1>1, <1>2, <1>3, <2>1, <2>2 DEF Tracked, Held
<1>9. NoneLeft' /\ Harvested' /\ ToldSo' /\ Unchanged' /\ Belated'
 <2>1. suite # "done" BY <1>1, <1>2 DEF NoneLeft
 <2>2. results[j] # "passed" BY <1>1, <1>2 DEF Harvested
 <2>3. NoneLeft' /\ Harvested' BY <1>1, <1>2, <1>3, <1>6, <2>1, <2>2 DEF NoneLeft, Harvested
 <2> QED BY <1>1, <1>2, <1>3, <2>3 DEF ToldSo, Unchanged, Belated
<1> QED BY <1>7, <1>8, <1>9 DEF SuiteInv

LEMMA DieStep ==
  ASSUME SuiteInv, NEW j \in Fixture, Die(j)
  PROVE  SuiteInv'
<1>1. SuiteTyped /\ Tracked /\ NoneLeft /\ Harvested /\ ToldSo /\ Unchanged /\ Belated BY DEF SuiteInv
<1> DEFINE v == IF verdict[j] = "none" THEN "bad" ELSE verdict[j]
<1>2. /\ selected' = selected /\ suite' = suite /\ next' = next /\ active' = active
      /\ cursor' = cursor /\ results' = results /\ report' = report /\ expired' = expired
      /\ interrupted' = interrupted /\ drift' = drift /\ taint' = taint /\ overdue' = overdue /\ kin' = kin
      /\ proc[j] = "dying" /\ proc' = [proc EXCEPT ![j] = "exited"]
      /\ verdict' = [verdict EXCEPT ![j] = v]
  BY DEF Die, worldVars
<1>3. Fixture' = Fixture BY <1>2 DEF Fixture
<1>4. v \in Verdicts BY <1>1 DEF SuiteTyped, Verdicts
<1> HIDE DEF v
<1>5. /\ proc' \in [Fixture -> Procs] /\ verdict' \in [Fixture -> Verdicts]
      /\ proc'[j] = "exited"
      /\ \A i \in Fixture : i # j => proc'[i] = proc[i] /\ verdict'[i] = verdict[i]
  BY <1>1, <1>2, <1>4 DEF SuiteTyped, Procs
<1>6. SuiteTyped' BY <1>1, <1>2, <1>3, <1>5 DEF SuiteTyped
<1>7. Tracked'
 <2>1. \A i \in Fixture : /\ proc'[i] # "none" <=> proc[i] # "none"
                          /\ proc'[i] \in Unreaped <=> proc[i] \in Unreaped
                          /\ proc'[i] = "running" => proc[i] = "running"
   BY <1>2, <1>5 DEF Unreaped
 <2> QED BY <1>1, <1>2, <1>3, <2>1 DEF Tracked, Held
<1>8. NoneLeft' /\ Harvested' /\ ToldSo' /\ Unchanged' /\ Belated'
 <2>1. suite # "done" BY <1>1, <1>2 DEF NoneLeft
 <2>2. results[j] # "passed" BY <1>1, <1>2 DEF Harvested
 <2>3. NoneLeft' /\ Harvested' BY <1>1, <1>2, <1>3, <1>5, <2>1, <2>2 DEF NoneLeft, Harvested
 <2> QED BY <1>1, <1>2, <1>3, <2>3 DEF ToldSo, Unchanged, Belated
<1> QED BY <1>6, <1>7, <1>8 DEF SuiteInv

LEMMA OutsideStep ==
  ASSUME SuiteInv, (\E j \in Fixture : Expire(j)) \/ Interrupt \/ Rebuild \/ Crash
  PROVE  SuiteInv'
<1>1. SuiteTyped /\ Tracked /\ NoneLeft /\ Harvested /\ ToldSo /\ Unchanged /\ Belated BY DEF SuiteInv
<1>2. ASSUME NEW j \in Fixture, Expire(j)
      PROVE  SuiteInv'
 <2>1. /\ selected' = selected /\ suite' = suite /\ next' = next /\ active' = active
       /\ cursor' = cursor /\ results' = results /\ report' = report
       /\ proc' = proc /\ kin' = kin /\ verdict' = verdict
       /\ interrupted' = interrupted /\ drift' = drift /\ taint' = taint /\ overdue' = overdue
       /\ expired' = [expired EXCEPT ![j] = TRUE]
   BY <1>2 DEF Expire, worldVars
 <2>2. Fixture' = Fixture BY <2>1 DEF Fixture
 <2>3. expired' \in [Fixture -> BOOLEAN] BY <1>1, <2>1 DEF SuiteTyped
 <2>4. SuiteTyped' BY <1>1, <2>1, <2>2, <2>3 DEF SuiteTyped
 <2> QED BY <1>1, <2>1, <2>2, <2>4
         DEF SuiteInv, Tracked, Held, NoneLeft, Harvested, ToldSo, Unchanged, Belated
<1>3. CASE Interrupt
 <2>1. /\ selected' = selected /\ suite' = suite /\ next' = next /\ active' = active
       /\ cursor' = cursor /\ results' = results /\ report' = report
       /\ proc' = proc /\ kin' = kin /\ verdict' = verdict /\ expired' = expired
       /\ interrupted' = TRUE /\ drift' = drift /\ taint' = taint /\ overdue' = overdue
   BY <1>3 DEF Interrupt, procVars
 <2>2. Fixture' = Fixture BY <2>1 DEF Fixture
 <2>3. SuiteTyped' BY <1>1, <2>1, <2>2 DEF SuiteTyped
 <2> QED BY <1>1, <2>1, <2>2, <2>3
         DEF SuiteInv, Tracked, Held, NoneLeft, Harvested, ToldSo, Unchanged, Belated
<1>4. CASE Rebuild
 <2>1. /\ selected' = selected /\ suite' = suite /\ next' = next /\ active' = active
       /\ cursor' = cursor /\ results' = results /\ report' = report
       /\ proc' = proc /\ kin' = kin /\ verdict' = verdict /\ expired' = expired
       /\ interrupted' = interrupted /\ drift' = ~drift /\ suite # "done"
       /\ taint' = (drift' /\ \E i \in Fixture : results[i] = "pending")
       /\ overdue' = overdue
   BY <1>4 DEF Rebuild, procVars
 <2>2. Fixture' = Fixture BY <2>1 DEF Fixture
 <2>3. SuiteTyped'
  <3>1. taint' \in BOOLEAN /\ drift' \in BOOLEAN BY <2>1
  <3> QED BY <1>1, <2>1, <2>2, <3>1 DEF SuiteTyped
 <2>4. report.outcome # "passed" BY <1>1, <2>1 DEF ToldSo
 <2>5. Tracked' /\ NoneLeft' /\ Harvested' /\ ToldSo' /\ Unchanged' /\ Belated'
   BY <1>1, <2>1, <2>2, <2>4 DEF Tracked, Held, NoneLeft, Harvested, ToldSo, Unchanged, Belated
 <2> QED BY <2>3, <2>5 DEF SuiteInv
<1>5. CASE Crash
 <2>1. /\ selected' = selected /\ suite' = "dead" /\ next' = next /\ active' = active
       /\ cursor' = cursor /\ results' = results /\ report' = report
       /\ proc' = proc /\ kin' = kin /\ verdict' = verdict /\ expired' = expired
       /\ interrupted' = interrupted /\ drift' = drift /\ taint' = taint /\ overdue' = overdue /\ suite # "done"
   BY <1>5 DEF Crash, procVars, worldVars
 <2>2. Fixture' = Fixture BY <2>1 DEF Fixture
 <2>3. SuiteTyped' BY <1>1, <2>1, <2>2 DEF SuiteTyped, Places
 <2> QED BY <1>1, <2>1, <2>2, <2>3
         DEF SuiteInv, Tracked, Held, NoneLeft, Harvested, ToldSo, Unchanged, Belated
<1> QED BY <1>2, <1>3, <1>4, <1>5

\* The steps that only move the suite on.
LEMMA MovingStep ==
  ASSUME SuiteInv, DrainFails \/ Alive \/ EndOfPass \/ Recheck
  PROVE  SuiteInv'
<1>1. SuiteTyped /\ Tracked /\ NoneLeft /\ Harvested /\ ToldSo /\ Unchanged /\ Belated BY DEF SuiteInv
<1>2. /\ selected' = selected /\ next' = next /\ active' = active /\ results' = results
      /\ report' = report /\ proc' = proc /\ kin' = kin /\ verdict' = verdict
      /\ expired' = expired /\ interrupted' = interrupted /\ drift' = drift /\ taint' = taint /\ overdue' = overdue
  BY DEF DrainFails, Alive, EndOfPass, Recheck, procVars, worldVars
<1>3. Fixture' = Fixture BY <1>2 DEF Fixture
<1>4. /\ suite \in {"drain", "wait", "recheck"} /\ suite' \in {"unwind", "drain", "launch", "recheck", "conclude"}
      /\ suite' = "recheck" => active = << >>
      /\ suite' = "conclude" => suite = "recheck" /\ ~drift
      /\ cursor' \in Nat \ {0}
 <2>1. cursor \in Nat \ {0} /\ cursor + 1 \in Nat \ {0} BY <1>1 DEF SuiteTyped
 <2>2. CASE DrainFails BY <2>1, <2>2 DEF DrainFails
 <2>3. CASE Alive BY <2>1, <2>3 DEF Alive
 <2>4. CASE EndOfPass BY <2>1, <2>4 DEF EndOfPass, Loop
 <2>5. CASE Recheck BY <2>1, <2>5 DEF Recheck
 <2> QED BY <2>2, <2>3, <2>4, <2>5
<1>5. SuiteTyped'
 <2>1. suite' \in Places BY <1>4 DEF Places
 <2> QED BY <1>1, <1>2, <1>3, <1>4, <2>1 DEF SuiteTyped
<1>6. Tracked' /\ NoneLeft' /\ Harvested' /\ ToldSo' /\ Unchanged' /\ Belated'
 <2>1. report.outcome # "passed" BY <1>1, <1>4 DEF ToldSo
 <2> QED BY <1>1, <1>2, <1>3, <1>4, <2>1
         DEF Tracked, Held, NoneLeft, Harvested, ToldSo, Unchanged, Belated
<1> QED BY <1>5, <1>6 DEF SuiteInv

LEMMA LaunchStep ==
  ASSUME SuiteInv, Launch
  PROVE  SuiteInv'
<1>1. SuiteTyped /\ Tracked /\ NoneLeft /\ Harvested /\ ToldSo /\ Unchanged /\ Belated BY DEF SuiteInv
<1>2. /\ selected' = selected /\ results' = results /\ report' = report /\ suite = "launch"
      /\ kin' = kin /\ verdict' = verdict /\ expired' = expired
      /\ interrupted' = interrupted /\ drift' = drift /\ taint' = taint /\ overdue' = overdue
  BY DEF Launch, worldVars
<1>3. Fixture' = Fixture BY <1>2 DEF Fixture
<1>4. next \in Nat /\ next + 1 \in Nat \ {0} /\ cursor \in Nat \ {0} /\ active \in Seq(Child)
  BY <1>1 DEF SuiteTyped
<1>5. report.outcome # "passed" BY <1>1, <1>2 DEF ToldSo
<1>6. ASSUME suite' \in {"drain", "unwind"}, cursor' \in Nat \ {0},
             next' = next /\ active' = active /\ proc' = proc
      PROVE  SuiteInv'
 <2>1. suite' \in Places BY <1>6 DEF Places
 <2>2. SuiteTyped' BY <1>1, <1>2, <1>3, <1>6, <2>1 DEF SuiteTyped
 <2>3. Tracked' /\ NoneLeft' /\ Harvested' /\ ToldSo' /\ Unchanged' /\ Belated'
   BY <1>1, <1>2, <1>3, <1>5, <1>6 DEF Tracked, Held, NoneLeft, Harvested, ToldSo, Unchanged, Belated
 <2> QED BY <2>2, <2>3 DEF SuiteInv
<1>7. ASSUME suite' = suite, cursor' = cursor, next' = next + 1,
             active' = Append(active, [index |-> next', timedOut |-> FALSE, flooded |-> FALSE]),
             proc' = [proc EXCEPT ![next'] = "running"]
      PROVE  SuiteInv'
 <2> DEFINE new == [index |-> next + 1, timedOut |-> FALSE, flooded |-> FALSE]
 <2>1. new \in Child /\ new.index = next + 1 BY <1>4 DEF Child
 <2>2. active' = Append(active, new) BY <1>7
 <2> HIDE DEF new
 <2>3. /\ active' \in Seq(Child) /\ DOMAIN active' = 1 .. Len(active) + 1
       /\ DOMAIN active = 1 .. Len(active) /\ Len(active) \in Nat
       /\ \A c \in 1 .. Len(active) : active'[c] = active[c]
       /\ active'[Len(active) + 1] = new
   BY <1>4, <2>1, <2>2
 <2>4. /\ \A i \in Fixture : Held(i) => Held(i)'
       /\ \A i \in Fixture : i = next + 1 => Held(i)'
  <3>1. ASSUME NEW i \in Fixture, Held(i) PROVE Held(i)'
   <4>1. PICK c \in DOMAIN active : active[c].index = i BY <3>1 DEF Held
   <4>2. c \in DOMAIN active' /\ active'[c].index = i BY <2>3, <4>1
   <4> QED BY <4>2 DEF Held
  <3>2. ASSUME NEW i \in Fixture, i = next + 1 PROVE Held(i)'
   <4>1. Len(active) + 1 \in DOMAIN active' /\ active'[Len(active) + 1].index = i BY <2>1, <2>3, <3>2
   <4> QED BY <4>1 DEF Held
  <3> QED BY <3>1, <3>2
 <2>5. /\ proc' \in [Fixture -> Procs]
       /\ \A i \in Fixture : proc'[i] = IF i = next + 1 THEN "running" ELSE proc[i]
   BY <1>1, <1>7 DEF SuiteTyped, Procs
 <2>6. \A i \in Fixture : i = next + 1 => proc[i] = "none" BY <1>1, <1>4 DEF Tracked
 <2>7. SuiteTyped' BY <1>1, <1>2, <1>3, <1>4, <1>7, <2>3, <2>5 DEF SuiteTyped
 <2>8. Tracked'
  <3>1. \A i \in Fixture : proc'[i] # "none" => i \in 1 .. next'
   <4>1. \A i \in Fixture : proc[i] # "none" => i \in 1 .. next BY <1>1 DEF Tracked
   <4> QED BY <1>4, <1>7, <2>5, <4>1
  <3>2. \A i \in Fixture : proc'[i] \in Unreaped => Held(i)' BY <1>1, <2>4, <2>5 DEF Tracked
  <3>3. \A i \in Fixture : kin'[i] => proc'[i] \in Unreaped BY <1>1, <1>2, <2>5 DEF Tracked, Unreaped
  <3>4. \A c \in DOMAIN active' : active'[c].index \in 1 .. next'
   <4>1. \A c \in DOMAIN active : active[c].index \in 1 .. next BY <1>1 DEF Tracked
   <4>2. next' = next + 1 /\ 1 .. next \subseteq 1 .. next' /\ next + 1 \in 1 .. next' BY <1>4, <1>7
   <4> QED BY <2>1, <2>3, <4>1, <4>2
  <3> QED BY <1>2, <1>3, <1>7, <3>1, <3>2, <3>3, <3>4 DEF Tracked
 <2>9. NoneLeft' /\ Harvested' /\ ToldSo' /\ Unchanged' /\ Belated'
   BY <1>1, <1>2, <1>3, <1>5, <1>7, <2>5, <2>6 DEF NoneLeft, Harvested, ToldSo, Unchanged, Belated
 <2> QED BY <2>7, <2>8, <2>9 DEF SuiteInv
<1>8. CASE interrupted \/ next = Len(selected) \/ Len(active) = Jobs BY <1>6, <1>8 DEF Launch
<1>9. CASE ~(interrupted \/ next = Len(selected) \/ Len(active) = Jobs) BY <1>4, <1>6, <1>7, <1>9 DEF Launch
<1> QED BY <1>8, <1>9

LEMMA DrainStep ==
  ASSUME SuiteInv, Drain
  PROVE  SuiteInv'
<1>1. SuiteTyped /\ Tracked /\ NoneLeft /\ Harvested /\ ToldSo /\ Unchanged /\ Belated BY DEF SuiteInv
<1>2. /\ selected' = selected /\ next' = next /\ cursor' = cursor /\ results' = results
      /\ report' = report /\ verdict' = verdict /\ expired' = expired
      /\ interrupted' = interrupted /\ drift' = drift /\ taint' = taint
      /\ suite = "drain" /\ suite' = "wait" /\ cursor <= Len(active)
  BY DEF Drain, worldVars
<1>3. Fixture' = Fixture BY <1>2 DEF Fixture
<1>4. PICK which : proc' = Killed(which) /\ kin' = Orphaned(which) BY DEF Drain
<1>5. /\ active' \in Seq(Child) /\ DOMAIN active' = DOMAIN active
      /\ \A c \in DOMAIN active : active'[c].index = active[c].index
      /\ cursor \in DOMAIN active /\ expired[active[cursor].index] =>
           interrupted \/ active'[cursor].timedOut
 <2> DEFINE old == active[cursor]
            floods == old.flooded \/ verdict[old.index] = "flood"
            tardy == interrupted \/ expired[old.index]
            new == [old EXCEPT !.flooded = floods, !.timedOut = IF tardy THEN ~interrupted ELSE @]
 <2>1. active \in Seq(Child) /\ cursor \in DOMAIN active /\ interrupted \in BOOLEAN BY <1>1, <1>2 DEF SuiteTyped
 <2>2. old \in Child BY <2>1
 <2>3. active' = [active EXCEPT ![cursor].flooded = floods,
                                ![cursor].timedOut = IF tardy THEN ~interrupted ELSE @]
   BY DEF Drain
 <2>4. floods \in BOOLEAN /\ (IF tardy THEN ~interrupted ELSE old.timedOut) \in BOOLEAN BY <2>1, <2>2 DEF Child
 <2>5. new \in Child /\ new.index = old.index /\ (tardy => interrupted \/ new.timedOut)
  <3> DEFINE t == IF tardy THEN ~interrupted ELSE old.timedOut
  <3>1. new = [old EXCEPT !.flooded = floods, !.timedOut = t] BY <2>2 DEF Child
  <3>2. t \in BOOLEAN /\ (tardy => t = ~interrupted) BY <2>4
  <3> HIDE DEF t, floods, new, tardy
  <3>3. new \in Child /\ new.index = old.index /\ new.timedOut = t BY <2>2, <2>4, <3>1, <3>2 DEF Child
  <3> QED BY <2>1, <3>2, <3>3
 <2>6. active' = [active EXCEPT ![cursor] = new] BY <2>1, <2>2, <2>3 DEF Child
 <2> HIDE DEF new, old
 <2>7. active' \in Seq(Child) /\ DOMAIN active' = DOMAIN active
       /\ \A c \in DOMAIN active : active'[c] = IF c = cursor THEN new ELSE active[c]
   BY <2>1, <2>5, <2>6
 <2> QED BY <2>5, <2>7 DEF old
<1>6. /\ proc' \in [Fixture -> Procs] /\ kin' \in [Fixture -> BOOLEAN]
      /\ \A i \in Fixture : /\ proc'[i] = "none" <=> proc[i] = "none"
                            /\ proc'[i] = "reaped" <=> proc[i] = "reaped"
                            /\ proc'[i] \in Unreaped <=> proc[i] \in Unreaped
                            /\ kin'[i] => kin[i]
  BY <1>1, <1>4, Killing
<1>7. SuiteTyped'
 <2>1. suite' \in Places BY <1>2 DEF Places
 <2> QED BY <1>1, <1>2, <1>3, <1>5, <1>6, <2>1 DEF SuiteTyped
<1>8. Tracked'
 <2>1. \A i \in Fixture : Held(i)' <=> Held(i) BY <1>5 DEF Held
 <2>2. cursor \in DOMAIN active' BY <1>1, <1>2, <1>5 DEF SuiteTyped
 <2>3. \A c \in DOMAIN active' : active'[c].index \in 1 .. next BY <1>1, <1>5 DEF Tracked
 <2>4. \A i \in Fixture : /\ proc'[i] # "none" => i \in 1 .. next
                          /\ proc'[i] \in Unreaped => Held(i)
                          /\ kin'[i] => proc'[i] \in Unreaped
   BY <1>1, <1>6 DEF Tracked
 <2> QED BY <1>2, <1>3, <2>1, <2>2, <2>3, <2>4 DEF Tracked
<1>9. NoneLeft' /\ Harvested' /\ ToldSo' /\ Unchanged'
  BY <1>1, <1>2, <1>3, <1>6 DEF NoneLeft, Harvested, ToldSo, Unchanged
<1>10. Belated'
 <2>1. \A i \in Fixture : i \in overdue' => expired[i] /\ results[i] # "passed"
  <3>1. \A i \in Fixture : i \in overdue => expired[i] /\ results[i] # "passed" BY <1>1 DEF Belated
  <3>2. \A i \in overdue' : i \in overdue \/ (expired[i] /\ results[i] = "pending")
    BY DEF Drain
  <3> QED BY <3>1, <3>2
 <2>2. ASSUME active'[cursor].index \in Fixture \cap overdue'
       PROVE  interrupted \/ active'[cursor].timedOut
  <3>1. cursor \in DOMAIN active /\ active'[cursor].index = active[cursor].index BY <1>1, <1>2, <1>5 DEF SuiteTyped
  <3>2. expired[active[cursor].index] BY <2>1, <2>2, <3>1
  <3> QED BY <1>5, <3>1, <3>2
 <2> QED BY <1>2, <1>3, <2>1, <2>2 DEF Belated
<1> QED BY <1>7, <1>8, <1>9, <1>10 DEF SuiteInv

\* A child is reaped: its result is recorded, and told if the report can be
\* written.
LEMMA CollectStep ==
  ASSUME SuiteInv, Collect
  PROVE  SuiteInv'
<1>1. SuiteTyped /\ Tracked /\ NoneLeft /\ Harvested /\ ToldSo /\ Unchanged /\ Belated BY DEF SuiteInv
<1> DEFINE reapee == [active[cursor] EXCEPT !.flooded = @ \/ verdict[active[cursor].index] = "flood"]
           i == reapee.index
           value == Finished(reapee)
<1>2. /\ suite = "wait" /\ proc' = [proc EXCEPT ![i] = "reaped"] /\ kin' = [kin EXCEPT ![i] = FALSE]
      /\ results' = [results EXCEPT ![i] = value]
      /\ \/ /\ active' = RemoveAt(active, cursor) /\ suite' = "drain"
            /\ report' = [outcome |-> "running", results |-> results']
         \/ active' = RemoveAt(active, cursor) /\ suite' = "unwind" /\ report' = report
         \/ suite' = "unwind" /\ active' = active /\ report' = report
      /\ proc[i] = "exited"
  BY DEF Collect
<1>3. /\ selected' = selected /\ next' = next /\ cursor' = cursor
      /\ verdict' = verdict /\ expired' = expired
      /\ interrupted' = interrupted /\ drift' = drift /\ taint' = taint /\ overdue' = overdue
  BY DEF Collect, worldVars
<1>4. Fixture' = Fixture BY <1>3 DEF Fixture
<1>5. cursor \in DOMAIN active /\ active \in Seq(Child) BY <1>1, <1>2 DEF SuiteTyped, Tracked
<1>6. i = active[cursor].index
 <2>1. active[cursor] \in Child BY <1>5
 <2> QED BY <2>1 DEF Child
<1>7. /\ value \in {"passed", "failed"} /\ (value = "passed" => verdict[i] = "good")
      /\ value = "passed" => ~interrupted /\ ~active[cursor].timedOut
 <2>1. reapee.timedOut = active[cursor].timedOut BY <1>5 DEF Child
 <2> QED BY <2>1 DEF Finished
<1> HIDE DEF reapee, value
<1> DEFINE k == i
<1>8. k = active[cursor].index /\ k = i BY <1>6
<1> HIDE DEF k, i
<1>9. /\ proc' \in [Fixture -> Procs] /\ kin' \in [Fixture -> BOOLEAN]
      /\ results' \in [Fixture -> Results]
      /\ \A j \in Fixture : j # i => proc'[j] = proc[j] /\ kin'[j] = kin[j] /\ results'[j] = results[j]
      /\ \A j \in Fixture : j = i => proc'[j] = "reaped" /\ ~kin'[j] /\ results'[j] = value
      /\ \A j \in Fixture : j = i => proc[j] = "exited"
 <2>1. proc \in [Fixture -> Procs] /\ kin \in [Fixture -> BOOLEAN] /\ results \in [Fixture -> Results]
   BY <1>1 DEF SuiteTyped
 <2>2. proc' \in [Fixture -> Procs] /\ results' \in [Fixture -> Results] BY <1>2, <1>7, <2>1 DEF Procs, Results
 <2>3. kin' \in [Fixture -> BOOLEAN] BY <1>2, <2>1
 <2>4. \A j \in Fixture : j # i => proc'[j] = proc[j] /\ kin'[j] = kin[j] /\ results'[j] = results[j]
   BY <1>2, <2>1
 <2>5. \A j \in Fixture : j = i => proc'[j] = "reaped" /\ ~kin'[j] /\ results'[j] = value BY <1>2, <2>1
 <2> QED BY <1>2, <2>2, <2>3, <2>4, <2>5
<1>10. /\ active' \in Seq(Child) /\ \A j \in Fixture : j # i /\ Held(j) => Held(j)'
       /\ \A d \in DOMAIN active' : \E c \in DOMAIN active : active'[d] = active[c]
 <2>1. CASE active' = RemoveAt(active, cursor)
  <3>1. RemoveAt(active, cursor) \in Seq(Child) BY <1>5, Leaving
  <3>2. \A c \in DOMAIN active : c # cursor => \E d \in DOMAIN active' : active'[d] = active[c]
    BY <1>5, <2>1, Leaving
  <3>3. ASSUME NEW j \in Fixture, j # i, Held(j) PROVE Held(j)'
   <4>1. PICK c \in DOMAIN active : active[c].index = j BY <3>3 DEF Held
   <4>2. c # cursor BY <1>6, <3>3, <4>1
   <4>3. PICK d \in DOMAIN active' : active'[d] = active[c] BY <3>2, <4>2
   <4> QED BY <4>1, <4>3 DEF Held
  <3>4. \A d \in DOMAIN active' : \E c \in DOMAIN active : active'[d] = active[c] BY <1>5, <2>1, Leaving
  <3> QED BY <2>1, <3>1, <3>3, <3>4
 <2>2. CASE active' = active BY <1>5, <2>2 DEF Held
 <2> QED BY <1>2, <2>1, <2>2
<1>11. SuiteTyped'
 <2>1. suite' \in Places BY <1>2 DEF Places
 <2>2. report' \in [outcome : {"none", "running", "passed", "failed"}, results : [Fixture -> Results]]
   BY <1>1, <1>2, <1>9 DEF SuiteTyped
 <2> QED BY <1>1, <1>3, <1>4, <1>9, <1>10, <2>1, <2>2 DEF SuiteTyped
<1>12. Tracked'
 <2>1. \A j \in Fixture : proc'[j] # "none" => proc[j] # "none" BY <1>9
 <2>2. \A j \in Fixture : proc'[j] \in Unreaped => j # i /\ proc[j] \in Unreaped BY <1>9 DEF Unreaped
 <2>3. \A j \in Fixture : kin'[j] => j # i /\ kin[j] BY <1>9
 <2>4. \A j \in Fixture : kin'[j] => proc'[j] \in Unreaped BY <1>1, <1>9, <2>3 DEF Tracked
 <2>5. \A j \in Fixture : proc'[j] \in Unreaped => Held(j)' BY <1>1, <1>10, <2>2 DEF Tracked
 <2>6. suite' \in {"drain", "unwind"} BY <1>2
 <2>7. \A d \in DOMAIN active' : active'[d].index \in 1 .. next BY <1>1, <1>10 DEF Tracked
 <2> QED BY <1>1, <1>3, <1>4, <2>1, <2>4, <2>5, <2>6, <2>7 DEF Tracked
<1>13. NoneLeft' /\ Harvested' /\ ToldSo' /\ Unchanged' /\ Belated'
 <2>1. suite' \in {"drain", "unwind"} /\ report.outcome # "passed" /\ report'.outcome # "passed"
   BY <1>1, <1>2 DEF ToldSo
 <2>2. Harvested' BY <1>1, <1>3, <1>4, <1>7, <1>9 DEF Harvested
 <2>3. \A j \in Fixture : results[j] = "passed" => results'[j] = "passed" BY <1>1, <1>9 DEF Harvested
 <2>4. ToldSo'
  <3>1. \A j \in Fixture : report.results[j] = "passed" => results'[j] = "passed" BY <1>1, <2>3 DEF ToldSo
  <3>2. report'.results = results' \/ report' = report
   <4>1. report' = [outcome |-> "running", results |-> results'] \/ report' = report BY <1>2
   <4> QED BY <4>1
  <3>3. \A j \in Fixture : report'.results[j] = "passed" => results'[j] = "passed" BY <3>1, <3>2
  <3> QED BY <1>4, <2>1, <3>3 DEF ToldSo
 <2>5. NoneLeft' BY <2>1 DEF NoneLeft
 <2>6. Unchanged'
  <3>1. taint => drift BY <1>1 DEF Unchanged
  <3> QED BY <1>3, <2>1, <3>1 DEF Unchanged
 <2>7. Belated'
  <3>1. i \in Fixture /\ i \in overdue => value # "passed" BY <1>1, <1>2, <1>6, <1>7 DEF Belated
  <3>2. \A j \in Fixture : j \in overdue => results'[j] # "passed" BY <1>1, <1>9, <3>1 DEF Belated
  <3> QED BY <1>1, <1>3, <1>4, <2>1, <3>2 DEF Belated
 <2> QED BY <2>2, <2>4, <2>5, <2>6, <2>7
<1> QED BY <1>11, <1>12, <1>13 DEF SuiteInv

\* The last word: it is only spoken over an empty vector, so nothing is
\* left to reap, and no result can be pending that taint spoke of.
LEMMA ConcludeStep ==
  ASSUME SuiteInv, Conclude
  PROVE  SuiteInv'
<1>1. SuiteTyped /\ Tracked /\ NoneLeft /\ Harvested /\ ToldSo /\ Unchanged /\ Belated BY DEF SuiteInv
<1>2. /\ selected' = selected /\ next' = next /\ active' = active /\ cursor' = cursor
      /\ results' = results /\ proc' = proc /\ kin' = kin /\ verdict' = verdict
      /\ expired' = expired /\ interrupted' = interrupted /\ drift' = drift /\ taint' = taint /\ overdue' = overdue
      /\ suite = "conclude"
  BY DEF Conclude, procVars, worldVars
<1>3. Fixture' = Fixture BY <1>2 DEF Fixture
<1>4. \A i \in Fixture : proc[i] \in {"none", "reaped"} /\ ~kin[i]
 <2>1. \A i \in Fixture : ~Held(i) BY <1>1, <1>2 DEF Tracked, Held
 <2> QED BY <1>1, <2>1 DEF Tracked, SuiteTyped, Procs, Unreaped
<1>5. report.outcome # "passed" BY <1>1, <1>2 DEF ToldSo
<1>6. CASE suite' = "unwind" /\ report' = report
 <2>1. SuiteTyped' BY <1>1, <1>2, <1>3, <1>6 DEF SuiteTyped, Places
 <2> QED BY <1>1, <1>2, <1>3, <1>5, <1>6, <2>1
         DEF SuiteInv, Tracked, Held, NoneLeft, Harvested, ToldSo, Unchanged, Belated
<1>7. CASE /\ suite' = "done"
           /\ report' = Outcome(IF \A i \in Fixture : results[i] = "passed" THEN "passed" ELSE "failed")
 <2> DEFINE all == \A i \in Fixture : results[i] = "passed"
            word == IF all THEN "passed" ELSE "failed"
 <2>1. word \in {"passed", "failed"} /\ (word = "passed" => all) OBVIOUS
 <2>2. all => ~taint BY <1>1, <1>2 DEF Unchanged
 <2>3. report' = [outcome |-> word, results |-> results] BY <1>7 DEF Outcome
 <2>4. word = "passed" => ~taint /\ \A i \in Fixture : results[i] = "passed" BY <2>1, <2>2
 <2> HIDE DEF word, all
 <2>5. report'.outcome = word /\ report'.results = results BY <2>3
 <2>6. SuiteTyped'
  <3>1. report' \in [outcome : {"none", "running", "passed", "failed"},
                     results : [Fixture -> Results]]
    BY <1>1, <2>1, <2>3 DEF SuiteTyped
  <3> QED BY <1>1, <1>2, <1>3, <1>7, <3>1 DEF SuiteTyped, Places
 <2>7. Tracked' /\ NoneLeft' /\ Harvested' /\ Unchanged' /\ Belated'
   BY <1>1, <1>2, <1>3, <1>4, <1>7 DEF Tracked, Held, NoneLeft, Harvested, Unchanged, Belated
 <2>8. ToldSo' BY <1>2, <1>3, <1>7, <2>4, <2>5 DEF ToldSo
 <2> QED BY <2>6, <2>7, <2>8 DEF SuiteInv
<1> QED BY <1>6, <1>7 DEF Conclude

\* A failure: what is in the vector is killed, then waited for.
LEMMA UnwindStep ==
  ASSUME SuiteInv, Unwind
  PROVE  SuiteInv'
<1>1. SuiteTyped /\ Tracked /\ NoneLeft /\ Harvested /\ ToldSo /\ Unchanged /\ Belated BY DEF SuiteInv
<1> DEFINE left == {active[c].index : c \in DOMAIN active}
<1>2. /\ selected' = selected /\ next' = next /\ active' = active /\ cursor' = cursor
      /\ results' = results /\ report' = report /\ verdict' = verdict
      /\ expired' = expired /\ interrupted' = interrupted /\ drift' = drift /\ taint' = taint /\ overdue' = overdue
      /\ suite = "unwind" /\ suite' = "reap" /\ proc' = Killed(left) /\ kin' = Orphaned(left)
  BY DEF Unwind, worldVars
<1>3. Fixture' = Fixture BY <1>2 DEF Fixture
<1>4. \A i \in Fixture : proc[i] \in Unreaped => i \in left BY <1>1 DEF Tracked, Held
<1> HIDE DEF left
<1>5. /\ proc' \in [Fixture -> Procs] /\ kin' \in [Fixture -> BOOLEAN]
      /\ \A i \in Fixture : /\ proc'[i] = "none" <=> proc[i] = "none"
                            /\ proc'[i] = "reaped" <=> proc[i] = "reaped"
                            /\ proc'[i] \in Unreaped <=> proc[i] \in Unreaped
                            /\ i \in left => proc'[i] # "running" /\ ~kin'[i]
                            /\ proc'[i] = "running" => proc[i] = "running"
                            /\ kin'[i] => kin[i]
  BY <1>1, <1>2, Killing
<1>6. \A i \in Fixture : proc'[i] # "running" /\ ~kin'[i] BY <1>1, <1>4, <1>5 DEF Tracked, Unreaped
<1>7. SuiteTyped' BY <1>1, <1>2, <1>3, <1>5 DEF SuiteTyped, Places
<1>8. Tracked' BY <1>1, <1>2, <1>3, <1>5, <1>6 DEF Tracked, Held
<1>9. NoneLeft' /\ Harvested' /\ ToldSo' /\ Unchanged' /\ Belated'
  BY <1>1, <1>2, <1>3, <1>5 DEF NoneLeft, Harvested, ToldSo, Unchanged, Belated
<1> QED BY <1>7, <1>8, <1>9 DEF SuiteInv

LEMMA ReapStep ==
  ASSUME SuiteInv, Reap
  PROVE  SuiteInv'
<1>1. SuiteTyped /\ Tracked /\ NoneLeft /\ Harvested /\ ToldSo /\ Unchanged /\ Belated BY DEF SuiteInv
<1> DEFINE left == {active[c].index : c \in DOMAIN active}
<1>2. /\ selected' = selected /\ next' = next /\ cursor' = cursor
      /\ results' = results /\ kin' = kin /\ verdict' = verdict
      /\ expired' = expired /\ interrupted' = interrupted /\ drift' = drift /\ taint' = taint /\ overdue' = overdue
      /\ suite = "reap" /\ suite' = "done" /\ active' = << >>
      /\ proc' = [i \in Fixture |-> IF i \in left THEN "reaped" ELSE proc[i]]
  BY DEF Reap, worldVars
<1>3. Fixture' = Fixture BY <1>2 DEF Fixture
<1>4. /\ \A i \in Fixture : proc[i] \in Unreaped => i \in left
      /\ \A i \in left : i \in 1 .. next
  BY <1>1 DEF Tracked, Held
<1> HIDE DEF left
<1>5. /\ proc' \in [Fixture -> Procs]
      /\ \A i \in Fixture : proc'[i] = IF i \in left THEN "reaped" ELSE proc[i]
  BY <1>1, <1>2 DEF SuiteTyped, Procs
<1>6. \A i \in Fixture : proc'[i] \in {"none", "reaped"} /\ ~kin'[i]
  BY <1>1, <1>2, <1>4, <1>5 DEF SuiteTyped, Tracked, Procs, Unreaped
<1>7. report' = [outcome |-> "failed", results |-> results] \/ report' = report BY DEF Reap, Outcome
<1>8. SuiteTyped'
 <2>1. report' \in [outcome : {"none", "running", "passed", "failed"}, results : [Fixture -> Results]]
   BY <1>1, <1>7 DEF SuiteTyped
 <2>2. << >> \in Seq(Child) OBVIOUS
 <2>3. kin' \in [Fixture -> BOOLEAN] BY <1>1, <1>2 DEF SuiteTyped
 <2> QED BY <1>1, <1>2, <1>3, <1>5, <2>1, <2>2, <2>3 DEF SuiteTyped, Places
<1>9. Tracked'
 <2>1. \A i \in Fixture : proc'[i] # "none" => i \in 1 .. next BY <1>1, <1>4, <1>5 DEF Tracked
 <2>2. \A i \in Fixture : proc'[i] \notin Unreaped /\ ~kin'[i] BY <1>6 DEF Unreaped
 <2>3. \A c \in DOMAIN active' : active'[c].index \in 1 .. next BY <1>2
 <2> QED BY <1>2, <1>3, <2>1, <2>2, <2>3 DEF Tracked
<1>10. NoneLeft' /\ Harvested' /\ ToldSo' /\ Unchanged' /\ Belated'
 <2>1. report.outcome # "passed" BY <1>1, <1>2 DEF ToldSo
 <2>2. Harvested' BY <1>1, <1>2, <1>3, <1>5 DEF Harvested
 <2>3. ToldSo' BY <1>1, <1>2, <1>3, <1>7, <2>1 DEF ToldSo
 <2> QED BY <1>1, <1>2, <1>3, <1>6, <2>2, <2>3 DEF NoneLeft, Unchanged, Belated
<1> QED BY <1>8, <1>9, <1>10 DEF SuiteInv

LEMMA SuiteMove == ASSUME SuiteInv, [SuiteNext]_suiteVars PROVE SuiteInv'
<1>1. CASE SuiteStep
  BY <1>1, StartStep, LaunchStep, DrainStep, MovingStep, CollectStep, ConcludeStep, UnwindStep,
     ReapStep DEF SuiteStep
<1>2. CASE ProcStep BY <1>2, RunStep, DieStep, OutsideStep DEF ProcStep
<1>3. CASE Interrupt \/ Rebuild \/ Crash BY <1>3, OutsideStep
<1>4. CASE UNCHANGED suiteVars
  BY <1>4 DEF suiteVars, SuiteInv, SuiteTyped, Tracked, Held, NoneLeft, Harvested, ToldSo, Unchanged, Belated, Fixture
<1> QED BY <1>1, <1>2, <1>3, <1>4 DEF SuiteNext

\* The children vector, the results and the report agree in every state.
THEOREM SuiteInvariance == SuiteSpec => []SuiteInv
<1>1. SuiteInit => SuiteInv BY SuiteBegin
<1>2. SuiteInv /\ [SuiteNext]_suiteVars => SuiteInv' BY SuiteMove
<1> QED BY <1>1, <1>2, PTL DEF SuiteSpec

\* The report of the suite, at any time and for every corpus and number of
\* jobs: a replay said to have passed passed, no poll found it late, and it
\* is reaped with its group; a suite said to have passed passed every
\* fixture, and what was changed while replays were to finish was put back.
THEOREM SuiteHonest == SuiteSpec => []HonestSuite
<1>1. SuiteInv => HonestSuite
 <2> SUFFICES ASSUME SuiteInv PROVE HonestSuite OBVIOUS
 <2>1. SuiteTyped /\ Tracked /\ Harvested /\ ToldSo /\ Belated BY DEF SuiteInv
 <2>2. DOMAIN report.results = Fixture BY <2>1 DEF SuiteTyped
 <2>3. \A i \in Fixture : report.results[i] = "passed" =>
          verdict[i] = "good" /\ proc[i] = "reaped" /\ i \notin overdue
   BY <2>1, <2>2 DEF Harvested, ToldSo, Belated
 <2>4. \A i \in Fixture : report.results[i] = "passed" => ~kin[i] BY <2>1, <2>3 DEF Tracked, Unreaped
 <2> QED BY <2>1, <2>2, <2>3, <2>4 DEF ToldSo, HonestSuite
<1> QED BY <1>1, SuiteInvariance, PTL

\* A suite that ended by itself, however it ended, has reaped all it ever
\* launched, descendants included: the safety half of SuiteEnds.
THEOREM SuiteLeavesNone == SuiteSpec => []NoneLeft
<1>1. SuiteInv => NoneLeft BY DEF SuiteInv
<1> QED BY <1>1, SuiteInvariance, PTL

----
(***************************************************************************)
(* The repair search: its accounts cover what its children did, and what a *)
(* finished search says is what a resume recomputes from its artifacts.    *)
(* The books are exact between two launches, and off by the cap of the     *)
(* child in flight meanwhile; the selected run is, at the end of every     *)
(* round, the one that a pass over the ledger selects.                     *)
(***************************************************************************)
RepairPlaces == {"begin", "initial", "round", "search", "candidate", "verify", "replay",
                 "summary", "over", "killed"}
Outcomes == {"none", "complete", "collision", "limit", "bad"}
RunRecord == [name : Nat, outcome : Outcomes, frames : Nat, onset : Nat]
Row == [branch : Int, frames : Nat, outcome : Outcomes]

RepairTyped ==
    /\ repair \in RepairPlaces
    /\ child \in [phase : Phases, state : {"none", "running", "exited"}, updates : Nat,
                  interrupted : BOOLEAN, run : RunRecord]
    /\ child.updates <= Cap
    /\ initial \in Nat /\ current \in RunRecord /\ best \in RunRecord /\ at \in Nat \ {0}
    /\ count \in [round : Nat, candidates : Nat, updates : Nat, prefixes : Int, interrupted : Nat]
    /\ ledger \in Seq(Row)
    /\ audit \in [known : [Phases -> Nat], uncertain : [Phases -> Nat]]
    /\ prior \in [known : Nat, uncertain : Nat]
    /\ actual \in [phase : [Phases -> Nat], before : Nat, episode : Nat]

\* A search that goes on, or has ended with a summary of its own.
Full == summary.outcome \notin {"none", "error"}
Sound == repair \notin {"over", "killed"} \/ Full
Won == repair \in {"verify", "replay"} \/ (repair \in {"summary", "over"} /\ reason = "complete")

\* What the child in flight has made, and what is charged for it.
Made(p) == IF child.state # "none" /\ child.phase = p THEN child.updates ELSE 0
Open(p) == IF child.state # "none" /\ child.phase = p THEN Cap ELSE 0
Accounted ==
    /\ \A p \in Phases :
         /\ audit.known[p] + Made(p) <= actual.phase[p]
         /\ actual.phase[p] + Open(p) <= audit.known[p] + audit.uncertain[p] + Made(p)
    /\ audit.known[1] + audit.uncertain[1] <= Budget
    /\ prior.known <= actual.before /\ actual.before <= prior.known + prior.uncertain

ChildHome ==
    /\ repair \in {"begin", "round", "search", "verify", "summary", "over"} => child.state = "none"
    /\ child.state = "exited" /\ child.run.outcome # "bad" =>
         child.run.frames = child.updates /\ child.run.name = Len(ledger) + 1

Books == Sound =>
    /\ audit.uncertain[0] = IF repair = "initial" THEN Cap ELSE 0
    /\ audit.uncertain[1] = IF repair = "candidate" THEN Cap ELSE count.interrupted
    /\ audit.uncertain[2] = IF repair = "replay" THEN Cap ELSE 0
    /\ audit.known[0] = initial /\ audit.known[1] = count.updates
    /\ audit.known[2] = IF repair \in {"summary", "over"} /\ reason = "complete"
                        THEN current.frames ELSE 0
    /\ repair \notin {"summary", "over"} => count.interrupted = 0
    /\ count.candidates = Len(ledger) + (IF repair = "candidate" \/ count.interrupted > 0 THEN 1 ELSE 0)

FramesOf(rows) == [i \in DOMAIN rows |-> rows[i].frames]
PrefixesOf(rows) == [i \in DOMAIN rows |-> Min({rows[i].branch - 1, rows[i].frames})]
Sums == count.updates = Summed(FramesOf(ledger)) /\ count.prefixes = Summed(PrefixesOf(ledger))

Pair(run) == [name |-> run.name, frames |-> run.frames]
Longest(run) == run.frames > initial => run.outcome = "collision"
Leading ==
    /\ repair \in {"begin", "initial"} => ledger = << >> /\ initial = 0
    /\ Sound /\ Won => current.outcome = "complete" /\ reason = "complete"
    /\ Sound /\ ~Won => \A i \in DOMAIN ledger : ledger[i].outcome # "complete"
    /\ Sound /\ ~Won /\ repair \in {"round", "summary", "over"} =>
         Pair(current) = LedgerBest(initial, ledger) /\ Longest(current)
    /\ repair \in {"search", "candidate"} =>
         /\ Pair(best) = LedgerBest(initial, ledger) /\ Longest(current)
         /\ best # current => best.frames > current.frames /\ best.outcome = "collision"

Final ==
    [outcome |-> reason, selected |-> current, candidates |-> count.candidates,
     updates |-> count.updates, prefixes |-> count.prefixes,
     interrupted |-> count.interrupted, initial |-> initial,
     verification |-> audit.known[2], prior |-> prior,
     known |-> prior.known + Total(audit.known),
     uncertain |-> prior.uncertain + Total(audit.uncertain)]
Told == Full => repair = "over" /\ summary = Final

RepairInv ==
    RepairTyped /\ Accounted /\ ChildHome /\ Books /\ Sums /\ Leading /\ Told
RepairSpec == RepairInit /\ [][RepairNext]_repairVars

\* A non-empty set of naturals has a least element.
Before == {pair \in Nat \X Nat : pair[1] < pair[2]}

LEMMA LeastElement ==
  ASSUME NEW S, S \subseteq Nat, S # {}
  PROVE  \E n \in S : \A m \in S : n <= m
<1>1. IsWellFoundedOn(Before, Nat) BY NatLessThanWellFounded, Zenon DEF Before, OpToRel
<1>2. PICK n \in S : \A m \in S : ~ (<<m, n>> \in Before) BY <1>1, WFMin
<1>3. ASSUME NEW m \in S PROVE n <= m
 <2>1. m \in Nat /\ n \in Nat /\ <<m, n>> \in Nat \X Nat OBVIOUS
 <2>2. ~ (m < n) BY <1>2, <2>1 DEF Before
 <2> QED BY <2>1, <2>2
<1> QED BY <1>3

\* The sum of a sequence and of the same with one more number.
SumsTo(s, n, f) == f = [k \in 0 .. n |-> IF k = 0 THEN 0 ELSE f[k - 1] + s[k]]

LEMMA SumUnique ==
  ASSUME NEW s, NEW n \in Nat, NEW f, NEW g, SumsTo(s, n, f), SumsTo(s, n, g)
  PROVE  f = g
<1>0. f = [k \in 0 .. n |-> f[k]] /\ g = [k \in 0 .. n |-> g[k]] BY DEF SumsTo
<1>1. /\ \A k \in 0 .. n : f[k] = IF k = 0 THEN 0 ELSE f[k - 1] + s[k]
      /\ \A k \in 0 .. n : g[k] = IF k = 0 THEN 0 ELSE g[k - 1] + s[k]
  BY DEF SumsTo
<1> DEFINE Wrong == {k \in 0 .. n : f[k] # g[k]}
<1>2. ASSUME Wrong # {} PROVE FALSE
 <2>1. PICK k \in Wrong : \A j \in Wrong : k <= j
  <3>1. Wrong \subseteq Nat OBVIOUS
  <3> QED BY <1>2, <3>1, LeastElement
 <2>2. k \in 0 .. n /\ k # 0 /\ k - 1 \in 0 .. n /\ k - 1 \notin Wrong BY <1>1, <2>1
 <2>3. f[k - 1] = g[k - 1] BY <2>2
 <2> QED BY <1>1, <2>1, <2>2, <2>3
<1>3. \A k \in 0 .. n : f[k] = g[k] BY <1>2
<1> QED BY <1>0, <1>3

LEMMA SumExists ==
  ASSUME NEW s, NEW n \in Nat
  PROVE  \E f : SumsTo(s, n, f)
<1> DEFINE Bad == {k \in Nat : ~ \E f : SumsTo(s, k, f)}
<1>1. ASSUME Bad # {} PROVE FALSE
 <2>1. PICK k \in Bad : \A j \in Bad : k <= j
  <3>1. Bad \subseteq Nat OBVIOUS
  <3> QED BY <1>1, <3>1, LeastElement
 <2>2. k # 0
  <3>1. SumsTo(s, 0, [j \in 0 .. 0 |-> 0]) BY DEF SumsTo
  <3> QED BY <2>1, <3>1
 <2>3. k - 1 \in Nat /\ k \in Nat /\ k - 1 \notin Bad BY <2>1, <2>2
 <2>4. PICK f : SumsTo(s, k - 1, f) BY <2>3
 <2> DEFINE g == [j \in 0 .. k |-> IF j = k THEN f[k - 1] + s[k] ELSE f[j]]
 <2>5. \A j \in 0 .. k - 1 : f[j] = IF j = 0 THEN 0 ELSE f[j - 1] + s[j] BY <2>4 DEF SumsTo
 <2>6. \A j \in 0 .. k : g[j] = IF j = 0 THEN 0 ELSE g[j - 1] + s[j] BY <2>2, <2>3, <2>5
 <2>7. SumsTo(s, k, g) BY <2>6 DEF SumsTo
 <2> QED BY <2>1, <2>7
<1> QED BY <1>1

LEMMA Summing ==
  ASSUME NEW s, Len(s) \in Nat
  PROVE  \A f : SumsTo(s, Len(s), f) => Summed(s) = f[Len(s)]
<1> DEFINE Solves(f) == f = [k \in 0 .. Len(s) |-> IF k = 0 THEN 0 ELSE f[k - 1] + s[k]]
<1>1. Summed(s) = (CHOOSE f : Solves(f))[Len(s)] BY DEF Summed
<1>2. \A f : Solves(f) <=> SumsTo(s, Len(s), f) BY DEF SumsTo
<1> HIDE DEF Solves
<1>3. \E f : Solves(f) BY <1>2, SumExists
<1>4. Solves(CHOOSE f : Solves(f)) BY <1>3, Zenon
<1>5. ASSUME NEW f, SumsTo(s, Len(s), f) PROVE f = (CHOOSE g : Solves(g)) BY <1>2, <1>4, <1>5, SumUnique
<1> QED BY <1>1, <1>5

LEMMA SummedEmpty == ASSUME NEW s, Len(s) = 0 PROVE Summed(s) = 0
<1>1. SumsTo(s, 0, [k \in 0 .. 0 |-> 0]) BY DEF SumsTo
<1> QED BY <1>1, Summing

LEMMA SummedNext ==
  ASSUME NEW s, NEW t, NEW n \in Nat, Len(s) = n, Len(t) = n + 1,
         \A k \in 1 .. n : t[k] = s[k]
  PROVE  Summed(t) = Summed(s) + t[n + 1]
<1>1. PICK g : SumsTo(t, n + 1, g) BY SumExists
<1> DEFINE f == [k \in 0 .. n |-> g[k]]
<1>2. \A k \in 0 .. n + 1 : g[k] = IF k = 0 THEN 0 ELSE g[k - 1] + t[k] BY <1>1 DEF SumsTo
<1>3. \A k \in 0 .. n : f[k] = IF k = 0 THEN 0 ELSE f[k - 1] + s[k] BY <1>2
<1>4. SumsTo(s, n, f) BY <1>3 DEF SumsTo
<1>5. Summed(s) = f[n]
 <2> HIDE DEF f
 <2> QED BY <1>4, Summing
<1>6. Summed(t) = g[n + 1] BY <1>1, Summing
<1>7. g[n + 1] = g[n] + t[n + 1] /\ f[n] = g[n] BY <1>2
<1> QED BY <1>5, <1>6, <1>7

\* The same for the best run of a ledger and of the same with one more row.
BestTo(from, rows, n, f) ==
    f = [k \in 0 .. n |-> IF k = 0 THEN [name |-> 0, frames |-> from] ELSE Longer(f[k - 1], k, rows[k])]

LEMMA BestUnique ==
  ASSUME NEW from, NEW rows, NEW n \in Nat, NEW f, NEW g, BestTo(from, rows, n, f), BestTo(from, rows, n, g)
  PROVE  f = g
<1> DEFINE base == [name |-> 0, frames |-> from]
<1>1. /\ \A k \in 0 .. n : f[k] = IF k = 0 THEN base ELSE Longer(f[k - 1], k, rows[k])
      /\ \A k \in 0 .. n : g[k] = IF k = 0 THEN base ELSE Longer(g[k - 1], k, rows[k])
  BY DEF BestTo
<1>2. f = [k \in 0 .. n |-> f[k]] /\ g = [k \in 0 .. n |-> g[k]] BY DEF BestTo
<1> HIDE DEF base
<1> DEFINE Wrong == {k \in 0 .. n : f[k] # g[k]}
<1>3. ASSUME Wrong # {} PROVE FALSE
 <2>1. PICK k \in Wrong : \A j \in Wrong : k <= j
  <3>1. Wrong \subseteq Nat OBVIOUS
  <3> QED BY <1>3, <3>1, LeastElement
 <2>2. k \in 0 .. n /\ k # 0 /\ k - 1 \in 0 .. n /\ k - 1 \notin Wrong BY <1>1, <2>1
 <2>3. f[k - 1] = g[k - 1] BY <2>2
 <2> QED BY <1>1, <2>1, <2>2, <2>3
<1>4. \A k \in 0 .. n : f[k] = g[k] BY <1>3
<1> QED BY <1>2, <1>4

LEMMA BestExists ==
  ASSUME NEW from, NEW rows, NEW n \in Nat
  PROVE  \E f : BestTo(from, rows, n, f)
<1> DEFINE base == [name |-> 0, frames |-> from]
           Bad == {k \in Nat : ~ \E f : BestTo(from, rows, k, f)}
<1>1. ASSUME Bad # {} PROVE FALSE
 <2>1. PICK k \in Bad : \A j \in Bad : k <= j
  <3>1. Bad \subseteq Nat OBVIOUS
  <3> QED BY <1>1, <3>1, LeastElement
 <2>2. k # 0
  <3>1. BestTo(from, rows, 0, [j \in 0 .. 0 |-> base]) BY DEF BestTo
  <3> QED BY <2>1, <3>1
 <2>3. k - 1 \in Nat /\ k \in Nat /\ k - 1 \notin Bad BY <2>1, <2>2
 <2>4. PICK f : BestTo(from, rows, k - 1, f) BY <2>3
 <2> DEFINE g == [j \in 0 .. k |-> IF j = k THEN Longer(f[k - 1], k, rows[k]) ELSE f[j]]
 <2>5. \A j \in 0 .. k - 1 : f[j] = IF j = 0 THEN base ELSE Longer(f[j - 1], j, rows[j]) BY <2>4 DEF BestTo
 <2> HIDE DEF base
 <2>6. \A j \in 0 .. k : g[j] = IF j = 0 THEN base ELSE Longer(g[j - 1], j, rows[j]) BY <2>2, <2>3, <2>5
 <2>7. g = [j \in 0 .. k |-> IF j = 0 THEN base ELSE Longer(g[j - 1], j, rows[j])]
  <3>1. g = [j \in 0 .. k |-> g[j]] OBVIOUS
  <3> HIDE DEF g
  <3> QED BY <2>6, <3>1
 <2>8. BestTo(from, rows, k, g) BY <2>7 DEF BestTo, base
 <2> QED BY <2>1, <2>8
<1> QED BY <1>1

LEMMA Choosing ==
  ASSUME NEW from, NEW rows, Len(rows) \in Nat
  PROVE  \A f : BestTo(from, rows, Len(rows), f) => LedgerBest(from, rows) = f[Len(rows)]
<1> DEFINE Solves(f) == f = [k \in 0 .. Len(rows) |-> IF k = 0 THEN [name |-> 0, frames |-> from]
                                                      ELSE Longer(f[k - 1], k, rows[k])]
<1>1. LedgerBest(from, rows) = (CHOOSE f : Solves(f))[Len(rows)] BY DEF LedgerBest
<1>2. \A f : Solves(f) <=> BestTo(from, rows, Len(rows), f) BY DEF BestTo
<1> HIDE DEF Solves
<1>3. \E f : Solves(f) BY <1>2, BestExists
<1>4. Solves(CHOOSE f : Solves(f)) BY <1>3, Zenon
<1>5. ASSUME NEW f, BestTo(from, rows, Len(rows), f) PROVE f = (CHOOSE g : Solves(g))
  BY <1>2, <1>4, <1>5, BestUnique
<1> QED BY <1>1, <1>5

LEMMA BestEmpty ==
  ASSUME NEW from, NEW rows, Len(rows) = 0
  PROVE  LedgerBest(from, rows) = [name |-> 0, frames |-> from]
<1> DEFINE base == [name |-> 0, frames |-> from]
<1>1. BestTo(from, rows, 0, [k \in 0 .. 0 |-> base]) BY DEF BestTo
<1> HIDE DEF base
<1>2. LedgerBest(from, rows) = [k \in 0 .. 0 |-> base][0] BY <1>1, Choosing
<1> QED BY <1>2 DEF base

LEMMA BestNext ==
  ASSUME NEW from, NEW rows, NEW more, NEW n \in Nat, Len(rows) = n, Len(more) = n + 1,
         \A k \in 1 .. n : more[k] = rows[k]
  PROVE  LedgerBest(from, more) = Longer(LedgerBest(from, rows), n + 1, more[n + 1])
<1>0. n + 1 \in Nat OBVIOUS
<1>1. PICK g : BestTo(from, more, n + 1, g) BY <1>0, BestExists
<1> DEFINE f == [k \in 0 .. n |-> g[k]]
           base == [name |-> 0, frames |-> from]
<1>2. \A k \in 0 .. n + 1 : g[k] = IF k = 0 THEN base ELSE Longer(g[k - 1], k, more[k]) BY <1>1 DEF BestTo
<1> HIDE DEF base
<1>3. \A k \in 0 .. n : f[k] = IF k = 0 THEN base ELSE Longer(f[k - 1], k, rows[k]) BY <1>2
<1>4. BestTo(from, rows, n, f)
 <2>1. f = [k \in 0 .. n |-> f[k]] OBVIOUS
 <2> HIDE DEF f
 <2>2. f = [k \in 0 .. n |-> IF k = 0 THEN base ELSE Longer(f[k - 1], k, rows[k])] BY <1>3, <2>1
 <2> QED BY <2>2 DEF BestTo, base
<1>5. LedgerBest(from, rows) = f[n]
 <2> HIDE DEF f
 <2> QED BY <1>4, Choosing
<1>6. LedgerBest(from, more) = g[n + 1] BY <1>1, Choosing
<1>7. n + 1 \in 0 .. n + 1 /\ n + 1 # 0 /\ (n + 1) - 1 = n /\ n \in 0 .. n OBVIOUS
<1>8. g[n + 1] = Longer(g[n], n + 1, more[n + 1]) /\ f[n] = g[n] BY <1>2, <1>7
<1> QED BY <1>5, <1>6, <1>8

LEMMA MinOfTwo ==
  ASSUME NEW a \in Int, NEW b \in Int
  PROVE  Min({a, b}) \in {a, b}
<1> DEFINE Least(x) == \A y \in {a, b} : x =< y
<1>1. \E x \in {a, b} : Least(x) OBVIOUS
<1>2. Min({a, b}) = CHOOSE x \in {a, b} : Least(x) BY DEF Min
<1> HIDE DEF Least
<1> QED BY <1>1, <1>2, Zenon

----
\* The ledger grows by a row: what is recomputed from it grows with it.
LEMMA LedgerGrows ==
  ASSUME ledger \in Seq(Row), NEW row \in Row, ledger' = Append(ledger, row)
  PROVE  /\ ledger' \in Seq(Row) /\ Len(ledger') = Len(ledger) + 1 /\ Len(ledger) \in Nat
         /\ Summed(FramesOf(ledger)') = Summed(FramesOf(ledger)) + row.frames
         /\ Summed(PrefixesOf(ledger)') = Summed(PrefixesOf(ledger)) + Min({row.branch - 1, row.frames})
         /\ \A from : LedgerBest(from, ledger') = Longer(LedgerBest(from, ledger), Len(ledger) + 1, row)
         /\ \A i \in DOMAIN ledger' : ledger'[i] = row \/ \E j \in DOMAIN ledger : ledger'[i] = ledger[j]
<1> DEFINE n == Len(ledger)
<1>1. /\ n \in Nat /\ Len(ledger) = n /\ ledger' \in Seq(Row) /\ Len(ledger') = n + 1
      /\ DOMAIN ledger = 1 .. n /\ DOMAIN ledger' = 1 .. n + 1
      /\ \A k \in 1 .. n : ledger'[k] = ledger[k]
      /\ ledger'[n + 1] = row
  BY AppendProperties
<1> HIDE DEF n
<1>3. /\ Len(FramesOf(ledger)) = n /\ Len(FramesOf(ledger)') = n + 1
      /\ Len(PrefixesOf(ledger)) = n /\ Len(PrefixesOf(ledger)') = n + 1
 <2>1. n + 1 \in Nat BY <1>1
 <2>2. Len(FramesOf(ledger)) = n /\ Len(PrefixesOf(ledger)) = n BY <1>1 DEF FramesOf, PrefixesOf
 <2>3. Len(FramesOf(ledger)') = n + 1 /\ Len(PrefixesOf(ledger)') = n + 1 BY <1>1, <2>1 DEF FramesOf, PrefixesOf
 <2> QED BY <2>2, <2>3
<1>4. /\ \A k \in 1 .. n : (FramesOf(ledger)')[k] = FramesOf(ledger)[k]
      /\ (FramesOf(ledger)')[n + 1] = row.frames
  BY <1>1 DEF FramesOf
<1>5. /\ \A k \in 1 .. n : (PrefixesOf(ledger)')[k] = PrefixesOf(ledger)[k]
      /\ (PrefixesOf(ledger)')[n + 1] = Min({row.branch - 1, row.frames})
 <2> DEFINE start(r) == Min({r.branch - 1, r.frames})
 <2>1. /\ PrefixesOf(ledger) = [k \in 1 .. n |-> start(ledger[k])]
       /\ PrefixesOf(ledger)' = [k \in 1 .. n + 1 |-> start(ledger'[k])]
   BY <1>1 DEF PrefixesOf
 <2> HIDE DEF start
 <2>2. /\ \A k \in 1 .. n : (PrefixesOf(ledger)')[k] = start(ledger'[k]) /\ PrefixesOf(ledger)[k] = start(ledger[k])
       /\ (PrefixesOf(ledger)')[n + 1] = start(ledger'[n + 1])
   BY <1>1, <2>1
 <2>3. start(row) = Min({row.branch - 1, row.frames}) BY DEF start
 <2> QED BY <1>1, <2>2, <2>3
<1>6. Summed(FramesOf(ledger)') = Summed(FramesOf(ledger)) + row.frames
 <2> DEFINE s == FramesOf(ledger)
            t == FramesOf(ledger)'
 <2>1. Len(s) = n /\ Len(t) = n + 1 /\ \A k \in 1 .. n : t[k] = s[k] BY <1>3, <1>4
 <2>2. t[n + 1] = row.frames BY <1>4
 <2> HIDE DEF s, t
 <2>3. Summed(t) = Summed(s) + t[n + 1] BY <1>1, <2>1, SummedNext
 <2> QED BY <2>2, <2>3 DEF s, t
<1>7. Summed(PrefixesOf(ledger)') = Summed(PrefixesOf(ledger)) + Min({row.branch - 1, row.frames})
 <2> DEFINE s == PrefixesOf(ledger)
            t == PrefixesOf(ledger)'
 <2>1. Len(s) = n /\ Len(t) = n + 1 /\ \A k \in 1 .. n : t[k] = s[k] BY <1>3, <1>5
 <2>2. t[n + 1] = Min({row.branch - 1, row.frames}) BY <1>5
 <2> HIDE DEF s, t
 <2>3. Summed(t) = Summed(s) + t[n + 1] BY <1>1, <2>1, SummedNext
 <2> QED BY <2>2, <2>3 DEF s, t
<1>8. ASSUME NEW from
      PROVE  LedgerBest(from, ledger') = Longer(LedgerBest(from, ledger), n + 1, row)
 <2> DEFINE more == ledger'
 <2>1. Len(more) = n + 1 /\ \A k \in 1 .. n : more[k] = ledger[k] BY <1>1
 <2>2. more[n + 1] = row BY <1>1
 <2> HIDE DEF more
 <2>3. LedgerBest(from, more) = Longer(LedgerBest(from, ledger), n + 1, more[n + 1]) BY <1>1, <2>1, BestNext
 <2> QED BY <2>2, <2>3 DEF more
<1>9. \A i \in DOMAIN ledger' : ledger'[i] = row \/ \E j \in DOMAIN ledger : ledger'[i] = ledger[j] BY <1>1
<1> QED BY <1>1, <1>6, <1>7, <1>8, <1>9 DEF n

\* What the constants and the phases are.
LEMMA Numbers ==
  /\ Cap \in Nat \ {0} /\ Rounds \in Nat /\ Rollbacks \in Nat /\ Directions \in Nat \ {0}
  /\ Segment \in Nat /\ Budget \in Nat
  /\ 0 \in Phases /\ 1 \in Phases /\ 2 \in Phases
  /\ \A p \in Phases : p = 0 \/ p = 1 \/ p = 2
BY RepairAssumption DEF Phases

ChildType == [phase : Phases, state : {"none", "running", "exited"}, updates : Nat,
              interrupted : BOOLEAN, run : RunRecord]
AuditType == [known : [Phases -> Nat], uncertain : [Phases -> Nat]]

\* A launch charges the cap of the child to its phase.
LEMMA Charging ==
  ASSUME RepairTyped, NEW q \in Phases, Execute(q)
  PROVE  /\ child' \in ChildType /\ child'.state = "running" /\ child'.phase = q /\ child'.updates = 0
         /\ audit' \in AuditType /\ audit'.known = audit.known
         /\ \A p \in Phases : audit'.uncertain[p] = audit.uncertain[p] + (IF p = q THEN Cap ELSE 0)
<1>1. child' = [phase |-> q, state |-> "running", updates |-> 0, interrupted |-> FALSE, run |-> NoRun]
  BY DEF Execute, NoChild
<1>2. NoRun \in RunRecord BY DEF NoRun, RunRecord, Outcomes
<1>3. child' \in ChildType /\ child'.state = "running" /\ child'.phase = q /\ child'.updates = 0
  BY <1>1, <1>2 DEF ChildType
<1> DEFINE u == [audit.uncertain EXCEPT ![q] = @ + Cap]
<1>4. audit \in AuditType /\ Cap \in Nat BY Numbers DEF RepairTyped, AuditType
<1>5. u \in [Phases -> Nat] /\ \A p \in Phases : u[p] = audit.uncertain[p] + (IF p = q THEN Cap ELSE 0)
  BY <1>4 DEF AuditType
<1>6. audit' = [audit EXCEPT !.uncertain = u] BY <1>4 DEF Execute, AuditType
<1> HIDE DEF u
<1>7. audit' \in AuditType /\ audit'.known = audit.known /\ audit'.uncertain = u
  BY <1>4, <1>5, <1>6 DEF AuditType
<1> QED BY <1>3, <1>5, <1>7

\* A validated child is charged what it made, no more.
LEMMA Settling ==
  ASSUME RepairTyped, child.phase \in Phases, audit.uncertain[child.phase] >= Cap,
         Validated(child.run.frames)
  PROVE  /\ audit' \in AuditType
         /\ \A p \in Phases :
              /\ audit'.known[p] = audit.known[p] + (IF p = child.phase THEN child.run.frames ELSE 0)
              /\ audit'.uncertain[p] = audit.uncertain[p] - (IF p = child.phase THEN Cap ELSE 0)
<1> DEFINE q == child.phase
           frames == child.run.frames
<1>1. audit.known \in [Phases -> Nat] /\ audit.uncertain \in [Phases -> Nat] /\ Cap \in Nat
      /\ frames \in Nat /\ q \in Phases
  BY Numbers DEF RepairTyped, RunRecord
<1>2. audit' = [known |-> [audit.known EXCEPT ![q] = @ + frames],
                uncertain |-> [audit.uncertain EXCEPT ![q] = @ - Cap]]
  BY DEF Validated
<1>3. audit.uncertain[q] >= Cap OBVIOUS
<1> HIDE DEF q, frames
<1> DEFINE k == [audit.known EXCEPT ![q] = @ + frames]
           u == [audit.uncertain EXCEPT ![q] = @ - Cap]
<1>4. k \in [Phases -> Nat] /\ \A p \in Phases : k[p] = audit.known[p] + (IF p = q THEN frames ELSE 0) BY <1>1
<1>5. u \in [Phases -> Nat] /\ \A p \in Phases : u[p] = audit.uncertain[p] - (IF p = q THEN Cap ELSE 0)
  BY <1>1, <1>3
<1>6. audit' = [known |-> k, uncertain |-> u] BY <1>2
<1> HIDE DEF k, u
<1> QED BY <1>4, <1>5, <1>6 DEF AuditType, q, frames

LEMMA Emptied ==
  ASSUME child' = NoChild
  PROVE  child' \in ChildType /\ child'.state = "none" /\ child'.updates = 0
BY Numbers DEF NoChild, NoRun, RunRecord, Outcomes, ChildType

\* The accounts, when a child is launched, makes an update, is settled or
\* is given up.
LEMMA NumbersOf ==
  ASSUME RepairTyped
  PROVE  /\ \A p \in Phases : audit.known[p] \in Nat /\ audit.uncertain[p] \in Nat
                              /\ actual.phase[p] \in Nat
         /\ child.updates \in Nat /\ child.updates <= Cap /\ child.phase \in Phases
         /\ \A p \in Phases : Made(p) \in Nat /\ Open(p) \in Nat /\ Made(p) <= Open(p)
<1>1. /\ audit.known \in [Phases -> Nat] /\ audit.uncertain \in [Phases -> Nat]
      /\ actual.phase \in [Phases -> Nat]
  BY DEF RepairTyped
<1>2. child.updates \in Nat /\ child.updates <= Cap /\ child.phase \in Phases BY DEF RepairTyped
<1>3. ASSUME NEW p \in Phases PROVE Made(p) \in Nat /\ Open(p) \in Nat /\ Made(p) <= Open(p)
  BY <1>2, Numbers DEF Made, Open
<1> QED BY <1>1, <1>2, <1>3

LEMMA ChargeAccounted ==
  ASSUME RepairTyped, Accounted, child.state = "none", NEW q \in Phases, Execute(q),
         q = 1 => audit.known[1] + audit.uncertain[1] + Cap <= Budget,
         actual'.phase = actual.phase, actual'.before = actual.before, prior' = prior
  PROVE  Accounted'
<1>1. /\ child'.state = "running" /\ child'.phase = q /\ child'.updates = 0
      /\ audit'.known = audit.known
      /\ \A p \in Phases : audit'.uncertain[p] = audit.uncertain[p] + (IF p = q THEN Cap ELSE 0)
  BY Charging
<1>2. \A p \in Phases : Made(p) = 0 /\ Open(p) = 0 BY DEF Made, Open
<1>3. \A p \in Phases : Made(p)' = 0 /\ Open(p)' = IF p = q THEN Cap ELSE 0 BY <1>1 DEF Made, Open
<1>4. ASSUME NEW p \in Phases
      PROVE  /\ audit'.known[p] + Made(p)' <= actual'.phase[p]
             /\ actual'.phase[p] + Open(p)' <= audit'.known[p] + audit'.uncertain[p] + Made(p)'
 <2>1. /\ audit.known[p] + 0 <= actual.phase[p]
       /\ actual.phase[p] + 0 <= audit.known[p] + audit.uncertain[p] + 0
   BY <1>2 DEF Accounted
 <2>2. audit.known[p] \in Nat /\ audit.uncertain[p] \in Nat /\ actual.phase[p] \in Nat /\ Cap \in Nat
   BY NumbersOf, Numbers
 <2> QED BY <1>1, <1>3, <2>1, <2>2
<1>5. audit'.known[1] + audit'.uncertain[1] <= Budget
 <2>1. audit.known[1] \in Nat /\ audit.uncertain[1] \in Nat /\ Cap \in Nat /\ Budget \in Nat /\ 1 \in Phases
   BY NumbersOf, Numbers
 <2>2. audit.known[1] + audit.uncertain[1] <= Budget BY DEF Accounted
 <2>3. audit'.uncertain[1] = audit.uncertain[1] + (IF 1 = q THEN Cap ELSE 0) BY <1>1, <2>1
 <2> QED BY <1>1, <2>1, <2>2, <2>3
<1>6. prior'.known <= actual'.before /\ actual'.before <= prior'.known + prior'.uncertain BY DEF Accounted
<1> QED BY <1>4, <1>5, <1>6 DEF Accounted

LEMMA SettleAccounted ==
  ASSUME RepairTyped, Accounted, child.state = "exited", child.run.frames = child.updates,
         audit.uncertain[child.phase] >= Cap, Validated(child.run.frames), child' = NoChild,
         actual' = actual, prior' = prior
  PROVE  Accounted'
<1> DEFINE q == child.phase
           frames == child.updates
<1>1. \A p \in Phases :
        /\ audit'.known[p] = audit.known[p] + (IF p = q THEN frames ELSE 0)
        /\ audit'.uncertain[p] = audit.uncertain[p] - (IF p = q THEN Cap ELSE 0)
  BY Settling, NumbersOf
<1>2. q \in Phases /\ frames \in Nat /\ frames <= Cap /\ Cap \in Nat BY NumbersOf, Numbers
<1>3. \A p \in Phases : Made(p) = (IF p = q THEN frames ELSE 0) /\ Open(p) = IF p = q THEN Cap ELSE 0
  BY DEF Made, Open
<1>4. \A p \in Phases : Made(p)' = 0 /\ Open(p)' = 0 BY DEF Made, Open, NoChild
<1>5. \A p \in Phases : audit.known[p] \in Nat /\ audit.uncertain[p] \in Nat /\ actual.phase[p] \in Nat
  BY NumbersOf
<1>6. \A p \in Phases :
        /\ audit.known[p] + Made(p) <= actual.phase[p]
        /\ actual.phase[p] + Open(p) <= audit.known[p] + audit.uncertain[p] + Made(p)
  BY DEF Accounted
<1>7. /\ audit.known[1] + audit.uncertain[1] <= Budget
      /\ prior.known <= actual.before /\ actual.before <= prior.known + prior.uncertain
  BY DEF Accounted
<1> HIDE DEF q, frames
<1>8. ASSUME NEW p \in Phases
      PROVE  /\ audit'.known[p] + Made(p)' <= actual'.phase[p]
             /\ actual'.phase[p] + Open(p)' <= audit'.known[p] + audit'.uncertain[p] + Made(p)'
  BY <1>1, <1>2, <1>3, <1>4, <1>5, <1>6
<1>9. audit'.known[1] + audit'.uncertain[1] <= Budget
 <2>1. 1 \in Phases /\ Budget \in Nat BY Numbers
 <2> QED BY <1>1, <1>2, <1>5, <1>7, <2>1
<1> QED BY <1>7, <1>8, <1>9 DEF Accounted

LEMMA DropAccounted ==
  ASSUME RepairTyped, Accounted, child' = NoChild, audit' = audit, actual' = actual, prior' = prior
  PROVE  Accounted'
<1>1. \A p \in Phases : Made(p)' = 0 /\ Open(p)' = 0 BY DEF Made, Open, NoChild
<1>2. ASSUME NEW p \in Phases
      PROVE  /\ audit'.known[p] + Made(p)' <= actual'.phase[p]
             /\ actual'.phase[p] + Open(p)' <= audit'.known[p] + audit'.uncertain[p] + Made(p)'
 <2>1. /\ audit.known[p] + Made(p) <= actual.phase[p]
       /\ actual.phase[p] + Open(p) <= audit.known[p] + audit.uncertain[p] + Made(p)
   BY DEF Accounted
 <2>2. /\ audit.known[p] \in Nat /\ audit.uncertain[p] \in Nat /\ actual.phase[p] \in Nat
       /\ Made(p) \in Nat /\ Open(p) \in Nat /\ Made(p) <= Open(p)
   BY NumbersOf
 <2> QED BY <1>1, <2>1, <2>2
<1> QED BY <1>2 DEF Accounted

----
\* What the child does: an update counts at once; a report tells its
\* frames; being told to stop, or killed, changes no account.
restOf == <<repair, initial, current, best, at, count, reason, ledger, audit, summary, prior>>

LEMMA RestUnchanged ==
  ASSUME RepairInv, UNCHANGED restOf, child' \in ChildType, child'.updates <= Cap,
         actual' \in [phase : [Phases -> Nat], before : Nat, episode : Nat],
         Accounted', ChildHome'
  PROVE  RepairInv'
<1>1. RepairTyped /\ Books /\ Sums /\ Leading /\ Told BY DEF RepairInv
<1>2. RepairTyped' BY <1>1 DEF RepairTyped, restOf, ChildType
<1>3. Full' = Full /\ Sound' = Sound /\ Won' = Won /\ Final' = Final BY DEF Full, Sound, Won, Final, restOf
<1>4. Books' /\ Sums' BY <1>1, <1>3 DEF Books, Sums, restOf
<1>5. Leading' BY <1>1, <1>3 DEF Leading, Longest, restOf
<1>6. Told' BY <1>1, <1>3 DEF Told, restOf
<1> QED BY <1>2, <1>4, <1>5, <1>6 DEF RepairInv

LEMMA UpdateStep == ASSUME RepairInv, Update PROVE RepairInv'
<1>1. RepairTyped /\ Accounted /\ ChildHome BY DEF RepairInv
<1>2. /\ UNCHANGED restOf /\ child.state = "running" /\ child.updates < Cap
      /\ child' = [child EXCEPT !.updates = @ + 1]
      /\ actual' = [actual EXCEPT !.phase[child.phase] = @ + 1]
  BY DEF Update, restOf
<1> DEFINE q == child.phase
           made == child.updates
<1>3. q \in Phases /\ made \in Nat /\ made + 1 <= Cap /\ Cap \in Nat BY <1>1, <1>2, NumbersOf, Numbers
<1>4. /\ child' \in ChildType /\ child'.state = "running" /\ child'.phase = q
      /\ child'.updates = made + 1
 <2>1. child \in ChildType BY <1>1 DEF RepairTyped, ChildType
 <2> QED BY <1>2, <2>1 DEF ChildType
<1>5. /\ actual' \in [phase : [Phases -> Nat], before : Nat, episode : Nat]
      /\ actual'.before = actual.before
      /\ \A p \in Phases : actual'.phase[p] = actual.phase[p] + (IF p = q THEN 1 ELSE 0)
 <2>1. actual \in [phase : [Phases -> Nat], before : Nat, episode : Nat] BY <1>1 DEF RepairTyped
 <2> DEFINE f == [actual.phase EXCEPT ![q] = @ + 1]
 <2>2. f \in [Phases -> Nat] /\ \A p \in Phases : f[p] = actual.phase[p] + (IF p = q THEN 1 ELSE 0)
   BY <1>3, <2>1
 <2>3. actual' = [actual EXCEPT !.phase = f] BY <1>2, <2>1
 <2> HIDE DEF f
 <2> QED BY <2>1, <2>2, <2>3
<1>6. Accounted'
 <2>1. \A p \in Phases : /\ Made(p) = (IF p = q THEN made ELSE 0) /\ Open(p) = (IF p = q THEN Cap ELSE 0)
                         /\ Made(p)' = (IF p = q THEN made + 1 ELSE 0) /\ Open(p)' = (IF p = q THEN Cap ELSE 0)
   BY <1>2, <1>4 DEF Made, Open
 <2>2. \A p \in Phases : audit.known[p] \in Nat /\ audit.uncertain[p] \in Nat /\ actual.phase[p] \in Nat
   BY <1>1, NumbersOf
 <2>3. \A p \in Phases :
         /\ audit.known[p] + Made(p) <= actual.phase[p]
         /\ actual.phase[p] + Open(p) <= audit.known[p] + audit.uncertain[p] + Made(p)
   BY <1>1 DEF Accounted
 <2>4. audit' = audit /\ prior' = prior BY <1>2 DEF restOf
 <2> HIDE DEF q, made
 <2>5. ASSUME NEW p \in Phases
       PROVE  /\ audit'.known[p] + Made(p)' <= actual'.phase[p]
              /\ actual'.phase[p] + Open(p)' <= audit'.known[p] + audit'.uncertain[p] + Made(p)'
   BY <1>3, <1>5, <2>1, <2>2, <2>3, <2>4
 <2> QED BY <1>1, <1>5, <2>4, <2>5 DEF Accounted
<1>7. ChildHome' BY <1>1, <1>2, <1>4 DEF ChildHome, restOf
<1> QED BY <1>2, <1>3, <1>4, <1>5, <1>6, <1>7, RestUnchanged

\* A step of the child that makes no update.
LEMMA ChildOnly ==
  ASSUME RepairInv, UNCHANGED restOf, actual' = actual, child' \in ChildType,
         child.state # "none", child'.state # "none",
         child'.phase = child.phase, child'.updates = child.updates,
         child'.state = "exited" /\ child'.run.outcome # "bad" =>
            child'.run.frames = child'.updates /\ child'.run.name = Len(ledger) + 1
  PROVE  RepairInv'
<1>1. RepairTyped /\ Accounted /\ ChildHome BY DEF RepairInv
<1>2. \A p : Made(p)' = Made(p) /\ Open(p)' = Open(p) BY DEF Made, Open
<1>3. Accounted' BY <1>1, <1>2 DEF Accounted, restOf
<1>4. ChildHome' BY <1>1 DEF ChildHome, restOf
<1>5. child'.updates <= Cap /\ actual' \in [phase : [Phases -> Nat], before : Nat, episode : Nat]
  BY <1>1 DEF RepairTyped
<1> QED BY <1>3, <1>4, <1>5, RestUnchanged

LEMMA ExitStep ==
  ASSUME RepairInv, NEW o \in {"complete", "collision", "limit", "bad"}, NEW onset \in 0 .. Cap,
         Exit(o, onset)
  PROVE  RepairInv'
<1> DEFINE run == [name |-> Len(ledger) + 1, outcome |-> o, frames |-> child.updates, onset |-> onset]
<1>1. child \in ChildType /\ ledger \in Seq(Row) BY DEF RepairInv, RepairTyped, ChildType
<1>2. Len(ledger) \in Nat /\ onset \in Nat /\ child.updates \in Nat BY <1>1, Numbers DEF ChildType
<1>3. /\ run \in RunRecord /\ run.frames = child.updates /\ run.name = Len(ledger) + 1
  BY <1>2 DEF RunRecord, Outcomes
<1>4. /\ UNCHANGED restOf /\ actual' = actual /\ child.state = "running"
      /\ child' = [child EXCEPT !.state = "exited", !.run = run]
  BY DEF Exit, restOf
<1> HIDE DEF run
<1>5. /\ child' \in ChildType /\ child'.state = "exited" /\ child'.phase = child.phase
      /\ child'.updates = child.updates /\ child'.run = run
  BY <1>1, <1>3, <1>4 DEF ChildType
<1> QED BY <1>3, <1>4, <1>5, ChildOnly

LEMMA StopStep == ASSUME RepairInv, Terminate \/ KillChild PROVE RepairInv'
<1>1. child \in ChildType /\ ChildHome BY DEF RepairInv, RepairTyped, ChildType
<1>2. UNCHANGED restOf /\ actual' = actual BY DEF Terminate, KillChild, restOf
<1>3. CASE Terminate
 <2>1. child.state \in {"running", "exited"} /\ child' = [child EXCEPT !.interrupted = TRUE]
   BY <1>3 DEF Terminate
 <2>2. /\ child' \in ChildType /\ child'.state = child.state /\ child'.phase = child.phase
       /\ child'.updates = child.updates /\ child'.run = child.run
   BY <1>1, <2>1 DEF ChildType
 <2> QED BY <1>1, <1>2, <2>1, <2>2, ChildOnly DEF ChildHome
<1>4. CASE KillChild
 <2> DEFINE run == [child.run EXCEPT !.outcome = "bad"]
 <2>1. child.run \in RunRecord BY <1>1 DEF ChildType
 <2>2. run \in RunRecord /\ run.outcome = "bad" BY <2>1 DEF RunRecord, Outcomes
 <2>3. child.state = "running" /\ child' = [child EXCEPT !.state = "exited", !.run = run]
   BY <1>1, <1>4 DEF KillChild, ChildType
 <2> HIDE DEF run
 <2>4. /\ child' \in ChildType /\ child'.state = "exited" /\ child'.phase = child.phase
       /\ child'.updates = child.updates /\ child'.run.outcome = "bad"
   BY <1>1, <2>2, <2>3 DEF ChildType
 <2> QED BY <1>2, <2>3, <2>4, ChildOnly
<1> QED BY <1>3, <1>4

LEMMA ClockStep == ASSUME RepairInv, Deadline PROVE RepairInv'
<1>1. UNCHANGED restOf /\ actual' = actual /\ child' = child BY DEF Deadline, restOf
<1>2. Accounted' /\ ChildHome' BY <1>1 DEF RepairInv, Accounted, Made, Open, ChildHome, restOf
<1>3. /\ child' \in ChildType /\ child'.updates <= Cap
      /\ actual' \in [phase : [Phases -> Nat], before : Nat, episode : Nat]
  BY <1>1 DEF RepairInv, RepairTyped, ChildType
<1> QED BY <1>1, <1>2, <1>3, RestUnchanged

----
\* The search itself.  A search that has not ended has no summary yet.
LEMMA GoingOn ==
  ASSUME RepairInv, repair \notin {"over", "killed"}
  PROVE  ~Full /\ Sound
BY DEF RepairInv, Told, Sound

LEMMA FailStep ==
  ASSUME RepairInv, Fail, actual' = actual, prior' = prior
  PROVE  RepairInv'
<1>1. RepairTyped /\ Accounted /\ Sums BY DEF RepairInv
<1>2. /\ repair' = "over" /\ child' = NoChild /\ summary' = [outcome |-> "error"]
      /\ initial' = initial /\ current' = current /\ best' = best /\ at' = at /\ count' = count
      /\ ledger' = ledger /\ audit' = audit
  BY DEF Fail
<1>3. child' \in ChildType /\ child'.state = "none" /\ child'.updates = 0 BY <1>2, Emptied
<1>4. RepairTyped'
 <2>1. child'.updates <= Cap /\ repair' \in RepairPlaces BY <1>2, <1>3, Numbers DEF RepairPlaces
 <2> QED BY <1>1, <1>2, <1>3, <2>1 DEF RepairTyped, ChildType
<1>5. Accounted' BY <1>1, <1>2, DropAccounted
<1>6. ~(Full') /\ ~(Sound')
 <2>1. summary'.outcome = "error" BY <1>2
 <2> QED BY <1>2, <2>1 DEF Full, Sound
<1>7. ChildHome' /\ Books' /\ Sums' /\ Leading' /\ Told'
  BY <1>1, <1>2, <1>3, <1>6 DEF ChildHome, Books, Sums, Leading, Told
<1> QED BY <1>4, <1>5, <1>7 DEF RepairInv

LEMMA CrashStep == ASSUME RepairInv, CrashRepair PROVE RepairInv'
<1>1. RepairTyped /\ Accounted /\ ChildHome /\ Sums /\ Told BY DEF RepairInv
<1>2. /\ repair # "over" /\ repair' = "killed" /\ child' = child /\ summary' = summary
      /\ initial' = initial /\ current' = current /\ best' = best /\ at' = at /\ count' = count
      /\ ledger' = ledger /\ audit' = audit /\ actual' = actual /\ prior' = prior
  BY DEF CrashRepair
<1>3. RepairTyped' BY <1>1, <1>2 DEF RepairTyped, RepairPlaces
<1>4. Accounted' /\ ChildHome' /\ Sums' BY <1>1, <1>2 DEF Accounted, Made, Open, ChildHome, Sums
<1>5. ~Full /\ ~(Full') /\ ~(Sound') BY <1>1, <1>2 DEF Told, Full, Sound
<1>6. Books' /\ Leading' /\ Told' BY <1>2, <1>5 DEF Books, Leading, Told
<1> QED BY <1>3, <1>4, <1>6 DEF RepairInv

LEMMA BeginStep == ASSUME RepairInv, Begin PROVE RepairInv'
<1>1. RepairTyped /\ Accounted /\ ChildHome /\ Books /\ Sums /\ Leading /\ Told BY DEF RepairInv
<1>2. /\ repair = "begin" /\ repair' = "initial" /\ Execute(0)
      /\ actual' = [actual EXCEPT !.episode = 1]
      /\ initial' = initial /\ current' = current /\ best' = best /\ at' = at /\ count' = count
      /\ ledger' = ledger /\ summary' = summary /\ prior' = prior
  BY DEF Begin
<1>3. 0 \in Phases /\ 1 \in Phases /\ 2 \in Phases /\ Cap \in Nat \ {0} BY Numbers
<1>4. /\ child' \in ChildType /\ child'.state = "running" /\ child'.phase = 0 /\ child'.updates = 0
      /\ audit' \in AuditType /\ audit'.known = audit.known
      /\ \A p \in Phases : audit'.uncertain[p] = audit.uncertain[p] + (IF p = 0 THEN Cap ELSE 0)
  BY <1>1, <1>2, <1>3, Charging
<1>5. /\ actual' \in [phase : [Phases -> Nat], before : Nat, episode : Nat]
      /\ actual'.phase = actual.phase /\ actual'.before = actual.before
  BY <1>1, <1>2 DEF RepairTyped
<1>6. RepairTyped'
 <2>1. child'.updates <= Cap /\ repair' \in RepairPlaces BY <1>2, <1>3, <1>4 DEF RepairPlaces
 <2> QED BY <1>1, <1>2, <1>4, <1>5, <2>1 DEF RepairTyped, ChildType, AuditType
<1>7. Accounted'
 <2>1. child.state = "none" BY <1>1, <1>2 DEF ChildHome
 <2> QED BY <1>1, <1>2, <1>3, <1>5, <2>1, ChargeAccounted
<1>8. ~Full /\ Sound /\ ~(Full') /\ Sound' BY <1>2, GoingOn DEF Full, Sound
<1>9. Books'
 <2>1. /\ audit.uncertain[0] = 0 /\ audit.uncertain[1] = count.interrupted /\ audit.uncertain[2] = 0
       /\ audit.known[0] = initial /\ audit.known[1] = count.updates /\ audit.known[2] = 0
       /\ count.interrupted = 0
       /\ count.candidates = Len(ledger) + 0
   BY <1>1, <1>2, <1>8 DEF Books
 <2>2. audit'.uncertain[0] = Cap /\ audit'.uncertain[1] = 0 /\ audit'.uncertain[2] = 0 BY <1>3, <1>4, <2>1
 <2> QED BY <1>2, <1>4, <2>1, <2>2 DEF Books
<1>10. ChildHome' /\ Sums' /\ Leading' /\ Told'
 <2>1. ledger = << >> /\ initial = 0 BY <1>1, <1>2 DEF Leading
 <2>2. Won <=> FALSE BY <1>2 DEF Won
 <2> QED BY <1>1, <1>2, <1>4, <1>8, <2>1, <2>2 DEF ChildHome, Sums, Leading, Told, Won
<1> QED BY <1>6, <1>7, <1>9, <1>10 DEF RepairInv

LEMMA InitialStep == ASSUME RepairInv, InitialDone PROVE RepairInv'
<1>1. RepairTyped /\ Accounted /\ ChildHome /\ Books /\ Sums /\ Leading /\ Told BY DEF RepairInv
<1>2. /\ repair = "initial" /\ child.state = "exited" /\ child.phase = 0
      /\ actual' = actual /\ prior' = prior
  BY DEF InitialDone, Reaped
<1>3. CASE child.interrupted \/ child.run.outcome = "bad" \/ ~Regenerated
  BY <1>2, <1>3, FailStep DEF InitialDone
<1>4. CASE ~(child.interrupted \/ child.run.outcome = "bad" \/ ~Regenerated)
 <2> DEFINE frames == child.run.frames
 <2>1. /\ Validated(child.run.frames) /\ initial' = frames
       /\ current' = [child.run EXCEPT !.name = 0] /\ best' = current' /\ child' = NoChild
       /\ \/ child.run.outcome = "complete" /\ repair' = "verify" /\ reason' = "complete"
          \/ repair' = "round" /\ reason' = "round-limit"
       /\ at' = at /\ count' = count /\ ledger' = ledger /\ summary' = summary
   BY <1>4 DEF InitialDone
 <2>2. ~Full /\ Sound /\ ~(Full') /\ Sound'
  <3>1. repair' \notin {"over", "killed"} BY <2>1
  <3> QED BY <1>2, <2>1, <3>1, GoingOn DEF Full, Sound
 <2>3. /\ audit.uncertain[0] = Cap /\ audit.uncertain[1] = count.interrupted /\ audit.uncertain[2] = 0
       /\ audit.known[0] = initial /\ audit.known[1] = count.updates /\ audit.known[2] = 0
       /\ count.interrupted = 0 /\ count.candidates = Len(ledger) + 0
   BY <1>1, <1>2, <2>2 DEF Books
 <2>4. frames = child.updates /\ frames \in Nat /\ child.run \in RunRecord
   BY <1>1, <1>2, <1>4 DEF ChildHome, RepairTyped
 <2>5. /\ current' \in RunRecord /\ current'.name = 0 /\ current'.frames = frames
       /\ current'.outcome = child.run.outcome
   BY <2>1, <2>4 DEF RunRecord
 <2>6. Cap \in Nat /\ audit.uncertain[child.phase] >= Cap /\ 0 \in Phases /\ 1 \in Phases /\ 2 \in Phases
   BY <1>2, <2>3, Numbers
 <2>7. /\ audit' \in AuditType
       /\ \A p \in Phases :
             /\ audit'.known[p] = audit.known[p] + (IF p = 0 THEN frames ELSE 0)
             /\ audit'.uncertain[p] = audit.uncertain[p] - (IF p = 0 THEN Cap ELSE 0)
   BY <1>1, <1>2, <2>1, <2>6, Settling
 <2>8. child' \in ChildType /\ child'.state = "none" /\ child'.updates = 0 BY <2>1, Emptied
 <2>9. RepairTyped'
  <3>1. child'.updates <= Cap /\ repair' \in RepairPlaces BY <2>1, <2>6, <2>8 DEF RepairPlaces
  <3> QED BY <1>1, <1>2, <2>1, <2>4, <2>5, <2>7, <2>8, <3>1 DEF RepairTyped, ChildType,
       AuditType
 <2>10. Accounted' BY <1>1, <1>2, <2>1, <2>4, <2>6, SettleAccounted
 <2>11. ledger = << >> /\ initial = 0 BY <1>1, <1>2 DEF Leading
 <2> HIDE DEF frames
 <2>12. Books'
  <3>1. count.interrupted \in Nat /\ count.updates \in Nat BY <1>1 DEF RepairTyped
  <3>2. /\ audit'.uncertain[0] = 0 /\ audit'.uncertain[1] = 0 /\ audit'.uncertain[2] = 0
        /\ audit'.known[0] = initial' /\ audit'.known[1] = count.updates /\ audit'.known[2] = 0
    BY <2>1, <2>3, <2>4, <2>6, <2>7, <2>11, <3>1
  <3>3. repair' \notin {"initial", "candidate", "replay", "summary", "over"} BY <2>1
  <3> QED BY <2>1, <2>3, <3>2, <3>3 DEF Books
 <2>13. Leading'
  <3>1. Len(ledger) = 0 BY <2>11
  <3>2. LedgerBest(initial, ledger)' = [name |-> 0, frames |-> initial']
   <4>1. LedgerBest(initial', ledger') = [name |-> 0, frames |-> initial'] BY <2>1, <3>1, BestEmpty
   <4> QED BY <4>1
  <3>3. Pair(current)' = [name |-> 0, frames |-> initial'] BY <2>1, <2>5 DEF Pair
  <3>4. Longest(current)' BY <2>1, <2>4, <2>5 DEF Longest
  <3>5. \A i \in DOMAIN ledger' : FALSE BY <2>1, <2>11
  <3>6. \/ repair' = "verify" /\ Won' /\ current'.outcome = "complete" /\ reason' = "complete"
        \/ repair' = "round" /\ ~(Won')
    BY <2>1, <2>5 DEF Won
  <3>7. CASE repair' = "verify" /\ Won' /\ current'.outcome = "complete" /\ reason' = "complete"
    BY <3>7 DEF Leading
  <3>8. CASE repair' = "round" /\ ~(Won') BY <2>2, <3>2, <3>3, <3>4, <3>5, <3>8 DEF Leading
  <3> QED BY <3>6, <3>7, <3>8
 <2>14. ChildHome' /\ Sums' /\ Told' BY <1>1, <2>1, <2>2, <2>8 DEF ChildHome, Sums, Told
 <2> QED BY <2>9, <2>10, <2>12, <2>13, <2>14 DEF RepairInv
<1> QED BY <1>3, <1>4

\* A step that launches nothing, settles nothing and ends nothing.
LEMMA Untouched ==
  ASSUME RepairInv, child' = child, audit' = audit, actual' = actual, prior' = prior, ledger' = ledger,
         count'.updates = count.updates, count'.prefixes = count.prefixes,
         summary' = summary, repair \notin {"over", "killed"}
  PROVE  Accounted' /\ Sums' /\ Told'
<1>1. Accounted /\ Sums /\ ~Full BY GoingOn DEF RepairInv
<1>2. Accounted' BY <1>1 DEF Accounted, Made, Open
<1>3. Sums' BY <1>1 DEF Sums
<1>4. Told' BY <1>1 DEF Told, Full
<1> QED BY <1>2, <1>3, <1>4

LEMMA RoundStep == ASSUME RepairInv, Round PROVE RepairInv'
<1>1. RepairTyped /\ Accounted /\ ChildHome /\ Books /\ Sums /\ Leading /\ Told BY DEF RepairInv
<1>2. /\ repair = "round" /\ child' = child /\ initial' = initial /\ current' = current
      /\ count' = count /\ ledger' = ledger /\ audit' = audit /\ summary' = summary
      /\ prior' = prior /\ actual' = actual
      /\ \/ repair' = "search" /\ best' = current /\ at' = 1
         \/ repair' = "summary" /\ best' = best /\ at' = at /\ reason' # "complete"
  BY DEF Round
<1>3. ~Full /\ Sound /\ Sound' /\ ~Won /\ ~(Won') /\ child.state = "none"
 <2>1. repair' \notin {"over", "killed"} BY <1>2
 <2> QED BY <1>1, <1>2, <2>1, GoingOn DEF Sound, Won, ChildHome
<1>4. RepairTyped'
 <2>1. repair' \in RepairPlaces BY <1>2 DEF RepairPlaces
 <2>2. current \in RunRecord /\ best \in RunRecord /\ at \in Nat \ {0} BY <1>1 DEF RepairTyped
 <2>3. best' \in RunRecord /\ at' \in Nat \ {0} BY <1>2, <2>2
 <2> QED BY <1>1, <1>2, <2>1, <2>3 DEF RepairTyped
<1>5. Accounted' /\ Sums' /\ Told' BY <1>2, Untouched
<1>6. ChildHome' BY <1>1, <1>2 DEF ChildHome
<1>7. Books'
 <2>1. /\ audit.uncertain[0] = 0 /\ audit.uncertain[1] = count.interrupted /\ audit.uncertain[2] = 0
       /\ audit.known[0] = initial /\ audit.known[1] = count.updates /\ audit.known[2] = 0
       /\ count.interrupted = 0
       /\ count.candidates = Len(ledger) + (IF count.interrupted > 0 THEN 1 ELSE 0)
   BY <1>1, <1>2, <1>3 DEF Books
 <2>2. /\ repair' \notin {"initial", "candidate", "replay", "over"}
       /\ ~(repair' \in {"summary", "over"} /\ reason' = "complete")
   BY <1>2
 <2> QED BY <1>2, <2>1, <2>2 DEF Books
<1>8. Leading'
 <2>1. Pair(current) = LedgerBest(initial, ledger) /\ Longest(current) BY <1>1, <1>2, <1>3 DEF Leading
 <2>2. \A i \in DOMAIN ledger : ledger[i].outcome # "complete" BY <1>1, <1>3 DEF Leading
 <2>3. repair' = "search" => best' = current BY <1>2
 <2> QED BY <1>2, <1>3, <2>1, <2>2, <2>3 DEF Leading, Longest, Pair
<1> QED BY <1>4, <1>5, <1>6, <1>7, <1>8 DEF RepairInv

\* The run kept at the end of a round is the best of the ledger.
LEMMA Promotion ==
  ASSUME RepairInv, repair \in {"search", "candidate"}
  PROVE  /\ Promoted \in RunRecord /\ Pair(Promoted) = LedgerBest(initial, ledger) /\ Longest(Promoted)
         /\ \A i \in DOMAIN ledger : ledger[i].outcome # "complete"
<1>1. RepairTyped /\ Leading /\ Sound /\ ~Won BY GoingOn DEF RepairInv, Won
<1>2. /\ current \in RunRecord /\ best \in RunRecord
      /\ Pair(best) = LedgerBest(initial, ledger) /\ Longest(current)
      /\ best # current => best.frames > current.frames /\ best.outcome = "collision"
      /\ \A i \in DOMAIN ledger : ledger[i].outcome # "complete"
  BY <1>1 DEF RepairTyped, Leading
<1>3. CASE best = current BY <1>2, <1>3 DEF Promoted
<1>4. CASE best # current
 <2>1. Promoted = best /\ Longest(best) BY <1>2, <1>4 DEF Promoted, Longest
 <2> QED BY <1>2, <2>1
<1> QED BY <1>3, <1>4

LEMMA SearchStep == ASSUME RepairInv, Search PROVE RepairInv'
<1>1. RepairTyped /\ Accounted /\ ChildHome /\ Books /\ Sums /\ Leading /\ Told BY DEF RepairInv
<1>2. /\ repair = "search" /\ initial' = initial /\ best' = best /\ ledger' = ledger
      /\ summary' = summary /\ prior' = prior /\ actual' = actual
  BY DEF Search
<1>3. ~Full /\ Sound /\ ~Won /\ child.state = "none" BY <1>1, <1>2, GoingOn DEF Won, ChildHome
<1>4. /\ audit.uncertain[0] = 0 /\ audit.uncertain[1] = 0 /\ audit.uncertain[2] = 0
      /\ audit.known[0] = initial /\ audit.known[1] = count.updates /\ audit.known[2] = 0
      /\ count.interrupted = 0 /\ count.candidates = Len(ledger) + 0
 <2>1. /\ audit.uncertain[0] = 0 /\ audit.uncertain[1] = count.interrupted /\ audit.uncertain[2] = 0
       /\ audit.known[0] = initial /\ audit.known[1] = count.updates /\ audit.known[2] = 0
       /\ count.interrupted = 0
       /\ count.candidates = Len(ledger) + (IF count.interrupted > 0 THEN 1 ELSE 0)
   BY <1>1, <1>2, <1>3 DEF Books
 <2> QED BY <2>1
<1>5. /\ count.round \in Nat /\ count.candidates \in Nat /\ count.updates \in Nat
      /\ count = [round |-> count.round, candidates |-> count.candidates, updates |-> count.updates,
                  prefixes |-> count.prefixes, interrupted |-> count.interrupted]
      /\ count \in [round : Nat, candidates : Nat, updates : Nat, prefixes : Int, interrupted : Nat]
  BY <1>1 DEF RepairTyped
<1>6. ASSUME NEW why, why # "complete", EndOfRound(why),
             child' = child, at' = at, audit' = audit
      PROVE  RepairInv'
 <2>1. /\ current' = Promoted /\ count' = [count EXCEPT !.round = @ + 1]
       /\ \/ repair' = "round"
          \/ repair' = "summary" /\ reason' # "complete"
   BY <1>6 DEF EndOfRound
 <2>2. /\ count' \in [round : Nat, candidates : Nat, updates : Nat, prefixes : Int, interrupted : Nat]
       /\ count'.updates = count.updates /\ count'.prefixes = count.prefixes
       /\ count'.interrupted = count.interrupted /\ count'.candidates = count.candidates
  <3>1. count \in [round : Nat, candidates : Nat, updates : Nat, prefixes : Int, interrupted : Nat] BY <1>5
  <3> DEFINE r == count.round + 1
  <3>2. count' = [count EXCEPT !.round = r] /\ r \in Nat
   <4>1. count' = [count EXCEPT !.round = r] BY <1>6 DEF EndOfRound
   <4>2. r \in Nat BY <3>1
   <4> QED BY <4>1, <4>2
  <3> HIDE DEF r
  <3>3. /\ count' \in [round : Nat, candidates : Nat, updates : Nat, prefixes : Int, interrupted : Nat]
    BY <3>1, <3>2
  <3>4. /\ count'.updates = count.updates /\ count'.prefixes = count.prefixes
        /\ count'.interrupted = count.interrupted /\ count'.candidates = count.candidates
    BY <3>1, <3>2
  <3> QED BY <3>3, <3>4
 <2>3. /\ Promoted \in RunRecord /\ Pair(Promoted) = LedgerBest(initial, ledger) /\ Longest(Promoted)
       /\ \A i \in DOMAIN ledger : ledger[i].outcome # "complete"
   BY <1>2, Promotion
 <2>4. Sound' /\ ~(Won') BY <2>1 DEF Sound, Won
 <2>5. RepairTyped'
  <3>1. repair' \in RepairPlaces BY <2>1 DEF RepairPlaces
  <3> QED BY <1>1, <1>2, <1>6, <2>1, <2>2, <2>3, <3>1 DEF RepairTyped
 <2>6. Accounted' /\ Sums' /\ Told' BY <1>2, <1>6, <2>2, Untouched
 <2>7. ChildHome' BY <1>2, <1>3, <1>6 DEF ChildHome
 <2>8. Books'
  <3>1. /\ repair' \notin {"initial", "candidate", "replay", "over"}
        /\ ~(repair' \in {"summary", "over"} /\ reason' = "complete")
    BY <2>1
  <3>2. /\ audit' = audit /\ initial' = initial /\ ledger' = ledger BY <1>2, <1>6
  <3>3. /\ audit.uncertain[0] = 0 /\ audit.uncertain[1] = 0 /\ audit.uncertain[2] = 0
        /\ audit.known[0] = initial /\ audit.known[1] = count.updates /\ audit.known[2] = 0
    BY <1>4
  <3>4. count'.interrupted = 0 /\ count'.candidates = Len(ledger) + 0 /\ count'.updates = count.updates
    BY <1>4, <2>2
  <3>5. ~(count'.interrupted > 0)
   <4>1. count'.interrupted = 0 BY <3>4
   <4> QED BY <4>1
  <3>6. Len(ledger) + 0 = Len(ledger) + (IF repair' = "candidate" \/ count'.interrupted > 0 THEN 1 ELSE 0)
    BY <3>1, <3>5
  <3>7. /\ audit'.uncertain[0] = IF repair' = "initial" THEN Cap ELSE 0
        /\ audit'.uncertain[1] = IF repair' = "candidate" THEN Cap ELSE count'.interrupted
        /\ audit'.uncertain[2] = IF repair' = "replay" THEN Cap ELSE 0
    BY <3>1, <3>2, <3>3, <3>4
  <3>8. /\ audit'.known[0] = initial' /\ audit'.known[1] = count'.updates
        /\ audit'.known[2] = IF repair' \in {"summary", "over"} /\ reason' = "complete"
                             THEN current'.frames ELSE 0
    BY <3>1, <3>2, <3>3, <3>4
  <3> QED BY <3>2, <3>4, <3>6, <3>7, <3>8 DEF Books
 <2>9. Leading'
  <3>1. Pair(current)' = LedgerBest(initial, ledger)' /\ Longest(current)' BY <1>2, <2>1, <2>3 DEF Longest, Pair
  <3> QED BY <1>2, <2>1, <2>3, <2>4, <3>1 DEF Leading
 <2> QED BY <2>5, <2>6, <2>7, <2>8, <2>9 DEF RepairInv
<1>7. ASSUME at' = at + 1, repair' = repair, child' = child, current' = current, count' = count,
             reason' = reason, audit' = audit
      PROVE  RepairInv'
 <2>1. RepairTyped' /\ ChildHome' /\ Books'
  <3>1. at' \in Nat \ {0} BY <1>1, <1>7 DEF RepairTyped
  <3>2. RepairTyped' BY <1>1, <1>2, <1>7, <3>1 DEF RepairTyped
  <3>3. Sound' = Sound BY <1>2, <1>7 DEF Sound, Full
  <3> QED BY <1>1, <1>2, <1>7, <3>2, <3>3 DEF ChildHome, Books
 <2>2. Accounted' /\ Sums' /\ Told' BY <1>2, <1>7, Untouched
 <2>3. Leading' BY <1>1, <1>2, <1>7 DEF Leading, Sound, Full, Won, Longest, Pair
 <2> QED BY <2>1, <2>2, <2>3 DEF RepairInv
<1>8. ASSUME ~Spent, Execute(1), repair' = "candidate",
             count' = [count EXCEPT !.candidates = @ + 1], current' = current, at' = at, reason' = reason
      PROVE  RepairInv'
 <2>1. /\ Cap \in Nat \ {0} /\ Budget \in Nat /\ 0 \in Phases /\ 1 \in Phases /\ 2 \in Phases BY Numbers
 <2>2. count.updates + Cap <= Budget
  <3>1. ~(Budget - count.updates < Cap) BY <1>8 DEF Spent
  <3> QED BY <1>5, <2>1, <3>1
 <2>3. /\ child' \in ChildType /\ child'.state = "running" /\ child'.phase = 1 /\ child'.updates = 0
       /\ audit' \in AuditType /\ audit'.known = audit.known
       /\ \A p \in Phases : audit'.uncertain[p] = audit.uncertain[p] + (IF p = 1 THEN Cap ELSE 0)
   BY <1>1, <1>8, <2>1, Charging
 <2>4. /\ count' \in [round : Nat, candidates : Nat, updates : Nat, prefixes : Int, interrupted : Nat]
       /\ count'.updates = count.updates /\ count'.prefixes = count.prefixes
       /\ count'.interrupted = count.interrupted /\ count'.candidates = count.candidates + 1
   BY <1>5, <1>8
 <2>5. RepairTyped'
  <3>1. child'.updates <= Cap /\ repair' \in RepairPlaces BY <1>8, <2>1, <2>3 DEF RepairPlaces
  <3> QED BY <1>1, <1>2, <1>8, <2>3, <2>4, <3>1 DEF RepairTyped, ChildType, AuditType
 <2>6. Accounted'
  <3>1. audit.known[1] + audit.uncertain[1] + Cap <= Budget BY <1>4, <1>5, <2>1, <2>2
  <3> QED BY <1>1, <1>2, <1>3, <1>8, <2>1, <3>1, ChargeAccounted
 <2>7. Sound' /\ ~(Full') /\ ~(Won') BY <1>2, <1>3, <1>8 DEF Sound, Full, Won
 <2>8. ChildHome' /\ Sums' /\ Told' BY <1>1, <1>2, <1>8, <2>3, <2>4, <2>7 DEF ChildHome, Sums, Told
 <2>9. Books'
  <3>1. audit'.uncertain[0] = 0 /\ audit'.uncertain[1] = Cap /\ audit'.uncertain[2] = 0 BY <1>4, <2>1, <2>3
  <3>2. Len(ledger) \in Nat BY <1>1, LenProperties DEF RepairTyped
  <3>3. count'.candidates = Len(ledger) + 1 BY <1>4, <2>4, <3>2
  <3> QED BY <1>2, <1>4, <1>8, <2>3, <2>4, <3>1, <3>3 DEF Books
 <2>10. Leading' BY <1>1, <1>2, <1>3, <1>8, <2>7 DEF Leading, Longest, Pair
 <2> QED BY <2>5, <2>6, <2>8, <2>9, <2>10 DEF RepairInv
<1> QED BY <1>6, <1>7, <1>8 DEF Search

LEMMA InterruptedStep == ASSUME RepairInv, CandidateInterrupted PROVE RepairInv'
<1>1. RepairTyped /\ Accounted /\ ChildHome /\ Books /\ Sums /\ Leading /\ Told BY DEF RepairInv
<1>2. /\ repair = "candidate" /\ repair' = "summary" /\ reason' = "interrupted-search-budget"
      /\ current' = Promoted /\ child' = NoChild /\ count' = [count EXCEPT !.interrupted = Cap]
      /\ initial' = initial /\ best' = best /\ at' = at /\ ledger' = ledger /\ audit' = audit
      /\ summary' = summary /\ prior' = prior /\ actual' = actual
  BY DEF CandidateInterrupted
<1>3. ~Full /\ Sound /\ ~(Full') /\ Sound' /\ ~(Won') BY <1>2, GoingOn DEF Full, Sound, Won
<1>4. Cap \in Nat \ {0} BY Numbers
<1>5. /\ count' \in [round : Nat, candidates : Nat, updates : Nat, prefixes : Int, interrupted : Nat]
      /\ count'.updates = count.updates /\ count'.prefixes = count.prefixes
      /\ count'.interrupted = Cap /\ count'.candidates = count.candidates
 <2>1. count \in [round : Nat, candidates : Nat, updates : Nat, prefixes : Int, interrupted : Nat]
   BY <1>1 DEF RepairTyped
 <2> QED BY <1>2, <1>4, <2>1
<1>6. /\ Promoted \in RunRecord /\ Pair(Promoted) = LedgerBest(initial, ledger) /\ Longest(Promoted)
      /\ \A i \in DOMAIN ledger : ledger[i].outcome # "complete"
  BY <1>2, Promotion
<1>7. child' \in ChildType /\ child'.state = "none" /\ child'.updates = 0 BY <1>2, Emptied
<1>8. RepairTyped'
 <2>1. child'.updates <= Cap /\ repair' \in RepairPlaces BY <1>2, <1>4, <1>7 DEF RepairPlaces
 <2> QED BY <1>1, <1>2, <1>5, <1>6, <1>7, <2>1 DEF RepairTyped, ChildType
<1>9. Accounted' BY <1>1, <1>2, DropAccounted
<1>10. Books'
 <2>1. /\ audit.uncertain[0] = 0 /\ audit.uncertain[1] = Cap /\ audit.uncertain[2] = 0
       /\ audit.known[0] = initial /\ audit.known[1] = count.updates /\ audit.known[2] = 0
       /\ count.candidates = Len(ledger) + 1
   BY <1>1, <1>2, <1>3 DEF Books
 <2>2. count'.interrupted > 0 BY <1>4, <1>5
 <2> QED BY <1>2, <1>5, <2>1, <2>2 DEF Books
<1>11. Leading'
 <2>1. Pair(current)' = LedgerBest(initial, ledger)' /\ Longest(current)' BY <1>2, <1>6 DEF Longest, Pair
 <2> QED BY <1>2, <1>3, <1>6, <2>1 DEF Leading
<1>12. ChildHome' /\ Sums' /\ Told' BY <1>1, <1>2, <1>3, <1>5, <1>7 DEF ChildHome, Sums, Told
<1> QED BY <1>8, <1>9, <1>10, <1>11, <1>12 DEF RepairInv

LEMMA CandidateStep == ASSUME RepairInv, CandidateDone PROVE RepairInv'
<1>1. RepairTyped /\ Accounted /\ ChildHome /\ Books /\ Sums /\ Leading /\ Told BY DEF RepairInv
<1>2. /\ repair = "candidate" /\ child.state = "exited" /\ child.phase = 1
      /\ actual' = actual /\ prior' = prior
  BY DEF CandidateDone, Reaped
<1>3. CASE ~Believable BY <1>2, <1>3, FailStep DEF CandidateDone
<1>4. CASE Believable
 <2> DEFINE run == child.run
            row == [branch |-> Branch, frames |-> run.frames, outcome |-> run.outcome]
            least == Min({Branch - 1, run.frames})
 <2>1. /\ Validated(child.run.frames)
       /\ count' = [count EXCEPT !.updates = @ + run.frames, !.prefixes = @ + least]
       /\ ledger' = Append(ledger, row) /\ child' = NoChild /\ at' = at + 1
       /\ initial' = initial /\ summary' = summary
       /\ \/ /\ run.outcome = "complete" /\ current' = run /\ repair' = "verify"
             /\ reason' = "complete" /\ best' = best
          \/ /\ run.outcome # "complete" /\ repair' = "search" /\ current' = current
             /\ best' = IF run.outcome = "collision" /\ run.frames > best.frames THEN run ELSE best
   BY <1>4 DEF CandidateDone
 <2>2. /\ run \in RunRecord /\ run.frames \in Nat /\ run.outcome \in Outcomes
       /\ run.frames = child.updates /\ run.name = Len(ledger) + 1
   BY <1>1, <1>2, <1>4 DEF ChildHome, RepairTyped, RunRecord, Believable
 <2>3. Branch \in Int
  <3>1. at \in Nat \ {0} /\ current.onset \in Nat /\ Directions \in Nat \ {0} /\ Segment \in Nat
    BY <1>1, Numbers DEF RepairTyped, RunRecord
  <3>2. Rollback \in Int BY <3>1 DEF Rollback
  <3>3. Rollback * Segment \in Int BY <3>1, <3>2
  <3> QED BY <3>1, <3>3 DEF Branch
 <2>4. row \in Row /\ row.branch = Branch /\ row.frames = run.frames /\ row.outcome = run.outcome
   BY <2>2, <2>3 DEF Row
 <2>5. least \in Int
  <3>1. Branch - 1 \in Int /\ run.frames \in Int BY <2>2, <2>3
  <3>2. least \in {Branch - 1, run.frames} BY <3>1, MinOfTwo
  <3> QED BY <3>1, <3>2
 <2>6. least = Min({row.branch - 1, row.frames}) BY <2>4
 <2> HIDE DEF row, least, run
 <2>7. /\ ledger' \in Seq(Row) /\ Len(ledger') = Len(ledger) + 1 /\ Len(ledger) \in Nat
       /\ Summed(FramesOf(ledger)') = Summed(FramesOf(ledger)) + row.frames
       /\ Summed(PrefixesOf(ledger)') = Summed(PrefixesOf(ledger)) + Min({row.branch - 1, row.frames})
       /\ \A from : LedgerBest(from, ledger') = Longer(LedgerBest(from, ledger), Len(ledger) + 1, row)
       /\ \A i \in DOMAIN ledger' : ledger'[i] = row \/ \E j \in DOMAIN ledger : ledger'[i] = ledger[j]
  <3>1. ledger \in Seq(Row) BY <1>1 DEF RepairTyped
  <3> QED BY <2>1, <2>4, <3>1, LedgerGrows
 <2>8. /\ count' \in [round : Nat, candidates : Nat, updates : Nat, prefixes : Int, interrupted : Nat]
       /\ count'.updates = count.updates + run.frames /\ count'.prefixes = count.prefixes + least
       /\ count'.interrupted = count.interrupted /\ count'.candidates = count.candidates
  <3>1. count \in [round : Nat, candidates : Nat, updates : Nat, prefixes : Int, interrupted : Nat]
    BY <1>1 DEF RepairTyped
  <3>2. count.updates + run.frames \in Nat /\ count.prefixes + least \in Int BY <2>2, <2>5, <3>1
  <3> QED BY <2>1, <3>1, <3>2
 <2>9. /\ ~Full /\ Sound /\ ~(Full') /\ Sound' /\ ~Won
       /\ repair' \in {"verify", "search"} /\ (Won' <=> repair' = "verify")
   BY <1>2, <2>1, GoingOn DEF Full, Sound, Won
 <2>10. /\ audit.uncertain[0] = 0 /\ audit.uncertain[1] = Cap /\ audit.uncertain[2] = 0
        /\ audit.known[0] = initial /\ audit.known[1] = count.updates /\ audit.known[2] = 0
        /\ count.interrupted = 0 /\ count.candidates = Len(ledger) + 1
   BY <1>1, <1>2, <2>9 DEF Books
 <2>11. Cap \in Nat /\ audit.uncertain[child.phase] >= Cap /\ 0 \in Phases /\ 1 \in Phases /\ 2 \in Phases
   BY <1>2, <2>10, Numbers
 <2>12. /\ audit' \in AuditType
        /\ \A p \in Phases :
             /\ audit'.known[p] = audit.known[p] + (IF p = 1 THEN run.frames ELSE 0)
             /\ audit'.uncertain[p] = audit.uncertain[p] - (IF p = 1 THEN Cap ELSE 0)
   BY <1>1, <1>2, <2>1, <2>11, Settling DEF run
 <2>13. child' \in ChildType /\ child'.state = "none" /\ child'.updates = 0 BY <2>1, Emptied
 <2>14. RepairTyped'
  <3>0. at' \in Nat \ {0}
   <4>1. at \in Nat \ {0} /\ at' = at + 1 BY <1>1, <2>1 DEF RepairTyped
   <4> QED BY <4>1
  <3>1. child'.updates <= Cap /\ repair' \in RepairPlaces /\ at' \in Nat \ {0}
    BY <2>9, <2>11, <2>13, <3>0 DEF RepairPlaces
  <3>2. current' \in RunRecord /\ best' \in RunRecord BY <1>1, <2>1, <2>2 DEF RepairTyped
  <3> QED BY <1>1, <1>2, <2>1, <2>7, <2>8, <2>12, <2>13, <3>1, <3>2
          DEF RepairTyped, ChildType, AuditType
 <2>15. Accounted' BY <1>1, <1>2, <2>1, <2>2, <2>11, SettleAccounted DEF run
 <2>16. Books'
  <3>1. initial \in Nat /\ count.updates \in Nat BY <1>1 DEF RepairTyped
  <3>2. /\ audit'.uncertain[0] = 0 /\ audit'.uncertain[1] = 0 /\ audit'.uncertain[2] = 0
        /\ audit'.known[0] = initial /\ audit'.known[1] = count.updates + run.frames
        /\ audit'.known[2] = 0
    BY <2>2, <2>10, <2>11, <2>12, <3>1
  <3>3. count'.candidates = Len(ledger') BY <2>7, <2>8, <2>10
  <3>4. Len(ledger') \in Nat BY <2>7
  <3> QED BY <2>1, <2>8, <2>9, <2>10, <3>2, <3>3, <3>4 DEF Books
 <2>17. Sums' BY <1>1, <2>4, <2>6, <2>7, <2>8 DEF Sums
 <2>18. Leading'
  <3>1. /\ Pair(best) = LedgerBest(initial, ledger) /\ Longest(current)
        /\ best # current => best.frames > current.frames /\ best.outcome = "collision"
        /\ \A i \in DOMAIN ledger : ledger[i].outcome # "complete"
    BY <1>1, <1>2, <2>9 DEF Leading
  <3>2. CASE run.outcome = "complete"
   <4>1. repair' = "verify" /\ current'.outcome = "complete" /\ reason' = "complete" BY <2>1, <3>2
   <4> QED BY <2>9, <4>1 DEF Leading
  <3>3. CASE run.outcome # "complete"
   <4>1. /\ repair' = "search" /\ current' = current /\ initial' = initial
         /\ best' = IF run.outcome = "collision" /\ run.frames > best.frames THEN run ELSE best
     BY <2>1, <3>3
   <4>2. \A i \in DOMAIN ledger' : ledger'[i].outcome # "complete" BY <2>4, <2>7, <3>1, <3>3
   <4>3. /\ current.frames \in Nat /\ best.frames \in Nat
         /\ LedgerBest(initial, ledger') = Longer(Pair(best), Len(ledger) + 1, row)
     BY <1>1, <2>7, <3>1 DEF RepairTyped, RunRecord
   <4>4. Pair(best)' = LedgerBest(initial, ledger)'
    <5>1. Longer(Pair(best), Len(ledger) + 1, row) =
            IF run.outcome = "collision" /\ run.frames > best.frames
            THEN [name |-> Len(ledger) + 1, frames |-> run.frames] ELSE Pair(best)
      BY <2>4 DEF Longer, Pair
    <5>2. CASE run.outcome = "collision" /\ run.frames > best.frames BY <2>2, <4>1, <4>3, <5>1, <5>2 DEF Pair
    <5>3. CASE ~(run.outcome = "collision" /\ run.frames > best.frames) BY <4>1, <4>3, <5>1, <5>3 DEF Pair
    <5> QED BY <5>2, <5>3
   <4>5. best' # current' => best'.frames > current'.frames /\ best'.outcome = "collision"
    <5>1. best.frames >= current.frames BY <3>1, <4>3
    <5> QED BY <2>2, <3>1, <4>1, <4>3, <5>1
   <4>6. Longest(current)' BY <3>1, <4>1 DEF Longest
   <4> QED BY <2>9, <4>1, <4>2, <4>4, <4>5, <4>6 DEF Leading
  <3> QED BY <3>2, <3>3
 <2>19. ChildHome' /\ Told' BY <2>9, <2>13 DEF ChildHome, Told
 <2> QED BY <2>14, <2>15, <2>16, <2>17, <2>18, <2>19 DEF RepairInv
<1> QED BY <1>3, <1>4

LEMMA VerifyStep == ASSUME RepairInv, Verify PROVE RepairInv'
<1>1. RepairTyped /\ Accounted /\ ChildHome /\ Books /\ Sums /\ Leading /\ Told BY DEF RepairInv
<1>2. /\ repair = "verify" /\ repair' = "replay" /\ Execute(2) /\ reason' = reason
      /\ initial' = initial /\ current' = current /\ best' = best /\ at' = at /\ count' = count
      /\ ledger' = ledger /\ summary' = summary /\ prior' = prior /\ actual' = actual
  BY DEF Verify
<1>3. 0 \in Phases /\ 1 \in Phases /\ 2 \in Phases /\ Cap \in Nat \ {0} BY Numbers
<1>4. /\ child' \in ChildType /\ child'.state = "running" /\ child'.phase = 2 /\ child'.updates = 0
      /\ audit' \in AuditType /\ audit'.known = audit.known
      /\ \A p \in Phases : audit'.uncertain[p] = audit.uncertain[p] + (IF p = 2 THEN Cap ELSE 0)
  BY <1>1, <1>2, <1>3, Charging
<1>5. RepairTyped'
 <2>1. child'.updates <= Cap /\ repair' \in RepairPlaces BY <1>2, <1>3, <1>4 DEF RepairPlaces
 <2> QED BY <1>1, <1>2, <1>4, <2>1 DEF RepairTyped, ChildType, AuditType
<1>6. Accounted'
 <2>1. child.state = "none" BY <1>1, <1>2 DEF ChildHome
 <2> QED BY <1>1, <1>2, <1>3, <2>1, ChargeAccounted
<1>7. ~Full /\ Sound /\ ~(Full') /\ Sound' /\ Won /\ Won' BY <1>2, GoingOn DEF Full, Sound, Won
<1>8. Books'
 <2>1. /\ audit.uncertain[0] = 0 /\ audit.uncertain[1] = count.interrupted /\ audit.uncertain[2] = 0
       /\ audit.known[0] = initial /\ audit.known[1] = count.updates /\ audit.known[2] = 0
       /\ count.interrupted = 0
       /\ count.candidates = Len(ledger) + (IF count.interrupted > 0 THEN 1 ELSE 0)
   BY <1>1, <1>2, <1>7 DEF Books
 <2>2. audit'.uncertain[0] = 0 /\ audit'.uncertain[1] = 0 /\ audit'.uncertain[2] = Cap BY <1>3, <1>4, <2>1
 <2> QED BY <1>2, <1>4, <2>1, <2>2 DEF Books
<1>9. ChildHome' /\ Sums' /\ Leading' /\ Told' BY <1>1, <1>2, <1>4, <1>7 DEF ChildHome, Sums, Leading, Told
<1> QED BY <1>5, <1>6, <1>8, <1>9 DEF RepairInv

LEMMA ReplayStep == ASSUME RepairInv, ReplayDone PROVE RepairInv'
<1>1. RepairTyped /\ Accounted /\ ChildHome /\ Books /\ Sums /\ Leading /\ Told BY DEF RepairInv
<1>2. /\ repair = "replay" /\ child.state = "exited" /\ child.phase = 2
      /\ actual' = actual /\ prior' = prior
  BY DEF ReplayDone, Reaped
<1> DEFINE same == [child.run EXCEPT !.name = current.name] = current
<1>3. CASE child.interrupted \/ ~same BY <1>2, <1>3, FailStep DEF ReplayDone
<1>4. CASE ~(child.interrupted \/ ~same)
 <2>1. /\ Validated(child.run.frames) /\ repair' = "summary" /\ child' = NoChild
       /\ initial' = initial /\ current' = current /\ best' = best /\ at' = at /\ count' = count
       /\ reason' = reason /\ ledger' = ledger /\ summary' = summary
   BY <1>4 DEF ReplayDone
 <2>2. ~Full /\ Sound /\ ~(Full') /\ Sound' /\ Won BY <1>2, <2>1, GoingOn DEF Full, Sound, Won
 <2>3. current.outcome = "complete" /\ reason = "complete" /\ Won' BY <1>1, <2>1, <2>2 DEF Leading, Won
 <2>4. /\ child.run \in RunRecord /\ child.run.frames = current.frames
       /\ child.run.outcome = current.outcome
   BY <1>1, <1>4 DEF RepairTyped, RunRecord
 <2>5. child.run.frames = child.updates BY <1>1, <1>2, <2>3, <2>4 DEF ChildHome
 <2>6. /\ audit.uncertain[0] = 0 /\ audit.uncertain[1] = count.interrupted /\ audit.uncertain[2] = Cap
       /\ audit.known[0] = initial /\ audit.known[1] = count.updates /\ audit.known[2] = 0
       /\ count.interrupted = 0
       /\ count.candidates = Len(ledger) + (IF count.interrupted > 0 THEN 1 ELSE 0)
   BY <1>1, <1>2, <2>2 DEF Books
 <2>7. Cap \in Nat /\ audit.uncertain[child.phase] >= Cap /\ 0 \in Phases /\ 1 \in Phases /\ 2 \in Phases
   BY <1>2, <2>6, Numbers
 <2>8. /\ audit' \in AuditType
       /\ \A p \in Phases :
             /\ audit'.known[p] = audit.known[p] + (IF p = 2 THEN child.run.frames ELSE 0)
             /\ audit'.uncertain[p] = audit.uncertain[p] - (IF p = 2 THEN Cap ELSE 0)
   BY <1>1, <1>2, <2>1, <2>7, Settling
 <2>9. child' \in ChildType /\ child'.state = "none" /\ child'.updates = 0 BY <2>1, Emptied
 <2>10. RepairTyped'
  <3>1. child'.updates <= Cap /\ repair' \in RepairPlaces BY <2>1, <2>7, <2>9 DEF RepairPlaces
  <3> QED BY <1>1, <1>2, <2>1, <2>8, <2>9, <3>1 DEF RepairTyped, ChildType, AuditType
 <2>11. Accounted' BY <1>1, <1>2, <2>1, <2>5, <2>7, SettleAccounted
 <2>12. Books'
  <3>1. initial \in Nat /\ count.updates \in Nat /\ current.frames \in Nat BY <1>1 DEF RepairTyped, RunRecord
  <3>2. /\ audit'.uncertain[0] = 0 /\ audit'.uncertain[1] = 0 /\ audit'.uncertain[2] = 0
        /\ audit'.known[0] = initial /\ audit'.known[1] = count.updates
        /\ audit'.known[2] = current.frames
    BY <2>4, <2>6, <2>7, <2>8, <3>1
  <3> QED BY <2>1, <2>3, <2>6, <3>2 DEF Books
 <2>13. Leading' BY <2>1, <2>2, <2>3 DEF Leading
 <2>14. ChildHome' /\ Sums' /\ Told' BY <1>1, <2>1, <2>2, <2>9 DEF ChildHome, Sums, Told
 <2> QED BY <2>10, <2>11, <2>12, <2>13, <2>14 DEF RepairInv
<1> QED BY <1>3, <1>4

LEMMA SummaryStep == ASSUME RepairInv, Summarise PROVE RepairInv'
<1>1. RepairTyped /\ Accounted /\ ChildHome /\ Books /\ Sums /\ Leading /\ Told BY DEF RepairInv
<1>2. /\ repair = "summary" /\ repair' = "over" /\ summary' = Final
      /\ child' = child /\ initial' = initial /\ current' = current /\ best' = best /\ at' = at
      /\ count' = count /\ reason' = reason /\ ledger' = ledger /\ audit' = audit
      /\ prior' = prior /\ actual' = actual
  BY DEF Summarise, Final
<1>3. Sound BY <1>2, GoingOn
<1>4. Final' = Final /\ Won' = Won BY <1>2 DEF Final, Won
<1>5. RepairTyped' BY <1>1, <1>2 DEF RepairTyped, RepairPlaces
<1>6. Accounted' /\ ChildHome' /\ Sums' /\ Told'
  BY <1>1, <1>2, <1>4 DEF Accounted, Made, Open, ChildHome, Sums, Told
<1>7. Books' BY <1>1, <1>2, <1>3 DEF Books
<1>8. Leading' BY <1>1, <1>2, <1>3, <1>4 DEF Leading, Longest, Pair
<1> QED BY <1>5, <1>6, <1>7, <1>8 DEF RepairInv

\* What a summary says adds up, and covers what was really done.
LEMMA Adding ==
  ASSUME RepairInv, Full
  PROVE  /\ summary.known = Known1(summary) /\ summary.uncertain = summary.interrupted + summary.prior.uncertain
         /\ summary.known \in Nat /\ summary.uncertain \in Nat
         /\ actual.before + Total(actual.phase) \in Nat
         /\ summary.known <= actual.before + Total(actual.phase)
         /\ actual.before + Total(actual.phase) <= summary.known + summary.uncertain
<1>1. RepairTyped /\ Accounted /\ ChildHome /\ Books BY DEF RepairInv
<1>2. repair = "over" /\ summary = Final /\ Sound BY DEF RepairInv, Told, Sound
<1>3. /\ audit.uncertain[0] = 0 /\ audit.uncertain[1] = count.interrupted /\ audit.uncertain[2] = 0
      /\ audit.known[0] = initial /\ audit.known[1] = count.updates
  BY <1>1, <1>2 DEF Books
<1>4. /\ summary.initial = initial /\ summary.updates = count.updates
      /\ summary.verification = audit.known[2] /\ summary.prior = prior
      /\ summary.interrupted = count.interrupted
      /\ summary.known = prior.known + (audit.known[0] + audit.known[1] + audit.known[2])
      /\ summary.uncertain = prior.uncertain + (audit.uncertain[0] + audit.uncertain[1] + audit.uncertain[2])
  BY <1>2 DEF Final, Total
<1>5. 0 \in Phases /\ 1 \in Phases /\ 2 \in Phases BY Numbers
<1>6. /\ initial \in Nat /\ count.updates \in Nat /\ count.interrupted \in Nat
      /\ audit.known[2] \in Nat /\ prior.known \in Nat /\ prior.uncertain \in Nat
      /\ actual.before \in Nat /\ actual.phase[0] \in Nat /\ actual.phase[1] \in Nat
      /\ actual.phase[2] \in Nat
  BY <1>1, <1>5 DEF RepairTyped
<1>7. \A p \in Phases : audit.known[p] + 0 <= actual.phase[p]
                        /\ actual.phase[p] + 0 <= audit.known[p] + audit.uncertain[p] + 0
 <2>1. \A p \in Phases : Made(p) = 0 /\ Open(p) = 0 BY <1>1, <1>2 DEF ChildHome, Made, Open
 <2> QED BY <1>1, <2>1 DEF Accounted
<1>8. /\ initial <= actual.phase[0] /\ actual.phase[0] <= initial
      /\ count.updates <= actual.phase[1] /\ actual.phase[1] <= count.updates + count.interrupted
      /\ audit.known[2] <= actual.phase[2] /\ actual.phase[2] <= audit.known[2]
  BY <1>3, <1>5, <1>6, <1>7
<1>9. prior.known <= actual.before /\ actual.before <= prior.known + prior.uncertain BY <1>1 DEF Accounted
<1>10. /\ summary.known = initial + count.updates + audit.known[2] + prior.known
       /\ summary.uncertain = count.interrupted + prior.uncertain
  BY <1>3, <1>4, <1>6
<1>11. Total(actual.phase) = actual.phase[0] + actual.phase[1] + actual.phase[2] BY DEF Total
<1>12. Known1(summary) = initial + count.updates + audit.known[2] + prior.known BY <1>4 DEF Known1
<1> QED BY <1>4, <1>6, <1>8, <1>9, <1>10, <1>11, <1>12

LEMMA NoLedger == /\ Summed(FramesOf(<< >>)) = 0 /\ Summed(PrefixesOf(<< >>)) = 0
<1>1. Len(FramesOf(<< >>)) = 0 /\ Len(PrefixesOf(<< >>)) = 0
 <2>1. FramesOf(<< >>) = << >> /\ PrefixesOf(<< >>) = << >> BY DEF FramesOf, PrefixesOf
 <2> QED BY <2>1
<1> QED BY <1>1, SummedEmpty

LEMMA ResumeStep == ASSUME RepairInv, Resume PROVE RepairInv'
<1>1. RepairTyped /\ Accounted BY DEF RepairInv
<1>2. /\ repair' = "initial" /\ child' = [NoChild EXCEPT !.state = "running"]
      /\ prior' = [known |-> Known1(summary), uncertain |-> summary.interrupted + summary.prior.uncertain]
      /\ current' = summary.selected /\ best' = NoRun /\ at' = 1 /\ count' = ZeroCounts
      /\ ledger' = << >> /\ initial' = 0 /\ summary' = Nothing
      /\ audit' = [known |-> [p \in Phases |-> 0], uncertain |-> [p \in Phases |-> IF p = 0 THEN Cap ELSE 0]]
      /\ actual' = [phase |-> [p \in Phases |-> 0], before |-> actual.before + Total(actual.phase),
                    episode |-> actual.episode + 1]
      /\ Acceptable(summary, ledger)
  BY DEF Resume
<1>3. Full BY <1>2 DEF Acceptable, Full
<1>4. summary = Final BY <1>3 DEF RepairInv, Told
<1>5. /\ prior'.known = summary.known /\ prior'.uncertain = summary.uncertain
      /\ prior' \in [known : Nat, uncertain : Nat]
      /\ actual'.before \in Nat /\ summary.known <= actual'.before
      /\ actual'.before <= summary.known + summary.uncertain
  BY <1>2, <1>3, Adding
<1>6. 0 \in Phases /\ 1 \in Phases /\ 2 \in Phases /\ Cap \in Nat /\ Budget \in Nat BY Numbers
<1>7. /\ child' \in ChildType /\ child'.state = "running" /\ child'.phase = 0 /\ child'.updates = 0
  BY <1>2, <1>6 DEF NoChild, NoRun, RunRecord, Outcomes, ChildType
<1>8. /\ audit' \in AuditType
      /\ audit'.known[0] = 0 /\ audit'.known[1] = 0 /\ audit'.known[2] = 0
      /\ audit'.uncertain[0] = Cap /\ audit'.uncertain[1] = 0 /\ audit'.uncertain[2] = 0
      /\ \A p \in Phases : audit'.known[p] = 0 /\ audit'.uncertain[p] = IF p = 0 THEN Cap ELSE 0
  BY <1>2, <1>6 DEF AuditType
<1>9. /\ actual' \in [phase : [Phases -> Nat], before : Nat, episode : Nat]
      /\ \A p \in Phases : actual'.phase[p] = 0
 <2>1. actual.episode + 1 \in Nat BY <1>1 DEF RepairTyped
 <2>2. actual.before + Total(actual.phase) \in Nat BY <1>3, Adding
 <2> QED BY <1>2, <2>1, <2>2
<1>10. /\ count' \in [round : Nat, candidates : Nat, updates : Nat, prefixes : Int, interrupted : Nat]
       /\ count'.updates = 0 /\ count'.prefixes = 0 /\ count'.interrupted = 0 /\ count'.candidates = 0
  BY <1>2 DEF ZeroCounts
<1>11. ~(Full') /\ Sound' /\ ~(Won') BY <1>2 DEF Full, Nothing, Sound, Won
<1>12. RepairTyped'
 <2>1. current' \in RunRecord /\ best' \in RunRecord
   BY <1>1, <1>2, <1>4 DEF RepairTyped, Final, NoRun, RunRecord, Outcomes
 <2>2. << >> \in Seq(Row) OBVIOUS
 <2>3. repair' \in RepairPlaces /\ child'.updates <= Cap /\ initial' \in Nat /\ at' \in Nat \ {0}
       /\ ledger' \in Seq(Row)
   BY <1>2, <1>6, <1>7, <2>2 DEF RepairPlaces
 <2> QED BY <1>5, <1>7, <1>8, <1>9, <1>10, <2>1, <2>3 DEF RepairTyped, ChildType, AuditType
<1>13. Accounted'
 <2>1. \A p \in Phases : Made(p)' = 0 /\ Open(p)' = IF p = 0 THEN Cap ELSE 0 BY <1>7 DEF Made, Open
 <2>2. ASSUME NEW p \in Phases
       PROVE  /\ audit'.known[p] + Made(p)' <= actual'.phase[p]
              /\ actual'.phase[p] + Open(p)' <= audit'.known[p] + audit'.uncertain[p] + Made(p)'
   BY <1>6, <1>8, <1>9, <2>1
 <2> QED BY <1>5, <1>6, <1>8, <2>2 DEF Accounted
<1>14. ChildHome' BY <1>2, <1>7 DEF ChildHome
<1>15. Books'
 <2>1. Len(ledger') = 0 BY <1>2
 <2> QED BY <1>2, <1>8, <1>10, <2>1 DEF Books
<1>16. Sums' BY <1>2, <1>10, NoLedger DEF Sums
<1>17. Leading' /\ Told'
 <2>1. \A i \in DOMAIN ledger' : FALSE BY <1>2
 <2> QED BY <1>2, <1>11, <2>1 DEF Leading, Told
<1> QED BY <1>12, <1>13, <1>14, <1>15, <1>16, <1>17 DEF RepairInv

LEMMA RepairBegin == RepairInit => RepairInv
<1> SUFFICES ASSUME RepairInit PROVE RepairInv OBVIOUS
<1>1. /\ repair = "begin" /\ child = NoChild /\ initial = 0 /\ current = NoRun /\ best = NoRun
      /\ at = 1 /\ count = ZeroCounts /\ ledger = << >> /\ summary = Nothing
      /\ audit = [known |-> [p \in Phases |-> 0], uncertain |-> [p \in Phases |-> 0]]
      /\ prior = NoCosts
      /\ actual = [phase |-> [p \in Phases |-> 0], before |-> 0, episode |-> 0]
  BY DEF RepairInit
<1>2. 0 \in Phases /\ 1 \in Phases /\ 2 \in Phases /\ Cap \in Nat /\ Budget \in Nat BY Numbers
<1>3. NoRun \in RunRecord BY DEF NoRun, RunRecord, Outcomes
<1>4. child \in ChildType /\ child.state = "none" /\ child.updates = 0
  BY <1>1, <1>2, <1>3 DEF NoChild, ChildType
<1>5. /\ audit \in AuditType
      /\ \A p \in Phases : audit.known[p] = 0 /\ audit.uncertain[p] = 0
  BY <1>1 DEF AuditType
<1>6. /\ actual \in [phase : [Phases -> Nat], before : Nat, episode : Nat]
      /\ actual.before = 0 /\ \A p \in Phases : actual.phase[p] = 0
  BY <1>1
<1>7. /\ count \in [round : Nat, candidates : Nat, updates : Nat, prefixes : Int, interrupted : Nat]
      /\ count.updates = 0 /\ count.prefixes = 0 /\ count.interrupted = 0 /\ count.candidates = 0
 <2>1. count = [round |-> 1, candidates |-> 0, updates |-> 0, prefixes |-> 0, interrupted |-> 0]
   BY <1>1 DEF ZeroCounts
 <2> QED BY <2>1
<1>8. prior \in [known : Nat, uncertain : Nat] /\ prior.known = 0 /\ prior.uncertain = 0 BY <1>1 DEF NoCosts
<1>9. ~Full /\ Sound /\ ~Won BY <1>1 DEF Full, Nothing, Sound, Won
<1>10. RepairTyped
 <2>1. << >> \in Seq(Row) OBVIOUS
 <2>2. /\ repair \in RepairPlaces /\ child.updates <= Cap /\ initial \in Nat /\ at \in Nat \ {0}
       /\ ledger \in Seq(Row) /\ current \in RunRecord /\ best \in RunRecord
  <3>1. /\ repair = "begin" /\ initial = 0 /\ at = 1 /\ ledger = << >>
        /\ current = NoRun /\ best = NoRun
    BY <1>1
  <3>2. repair \in RepairPlaces BY <3>1 DEF RepairPlaces
  <3>3. initial \in Nat /\ at \in Nat \ {0} BY <3>1
  <3>4. child.updates <= Cap BY <1>2, <1>4
  <3>5. ledger \in Seq(Row) /\ current \in RunRecord /\ best \in RunRecord BY <1>3, <2>1, <3>1
  <3> QED BY <3>2, <3>3, <3>4, <3>5
 <2> QED BY <1>4, <1>5, <1>6, <1>7, <1>8, <2>2 DEF RepairTyped, ChildType, AuditType
<1>11. Accounted
 <2>1. \A p \in Phases : Made(p) = 0 /\ Open(p) = 0 BY <1>4 DEF Made, Open
 <2> QED BY <1>2, <1>5, <1>6, <1>8, <2>1 DEF Accounted
<1>12. ChildHome /\ Told BY <1>1, <1>4, <1>9 DEF ChildHome, Told
<1>13. Books
 <2>1. Len(ledger) = 0 /\ repair = "begin" /\ initial = 0 BY <1>1
 <2> QED BY <1>2, <1>5, <1>7, <2>1 DEF Books
<1>14. Sums BY <1>1, <1>7, NoLedger DEF Sums
<1>15. Leading
 <2>0. \A i \in DOMAIN ledger : FALSE BY <1>1
 <2>1. repair = "begin" /\ initial = 0 /\ ledger = << >> BY <1>1
 <2>2. \A i \in DOMAIN ledger : ledger[i].outcome # "complete" BY <2>0
 <2>3. repair \notin {"round", "summary", "over", "search", "candidate"} BY <2>1
 <2>4. ledger = << >> /\ initial = 0 BY <2>1
 <2> QED BY <1>9, <2>2, <2>3, <2>4 DEF Leading
<1> QED BY <1>10, <1>11, <1>12, <1>13, <1>14, <1>15 DEF RepairInv

LEMMA RepairMove == ASSUME RepairInv, [RepairNext]_repairVars PROVE RepairInv'
<1>1. CASE RepairStep
  BY <1>1, BeginStep, StopStep, InitialStep, RoundStep, SearchStep, InterruptedStep, CandidateStep,
     VerifyStep, ReplayStep, SummaryStep DEF RepairStep
<1>2. CASE Update \/ Deadline \/ CrashRepair \/ Resume BY <1>2, UpdateStep, ClockStep, CrashStep, ResumeStep
<1>3. CASE \E o \in {"complete", "collision", "limit", "bad"}, onset \in 0 .. Cap : Exit(o, onset)
  BY <1>3, ExitStep
<1>4. CASE UNCHANGED repairVars
 <2>1. UNCHANGED restOf /\ child' = child /\ actual' = actual BY <1>4 DEF repairVars, restOf
 <2>2. Accounted' /\ ChildHome' BY <2>1 DEF RepairInv, Accounted, Made, Open, ChildHome, restOf
 <2>3. /\ child' \in ChildType /\ child'.updates <= Cap
       /\ actual' \in [phase : [Phases -> Nat], before : Nat, episode : Nat]
   BY <2>1 DEF RepairInv, RepairTyped, ChildType
 <2> QED BY <2>1, <2>2, <2>3, RestUnchanged
<1> QED BY <1>1, <1>2, <1>3, <1>4 DEF RepairNext

\* The books, the ledger and the selected run agree in every state of a
\* chain of searches, for every cap, budget and number of rounds.
THEOREM RepairInvariance == RepairSpec => []RepairInv
<1>1. RepairInit => RepairInv BY RepairBegin
<1>2. RepairInv /\ [RepairNext]_repairVars => RepairInv' BY RepairMove
<1> QED BY <1>1, <1>2, PTL DEF RepairSpec

\* The accounts of a search cover what its processes did: nothing that an
\* interrupted, hung or broken child did is missed, no candidate goes over
\* the budget, and a summary says so of the whole chain.
THEOREM RepairCovers == RepairSpec => []CostsCover
<1>1. RepairInv => CostsCover
 <2> SUFFICES ASSUME RepairInv PROVE CostsCover OBVIOUS
 <2>1. RepairTyped /\ Accounted BY DEF RepairInv
 <2>2. 1 \in Phases /\ Budget \in Nat BY Numbers
 <2>3. ASSUME NEW p \in Phases
       PROVE  /\ actual.phase[p] \in audit.known[p] .. audit.known[p] + audit.uncertain[p]
              /\ actual.phase[p] <= audit.known[p] + audit.uncertain[p]
  <3>1. /\ audit.known[p] + Made(p) <= actual.phase[p]
        /\ actual.phase[p] + Open(p) <= audit.known[p] + audit.uncertain[p] + Made(p)
    BY <2>1 DEF Accounted
  <3>2. /\ audit.known[p] \in Nat /\ audit.uncertain[p] \in Nat /\ actual.phase[p] \in Nat
        /\ Made(p) \in Nat /\ Open(p) \in Nat /\ Made(p) <= Open(p)
    BY <2>1, NumbersOf
  <3> QED BY <3>1, <3>2
 <2>4. actual.phase[1] <= Budget
  <3>1. audit.known[1] + audit.uncertain[1] <= Budget BY <2>1 DEF Accounted
  <3>2. /\ audit.known[1] \in Nat /\ audit.uncertain[1] \in Nat /\ actual.phase[1] \in Nat
    BY <2>1, <2>2, NumbersOf
  <3> QED BY <2>2, <2>3, <3>1, <3>2
 <2>5. Full => actual.before + Total(actual.phase) \in summary.known .. summary.known + summary.uncertain
   BY Adding
 <2> QED BY <2>3, <2>4, <2>5 DEF CostsCover, Full
<1> QED BY <1>1, RepairInvariance, PTL

\* A search and its resumes account for all they did, a completed one was
\* replayed to the same end, and one that ended with a longer collision
\* than it began with has selected the run that a resume will find.
THEOREM RepairHonest == RepairSpec => []HonestRepair
<1>1. RepairInv => HonestSummary
 <2> SUFFICES ASSUME RepairInv PROVE HonestSummary OBVIOUS
 <2>1. RepairTyped /\ Books /\ Sums /\ Leading /\ Told BY DEF RepairInv
 <2>2. ASSUME summary.outcome = "complete"
       PROVE  summary.selected.outcome = "complete" /\ summary.verification = summary.selected.frames
  <3>1. Full BY <2>2 DEF Full
  <3>2. repair = "over" /\ summary = Final /\ Sound BY <2>1, <3>1 DEF Told, Sound
  <3>3. /\ summary.outcome = reason /\ summary.selected = current
        /\ summary.verification = audit.known[2]
    BY <3>2 DEF Final
  <3>4. reason = "complete" /\ Won BY <2>2, <3>2, <3>3 DEF Won
  <3>5. current.outcome = "complete" /\ audit.known[2] = current.frames BY <2>1, <3>2, <3>4 DEF Leading, Books
  <3> QED BY <3>3, <3>5
 <2>3. ASSUME summary.outcome \notin {"none", "error", "complete"}, current.frames > initial
       PROVE  Acceptable(summary, ledger)
  <3>1. Full BY <2>3 DEF Full
  <3>2. repair = "over" /\ summary = Final /\ Sound BY <2>1, <3>1 DEF Told, Sound
  <3>3. /\ summary.outcome = reason /\ summary.selected = current /\ summary.initial = initial
        /\ summary.updates = count.updates /\ summary.prefixes = count.prefixes
        /\ summary.candidates = count.candidates /\ summary.interrupted = count.interrupted
    BY <3>2 DEF Final
  <3>4. ~Won BY <2>3, <3>2, <3>3 DEF Won
  <3>5. /\ \A i \in DOMAIN ledger : ledger[i].outcome # "complete"
        /\ Pair(current) = LedgerBest(initial, ledger) /\ current.outcome = "collision"
    BY <2>1, <2>3, <3>2, <3>4 DEF Leading, Longest
  <3>6. count.candidates = Len(ledger) + (IF count.interrupted > 0 THEN 1 ELSE 0) BY <2>1, <3>2 DEF Books
  <3>7. /\ summary.known = Known1(summary)
        /\ summary.uncertain = summary.interrupted + summary.prior.uncertain
    BY <3>1, Adding
  <3>8. /\ summary.updates = Summed([i \in DOMAIN ledger |-> ledger[i].frames])
        /\ summary.prefixes =
             Summed([i \in DOMAIN ledger |-> Min({ledger[i].branch - 1, ledger[i].frames})])
    BY <2>1, <3>3 DEF Sums, FramesOf, PrefixesOf
  <3>9. LedgerBest(summary.initial, ledger) =
          [name |-> summary.selected.name, frames |-> summary.selected.frames]
    BY <3>3, <3>5 DEF Pair
  <3> QED BY <2>3, <3>3, <3>5, <3>6, <3>7, <3>8, <3>9 DEF Acceptable
 <2> QED BY <2>2, <2>3 DEF HonestSummary
<1>2. HonestRepair <=> CostsCover /\ HonestSummary BY DEF HonestRepair
<1> QED BY <1>1, <1>2, RepairInvariance, RepairCovers, PTL

----
\* The search of the planner.
PlanPhases == {"prefix", "work", "commit", "checkpoint", "fork", "exit", "over"}
Process == [pid : Nat \ {0}, path : Seq(Moves), nominal : Seq(Moves), last : Nat, depth : Nat,
            attempt : Nat, alive : BOOLEAN]
Checkpoints == [0 .. HolderSlots - 1 -> [pid : Nat, depth : Nat, released : BOOLEAN]]

PlanTyped ==
    /\ phase \in PlanPhases /\ chain \in Seq(Process) /\ slots \in Checkpoints
    /\ tape.path \in Seq(Moves) /\ world.goal \in Nat \ {0} /\ rootVerdict \in Int
    /\ tape = [outcome |-> tape.outcome, path |-> tape.path]
    /\ code \in {kOk, kRuntimeError, kPrefixRejected, kBacktrack, kBudget, kSignalled}
    /\ chain = << >> <=> phase = "over"
    /\ phase = "prefix" => Len(chain) = 1

\* The processes of the chain: their depth is their place in it, those
\* alive have pids of their own and are no older than the table covers.
Oldest == IF phase \in {"work", "commit", "checkpoint"} THEN Len(chain) - Keep ELSE Len(chain) - Keep - 1
Lineage ==
    /\ \A i \in 1 .. Len(chain) - 1 : chain[i].depth = i
    /\ chain # << >> /\ phase # "exit" => Top.depth = Len(chain) - 1
    /\ chain # << >> => Top.alive
    /\ phase = "fork" => HasParent
    /\ \A i, j \in Live : chain[i].pid = chain[j].pid => i = j
    /\ \A i \in Live : i >= Oldest
    /\ \A i \in Live : i .. Len(chain) \subseteq Live

\* The table: a holder alive is found in the slot of its depth, one that
\* was released is not released again.
Entered(i) == phase \in {"fork", "exit"} => i < Len(chain) - 1
SlotOf(i) == slots[i % HolderSlots]
Registered ==
    \A i \in 1 .. Len(chain) - 1 : Entered(i) =>
      IF chain[i].alive THEN SlotOf(i) = [pid |-> chain[i].pid, depth |-> i, released |-> FALSE]
      ELSE SlotOf(i).depth = i => SlotOf(i).released

\* The paths: what has been committed is alive and part of the game.
Rejected == code = kPrefixRejected
Committed ==
    /\ ~Rejected => ~Dead(tape.path) /\ \A i \in DOMAIN chain : ~Dead(chain[i].path)
    /\ Rejected => phase \in {"exit", "over"} /\ Len(chain) < 2 /\ (phase = "over" => tape.outcome = "prefix_rejected")
    /\ phase \notin {"exit", "over"} => \A i \in DOMAIN chain : Len(chain[i].path) < world.goal
    /\ Len(chain) > 1 => \A i \in 1 .. Len(chain) - 1 : Len(chain[i].path) < world.goal
    /\ phase = "commit" =>
         /\ window.frames \in Nat \ {0} /\ window.path \in Seq(Moves) /\ ~Dead(window.path)
         /\ Len(window.path) = Len(Top.path) + window.frames /\ Len(window.path) <= world.goal
         /\ Len(Top.path) < FrameLimit
Concluded ==
    /\ phase = "exit" =>
         /\ code = kOk => Verified(tape.path)
         /\ code \in {kBacktrack, kBudget} => Len(tape.path) < world.goal
    /\ phase # "over" => rootVerdict = -1
    /\ phase = "over" =>
         /\ tape.outcome = "complete" => Verified(tape.path)
         /\ tape.outcome \in {"exhausted", "budget"} => Len(tape.path) < world.goal

PlanInv == PlanTyped /\ Lineage /\ Registered /\ Committed /\ Concluded
PlanSpec == PlanInit /\ [][PlanNext]_planVars

LEMMA PlanNumbers ==
  /\ Horizon \in Nat \ {0} /\ Commits \in Nat \ {0} /\ Every \in Nat \ {0} /\ Keep \in Nat \ {0}
  /\ HolderSlots \in Nat \ {0} /\ Commits <= Horizon /\ Keep < HolderSlots - 1
  /\ FrameLimit \in Nat /\ Attempts \in Nat
BY PlanAssumption DEF PlanAssumption

\* The slots of neighbours are different ones.
LEMMA SlotsApart ==
  ASSUME NEW i \in Nat, NEW j \in Nat, i < j, j - i < HolderSlots
  PROVE  i % HolderSlots # j % HolderSlots
<1> DEFINE n == HolderSlots
           a == i \div n
           b == j \div n
<1>1. n \in Nat \ {0} BY PlanNumbers
<1>2. a \in Int /\ i = n * a + (i % n) /\ b \in Int /\ j = n * b + (j % n)
 <2> HIDE DEF n
 <2> QED BY <1>1
<1> SUFFICES ASSUME i % n = j % n PROVE FALSE OBVIOUS
<1>3. j - i < n OBVIOUS
<1>4. i % n \in Int /\ j % n \in Int
 <2> HIDE DEF n
 <2> QED BY <1>1
<1> HIDE DEF n, a, b
<1>5. n * a \in Int /\ n * b \in Int /\ n * (b - a) \in Int BY <1>1, <1>2
<1>6. n * b - n * a = n * (b - a) BY <1>1, <1>2
<1>7. n * b - n * a = j - i BY <1>2, <1>4, <1>5
<1>8. b - a \in Int /\ (b - a <= 0 => n * (b - a) <= 0) /\ (b - a >= 1 => n * (b - a) >= n) BY <1>1, <1>2
<1> QED BY <1>3, <1>5, <1>6, <1>7, <1>8, <1>1

LEMMA SlotInTable == ASSUME NEW i \in Int PROVE i % HolderSlots \in 0 .. HolderSlots - 1
BY PlanNumbers

\* What is dead stays dead.
LEMMA DeadPrefix ==
  ASSUME NEW p \in Seq(Moves), NEW n \in 0 .. Len(p), ~Dead(p)
  PROVE  ~Dead(SubSeq(p, 1, n))
<1>1. Len(p) \in Nat /\ n \in Nat OBVIOUS
<1>2. SubSeq(p, 1, n) \in Seq(Moves) /\ Len(SubSeq(p, 1, n)) = n BY <1>1
<1>3. \A k \in 1 .. n : SubSeq(SubSeq(p, 1, n), 1, k) = SubSeq(p, 1, k) BY <1>1
<1> DEFINE q == SubSeq(p, 1, n)
<1>4. q \in Seq(Moves) /\ Len(q) = n /\ \A k \in 1 .. n : SubSeq(q, 1, k) = SubSeq(p, 1, k) BY <1>2, <1>3
<1>5. \A k \in 1 .. n : k \in 1 .. Len(p) BY <1>1
<1>6. \A k \in 1 .. Len(p) : SubSeq(p, 1, k) \notin world.deaths BY DEF Dead
<1> HIDE DEF q
<1>7. \A k \in 1 .. Len(q) : SubSeq(q, 1, k) \notin world.deaths BY <1>4, <1>5, <1>6
<1>8. ~Dead(q) BY <1>7 DEF Dead
<1> QED BY <1>8 DEF q

LEMMA NotDeadYet == ~Dead(<< >>)
BY DEF Dead

LEMMA TheTop ==
  ASSUME PlanTyped, chain # << >>
  PROVE  /\ Len(chain) \in Nat \ {0} /\ Top = chain[Len(chain)] /\ Top \in Process
         /\ Len(chain) \in DOMAIN chain /\ DOMAIN chain = 1 .. Len(chain)
<1>1. chain \in Seq(Process) BY DEF PlanTyped
<1>2. Len(chain) \in Nat \ {0} /\ DOMAIN chain = 1 .. Len(chain) BY <1>1
<1> QED BY <1>1, <1>2 DEF Top

\* A chain whose processes changed nothing of what the table is about.
LEMMA SameLineage ==
  ASSUME PlanInv, chain' \in Seq(Process), Len(chain') = Len(chain), slots' = slots,
         \A i \in 1 .. Len(chain) : /\ chain'[i].pid = chain[i].pid /\ chain'[i].depth = chain[i].depth
                                    /\ chain'[i].alive = chain[i].alive,
         phase \notin {"exit", "over"}, phase' \notin {"fork", "over"},
         phase \in {"prefix", "fork"} => phase' = "exit" \/ Len(chain) = 1
  PROVE  Lineage' /\ Registered'
<1>1. /\ Len(chain) \in Nat \ {0} /\ DOMAIN chain = 1 .. Len(chain) /\ DOMAIN chain' = 1 .. Len(chain)
      /\ chain # << >> /\ chain' # << >>
  BY TheTop DEF PlanInv, PlanTyped
<1>2. Live' = Live BY <1>1 DEF Live
<1>3. Top' = chain'[Len(chain)] /\ Top = chain[Len(chain)] BY DEF Top
<1>4. \A i \in Live : i >= Oldest'
 <2>1. Oldest' <= Oldest \/ Len(chain) = 1
  <3>1. Keep \in Nat /\ Len(chain) \in Nat /\ Len(chain') = Len(chain) BY <1>1, PlanNumbers
  <3>2. phase \in PlanPhases /\ phase' # "over" BY DEF PlanInv, PlanTyped
  <3> QED BY <3>1, <3>2 DEF Oldest, PlanPhases
 <2>2. Oldest \in Int /\ Oldest' \in Int /\ (Len(chain) = 1 => Oldest' <= 0) BY <1>1, PlanNumbers DEF Oldest
 <2>3. \A i \in Live : i \in 1 .. Len(chain) /\ i >= Oldest BY <1>1 DEF Live, PlanInv, Lineage
 <2> QED BY <2>1, <2>2, <2>3
<1>5. Lineage'
 <2>1. /\ \A i \in 1 .. Len(chain') - 1 : chain'[i].depth = i
       /\ (phase' # "exit" => Top'.depth = Len(chain') - 1) /\ Top'.alive
   BY <1>1, <1>3 DEF PlanInv, Lineage
 <2>2. \A i, j \in Live' : chain'[i].pid = chain'[j].pid => i = j BY <1>1, <1>2 DEF Live, PlanInv, Lineage
 <2>3. \A i \in Live' : i .. Len(chain') \subseteq Live' BY <1>2 DEF PlanInv, Lineage
 <2> QED BY <1>1, <1>2, <1>4, <2>1, <2>2, <2>3 DEF Lineage
<1>6. Registered'
 <2> SUFFICES ASSUME NEW i \in 1 .. Len(chain) - 1, Entered(i)'
              PROVE  IF chain'[i].alive THEN SlotOf(i) = [pid |-> chain'[i].pid, depth |-> i, released |-> FALSE]
                     ELSE SlotOf(i).depth = i => SlotOf(i).released
   BY <1>1 DEF Registered, SlotOf
 <2>1. Entered(i) BY <1>1 DEF Entered, PlanInv, PlanTyped, PlanPhases
 <2>2. i \in 1 .. Len(chain) BY <1>1
 <2> QED BY <2>1, <2>2 DEF PlanInv, Registered
<1> QED BY <1>5, <1>6

Codes == {kOk, kRuntimeError, kPrefixRejected, kBacktrack, kBudget, kSignalled}

LEMMA CodesDiffer ==
  /\ kOk \in Int /\ kRuntimeError \in Int /\ kPrefixRejected \in Int /\ kBacktrack \in Int /\ kBudget \in Int
  /\ kReleased \in Int /\ kSignalled \in Int /\ kOk = 0 /\ kRuntimeError = 1 /\ kPrefixRejected = 2
  /\ kBacktrack = 3 /\ kReleased = 4 /\ kBudget = 5 /\ kSignalled = 137
BY DEF kOk, kRuntimeError, kPrefixRejected, kBacktrack, kBudget, kReleased, kSignalled

\* The worker leaves where it is, without success.
LEMMA HaltStep ==
  ASSUME PlanInv, world' = world, chain' = chain, slots' = slots, rootVerdict' = rootVerdict,
         phase \notin {"exit", "over"}, phase' = "exit",
         NEW o, NEW q \in {tape.path, Top.path}, tape' = [outcome |-> o, path |-> q],
         code' \in {kRuntimeError, kBacktrack, kBudget, kSignalled},
         code' \in {kBacktrack, kBudget} => q = Top.path
  PROVE  PlanInv'
<1>1. /\ chain # << >> /\ Len(chain) \in Nat \ {0} /\ Top = chain[Len(chain)] /\ Top \in Process
      /\ Len(chain) \in DOMAIN chain /\ chain \in Seq(Process)
  BY TheTop DEF PlanInv, PlanTyped
<1>2. q \in Seq(Moves) /\ tape'.path = q /\ tape'.outcome = o BY <1>1 DEF PlanInv, PlanTyped, Process
<1>3. code' \in Codes /\ code' # kPrefixRejected /\ code' # kOk BY CodesDiffer DEF Codes
<1>4. PlanTyped'
 <2>1. phase' \in PlanPhases /\ chain' \in Seq(Process) /\ slots' \in Checkpoints /\ chain' # << >>
       /\ world'.goal \in Nat \ {0} /\ rootVerdict' \in Int /\ phase' # "prefix" /\ phase' # "over"
   BY <1>1 DEF PlanInv, PlanTyped, PlanPhases
 <2>2. tape'.path \in Seq(Moves) /\ tape' = [outcome |-> tape'.outcome, path |-> tape'.path] BY <1>2
 <2> QED BY <1>3, <2>1, <2>2 DEF PlanTyped, Codes
<1>5. Lineage' /\ Registered'
 <2>1. \A i \in 1 .. Len(chain) : /\ chain'[i].pid = chain[i].pid /\ chain'[i].depth = chain[i].depth
                                  /\ chain'[i].alive = chain[i].alive
   OBVIOUS
 <2>2. chain' \in Seq(Process) /\ Len(chain') = Len(chain) /\ phase' \notin {"fork", "over"} BY <1>1
 <2> QED BY <2>1, <2>2, SameLineage
<1>6. ~Rejected /\ ~Rejected' BY <1>3 DEF PlanInv, Committed, Rejected
<1>7. Committed'
 <2>1. ~Dead(q) /\ \A i \in DOMAIN chain : ~Dead(chain[i].path) BY <1>1, <1>6 DEF PlanInv, Committed
 <2>2. ~Dead(tape.path)' /\ \A i \in DOMAIN chain' : ~Dead(chain[i].path)' BY <1>2, <2>1 DEF Dead
 <2>3. Len(chain') > 1 => \A i \in 1 .. Len(chain') - 1 : Len(chain'[i].path) < world'.goal
   BY DEF PlanInv, Committed
 <2> QED BY <1>6, <2>2, <2>3 DEF Committed
<1>8. Concluded'
 <2>1. Len(Top.path) < world.goal BY <1>1 DEF PlanInv, Committed
 <2>2. phase' # "over" /\ rootVerdict' = -1 BY DEF PlanInv, Concluded
 <2>3. code' \in {kBacktrack, kBudget} => Len(tape'.path) < world'.goal BY <1>2, <2>1
 <2> QED BY <1>3, <2>2, <2>3 DEF Concluded
<1> QED BY <1>4, <1>5, <1>7, <1>8 DEF PlanInv

LEMMA WorkerLeaves ==
  ASSUME PlanInv, OverBudget \/ Stuck \/ WorkerFails \/ WorkerDies
  PROVE  PlanInv'
<1>1. CASE OverBudget BY <1>1, HaltStep DEF OverBudget, Leave, Write
<1>2. CASE Stuck BY <1>2, HaltStep DEF Stuck, Leave, Write
<1>3. CASE WorkerFails
 <2>1. code' = kRuntimeError /\ code' \notin {kBacktrack, kBudget} BY <1>3, CodesDiffer DEF WorkerFails, Leave
 <2> QED BY <1>3, <2>1, HaltStep DEF WorkerFails, Leave, Write
<1>4. CASE WorkerDies
 <2>1. code' = kSignalled /\ code' \notin {kBacktrack, kBudget} BY <1>4, CodesDiffer DEF WorkerDies
 <2>2. tape' = [outcome |-> tape.outcome, path |-> tape.path] BY <1>4 DEF WorkerDies, PlanInv, PlanTyped
 <2> QED BY <1>4, <2>1, <2>2, HaltStep DEF WorkerDies
<1> QED BY <1>1, <1>2, <1>3, <1>4

\* Nothing but the time and the window.
LEMMA PlanIdles ==
  ASSUME PlanInv, world' = world, chain' = chain, phase' = phase, window' = window, slots' = slots,
         tape' = tape, code' = code, rootVerdict' = rootVerdict
  PROVE  PlanInv'
<1>1. PlanTyped' /\ Lineage' /\ Registered'
  BY DEF PlanInv, PlanTyped, Lineage, Registered, Top, Live, Oldest, HasParent, Parent, SlotOf, Entered
<1>2. Committed' BY DEF PlanInv, Committed, Rejected, Dead, Top
<1>3. Concluded' BY DEF PlanInv, Concluded, Verified, Dead
<1> QED BY <1>1, <1>2, <1>3 DEF PlanInv

LEMMA MinOfNats ==
  ASSUME NEW S, S \subseteq Nat, S # {}
  PROVE  Min(S) \in S /\ \A y \in S : Min(S) =< y
<1> DEFINE Least(x) == \A y \in S : x =< y
<1>1. \E x \in S : Least(x) BY LeastElement
<1>2. Min(S) = CHOOSE x \in S : Least(x) BY DEF Min
<1> HIDE DEF Least
<1>3. Min(S) \in S /\ Least(Min(S)) BY <1>1, <1>2, Zenon
<1> QED BY <1>3 DEF Least

\* A verified rollout is a way on which nobody dies.
LEMMA Verifying ==
  ASSUME NEW from \in Seq(Moves), NEW steps \in Plans, world.goal \in Nat \ {0}, Len(from) < world.goal,
         VerifiedWindow(Rollout(from, steps))
  PROVE  LET r == Rollout(from, steps)
         IN  /\ r.frames \in Nat \ {0} /\ r.path \in Seq(Moves) /\ ~Dead(r.path)
             /\ Len(r.path) = Len(from) + r.frames /\ Len(r.path) <= world.goal
<1> DEFINE r == Rollout(from, steps)
           length == Min({Horizon, world.goal - Len(from)})
           path == from \o SubSeq(steps, 1, length)
           frames == IF Dead(path) THEN DeathAt(path) - Len(from) ELSE length
<1>1. /\ r.frames = frames /\ r.death = (IF Dead(path) THEN frames ELSE 0)
      /\ r.path = SubSeq(path, 1, Len(from) + frames)
  BY DEF Rollout
<1>2. r.death = 0 /\ r.frames \in 1 .. Horizon BY DEF VerifiedWindow
<1>3. ~Dead(path) /\ frames = length BY <1>1, <1>2
<1>4. length \in Nat \ {0} /\ length <= Horizon /\ length <= world.goal - Len(from)
 <2>1. Len(from) \in Nat /\ Horizon \in Nat \ {0} /\ world.goal - Len(from) \in Nat \ {0} BY PlanNumbers
 <2>2. {Horizon, world.goal - Len(from)} \subseteq Nat BY <2>1
 <2>3. length \in {Horizon, world.goal - Len(from)} /\ \A y \in {Horizon, world.goal - Len(from)} : length =< y
   BY <2>2, MinOfNats
 <2> HIDE DEF length
 <2> QED BY <2>1, <2>3
<1> HIDE DEF length
<1>5. SubSeq(steps, 1, length) \in Seq(Moves) /\ Len(SubSeq(steps, 1, length)) = length
 <2>1. steps \in Seq(Moves) /\ Len(steps) = Horizon BY PlanNumbers DEF Plans
 <2> QED BY <1>4, <2>1
<1>6. path \in Seq(Moves) /\ Len(path) = Len(from) + length BY <1>5
<1> HIDE DEF path
<1>7. SubSeq(path, 1, Len(path)) = path /\ Len(from) \in Nat BY <1>6
<1>8. r.path = path /\ r.frames = length BY <1>1, <1>3, <1>6, <1>7
<1> QED BY <1>3, <1>4, <1>6, <1>7, <1>8

LEMMA AcceptStep == ASSUME PlanInv, \E plan \in Plans : Accept(plan) PROVE PlanInv'
<1> PICK steps \in Plans : Accept(steps) OBVIOUS
<1>1. /\ phase = "work" /\ phase' = "commit" /\ window' = Rollout(Top.path, steps) /\ chain' = chain
      /\ VerifiedWindow(Rollout(Top.path, steps)) /\ world' = world /\ slots' = slots /\ tape' = tape
      /\ code' = code /\ rootVerdict' = rootVerdict /\ ~OutOfBudget
  BY DEF Accept
<1>2. /\ chain # << >> /\ Len(chain) \in Nat \ {0} /\ Top = chain[Len(chain)] /\ Top \in Process
      /\ Len(chain) \in DOMAIN chain /\ chain \in Seq(Process)
  BY <1>1, TheTop DEF PlanInv, PlanTyped
<1>3. /\ Top.path \in Seq(Moves) /\ Len(Top.path) \in Nat /\ Len(Top.path) < world.goal
      /\ world.goal \in Nat \ {0}
  BY <1>1, <1>2 DEF PlanInv, PlanTyped, Committed, Process
<1>4. PlanTyped' BY <1>1 DEF PlanInv, PlanTyped, PlanPhases
<1>5. Lineage' /\ Registered'
 <2>1. \A i \in 1 .. Len(chain) : /\ chain'[i].pid = chain[i].pid /\ chain'[i].depth = chain[i].depth
                                  /\ chain'[i].alive = chain[i].alive
   BY <1>1
 <2>2. chain' \in Seq(Process) /\ Len(chain') = Len(chain) /\ phase' \notin {"fork", "over"} BY <1>1, <1>2
 <2> QED BY <1>1, <2>1, <2>2, SameLineage
<1>6. Committed'
 <2>1. ~Rejected /\ ~Rejected' BY <1>1 DEF PlanInv, Committed, Rejected
 <2>2. ~Dead(tape.path)' /\ \A i \in DOMAIN chain' : ~Dead(chain[i].path)'
   BY <1>1, <2>1 DEF PlanInv, Committed, Dead
 <2>3. /\ window'.frames \in Nat \ {0} /\ window'.path \in Seq(Moves) /\ ~Dead(window'.path)
       /\ Len(window'.path) = Len(Top.path) + window'.frames /\ Len(window'.path) <= world.goal
   BY <1>1, <1>3, Verifying
 <2>4. ~Dead(window.path)' /\ Top' = Top BY <1>1, <2>3 DEF Dead, Top
 <2>5. Len(Top.path) < FrameLimit BY <1>1, <1>3, PlanNumbers DEF OutOfBudget
 <2>6. \A i \in DOMAIN chain' : Len(chain'[i].path) < world'.goal BY <1>1 DEF PlanInv, Committed
 <2>7. \A i \in 1 .. Len(chain') - 1 : Len(chain'[i].path) < world'.goal BY <1>1, <1>2, <2>6
 <2> QED BY <1>1, <2>1, <2>2, <2>3, <2>4, <2>5, <2>6, <2>7 DEF Committed
<1>7. Concluded' BY <1>1 DEF PlanInv, Concluded
<1> QED BY <1>4, <1>5, <1>6, <1>7 DEF PlanInv

\* The worker's own record changes where it stands, and nothing else.
LEMMA TopReplaced ==
  ASSUME PlanTyped, chain # << >>, NEW p \in Process, chain' = SetTop(p),
         p.pid = Top.pid, p.depth = Top.depth, p.alive = Top.alive
  PROVE  /\ chain' \in Seq(Process) /\ Len(chain') = Len(chain)
         /\ chain'[Len(chain)] = p /\ \A i \in 1 .. Len(chain) - 1 : chain'[i] = chain[i]
         /\ \A i \in 1 .. Len(chain) : /\ chain'[i].pid = chain[i].pid /\ chain'[i].depth = chain[i].depth
                                       /\ chain'[i].alive = chain[i].alive
<1>1. /\ chain \in Seq(Process) /\ Len(chain) \in Nat \ {0} /\ Len(chain) \in DOMAIN chain
      /\ Top = chain[Len(chain)] /\ chain' = [chain EXCEPT ![Len(chain)] = p]
  BY TheTop DEF PlanTyped, SetTop
<1>2. chain' \in Seq(Process) /\ Len(chain') = Len(chain) BY <1>1
<1>3. chain'[Len(chain)] = p /\ \A i \in 1 .. Len(chain) - 1 : chain'[i] = chain[i] BY <1>1
<1>4. \A i \in 1 .. Len(chain) : i = Len(chain) \/ i \in 1 .. Len(chain) - 1 BY <1>1
<1> QED BY <1>1, <1>2, <1>3, <1>4

\* The worker goes on from, or ends at, what it has now committed.
LEMMA TopMoves ==
  ASSUME PlanInv, phase \notin {"exit", "over"}, world' = world, slots' = slots, rootVerdict' = rootVerdict,
         NEW p \in Process, chain' = SetTop(p),
         p.pid = Top.pid, p.depth = Top.depth, p.alive = Top.alive,
         phase' \in {"work", "checkpoint", "exit"},
         phase \in {"prefix", "fork"} => phase' = "exit" \/ Len(chain) = 1,
         code' \in Codes, tape' = [outcome |-> tape'.outcome, path |-> tape'.path], tape'.path \in Seq(Moves),
         code' # kPrefixRejected => ~Dead(tape'.path) /\ ~Dead(p.path),
         code' = kPrefixRejected => phase' = "exit" /\ Len(chain) = 1,
         phase' # "exit" => Len(p.path) < world.goal,
         phase' = "exit" /\ code' = kOk => Verified(tape'.path),
         phase' = "exit" /\ code' \in {kBacktrack, kBudget} => Len(tape'.path) < world.goal
  PROVE  PlanInv'
<1>1. /\ chain # << >> /\ Len(chain) \in Nat \ {0} /\ Top = chain[Len(chain)] /\ Top \in Process
      /\ Len(chain) \in DOMAIN chain /\ chain \in Seq(Process) /\ DOMAIN chain = 1 .. Len(chain)
  BY TheTop DEF PlanInv, PlanTyped
<1>2. /\ chain' \in Seq(Process) /\ Len(chain') = Len(chain)
      /\ chain'[Len(chain)] = p /\ \A i \in 1 .. Len(chain) - 1 : chain'[i] = chain[i]
      /\ \A i \in 1 .. Len(chain) : /\ chain'[i].pid = chain[i].pid /\ chain'[i].depth = chain[i].depth
                                    /\ chain'[i].alive = chain[i].alive
  BY <1>1, TopReplaced DEF PlanInv
<1>3. PlanTyped'
 <2>1. /\ phase' \in PlanPhases /\ slots' \in Checkpoints /\ world'.goal \in Nat \ {0}
       /\ rootVerdict' \in Int /\ phase' # "prefix" /\ phase' # "over"
   BY DEF PlanInv, PlanTyped, PlanPhases
 <2>2. chain' # << >> BY <1>1, <1>2
 <2> QED BY <1>2, <2>1, <2>2 DEF PlanTyped, Codes
<1>4. Lineage' /\ Registered' BY <1>2, SameLineage
<1>5. Committed'
 <2>1. ~Rejected BY DEF PlanInv, Committed
 <2>2. \A i \in DOMAIN chain' : i = Len(chain) \/ i \in 1 .. Len(chain) - 1 BY <1>1, <1>2
 <2>3. Rejected' => phase' \in {"exit", "over"} /\ Len(chain') < 2 /\ phase' # "over" BY <1>2 DEF Rejected
 <2>4. ~Rejected' => ~Dead(tape.path)' /\ \A i \in DOMAIN chain' : ~Dead(chain[i].path)'
  <3>1. \A i \in 1 .. Len(chain) - 1 : ~Dead(chain[i].path) BY <1>1, <2>1 DEF PlanInv, Committed
  <3>2. ~Rejected' => ~Dead(tape'.path) /\ \A i \in DOMAIN chain' : ~Dead(chain'[i].path)
    BY <1>2, <2>2, <3>1 DEF Rejected
  <3> QED BY <3>2 DEF Dead
 <2>5. phase' \notin {"exit", "over"} => \A i \in DOMAIN chain' : Len(chain'[i].path) < world'.goal
   BY <1>1, <1>2, <2>2 DEF PlanInv, Committed
 <2>6. Len(chain') > 1 => \A i \in 1 .. Len(chain') - 1 : Len(chain'[i].path) < world'.goal
   BY <1>2 DEF PlanInv, Committed
 <2>7. phase' # "commit" OBVIOUS
 <2> QED BY <2>3, <2>4, <2>5, <2>6, <2>7 DEF Committed
<1>6. Concluded'
 <2>1. phase' # "over" /\ rootVerdict' = -1 BY DEF PlanInv, Concluded
 <2>2. phase' = "exit" =>
         /\ code' = kOk => Verified(tape.path)'
         /\ code' \in {kBacktrack, kBudget} => Len(tape'.path) < world'.goal
   BY DEF Verified, Dead
 <2> QED BY <2>1, <2>2 DEF Concluded
<1> QED BY <1>3, <1>4, <1>5, <1>6 DEF PlanInv

LEMMA CommitStep == ASSUME PlanInv, CommitWindow PROVE PlanInv'
<1> DEFINE k == Min({Commits, window.frames, FrameLimit - Len(Top.path)})
           path == SubSeq(window.path, 1, Len(Top.path) + k)
           rest == SubSeq(window.path, Len(path) + 1, Len(window.path))
           p == [Top EXCEPT !.path = path, !.nominal = rest]
<1>1. /\ phase = "commit" /\ chain' = SetTop(p) /\ world' = world /\ slots' = slots
      /\ rootVerdict' = rootVerdict
      /\ \/ /\ Len(path) = world.goal /\ tape' = [outcome |-> "complete", path |-> path]
            /\ code' = kOk /\ phase' = "exit"
         \/ /\ Len(path) # world.goal /\ phase' \in {"checkpoint", "work"} /\ tape' = tape /\ code' = code
  BY DEF CommitWindow
<1>2. /\ chain # << >> /\ Len(chain) \in Nat \ {0} /\ Top = chain[Len(chain)] /\ Top \in Process
      /\ Len(chain) \in DOMAIN chain /\ chain \in Seq(Process)
  BY <1>1, TheTop DEF PlanInv, PlanTyped
<1>3. /\ window.frames \in Nat \ {0} /\ window.path \in Seq(Moves) /\ ~Dead(window.path)
      /\ Len(window.path) = Len(Top.path) + window.frames /\ Len(window.path) <= world.goal
      /\ Len(Top.path) < FrameLimit /\ Len(Top.path) \in Nat
  BY <1>1, <1>2 DEF PlanInv, Committed, Process
<1>4. k \in Nat /\ k <= window.frames
 <2>1. /\ {Commits, window.frames, FrameLimit - Len(Top.path)} \subseteq Nat
       /\ {Commits, window.frames, FrameLimit - Len(Top.path)} # {}
   BY <1>3, PlanNumbers
 <2>2. /\ k \in {Commits, window.frames, FrameLimit - Len(Top.path)}
       /\ \A y \in {Commits, window.frames, FrameLimit - Len(Top.path)} : k =< y
   BY <2>1, MinOfNats
 <2> HIDE DEF k
 <2> QED BY <2>1, <2>2
<1> HIDE DEF k
<1>5. Len(Top.path) + k \in 0 .. Len(window.path) BY <1>3, <1>4
<1>6. path \in Seq(Moves) /\ Len(path) = Len(Top.path) + k /\ ~Dead(path) BY <1>3, <1>5, DeadPrefix
<1>7. Len(path) <= world.goal /\ Len(path) \in Nat /\ world.goal \in Nat
  BY <1>3, <1>4, <1>6 DEF PlanInv, PlanTyped
<1> HIDE DEF path
<1>8. rest \in Seq(Moves) BY <1>3, <1>6, <1>7
<1> HIDE DEF rest
<1>9. p \in Process /\ p.pid = Top.pid /\ p.depth = Top.depth /\ p.alive = Top.alive /\ p.path = path
  BY <1>2, <1>6, <1>8 DEF Process
<1> HIDE DEF p
<1>10. ~Rejected BY <1>1 DEF PlanInv, Committed
<1>11. code \in Codes /\ code # kPrefixRejected BY <1>10 DEF PlanInv, PlanTyped, Codes, Rejected
<1>12. CASE phase' = "exit" /\ Len(path) = world.goal /\ code' = kOk /\ tape' = [outcome |-> "complete", path |-> path]
 <2>1. code' \in Codes /\ code' # kPrefixRejected /\ code' \notin {kBacktrack, kBudget}
   BY <1>12, CodesDiffer DEF Codes
 <2>2. tape'.path = path /\ tape' = [outcome |-> tape'.outcome, path |-> tape'.path] BY <1>12
 <2>3. Verified(tape'.path) BY <1>6, <1>12, <2>2 DEF Verified
 <2> QED BY <1>1, <1>6, <1>9, <1>12, <2>1, <2>2, <2>3, TopMoves
<1>13. CASE phase' \in {"checkpoint", "work"} /\ Len(path) # world.goal /\ tape' = tape /\ code' = code
 <2>1. tape'.path \in Seq(Moves) /\ tape' = [outcome |-> tape'.outcome, path |-> tape'.path]
   BY <1>13 DEF PlanInv, PlanTyped
 <2>2. ~Dead(tape'.path) BY <1>10, <1>13 DEF PlanInv, Committed
 <2>3. Len(p.path) < world.goal BY <1>7, <1>9, <1>13
 <2> QED BY <1>1, <1>6, <1>9, <1>11, <1>13, <2>1, <2>2, <2>3, TopMoves
<1> QED BY <1>1, <1>12, <1>13

\* Where a given prefix stops: nobody died and nothing ended before.
LEMMA Stopping ==
  ASSUME NEW given \in Seq(Moves), world.goal \in Nat \ {0}
  PROVE  /\ PrefixStop(given) \in 0 .. Len(given)
         /\ \A n \in 0 .. PrefixStop(given) - 1 : n < world.goal /\ ~Dead(SubSeq(given, 1, n))
         /\ ~Dead(given) /\ Len(given) <= world.goal => PrefixStop(given) = Len(given)
<1> DEFINE ends == {n \in 1 .. Len(given) : n = world.goal \/ Dead(SubSeq(given, 1, n))}
           S == {Len(given)} \union ends
           stop == PrefixStop(given)
<1>1. Len(given) \in Nat /\ S \subseteq Nat /\ S # {} /\ ends \subseteq 1 .. Len(given) OBVIOUS
<1>2. stop \in S /\ \A y \in S : stop =< y BY <1>1, MinOfNats DEF PrefixStop
<1>3. stop \in 0 .. Len(given) BY <1>1, <1>2
<1>4. ASSUME NEW n \in 0 .. stop - 1 PROVE n < world.goal /\ ~Dead(SubSeq(given, 1, n))
 <2>1. n < stop /\ n \in Nat /\ stop <= Len(given) /\ n \notin ends BY <1>2, <1>3, <1>4
 <2>2. ~Dead(SubSeq(given, 1, n))
  <3>1. CASE n = 0
   <4>1. SubSeq(given, 1, n) = << >> BY <3>1
   <4> QED BY <4>1, NotDeadYet
  <3>2. CASE n # 0
   <4>1. n \in 1 .. Len(given) BY <1>1, <1>3, <2>1, <3>2
   <4>2. \A m \in 1 .. Len(given) : m \notin ends => ~Dead(SubSeq(given, 1, m)) OBVIOUS
   <4> HIDE DEF ends
   <4> QED BY <2>1, <4>1, <4>2
  <3> QED BY <3>1, <3>2
 <2>3. ~(world.goal <= n)
  <3> SUFFICES ASSUME world.goal <= n PROVE FALSE OBVIOUS
  <3>1. world.goal \in 1 .. Len(given) BY <1>1, <1>3, <2>1
  <3>2. world.goal \in S BY <3>1
  <3>3. stop <= world.goal BY <1>2, <3>2
  <3> HIDE DEF S, ends, stop
  <3> QED BY <2>1, <3>3, <1>3
 <2> QED BY <2>1, <2>2, <2>3
<1>5. ASSUME ~Dead(given), Len(given) <= world.goal PROVE stop = Len(given)
 <2>1. \A n \in ends : n = Len(given)
  <3> SUFFICES ASSUME NEW n \in 1 .. Len(given), n = world.goal \/ Dead(SubSeq(given, 1, n)) PROVE n = Len(given)
    OBVIOUS
  <3>1. n \in 0 .. Len(given) BY <1>1
  <3>2. ~Dead(SubSeq(given, 1, n)) BY <1>5, <3>1, DeadPrefix
  <3> QED BY <1>1, <1>5, <3>2
 <2> QED BY <1>2, <2>1
<1> QED BY <1>3, <1>4, <1>5

LEMMA PrefixStep == ASSUME PlanInv, \E given \in GivenPrefixes : ReplayPrefix(given) PROVE PlanInv'
<1> PICK given \in GivenPrefixes : ReplayPrefix(given) OBVIOUS
<1> DEFINE stop == PrefixStop(given)
           p(n) == [Top EXCEPT !.path = SubSeq(given, 1, n), !.last = n]
<1>1. /\ phase = "prefix" /\ world' = world /\ slots' = slots /\ rootVerdict' = rootVerdict
      /\ \/ \E n \in 0 .. stop - 1 : /\ tape' = [outcome |-> "budget", path |-> SubSeq(given, 1, n)]
                                     /\ code' = kBudget /\ phase' = "exit" /\ chain' = SetTop(p(n))
         \/ /\ tape' = [outcome |-> "prefix_rejected", path |-> SubSeq(given, 1, stop)]
            /\ code' = kPrefixRejected /\ phase' = "exit" /\ chain' = SetTop(p(stop))
         \/ /\ Verified(given) /\ tape' = [outcome |-> "complete", path |-> SubSeq(given, 1, stop)]
            /\ code' = kOk /\ phase' = "exit" /\ chain' = SetTop(p(stop))
         \/ /\ ~Dead(given) /\ Len(given) < world.goal /\ phase' = "checkpoint" /\ chain' = SetTop(p(stop))
            /\ tape' = tape /\ code' = code
  BY DEF ReplayPrefix
<1>2. /\ chain # << >> /\ Len(chain) = 1 /\ Top \in Process BY <1>1, TheTop DEF PlanInv, PlanTyped
<1>3. given \in Seq(Moves) /\ Len(given) \in Nat /\ world.goal \in Nat \ {0}
  BY PlanAssumption DEF PlanAssumption, PlanInv, PlanTyped
<1>4. /\ stop \in 0 .. Len(given)
      /\ \A n \in 0 .. stop - 1 : n < world.goal /\ ~Dead(SubSeq(given, 1, n))
      /\ ~Dead(given) /\ Len(given) <= world.goal => stop = Len(given)
  BY <1>3, Stopping
<1> HIDE DEF stop
<1>5. ASSUME NEW n \in 0 .. Len(given)
      PROVE  /\ p(n) \in Process /\ p(n).path = SubSeq(given, 1, n) /\ SubSeq(given, 1, n) \in Seq(Moves)
             /\ Len(SubSeq(given, 1, n)) = n /\ n \in Nat
             /\ p(n).pid = Top.pid /\ p(n).depth = Top.depth /\ p(n).alive = Top.alive
 <2>1. n \in Nat /\ SubSeq(given, 1, n) \in Seq(Moves) /\ Len(SubSeq(given, 1, n)) = n BY <1>3
 <2> DEFINE path == SubSeq(given, 1, n)
 <2>2. path \in Seq(Moves) BY <2>1
 <2> HIDE DEF path
 <2>3. [Top EXCEPT !.path = path, !.last = n] \in Process BY <1>2, <2>1, <2>2 DEF Process
 <2>4. /\ [Top EXCEPT !.path = path, !.last = n].path = path
       /\ [Top EXCEPT !.path = path, !.last = n].pid = Top.pid
       /\ [Top EXCEPT !.path = path, !.last = n].depth = Top.depth
       /\ [Top EXCEPT !.path = path, !.last = n].alive = Top.alive
   BY <1>2 DEF Process
 <2> QED BY <2>1, <2>3, <2>4 DEF path
<1> HIDE DEF p
<1>6. ~Rejected BY <1>1 DEF PlanInv, Committed
<1>7. SubSeq(given, 1, Len(given)) = given BY <1>3
<1>8. phase \notin {"exit", "over"} BY <1>1
<1>9. ASSUME NEW n \in 0 .. stop - 1, tape' = [outcome |-> "budget", path |-> SubSeq(given, 1, n)],
             code' = kBudget, phase' = "exit", chain' = SetTop(p(n))
      PROVE  PlanInv'
 <2>1. n \in 0 .. Len(given) BY <1>3, <1>4
 <2>2. code' \in Codes /\ code' # kPrefixRejected /\ code' # kOk BY <1>9, CodesDiffer DEF Codes
 <2>3. tape'.path = SubSeq(given, 1, n) /\ tape' = [outcome |-> tape'.outcome, path |-> tape'.path] BY <1>9
 <2>4. n < world.goal /\ ~Dead(SubSeq(given, 1, n)) BY <1>4
 <2> QED BY <1>1, <1>2, <1>5, <1>8, <1>9, <2>1, <2>2, <2>3, <2>4, TopMoves
<1>10. ASSUME tape' = [outcome |-> "prefix_rejected", path |-> SubSeq(given, 1, stop)],
              code' = kPrefixRejected, phase' = "exit", chain' = SetTop(p(stop))
       PROVE  PlanInv'
 <2>1. code' \in Codes /\ code' # kOk /\ code' \notin {kBacktrack, kBudget} BY <1>10, CodesDiffer DEF Codes
 <2>2. tape'.path = SubSeq(given, 1, stop) /\ tape' = [outcome |-> tape'.outcome, path |-> tape'.path] BY <1>10
 <2> QED BY <1>1, <1>2, <1>4, <1>5, <1>8, <1>10, <2>1, <2>2, TopMoves
<1>11. ASSUME Verified(given), tape' = [outcome |-> "complete", path |-> SubSeq(given, 1, stop)],
              code' = kOk, phase' = "exit", chain' = SetTop(p(stop))
       PROVE  PlanInv'
 <2>1. code' \in Codes /\ code' # kPrefixRejected /\ code' \notin {kBacktrack, kBudget}
   BY <1>11, CodesDiffer DEF Codes
 <2>2. ~Dead(given) /\ Len(given) = world.goal BY <1>11 DEF Verified
 <2>3. stop = Len(given) BY <1>3, <1>4, <2>2
 <2>4. SubSeq(given, 1, stop) = given BY <1>7, <2>3
 <2>5. tape'.path = given /\ tape' = [outcome |-> tape'.outcome, path |-> tape'.path] BY <1>11, <2>4
 <2>6. p(stop).path = given BY <1>4, <1>5, <2>4
 <2> QED BY <1>1, <1>2, <1>3, <1>4, <1>5, <1>8, <1>11, <2>1, <2>2, <2>5, <2>6, TopMoves
<1>12. ASSUME ~Dead(given), Len(given) < world.goal, phase' = "checkpoint", chain' = SetTop(p(stop)),
              tape' = tape, code' = code
       PROVE  PlanInv'
 <2>1. code' \in Codes /\ code' # kPrefixRejected BY <1>6, <1>12 DEF PlanInv, PlanTyped, Codes, Rejected
 <2>2. stop = Len(given) BY <1>3, <1>4, <1>12
 <2>3. SubSeq(given, 1, stop) = given BY <1>7, <2>2
 <2>4. p(stop).path = given BY <1>4, <1>5, <2>3
 <2>5. tape'.path \in Seq(Moves) /\ tape' = [outcome |-> tape'.outcome, path |-> tape'.path] /\ ~Dead(tape'.path)
   BY <1>6, <1>12 DEF PlanInv, PlanTyped, Committed
 <2> QED BY <1>1, <1>2, <1>4, <1>5, <1>8, <1>12, <2>1, <2>4, <2>5, TopMoves
<1> QED BY <1>1, <1>9, <1>10, <1>11, <1>12

\* There is a pid that no live process has.
LEMMA FreshPid ==
  ASSUME PlanTyped, chain # << >>
  PROVE  NewPid \in 1 .. Len(chain) + 1 /\ \A i \in Live : chain[i].pid # NewPid
<1> DEFINE n == Len(chain)
           Free(q) == \A i \in Live : chain[i].pid # q
<1>1. n \in Nat \ {0} /\ Live \subseteq 1 .. n BY TheTop DEF Live
<1>2. \E q \in 1 .. n + 1 : Free(q)
 <2> SUFFICES ASSUME \A q \in 1 .. n + 1 : \E i \in 1 .. n : chain[i].pid = q PROVE FALSE BY <1>1
 <2> DEFINE f == [q \in 1 .. n + 1 |-> CHOOSE i \in 1 .. n : chain[i].pid = q]
 <2>1. \A q \in 1 .. n + 1 : f[q] \in 1 .. n /\ chain[f[q]].pid = q OBVIOUS
 <2>2. f \in [1 .. n + 1 -> 1 .. n] BY <2>1
 <2>3. n \in Int /\ n + 1 \in Int /\ 1 \in Int BY <1>1
 <2>4. IsFiniteSet(1 .. n + 1) /\ Cardinality(1 .. n + 1) = IF 1 > n + 1 THEN 0 ELSE (n + 1) - 1 + 1
   BY <2>3, FS_Interval
 <2>5. IsFiniteSet(1 .. n) /\ Cardinality(1 .. n) = IF 1 > n THEN 0 ELSE n - 1 + 1 BY <2>3, FS_Interval
 <2>6. Cardinality(1 .. n) < Cardinality(1 .. n + 1) BY <1>1, <2>4, <2>5
 <2> DEFINE S == 1 .. n + 1
            T == 1 .. n
 <2>7. IsFiniteSet(S) /\ IsFiniteSet(T) /\ Cardinality(T) < Cardinality(S) /\ f \in [S -> T]
   BY <2>2, <2>4, <2>5, <2>6
 <2>8. \A q \in S : chain[f[q]].pid = q BY <2>1
 <2> HIDE DEF f, n, S, T
 <2>9. \E x, y \in S : x # y /\ f[x] = f[y] BY <2>7, FS_PigeonHole
 <2> QED BY <2>8, <2>9
<1>3. NewPid = CHOOSE q \in 1 .. n + 1 : Free(q) BY DEF NewPid
<1> HIDE DEF n, Free
<1>4. NewPid \in 1 .. n + 1 /\ Free(NewPid) BY <1>2, <1>3, Zenon
<1> QED BY <1>4 DEF n, Free

LEMMA CheckpointStep == ASSUME PlanInv, Checkpoint PROVE PlanInv'
<1> DEFINE n == Len(chain)
           h == [Top EXCEPT !.depth = @ + 1]
           heir == [h EXCEPT !.pid = NewPid, !.last = Len(h.path), !.attempt = 0]
<1>1. /\ phase = "checkpoint" /\ phase' = "fork" /\ chain' = Append(SetTop(h), heir) /\ world' = world
      /\ window' = window /\ slots' = slots /\ tape' = tape /\ code' = code /\ rootVerdict' = rootVerdict
  BY DEF Checkpoint, Fork
<1>2. /\ chain # << >> /\ n \in Nat \ {0} /\ Top = chain[n] /\ Top \in Process
      /\ n \in DOMAIN chain /\ chain \in Seq(Process) /\ DOMAIN chain = 1 .. n
  BY <1>1, TheTop DEF PlanInv, PlanTyped
<1>3. Top.depth = n - 1 /\ Top.alive BY <1>1, <1>2 DEF PlanInv, Lineage
<1>4. NewPid \in Nat \ {0} /\ \A i \in Live : chain[i].pid # NewPid
 <2>1. NewPid \in 1 .. n + 1 /\ \A i \in Live : chain[i].pid # NewPid BY <1>2, FreshPid DEF PlanInv
 <2> QED BY <2>1
<1>5. /\ h \in Process /\ h.pid = Top.pid /\ h.depth = n /\ h.alive /\ h.path = Top.path
 <2>1. Top.depth \in Nat /\ Top.depth + 1 = n /\ n \in Nat BY <1>2, <1>3
 <2> HIDE DEF n
 <2>2. h = [Top EXCEPT !.depth = n] BY <2>1
 <2>3. h \in Process BY <1>2, <2>1, <2>2 DEF Process
 <2>4. h.pid = Top.pid /\ h.depth = n /\ h.alive = Top.alive /\ h.path = Top.path BY <1>2, <2>2 DEF Process
 <2> QED BY <1>3, <2>3, <2>4
<1> HIDE DEF h
<1>6. heir \in Process /\ heir.pid = NewPid /\ heir.depth = n /\ heir.alive /\ heir.path = Top.path
 <2>1. Len(h.path) \in Nat BY <1>5 DEF Process
 <2> QED BY <1>4, <1>5, <2>1 DEF Process
<1> HIDE DEF heir
<1>7. /\ chain' \in Seq(Process) /\ Len(chain') = n + 1 /\ chain'[n] = h /\ chain'[n + 1] = heir
      /\ \A i \in 1 .. n - 1 : chain'[i] = chain[i]
 <2>1. SetTop(h) \in Seq(Process) /\ Len(SetTop(h)) = n BY <1>2, <1>5 DEF SetTop
 <2>2. SetTop(h)[n] = h /\ \A i \in 1 .. n - 1 : SetTop(h)[i] = chain[i] BY <1>2, <1>5 DEF SetTop
 <2> DEFINE s == SetTop(h)
 <2>3. chain' = Append(s, heir) /\ s \in Seq(Process) /\ Len(s) = n /\ n \in Nat \ {0} /\ heir \in Process
   BY <1>1, <1>2, <1>6, <2>1
 <2>4. s[n] = h /\ \A i \in 1 .. n - 1 : s[i] = chain[i] BY <2>2
 <2> HIDE DEF s, n
 <2>5. /\ chain' \in Seq(Process) /\ Len(chain') = n + 1 /\ chain'[n + 1] = heir
       /\ \A i \in 1 .. n : chain'[i] = s[i]
   BY <2>3
 <2>6. n \in 1 .. n /\ \A i \in 1 .. n - 1 : i \in 1 .. n BY <2>3
 <2> QED BY <2>4, <2>5, <2>6
<1> HIDE DEF n
<1>8. DOMAIN chain' = 1 .. n + 1 /\ chain' # << >> /\ Top' = chain'[n + 1] /\ Parent' = chain'[n]
  BY <1>2, <1>7 DEF Top, Parent
<1>9. \A i \in 1 .. n + 1 : i = n + 1 \/ i = n \/ i \in 1 .. n - 1 BY <1>2
<1>10. Live' = Live \cup {n + 1} /\ Live \subseteq 1 .. n BY <1>2, <1>3, <1>5, <1>6, <1>7, <1>8, <1>9 DEF Live
<1>11. PlanTyped'
 <2>1. /\ phase' \in PlanPhases /\ slots' \in Checkpoints /\ world'.goal \in Nat \ {0}
       /\ rootVerdict' \in Int /\ phase' # "prefix" /\ phase' # "over"
   BY <1>1 DEF PlanInv, PlanTyped, PlanPhases
 <2>2. /\ tape'.path \in Seq(Moves) /\ tape' = [outcome |-> tape'.outcome, path |-> tape'.path]
       /\ code' \in Codes
   BY <1>1 DEF PlanInv, PlanTyped, Codes
 <2> QED BY <1>7, <1>8, <2>1, <2>2 DEF PlanTyped, Codes
<1>12. Lineage'
 <2>1. \A i \in 1 .. Len(chain') - 1 : chain'[i].depth = i
  <3>1. \A i \in 1 .. n - 1 : chain[i].depth = i BY <1>2 DEF PlanInv, Lineage, n
  <3>2. \A i \in 1 .. Len(chain') - 1 : i = n \/ i \in 1 .. n - 1 BY <1>2, <1>7
  <3> QED BY <1>5, <1>7, <3>1, <3>2
 <2>2. Top'.depth = Len(chain') - 1 /\ Top'.alive BY <1>2, <1>6, <1>7, <1>8
 <2>3. HasParent' BY <1>2, <1>5, <1>7, <1>8 DEF HasParent
 <2>4. \A i \in 1 .. n : chain'[i].pid = chain[i].pid BY <1>2, <1>5, <1>7, <1>9
 <2>5. \A i, j \in Live' : chain'[i].pid = chain'[j].pid => i = j
  <3>1. \A i, j \in Live : chain[i].pid = chain[j].pid => i = j BY DEF PlanInv, Lineage
  <3> QED BY <1>4, <1>6, <1>7, <1>10, <2>4, <3>1
 <2>6. \A i \in Live' : i >= Oldest'
  <3>1. Oldest' = n - Keep /\ \A i \in Live : i >= n - Keep
   <4>1. Oldest' = (n + 1) - Keep - 1 /\ Oldest = n - Keep BY <1>1, <1>7 DEF Oldest, n
   <4>2. \A i \in Live : i >= Oldest BY DEF PlanInv, Lineage
   <4> QED BY <1>2, <4>1, <4>2, PlanNumbers
  <3>2. n + 1 >= n - Keep BY <1>2, PlanNumbers
  <3> QED BY <1>10, <3>1, <3>2
 <2>7. \A i \in Live' : i .. Len(chain') \subseteq Live'
  <3>1. \A i \in Live : i .. n \subseteq Live BY DEF PlanInv, Lineage, n
  <3>2. \A i \in Live' : i \in 1 .. n + 1 /\ (i # n + 1 => i \in Live) BY <1>2, <1>10
  <3>3. \A i \in 1 .. n + 1 : i .. Len(chain') = (i .. n) \cup {n + 1} BY <1>2, <1>7
  <3>4. (n + 1) .. n = {} BY <1>2
  <3> QED BY <1>10, <3>1, <3>2, <3>3, <3>4
 <2> QED BY <1>1, <2>1, <2>2, <2>3, <2>5, <2>6, <2>7 DEF Lineage
<1>13. Registered'
 <2> SUFFICES ASSUME NEW i \in 1 .. Len(chain') - 1, Entered(i)'
              PROVE  IF chain'[i].alive THEN SlotOf(i) = [pid |-> chain'[i].pid, depth |-> i, released |-> FALSE]
                     ELSE SlotOf(i).depth = i => SlotOf(i).released
   BY <1>1 DEF Registered, SlotOf
 <2>1. i \in 1 .. n - 1 BY <1>1, <1>2, <1>7 DEF Entered
 <2>2. Entered(i) /\ chain'[i] = chain[i] BY <1>1, <1>7, <2>1 DEF Entered
 <2> QED BY <2>1, <2>2 DEF PlanInv, Registered, n
<1>14. Committed'
 <2>1. ~Rejected /\ ~Rejected' BY <1>1 DEF PlanInv, Committed, Rejected
 <2>2. \A i \in DOMAIN chain' : \E j \in DOMAIN chain : chain'[i].path = chain[j].path
   BY <1>2, <1>5, <1>6, <1>7, <1>8, <1>9
 <2>3. ~Dead(tape.path) /\ \A j \in DOMAIN chain : ~Dead(chain[j].path) /\ Len(chain[j].path) < world.goal
   BY <1>1, <2>1 DEF PlanInv, Committed
 <2>4. \A i \in DOMAIN chain' : ~Dead(chain'[i].path) /\ Len(chain'[i].path) < world.goal BY <2>2, <2>3
 <2>5. ~Dead(tape.path)' /\ \A i \in DOMAIN chain' : ~Dead(chain[i].path)' BY <1>1, <2>3, <2>4 DEF Dead
 <2>6. \A i \in 1 .. Len(chain') - 1 : Len(chain'[i].path) < world'.goal BY <1>1, <1>2, <1>7, <1>8, <2>4
 <2> QED BY <1>1, <2>1, <2>4, <2>5, <2>6 DEF Committed
<1>15. Concluded' BY <1>1 DEF PlanInv, Concluded
<1> QED BY <1>11, <1>12, <1>13, <1>14, <1>15 DEF PlanInv

\* What a registration does: the holder of depth n is entered, the one
\* Keep older is released, and only that one, if it is alive.
LEMMA Releasing ==
  ASSUME PlanInv, Register
  PROVE  LET n == Len(chain) - 1
             m == n - Keep
         IN  /\ n \in Nat \ {0} /\ chain[n].alive /\ Len(chain') = Len(chain) /\ chain' \in Seq(Process)
             /\ slots' \in Checkpoints
             /\ \A i \in 1 .. Len(chain) :
                  /\ chain'[i].pid = chain[i].pid /\ chain'[i].depth = chain[i].depth
                  /\ chain'[i].path = chain[i].path /\ (chain'[i].alive <=> chain[i].alive /\ i # m)
             /\ slots'[n % HolderSlots] = [pid |-> chain[n].pid, depth |-> n, released |-> FALSE]
             /\ \A i \in Nat : i % HolderSlots # n % HolderSlots =>
                  \/ slots'[i % HolderSlots] = slots[i % HolderSlots]
                  \/ m \in 1 .. n - 1 /\ i % HolderSlots = m % HolderSlots /\ slots'[i % HolderSlots].released
             /\ m \in 1 .. n - 1 /\ chain[m].alive => slots'[m % HolderSlots].released
<1> DEFINE n == Len(chain) - 1
           m == n - Keep
           a == n % HolderSlots
           b == m % HolderSlots
           entry == [pid |-> chain[n].pid, depth |-> n, released |-> FALSE]
           table == [slots EXCEPT ![a] = entry]
<1>1. phase = "fork" /\ chain # << >> BY DEF Register, PlanInv, PlanTyped
<1>2. /\ Len(chain) \in Nat \ {0} /\ chain \in Seq(Process) /\ DOMAIN chain = 1 .. Len(chain)
      /\ slots \in Checkpoints
  BY <1>1, TheTop DEF PlanInv, PlanTyped
<1>3. Top.depth = n /\ Len(chain) > 1 /\ chain[n].alive BY <1>1 DEF PlanInv, Lineage, HasParent, Parent
<1>4. n \in Nat \ {0} /\ n \in 1 .. Len(chain) /\ m \in Int /\ m < n /\ n - m < HolderSlots /\ n - m = Keep
  BY <1>2, <1>3, PlanNumbers
<1>5. a \in 0 .. HolderSlots - 1 /\ b \in 0 .. HolderSlots - 1 BY <1>4, SlotInTable
<1>6. \/ /\ Releasable(table, n) /\ slots' = [table EXCEPT ![b].released = TRUE]
         /\ chain' = [i \in DOMAIN chain |-> [chain[i] EXCEPT !.alive = @ /\ chain[i].pid # table[b].pid]]
      \/ ~Releasable(table, n) /\ slots' = table /\ chain' = chain
 <2>1. Old(n) = m BY DEF Old
 <2>2. LET d == Top.depth
           t == [slots EXCEPT ![d % HolderSlots] =
                    [pid |-> chain[Len(chain) - 1].pid, depth |-> d, released |-> FALSE]]
           o == Old(d) % HolderSlots
       IN  \/ /\ Releasable(t, d) /\ slots' = [t EXCEPT ![o].released = TRUE]
              /\ chain' = [i \in DOMAIN chain |-> [chain[i] EXCEPT !.alive = @ /\ chain[i].pid # t[o].pid]]
           \/ ~Releasable(t, d) /\ slots' = t /\ chain' = chain
   BY DEF Register
 <2> HIDE DEF n
 <2>3. LET t == [slots EXCEPT ![n % HolderSlots] =
                    [pid |-> chain[Len(chain) - 1].pid, depth |-> n, released |-> FALSE]]
           o == m % HolderSlots
       IN  \/ /\ Releasable(t, n) /\ slots' = [t EXCEPT ![o].released = TRUE]
              /\ chain' = [i \in DOMAIN chain |-> [chain[i] EXCEPT !.alive = @ /\ chain[i].pid # t[o].pid]]
           \/ ~Releasable(t, n) /\ slots' = t /\ chain' = chain
   BY <1>3, <2>1, <2>2, ZenonT(40)
 <2>4. chain[Len(chain) - 1] = chain[n] BY DEF n
 <2> QED BY <2>3, <2>4, Zenon
<1>7. Releasable(table, n) <=> m >= 1 /\ table[b].depth = m /\ ~table[b].released BY DEF Releasable, Old
<1>8. n % HolderSlots = a /\ m % HolderSlots = b /\ (m >= 1 => a # b /\ m \in Nat /\ m \in 1 .. n - 1)
 <2>1. m >= 1 => m \in Nat /\ m \in 1 .. n - 1 BY <1>4
 <2>2. ASSUME m >= 1 PROVE m % HolderSlots # n % HolderSlots
  <3>1. m \in Nat /\ n \in Nat /\ m < n /\ n - m < HolderSlots BY <1>4, <2>1, <2>2
  <3> HIDE DEF m, n
  <3> QED BY <3>1, SlotsApart
 <2> QED BY <2>1, <2>2
<1> HIDE DEF a, b
<1>9. /\ entry \in [pid : Nat, depth : Nat, released : BOOLEAN]
      /\ chain[n].pid \in Nat /\ chain[n] \in Process
 <2>1. chain[n] \in Process BY <1>2, <1>4
 <2>2. chain[n].pid \in Nat BY <2>1 DEF Process
 <2> QED BY <1>4, <2>1, <2>2
<1> HIDE DEF entry
<1>10. table \in Checkpoints /\ table[a] = entry /\ \A j \in 0 .. HolderSlots - 1 : j # a => table[j] = slots[j]
  BY <1>2, <1>5, <1>9 DEF Checkpoints
<1> HIDE DEF table, n, m
<1>11. \A i \in 1 .. Len(chain) : chain[i] \in Process BY <1>2
<1>12. \A i \in Nat : i % HolderSlots \in 0 .. HolderSlots - 1 BY SlotInTable
<1>13. ASSUME m >= 1, chain[m].alive
       PROVE  table[b].pid = chain[m].pid /\ table[b].depth = m /\ ~table[b].released
 <2>1. m \in 1 .. Len(chain) - 1 /\ Entered(m) BY <1>1, <1>2, <1>4, <1>8, <1>13 DEF Entered, n
 <2>2. slots[b] = [pid |-> chain[m].pid, depth |-> m, released |-> FALSE]
   BY <1>8, <1>13, <2>1 DEF PlanInv, Registered, SlotOf
 <2>3. table[b] = slots[b] BY <1>5, <1>8, <1>10, <1>13
 <2> QED BY <2>2, <2>3
<1>14. CASE Releasable(table, n) /\ slots' = [table EXCEPT ![b].released = TRUE]
            /\ chain' = [i \in DOMAIN chain |-> [chain[i] EXCEPT !.alive = @ /\ chain[i].pid # table[b].pid]]
 <2>1. m >= 1 /\ table[b].depth = m /\ ~table[b].released BY <1>7, <1>14
 <2>2. m \in 1 .. Len(chain) - 1 /\ m \in 1 .. Len(chain) /\ m \in 1 .. n - 1 /\ a # b /\ Entered(m)
   BY <1>1, <1>2, <1>4, <1>8, <2>1 DEF Entered, n
 <2>3. chain[m].alive
  <3>1. table[b] = slots[b] BY <1>5, <1>10, <2>2
  <3>2. ~chain[m].alive => (SlotOf(m).depth = m => SlotOf(m).released) BY <2>2 DEF PlanInv, Registered
  <3> QED BY <1>8, <2>1, <3>1, <3>2 DEF SlotOf
 <2>4. table[b].pid = chain[m].pid BY <1>13, <2>1, <2>3
 <2>5. \A i \in 1 .. Len(chain) : chain'[i] = [chain[i] EXCEPT !.alive = @ /\ chain[i].pid # chain[m].pid]
   BY <1>2, <1>14, <2>4
 <2>6. ASSUME NEW i \in 1 .. Len(chain)
       PROVE  /\ chain'[i] \in Process /\ chain'[i].pid = chain[i].pid /\ chain'[i].depth = chain[i].depth
              /\ chain'[i].path = chain[i].path /\ (chain'[i].alive <=> chain[i].alive /\ i # m)
  <3> DEFINE still == chain[i].alive /\ chain[i].pid # chain[m].pid
  <3>1. chain[i] \in Process /\ still \in BOOLEAN BY <1>11
  <3>2. chain'[i] = [chain[i] EXCEPT !.alive = still] BY <2>5
  <3>3. still <=> chain[i].alive /\ i # m
   <4>1. i \in DOMAIN chain /\ m \in DOMAIN chain BY <1>2, <2>2
   <4>2. chain[i].alive /\ chain[i].pid = chain[m].pid => i = m BY <2>3, <4>1 DEF PlanInv, Lineage, Live
   <4> QED BY <4>2
  <3> HIDE DEF still
  <3>4. chain'[i] \in Process BY <3>1, <3>2 DEF Process
  <3>5. chain'[i].alive = still BY <3>1, <3>2 DEF Process
  <3>6. chain'[i].pid = chain[i].pid /\ chain'[i].depth = chain[i].depth /\ chain'[i].path = chain[i].path
    BY <3>1, <3>2 DEF Process
  <3> QED BY <3>3, <3>4, <3>5, <3>6
 <2>7. chain' \in Seq(Process) /\ Len(chain') = Len(chain)
  <3>1. DOMAIN chain' = 1 .. Len(chain) /\ chain' = [i \in 1 .. Len(chain) |-> chain'[i]] BY <1>2, <1>14
  <3>2. \A i \in 1 .. Len(chain) : chain'[i] \in Process BY <2>6
  <3> QED BY <1>2, <3>1, <3>2
 <2>8. slots' \in Checkpoints /\ \A j \in 0 .. HolderSlots - 1 : j # b => slots'[j] = table[j]
   BY <1>5, <1>10, <1>14 DEF Checkpoints
 <2>9. slots'[b].released BY <1>5, <1>10, <1>14 DEF Checkpoints
 <2>10. slots'[a] = entry BY <1>5, <1>10, <2>2, <2>8
 <2>11. \A i \in Nat : i % HolderSlots # a =>
           slots'[i % HolderSlots] = slots[i % HolderSlots] \/ (i % HolderSlots = b /\ slots'[i % HolderSlots].released)
   BY <1>10, <1>12, <2>8, <2>9
 <2> QED BY <1>3, <1>4, <1>8, <2>2, <2>6, <2>7, <2>8, <2>9, <2>10, <2>11 DEF n, m, entry
<1>15. CASE ~Releasable(table, n) /\ slots' = table /\ chain' = chain
 <2>1. ASSUME m >= 1 PROVE ~chain[m].alive BY <1>7, <1>13, <1>15, <2>1
 <2>2. ASSUME NEW i \in 1 .. Len(chain)
       PROVE  /\ chain'[i].pid = chain[i].pid /\ chain'[i].depth = chain[i].depth
              /\ chain'[i].path = chain[i].path /\ (chain'[i].alive <=> chain[i].alive /\ i # m)
  <3>1. i = m => m >= 1 BY <1>2
  <3> QED BY <1>15, <2>1, <3>1
 <2>3. slots' \in Checkpoints /\ slots'[a] = entry BY <1>10, <1>15
 <2>4. \A i \in Nat : i % HolderSlots # a => slots'[i % HolderSlots] = slots[i % HolderSlots]
   BY <1>10, <1>12, <1>15
 <2>5. ~(m \in 1 .. n - 1 /\ chain[m].alive) BY <1>4, <2>1
 <2> QED BY <1>2, <1>3, <1>4, <1>8, <1>15, <2>2, <2>3, <2>4, <2>5 DEF n, m, entry
<1> QED BY <1>6, <1>14, <1>15

LEMMA RegisterStep == ASSUME PlanInv, Register PROVE PlanInv'
<1> DEFINE n == Len(chain) - 1
           m == n - Keep
<1>1. /\ phase = "fork" /\ phase' = "work" /\ world' = world /\ tape' = tape /\ window' = window
      /\ code' = code /\ rootVerdict' = rootVerdict /\ chain # << >>
  BY DEF Register, PlanInv, PlanTyped
<1>2. Len(chain) \in Nat \ {0} /\ Top = chain[Len(chain)] /\ chain \in Seq(Process) /\ DOMAIN chain = 1 .. Len(chain)
  BY <1>1, TheTop DEF PlanInv, PlanTyped
<1>3. /\ n \in Nat \ {0} /\ chain[n].alive /\ Len(chain') = Len(chain) /\ chain' \in Seq(Process)
      /\ slots' \in Checkpoints
      /\ \A i \in 1 .. Len(chain) :
           /\ chain'[i].pid = chain[i].pid /\ chain'[i].depth = chain[i].depth
           /\ chain'[i].path = chain[i].path /\ (chain'[i].alive <=> chain[i].alive /\ i # m)
      /\ slots'[n % HolderSlots] = [pid |-> chain[n].pid, depth |-> n, released |-> FALSE]
      /\ \A i \in Nat : i % HolderSlots # n % HolderSlots =>
           \/ slots'[i % HolderSlots] = slots[i % HolderSlots]
           \/ m \in 1 .. n - 1 /\ i % HolderSlots = m % HolderSlots /\ slots'[i % HolderSlots].released
      /\ m \in 1 .. n - 1 /\ chain[m].alive => slots'[m % HolderSlots].released
  BY Releasing
<1>20. n \in Nat \ {0} /\ Len(chain') = Len(chain) BY <1>3
<1>4. /\ Len(chain) = n + 1 /\ n \in Nat \ {0} /\ m \in Int /\ m = n - Keep /\ m < n /\ n - m < HolderSlots
      /\ Keep \in Nat \ {0} /\ Len(chain') = n + 1
  BY <1>2, <1>20, PlanNumbers
<1> HIDE DEF n, m
<1>21. \A i \in 1 .. Len(chain) :
           /\ chain'[i].pid = chain[i].pid /\ chain'[i].depth = chain[i].depth
           /\ chain'[i].path = chain[i].path /\ (chain'[i].alive <=> chain[i].alive /\ i # m)
  BY <1>3
<1>22. slots'[n % HolderSlots] = [pid |-> chain[n].pid, depth |-> n, released |-> FALSE] /\ chain[n].alive
  BY <1>3
<1>5. DOMAIN chain' = 1 .. n + 1 /\ DOMAIN chain = 1 .. n + 1 /\ chain' # << >> BY <1>2, <1>3, <1>4
<1>6. Live' = Live \ {m} /\ Live \subseteq 1 .. n + 1 BY <1>3, <1>4, <1>5 DEF Live
<1>7. \A i \in Live : i >= m BY <1>1, <1>4 DEF PlanInv, Lineage, Oldest
<1>8. \A i \in Live' : i > m /\ i \in 1 .. n + 1 BY <1>4, <1>6, <1>7
<1>9. PlanTyped'
 <2>1. /\ phase' \in PlanPhases /\ world'.goal \in Nat \ {0} /\ rootVerdict' \in Int /\ phase' # "prefix"
       /\ phase' # "over" /\ tape'.path \in Seq(Moves) /\ tape' = [outcome |-> tape'.outcome, path |-> tape'.path]
       /\ code' \in Codes
   BY <1>1 DEF PlanInv, PlanTyped, PlanPhases, Codes
 <2> QED BY <1>3, <1>5, <2>1 DEF PlanTyped, Codes
<1>10. Lineage'
 <2>1. \A i \in 1 .. Len(chain') - 1 : chain'[i].depth = i
  <3>1. \A i \in 1 .. Len(chain) - 1 : chain[i].depth = i BY DEF PlanInv, Lineage
  <3>2. \A i \in 1 .. Len(chain') - 1 : i \in 1 .. Len(chain) - 1 /\ i \in 1 .. Len(chain) BY <1>4
  <3> QED BY <1>21, <3>1, <3>2
 <2>2. Top'.depth = Len(chain') - 1 /\ Top'.alive
  <3>1. Top.depth = n /\ Top.alive BY <1>1, <1>4 DEF PlanInv, Lineage
  <3>2. Top' = chain'[n + 1] /\ Top = chain[n + 1] /\ n + 1 \in 1 .. n + 1 /\ n + 1 # m
    BY <1>2, <1>3, <1>4 DEF Top
  <3> QED BY <1>3, <1>4, <3>1, <3>2
 <2>3. \A i, j \in Live' : chain'[i].pid = chain'[j].pid => i = j
  <3>1. \A i, j \in Live : chain[i].pid = chain[j].pid => i = j BY DEF PlanInv, Lineage
  <3> QED BY <1>3, <1>4, <1>6, <3>1
 <2>4. \A i \in Live' : i >= Oldest'
  <3>1. Oldest' = (n + 1) - Keep BY <1>1, <1>3, <1>4 DEF Oldest
  <3> QED BY <1>4, <1>8, <3>1
 <2>5. \A i \in Live' : i .. Len(chain') \subseteq Live'
  <3>1. \A i \in Live : i .. Len(chain) \subseteq Live BY DEF PlanInv, Lineage
  <3> QED BY <1>3, <1>4, <1>6, <1>8, <3>1
 <2>6. phase' # "fork" BY <1>1
 <2> QED BY <2>1, <2>2, <2>3, <2>4, <2>5, <2>6 DEF Lineage
<1>11. Registered'
 <2> SUFFICES ASSUME NEW i \in 1 .. Len(chain') - 1
              PROVE  /\ chain'[i].alive => slots'[i % HolderSlots] = [pid |-> chain'[i].pid, depth |-> i, released |-> FALSE]
                     /\ ~chain'[i].alive /\ slots'[i % HolderSlots].depth = i => slots'[i % HolderSlots].released
   BY DEF Registered, SlotOf
 <2>1. i \in 1 .. n /\ i \in Nat /\ i \in 1 .. Len(chain) /\ i \in 1 .. Len(chain) - 1 /\ (i = n \/ i < n)
   BY <1>4
 <2>2. CASE i = n
  <3>1. chain'[n].alive /\ chain'[n].pid = chain[n].pid BY <1>4, <1>21, <1>22, <2>1, <2>2
  <3> QED BY <1>22, <2>2, <3>1
 <2>3. CASE i < n
  <3>1. Entered(i) BY <1>1, <1>4, <2>1, <2>3 DEF Entered
  <3>2. /\ chain[i].alive => slots[i % HolderSlots] = [pid |-> chain[i].pid, depth |-> i, released |-> FALSE]
        /\ ~chain[i].alive => (slots[i % HolderSlots].depth = i => slots[i % HolderSlots].released)
    BY <2>1, <3>1 DEF PlanInv, Registered, SlotOf
  <3>3. CASE chain'[i].alive
   <4>1. chain[i].alive /\ i # m /\ i \in Live BY <1>3, <1>5, <1>4, <2>1, <3>3 DEF Live
   <4>2. i > m /\ n - i < HolderSlots
    <5>1. i >= m BY <1>7, <4>1
    <5> QED BY <1>4, <2>1, <4>1, <5>1, PlanNumbers
   <4>3. i % HolderSlots # n % HolderSlots BY <1>4, <2>1, <2>3, <4>2, SlotsApart
   <4>4. ASSUME m \in 1 .. n - 1 PROVE i % HolderSlots # m % HolderSlots
    <5>1. m \in Nat /\ m < i /\ i - m < HolderSlots
     <6>1. m \in Nat /\ i < n /\ m < i BY <1>4, <2>3, <4>2, <4>4
     <6> QED BY <1>4, <2>1, <6>1, PlanNumbers
    <5> QED BY <2>1, <5>1, SlotsApart
   <4>5. slots'[i % HolderSlots] = slots[i % HolderSlots] BY <1>3, <2>1, <4>3, <4>4
   <4> QED BY <1>3, <2>1, <3>2, <3>3, <4>1, <4>5
  <3>4. CASE ~chain'[i].alive /\ i # m
   <4>1. ~chain[i].alive BY <1>3, <2>1, <3>4
   <4>2. CASE i % HolderSlots = n % HolderSlots
    <5>1. slots'[i % HolderSlots].depth = n BY <1>3, <4>2
    <5>2. i # n BY <1>4, <2>1, <2>3
    <5> QED BY <3>4, <5>1, <5>2
   <4>3. CASE i % HolderSlots # n % HolderSlots BY <1>3, <2>1, <3>2, <3>4, <4>1, <4>3
   <4> QED BY <4>2, <4>3
  <3>5. CASE ~chain'[i].alive /\ i = m
   <4>1. m \in 1 .. n - 1 /\ m \in Nat BY <1>4, <2>1, <2>3, <3>5
   <4>2. m % HolderSlots # n % HolderSlots BY <1>4, <4>1, SlotsApart
   <4>3. CASE chain[m].alive BY <1>3, <3>5, <4>1, <4>3
   <4>4. CASE ~chain[m].alive BY <1>3, <3>2, <3>5, <4>1, <4>2, <4>4
   <4> QED BY <4>3, <4>4
  <3> QED BY <3>3, <3>4, <3>5
 <2> QED BY <2>1, <2>2, <2>3
<1>12. Committed'
 <2>1. ~Rejected /\ ~Rejected' BY <1>1 DEF PlanInv, Committed, Rejected
 <2>2. ~Dead(tape.path) /\ \A i \in 1 .. n + 1 : ~Dead(chain[i].path) /\ Len(chain[i].path) < world.goal
   BY <1>1, <1>5, <2>1 DEF PlanInv, Committed
 <2>3. \A i \in DOMAIN chain' : ~Dead(chain'[i].path) /\ Len(chain'[i].path) < world.goal
   BY <1>3, <1>4, <1>5, <2>2
 <2>4. ~Dead(tape.path)' /\ \A i \in DOMAIN chain' : ~Dead(chain[i].path)' BY <1>1, <2>2, <2>3 DEF Dead
 <2>5. \A i \in 1 .. Len(chain') - 1 : Len(chain'[i].path) < world'.goal
   BY SMTT(30), <1>1, <1>3, <1>4, <1>5, <2>3
 <2> QED BY <1>1, <2>1, <2>3, <2>4, <2>5 DEF Committed
<1>13. Concluded' BY <1>1 DEF PlanInv, Concluded
<1> QED BY <1>9, <1>10, <1>11, <1>12, <1>13 DEF PlanInv

LEMMA TwoMore ==
  ASSUME NEW s \in Seq(Process), NEW t \in Seq(Process), Len(t) = 2
  PROVE  /\ s \o t \in Seq(Process) /\ Len(s \o t) = Len(s) + 2
         /\ (s \o t)[Len(s) + 1] = t[1] /\ (s \o t)[Len(s) + 2] = t[2]
         /\ \A i \in 1 .. Len(s) : (s \o t)[i] = s[i]
<1>1. Len(s) \in Nat OBVIOUS
<1>2. s \o t \in Seq(Process) BY ConcatProperties
<1>3. Len(s \o t) = Len(s) + Len(t) BY ConcatProperties
<1>4. \A i \in 1 .. Len(s) + Len(t) : (s \o t)[i] = IF i <= Len(s) THEN s[i] ELSE t[i - Len(s)]
  BY ConcatProperties
<1>5. (Len(s) + 1) - Len(s) = 1 /\ (Len(s) + 2) - Len(s) = 2 BY <1>1
<1> QED BY <1>1, <1>2, <1>3, <1>4, <1>5

\* A new attempt takes the place of the process that gave up.
LEMMA RetryStep == ASSUME PlanInv, Retry PROVE PlanInv'
<1> DEFINE n == Len(chain)
           holder == [Parent EXCEPT !.attempt = @ + 1]
           heir == [holder EXCEPT !.pid = Top.pid, !.last = Len(holder.path), !.attempt = 0]
           front == SubSeq(chain, 1, n - 2)
<1>1. /\ phase = "exit" /\ phase' = "fork" /\ HasParent /\ code = kBacktrack /\ chain # << >>
      /\ chain' = front \o << holder, heir >> /\ world' = world
      /\ window' = window /\ slots' = slots /\ tape' = tape /\ code' = code /\ rootVerdict' = rootVerdict
  BY DEF Retry, PlanInv, PlanTyped
<1>2. /\ n \in Nat \ {0} /\ Top = chain[n] /\ Top \in Process /\ chain \in Seq(Process) /\ DOMAIN chain = 1 .. n
  BY <1>1, TheTop DEF PlanInv, PlanTyped
<1>3. n > 1 /\ Parent = chain[n - 1] /\ Parent \in Process /\ Parent.alive /\ Top.alive
 <2>1. n > 1 /\ Parent = chain[n - 1] /\ Parent.alive BY <1>1 DEF HasParent, Parent
 <2>2. n - 1 \in 1 .. n BY <1>2, <2>1
 <2>3. Top.alive BY <1>1 DEF PlanInv, Lineage
 <2> QED BY <1>2, <2>1, <2>2, <2>3
<1>4. Parent.depth = n - 1 BY <1>2, <1>3 DEF PlanInv, Lineage
<1>5. /\ holder \in Process /\ holder.pid = Parent.pid /\ holder.depth = Parent.depth
      /\ holder.alive = Parent.alive /\ holder.path = Parent.path
 <2>1. Parent.attempt \in Nat /\ Parent.attempt + 1 \in Nat BY <1>3 DEF Process
 <2> QED BY <1>3, <2>1 DEF Process
<1> HIDE DEF holder
<1>6. /\ heir \in Process /\ heir.pid = Top.pid /\ heir.depth = Parent.depth
      /\ heir.alive = Parent.alive /\ heir.path = Parent.path
 <2>1. Len(holder.path) \in Nat /\ Top.pid \in Nat \ {0} BY SMTT(30), <1>2, <1>5 DEF Process
 <2> QED BY <1>5, <2>1 DEF Process
<1> HIDE DEF heir
<1>7. /\ chain' \in Seq(Process) /\ Len(chain') = n /\ chain'[n - 1] = holder /\ chain'[n] = heir
      /\ \A i \in 1 .. n - 2 : chain'[i] = chain[i]
 <2>1. front \in Seq(Process) /\ Len(front) = n - 2 /\ \A i \in 1 .. n - 2 : front[i] = chain[i] BY <1>2, <1>3
 <2>2. << holder, heir >> \in Seq(Process) /\ Len(<< holder, heir >>) = 2 BY <1>5, <1>6
 <2>3. << holder, heir >>[1] = holder /\ << holder, heir >>[2] = heir OBVIOUS
 <2> DEFINE pair == << holder, heir >>
 <2>4. chain' = front \o pair /\ n \in Nat /\ n > 1 BY <1>1, <1>2, <1>3
 <2>5. pair \in Seq(Process) /\ Len(pair) = 2 /\ pair[1] = holder /\ pair[2] = heir BY <2>2, <2>3
 <2> HIDE DEF pair, front, n
 <2>6. /\ front \o pair \in Seq(Process) /\ Len(front \o pair) = Len(front) + 2
       /\ (front \o pair)[Len(front) + 1] = pair[1] /\ (front \o pair)[Len(front) + 2] = pair[2]
       /\ \A i \in 1 .. Len(front) : (front \o pair)[i] = front[i]
   BY <2>1, <2>5, TwoMore
 <2>7. Len(front) = n - 2 /\ Len(front) + 1 = n - 1 /\ Len(front) + 2 = n BY <2>1, <2>4
 <2> QED BY <2>1, <2>4, <2>5, <2>6, <2>7
<1> HIDE DEF n, front
<1>8. /\ DOMAIN chain' = 1 .. n /\ chain' # << >> /\ Top' = chain'[n] /\ Parent' = chain'[n - 1]
      /\ \A i \in 1 .. n : i = n \/ i = n - 1 \/ i \in 1 .. n - 2
  BY <1>2, <1>7 DEF Top, Parent
<1>9. ASSUME NEW i \in 1 .. n
      PROVE  chain'[i].pid = chain[i].pid /\ (chain'[i].alive <=> chain[i].alive)
             /\ (i < n => chain'[i].depth = chain[i].depth)
 <2>1. CASE i = n
  <3>1. chain'[i].pid = chain[i].pid BY <1>2, <1>6, <1>7, <2>1
  <3>2. chain'[i].alive /\ chain[i].alive BY <1>2, <1>3, <1>6, <1>7, <2>1
  <3>3. ~(i < n) BY <1>2, <2>1
  <3> QED BY <3>1, <3>2, <3>3
 <2>2. CASE i = n - 1 BY <1>2, <1>3, <1>5, <1>7, <2>2
 <2>3. CASE i \in 1 .. n - 2 BY <1>7, <2>3
 <2> QED BY <1>8, <2>1, <2>2, <2>3
<1>10. Live' = Live BY <1>2, <1>8, <1>9 DEF Live
<1>11. PlanTyped'
 <2>1. /\ phase' \in PlanPhases /\ slots' \in Checkpoints /\ world'.goal \in Nat \ {0}
       /\ rootVerdict' \in Int /\ phase' # "prefix" /\ phase' # "over"
   BY <1>1 DEF PlanInv, PlanTyped, PlanPhases
 <2>2. /\ tape'.path \in Seq(Moves) /\ tape' = [outcome |-> tape'.outcome, path |-> tape'.path]
       /\ code' \in Codes
   BY <1>1 DEF PlanInv, PlanTyped, Codes
 <2> QED BY <1>7, <1>8, <2>1, <2>2 DEF PlanTyped, Codes
<1>12. Lineage'
 <2>1. \A i \in 1 .. Len(chain') - 1 : chain'[i].depth = i
  <3>1. \A i \in 1 .. Len(chain) - 1 : chain[i].depth = i BY DEF PlanInv, Lineage
  <3>2. \A i \in 1 .. Len(chain') - 1 : i \in 1 .. n /\ i < n /\ i \in 1 .. Len(chain) - 1 BY <1>2, <1>7 DEF n
  <3> QED BY <1>9, <3>1, <3>2
 <2>2. Top'.depth = Len(chain') - 1 /\ Top'.alive /\ HasParent'
  <3>1. Top'.depth = n - 1 /\ Top'.alive BY <1>3, <1>4, <1>6, <1>7, <1>8
  <3>2. Parent'.alive BY <1>3, <1>5, <1>7, <1>8
  <3> QED BY <1>3, <1>7, <3>1, <3>2 DEF HasParent
 <2>3. \A i, j \in Live' : chain'[i].pid = chain'[j].pid => i = j
  <3>1. \A i, j \in Live : chain[i].pid = chain[j].pid => i = j BY DEF PlanInv, Lineage
  <3>2. \A i \in Live' : i \in Live /\ chain'[i].pid = chain[i].pid BY <1>2, <1>9, <1>10 DEF Live
  <3> QED BY <3>1, <3>2, Zenon
 <2>4. \A i \in Live' : i >= Oldest'
  <3>1. Oldest' = Oldest BY <1>1, <1>7 DEF Oldest, n
  <3> QED BY <1>10, <3>1 DEF PlanInv, Lineage
 <2>5. \A i \in Live' : i .. Len(chain') \subseteq Live' BY <1>7, <1>10 DEF PlanInv, Lineage, n
 <2> QED BY <2>1, <2>2, <2>3, <2>4, <2>5 DEF Lineage
<1>13. Registered'
 <2> SUFFICES ASSUME NEW i \in 1 .. Len(chain') - 1, Entered(i)'
              PROVE  IF chain'[i].alive THEN SlotOf(i) = [pid |-> chain'[i].pid, depth |-> i, released |-> FALSE]
                     ELSE SlotOf(i).depth = i => SlotOf(i).released
   BY <1>1 DEF Registered, SlotOf
 <2>1. i \in 1 .. Len(chain) - 1 /\ i \in 1 .. n BY <1>2, <1>7 DEF n
 <2>2. Entered(i) BY <1>1, <1>7 DEF Entered, n
 <2> QED BY <1>9, <2>1, <2>2 DEF PlanInv, Registered
<1>14. Committed'
 <2>1. ~Rejected /\ ~Rejected' BY <1>1, CodesDiffer DEF Rejected
 <2>2. \A i \in DOMAIN chain' : \E j \in 1 .. n - 1 : chain'[i].path = chain[j].path
  <3>1. n - 1 \in 1 .. n - 1 /\ \A i \in 1 .. n - 2 : i \in 1 .. n - 1 BY <1>2, <1>3
  <3>2. chain'[n].path = chain[n - 1].path /\ chain'[n - 1].path = chain[n - 1].path BY <1>3, <1>5, <1>6, <1>7
  <3> QED BY <1>7, <1>8, <3>1, <3>2
 <2>3. ~Dead(tape.path) /\ \A j \in 1 .. n - 1 : ~Dead(chain[j].path) /\ Len(chain[j].path) < world.goal
  <3>1. \A j \in 1 .. n - 1 : j \in DOMAIN chain BY <1>2
  <3>2. ~Dead(tape.path) /\ \A j \in DOMAIN chain : ~Dead(chain[j].path) BY <2>1 DEF PlanInv, Committed
  <3>3. \A j \in 1 .. n - 1 : Len(chain[j].path) < world.goal BY <1>3 DEF PlanInv, Committed, n
  <3> QED BY <3>1, <3>2, <3>3
 <2>4. \A i \in DOMAIN chain' : ~Dead(chain'[i].path) /\ Len(chain'[i].path) < world.goal BY <2>2, <2>3
 <2>5. ~Dead(tape.path)' /\ \A i \in DOMAIN chain' : ~Dead(chain[i].path)' BY <1>1, <2>3, <2>4 DEF Dead
 <2>6. \A i \in 1 .. Len(chain') - 1 : Len(chain'[i].path) < world'.goal
  <3>1. \A i \in 1 .. Len(chain') - 1 : i \in DOMAIN chain' BY <1>2, <1>7, <1>8
  <3>2. world' = world BY <1>1
  <3> QED BY <2>4, <3>1, <3>2
 <2> QED BY <1>1, <2>1, <2>4, <2>5, <2>6 DEF Committed
<1>15. Concluded' BY <1>1 DEF PlanInv, Concluded
<1> QED BY <1>11, <1>12, <1>13, <1>14, <1>15 DEF PlanInv

\* The parent of the process that exits exits too.
LEMMA PassStep == ASSUME PlanInv, PassUp PROVE PlanInv'
<1> DEFINE n == Len(chain)
<1>1. /\ phase = "exit" /\ phase' = "exit" /\ HasParent /\ chain # << >> /\ chain' = Front(chain)
      /\ code' = (IF code = kSignalled THEN kRuntimeError ELSE code) /\ world' = world
      /\ window' = window /\ slots' = slots /\ tape' = tape /\ rootVerdict' = rootVerdict
  BY DEF PassUp, PlanInv, PlanTyped
<1>2. n \in Nat \ {0} /\ chain \in Seq(Process) /\ DOMAIN chain = 1 .. n BY <1>1, TheTop DEF PlanInv, PlanTyped
<1>3. n > 1 /\ chain[n - 1].alive BY <1>1 DEF HasParent, Parent
<1>4. /\ chain' \in Seq(Process) /\ Len(chain') = n - 1 /\ \A i \in 1 .. n - 1 : chain'[i] = chain[i]
  BY <1>1, <1>2, <1>3 DEF Front
<1> HIDE DEF n
<1>5. DOMAIN chain' = 1 .. n - 1 /\ chain' # << >> /\ Top' = chain'[n - 1] /\ n - 1 \in 1 .. n - 1
  BY <1>2, <1>3, <1>4 DEF Top
<1>6. code' \in Codes /\ ~Rejected /\ ~Rejected'
 <2>1. code \in Codes /\ kRuntimeError \in Codes BY DEF PlanInv, PlanTyped, Codes
 <2>2. ~Rejected BY <1>2, <1>3 DEF PlanInv, Committed, n
 <2>3. code' \in Codes BY <1>1, <2>1
 <2>4. code' # kPrefixRejected BY <1>1, <2>2, CodesDiffer DEF Rejected
 <2> QED BY <2>2, <2>3, <2>4 DEF Rejected
<1>7. Live' = Live \ {n} /\ Live \subseteq 1 .. n BY <1>2, <1>4, <1>5 DEF Live
<1>8. PlanTyped'
 <2>1. /\ phase' \in PlanPhases /\ slots' \in Checkpoints /\ world'.goal \in Nat \ {0}
       /\ rootVerdict' \in Int /\ phase' # "prefix" /\ phase' # "over"
       /\ tape'.path \in Seq(Moves) /\ tape' = [outcome |-> tape'.outcome, path |-> tape'.path]
   BY <1>1 DEF PlanInv, PlanTyped, PlanPhases
 <2> QED BY <1>4, <1>5, <1>6, <2>1 DEF PlanTyped, Codes
<1>9. Lineage'
 <2>1. \A i \in 1 .. Len(chain') - 1 : chain'[i].depth = i
  <3>1. \A i \in 1 .. n - 1 : chain[i].depth = i BY DEF PlanInv, Lineage, n
  <3>2. \A i \in 1 .. Len(chain') - 1 : i \in 1 .. n - 1 BY <1>2, <1>4
  <3> QED BY <1>4, <3>1, <3>2
 <2>2. Top'.alive BY <1>3, <1>4, <1>5
 <2>3. \A i, j \in Live' : chain'[i].pid = chain'[j].pid => i = j
  <3>1. \A i, j \in Live : chain[i].pid = chain[j].pid => i = j BY DEF PlanInv, Lineage
  <3>2. \A i \in Live' : i \in Live /\ i \in 1 .. n - 1 BY <1>2, <1>7
  <3> QED BY <1>4, <3>1, <3>2
 <2>4. \A i \in Live' : i >= Oldest'
  <3>1. Oldest' = (n - 1) - Keep - 1 /\ Oldest = n - Keep - 1 BY <1>1, <1>4 DEF Oldest, n
  <3>2. \A i \in Live : i >= Oldest /\ i \in Int BY <1>7 DEF PlanInv, Lineage
  <3>3. n \in Int /\ Keep \in Int BY <1>2, PlanNumbers
  <3> QED BY <1>7, <3>1, <3>2, <3>3
 <2>5. \A i \in Live' : i .. Len(chain') \subseteq Live'
  <3>1. \A i \in Live : i .. n \subseteq Live BY DEF PlanInv, Lineage, n
  <3> QED BY <1>2, <1>4, <1>7, <3>1
 <2> QED BY <1>1, <2>1, <2>2, <2>3, <2>4, <2>5 DEF Lineage
<1>10. Registered'
 <2> SUFFICES ASSUME NEW i \in 1 .. Len(chain') - 1, Entered(i)'
              PROVE  IF chain'[i].alive THEN SlotOf(i) = [pid |-> chain'[i].pid, depth |-> i, released |-> FALSE]
                     ELSE SlotOf(i).depth = i => SlotOf(i).released
   BY <1>1 DEF Registered, SlotOf
 <2>1. i \in 1 .. n - 1 /\ Entered(i) BY <1>1, <1>2, <1>4 DEF Entered, n
 <2> QED BY <1>4, <2>1 DEF PlanInv, Registered, n
<1>11. Committed'
 <2>1. ~Dead(tape.path) /\ \A i \in 1 .. n : ~Dead(chain[i].path) BY <1>2, <1>6 DEF PlanInv, Committed
 <2>2. \A i \in DOMAIN chain' : i \in 1 .. n - 1 /\ i \in 1 .. n BY <1>2, <1>5
 <2>3. \A i \in DOMAIN chain' : ~Dead(chain'[i].path) BY <1>4, <2>1, <2>2
 <2>4. ~Dead(tape.path)' /\ \A i \in DOMAIN chain' : ~Dead(chain[i].path)' BY <1>1, <2>1, <2>3 DEF Dead
 <2>5. \A i \in 1 .. n - 1 : Len(chain[i].path) < world.goal BY <1>3 DEF PlanInv, Committed, n
 <2>6. \A i \in 1 .. Len(chain') - 1 : Len(chain'[i].path) < world'.goal BY <1>1, <1>2, <1>4, <2>5
 <2> QED BY <1>1, <1>6, <2>4, <2>6 DEF Committed
<1>12. Concluded'
 <2>1. /\ code = kOk => Verified(tape.path)
       /\ code \in {kBacktrack, kBudget} => Len(tape.path) < world.goal
       /\ rootVerdict = -1
   BY <1>1 DEF PlanInv, Concluded
 <2>2. code' \in {kOk, kBacktrack, kBudget} => code' = code BY <1>1, CodesDiffer
 <2>3. Verified(tape.path) => Verified(tape.path)' BY <1>1 DEF Verified, Dead
 <2> QED BY <1>1, <2>1, <2>2, <2>3 DEF Concluded
<1> QED BY <1>8, <1>9, <1>10, <1>11, <1>12 DEF PlanInv

\* The root names the code that reaches it.
LEMMA VerdictStep == ASSUME PlanInv, Verdict PROVE PlanInv'
<1>1. /\ phase = "exit" /\ phase' = "over" /\ chain' = << >> /\ rootVerdict' = Reaping(code) /\ world' = world
      /\ slots' = slots /\ code' = code /\ tape' = [tape EXCEPT !.outcome = Named(rootVerdict')]
  BY DEF Verdict
<1>2. rootVerdict = -1 /\ code \in Codes BY <1>1 DEF PlanInv, Concluded, PlanTyped, Codes
<1>3. /\ rootVerdict' \in Int /\ (rootVerdict' = code \/ rootVerdict' = kRuntimeError)
      /\ (code = kPrefixRejected => rootVerdict' = kPrefixRejected)
  BY <1>1, <1>2, CodesDiffer DEF Reaping, Codes
<1>4. /\ Named(rootVerdict') = "complete" => rootVerdict' = kOk
      /\ Named(rootVerdict') = "exhausted" => rootVerdict' = kBacktrack
      /\ Named(rootVerdict') = "budget" => rootVerdict' = kBudget
      /\ rootVerdict' = kPrefixRejected => Named(rootVerdict') = "prefix_rejected"
  BY CodesDiffer DEF Named
<1>5. tape'.path = tape.path /\ tape'.outcome = Named(rootVerdict') /\ tape' = [outcome |-> tape'.outcome, path |-> tape'.path]
 <2>1. tape = [outcome |-> tape.outcome, path |-> tape.path] BY DEF PlanInv, PlanTyped
 <2>2. tape' = [outcome |-> Named(rootVerdict'), path |-> tape.path] BY <1>1, <2>1
 <2> QED BY <2>2
<1>6. DOMAIN chain' = {} /\ Len(chain') = 0 /\ chain' \in Seq(Process) /\ 1 .. Len(chain') - 1 = {} BY <1>1
<1>7. PlanTyped'
 <2>1. phase' \in PlanPhases /\ slots' \in Checkpoints /\ world'.goal \in Nat \ {0} /\ tape'.path \in Seq(Moves)
       /\ phase' # "prefix"
   BY <1>1, <1>5 DEF PlanInv, PlanTyped, PlanPhases
 <2> QED BY <1>1, <1>2, <1>3, <1>5, <1>6, <2>1 DEF PlanTyped, Codes
<1>8. Live' = {} BY <1>6 DEF Live
<1>9. Lineage' /\ Registered' BY <1>1, <1>6, <1>8 DEF Lineage, Registered
<1>10. Committed'
 <2>1. ~Rejected => ~Dead(tape.path)' BY <1>1, <1>5 DEF PlanInv, Committed, Dead
 <2>2. Rejected' <=> Rejected BY <1>1 DEF Rejected
 <2>3. Rejected' => tape'.outcome = "prefix_rejected" BY <1>3, <1>4, <1>5, <2>2 DEF Rejected
 <2> QED BY <1>1, <1>6, <2>1, <2>2, <2>3 DEF Committed
<1>11. Concluded'
 <2>1. /\ code = kOk => Verified(tape.path)
       /\ code \in {kBacktrack, kBudget} => Len(tape.path) < world.goal
   BY <1>1 DEF PlanInv, Concluded
 <2>2. tape'.outcome = "complete" => code = kOk BY <1>3, <1>4, <1>5, CodesDiffer
 <2>3. tape'.outcome \in {"exhausted", "budget"} => code \in {kBacktrack, kBudget}
   BY <1>3, <1>4, <1>5, CodesDiffer
 <2>4. Verified(tape.path) => Verified(tape.path)' BY <1>1, <1>5 DEF Verified, Dead
 <2> QED BY <1>1, <1>5, <2>1, <2>2, <2>3, <2>4 DEF Concluded
<1> QED BY <1>7, <1>9, <1>10, <1>11 DEF PlanInv

LEMMA PlanBegin == PlanInit => PlanInv
<1> SUFFICES ASSUME PlanInit PROVE PlanInv OBVIOUS
<1>1. /\ world \in Worlds /\ chain = << Worker(1) >> /\ phase = "prefix"
      /\ slots = [s \in 0 .. HolderSlots - 1 |-> [pid |-> 0, depth |-> 0, released |-> FALSE]]
      /\ tape = [outcome |-> "none", path |-> << >>] /\ code = 0 /\ rootVerdict = -1
  BY DEF PlanInit
<1>2. /\ Worker(1) \in Process /\ Worker(1).path = << >> /\ Worker(1).depth = 0 /\ Worker(1).alive
 <2>1. << >> \in Seq(Moves) OBVIOUS
 <2> QED BY <2>1 DEF Worker, Process
<1>3. /\ Len(chain) = 1 /\ chain \in Seq(Process) /\ DOMAIN chain = {1} /\ chain[1] = Worker(1) /\ chain # << >>
 <2> DEFINE w == Worker(1)
 <2>1. chain = << w >> /\ w \in Process BY <1>1, <1>2
 <2> HIDE DEF w
 <2>2. Len(chain) = 1 /\ chain \in Seq(Process) /\ DOMAIN chain = 1 .. 1 /\ chain[1] = w BY <2>1
 <2>3. chain # << >> BY <2>2
 <2> QED BY <2>2, <2>3 DEF w
<1>4. world.goal \in Nat \ {0} BY <1>1, PlanAssumption DEF PlanAssumption
<1>5. PlanTyped
 <2>1. slots \in Checkpoints BY <1>1 DEF Checkpoints
 <2>2. tape.path \in Seq(Moves) /\ tape = [outcome |-> tape.outcome, path |-> tape.path] BY <1>1
 <2>3. phase \in PlanPhases /\ phase # "over" BY <1>1 DEF PlanPhases
 <2>4. code \in Codes /\ rootVerdict \in Int BY <1>1, CodesDiffer DEF Codes
 <2> QED BY <1>3, <1>4, <2>1, <2>2, <2>3, <2>4 DEF PlanTyped, Codes
<1>6. Live = {1} /\ Top = Worker(1) BY <1>2, <1>3 DEF Live, Top
<1>7. Lineage
 <2>1. Oldest <= 0 /\ Oldest \in Int BY <1>1, <1>3, PlanNumbers DEF Oldest
 <2>2. 1 .. Len(chain) - 1 = {} /\ 1 .. Len(chain) = {1} BY <1>3
 <2>3. phase # "fork" BY <1>1
 <2>4. Top.depth = Len(chain) - 1 /\ Top.alive BY <1>2, <1>3, <1>6
 <2>5. \A i \in Live : i >= Oldest /\ i .. Len(chain) \subseteq Live BY <1>6, <2>1, <2>2
 <2>6. \A i, j \in Live : i = j BY <1>6
 <2> QED BY <2>2, <2>3, <2>4, <2>5, <2>6 DEF Lineage
<1>8. Registered BY <1>3 DEF Registered
<1>9. Committed
 <2>1. ~Rejected BY <1>1, CodesDiffer DEF Rejected
 <2>2. tape.path = << >> /\ \A i \in DOMAIN chain : chain[i].path = << >> BY <1>1, <1>2, <1>3
 <2>3. ~Dead(tape.path) /\ \A i \in DOMAIN chain : ~Dead(chain[i].path) BY <2>2, NotDeadYet
 <2>4. \A i \in DOMAIN chain : Len(chain[i].path) < world.goal BY <1>4, <2>2
 <2>5. ~(Len(chain) > 1) /\ phase # "commit" BY <1>1, <1>3
 <2> QED BY <2>1, <2>3, <2>4, <2>5 DEF Committed
<1>10. Concluded BY <1>1 DEF Concluded
<1> QED BY <1>5, <1>7, <1>8, <1>9, <1>10 DEF PlanInv

LEMMA PlanMove == ASSUME PlanInv, [PlanNext]_planVars PROVE PlanInv'
<1>1. CASE OverBudget \/ Stuck \/ WorkerFails \/ WorkerDies BY <1>1, WorkerLeaves
<1>2. CASE CommitWindow \/ Checkpoint \/ Register BY <1>2, CommitStep, CheckpointStep, RegisterStep
<1>3. CASE Retry \/ PassUp \/ Verdict BY <1>3, RetryStep, PassStep, VerdictStep
<1>4. CASE TimePasses BY <1>4, PlanIdles DEF TimePasses
<1>5. CASE UNCHANGED planVars BY <1>5, PlanIdles DEF planVars
<1>6. CASE \E plan \in Plans : Accept(plan) BY <1>6, AcceptStep
<1>7. CASE \E given \in GivenPrefixes : ReplayPrefix(given) BY <1>7, PrefixStep
<1> QED BY <1>1, <1>2, <1>3, <1>4, <1>5, <1>6, <1>7 DEF PlanNext

\* The chain of processes, the table of checkpoints and what has been
\* committed agree in every state of a search, for every game, number of
\* checkpoints kept and number of attempts.
THEOREM PlanInvariance == PlanSpec => []PlanInv
<1>1. PlanInit => PlanInv BY PlanBegin
<1>2. PlanInv /\ [PlanNext]_planVars => PlanInv' BY PlanMove
<1> QED BY <1>1, <1>2, PTL DEF PlanSpec

\* A release reaches the oldest live holder and no other, however often
\* pids and slots were reused; the tape never holds an input the player
\* dies of unless a given prefix does; and the outcome that reaches the
\* root is that of this very tape (tools/plan.cpp).
THEOREM PlanHonest == PlanSpec => []HonestPlan
<1>1. PlanInv => HonestPlan
 <2> SUFFICES ASSUME PlanInv PROVE HonestPlan OBVIOUS
 <2>1. \A i \in Live : i .. Len(chain) \subseteq Live BY DEF PlanInv, Lineage
 <2>2. ASSUME phase = "work" PROVE Cardinality(Live) <= Keep + 1
  <3> DEFINE n == Len(chain)
             R == n - Keep .. n
  <3>1. n \in Nat \ {0} /\ DOMAIN chain = 1 .. n BY <2>2, TheTop DEF PlanInv, PlanTyped
  <3>2. Live \subseteq R
   <4>1. \A i \in Live : i \in 1 .. n /\ i >= n - Keep BY <2>2, <3>1 DEF PlanInv, Lineage, Oldest, Live
   <4> QED BY <3>1, <4>1, PlanNumbers
  <3>3. n - Keep \in Int /\ n \in Int /\ n - (n - Keep) + 1 = Keep + 1 /\ ~(n - Keep > n) BY <3>1, PlanNumbers
  <3>4. IsFiniteSet(R) /\ Cardinality(R) = IF n - Keep > n THEN 0 ELSE n - (n - Keep) + 1 BY <3>3, FS_Interval
  <3>5. Cardinality(R) = Keep + 1 BY <3>3, <3>4
  <3> HIDE DEF R
  <3>6. Live \in SUBSET R BY <3>2
  <3> QED BY <3>4, <3>5, <3>6, FS_Subset
 <2>3. tape.outcome # "prefix_rejected" /\ code # kPrefixRejected => ~Dead(tape.path)
   BY DEF PlanInv, Committed, Rejected
 <2>4. phase = "over" =>
         /\ tape.outcome = "complete" => Verified(tape.path)
         /\ tape.outcome \in {"exhausted", "budget"} => Len(tape.path) < world.goal
   BY DEF PlanInv, Concluded
 <2> QED BY <2>1, <2>2, <2>3, <2>4 DEF HonestPlan, HoldersKept
<1> QED BY <1>1, PlanInvariance, PTL
----
(***************************************************************************)
(* The runs of the native game and the probe that makes nine of them.      *)
(***************************************************************************)
Headings == Compass \union {-1} \union {CompassOrder[i] : i \in Nat}
Presses == [move : Headings, shot : BOOLEAN, confirm : BOOLEAN]
Tapes == Seq(Presses)
Asks == [spell : Int, limit : Nat, prefix : Nat, shoot : {"default", "yes", "no"}, identity : BOOLEAN,
         replay : BOOLEAN, resume : BOOLEAN, unused : BOOLEAN, tape : Tapes]
Sights == [frame : Nat, place : Nat, hit : BOOLEAN, active : BOOLEAN]
Rows == [before : Sights, action : Presses, after : Sights]
Digests == Seq(Sights \X Presses)
RunOutcomes == {"frame_limit", "tape_end", "collision", "complete", "retry_menu"}
RunPhases == {"playing", "ended"}
Traces == Seq(Rows)
Runs == [phase : RunPhases, asked : Asks, tape : Tapes, outcome : RunOutcomes,
         digest : Digests, previous : Digests, prefix : Digests, started : BOOLEAN,
         firstHit : Nat, rows : Traces, slot : Nat, kept : Nat]
Reports == [asked : Asks, exit : {0, 2}, outcome : RunOutcomes, frames : Nat, tape : Tapes,
            digest : Digests, previous : Digests, prefix : Digests, firstHit : Nat, unused : Nat,
            trace : Seq(Rows)]
FailedRuns == [asked : Asks, exit : {1, Signalled}]

\* The ring of the trace: its newest rows, each at its place.
RowAt(t, i) == [before |-> Seen(SubSeq(t, 1, i - 1)), action |-> t[i], after |-> Seen(SubSeq(t, 1, i))]
Newest(n) == IF n < TraceRows THEN n ELSE TraceRows
Ring(r) ==
    LET n == Len(r.tape)
    IN  /\ r.kept = Newest(n) /\ Len(r.rows) = Newest(n) /\ r.slot = n % TraceRows
        /\ \A i \in 1 .. n : n - i < Newest(n) => r.rows[((i - 1) % TraceRows) + 1] = RowAt(r.tape, i)

\* What a run has come to: no update before its last one ended it, and
\* the last one did what the outcome says.
Judged(r) ==
    LET n == Len(r.tape)
    IN  r.outcome = IF Hit(r.tape) THEN "collision" ELSE IF Completed(r, n) THEN "complete"
                    ELSE IF RetryMenu(r.tape) THEN "retry_menu"
                    ELSE IF r.outcome = "tape_end" THEN "tape_end" ELSE "frame_limit"
Halted(r) ==
    LET n == Len(r.tape)
    IN  /\ n > 0 /\ Judged(r) /\ r.firstHit = (IF Hit(r.tape) THEN n ELSE 0)
        /\ r.outcome = "frame_limit" => n = r.asked.limit
        /\ r.outcome = "tape_end" => r.asked.replay /\ n = Len(r.asked.tape)
Playing(r) ==
    /\ r.outcome = "frame_limit" /\ r.firstHit = 0
    /\ Len(r.tape) > 0 => ~Ended(r, Len(r.tape))
Along(r) ==
    LET n == Len(r.tape)
    IN  /\ ~Refuses(r.asked) /\ n <= r.asked.limit
        /\ \A k \in 1 .. n - 1 : ~Ended(r, k)
        /\ Begun(r.tape, n) /\ r.asked.spell >= 0 => scene.spell = r.asked.spell
        /\ r.asked.replay => IsPrefix(r.tape, r.asked.tape)
        /\ r.asked.resume => IsPrefix(r.tape, r.asked.tape) \/ IsPrefix(r.asked.tape, r.tape)
Digested(r) ==
    LET n == Len(r.tape)
    IN  /\ r.digest = Updates(r.tape) /\ r.previous = Front(r.digest)
        /\ r.prefix = IF n >= r.asked.prefix THEN SubSeq(r.digest, 1, r.asked.prefix) ELSE << >>
RunInv(r) ==
    /\ r \in Runs /\ Along(r) /\ Digested(r) /\ Ring(r)
    /\ r.started = Begun(r.tape, Len(r.tape))
    /\ r.phase = "playing" => Playing(r)
    /\ r.phase = "ended" => Halted(r)

----
LEMMA HeadlessNumbers ==
  /\ TraceRows \in Nat \ {0} /\ FirstOptions \subseteq RunOptions /\ TapeOptions \subseteq RunOptions
  /\ Probes \subseteq [frame : Nat, through : Nat]
BY HeadlessAssumption

\* Remainders.
LEMMA ModUnique ==
  ASSUME NEW R \in Nat \ {0}, NEW q \in Int, NEW x \in 0 .. R - 1
  PROVE  (R * q + x) % R = x
<1> DEFINE a == R * q + x
           d == a \div R
           m == a % R
<1>1. a \in Int /\ d \in Int /\ m \in 0 .. R - 1 /\ a = R * d + m OBVIOUS
<1> HIDE DEF d, m
<1>2. R * (q - d) = m - x BY <1>1
<1>3. q - d \in Int /\ m - x < R /\ m - x > -R BY <1>1
<1>4. CASE q - d >= 1
 <2>1. R * (q - d) >= R BY <1>3, <1>4
 <2> QED BY <1>2, <1>3, <2>1
<1>5. CASE q - d <= -1
 <2>1. R * (q - d) <= -R BY <1>3, <1>5
 <2> QED BY <1>2, <1>3, <2>1
<1>6. CASE q - d = 0
 <2>1. R * (q - d) = 0 BY <1>6
 <2>2. m = x BY <1>1, <1>2, <2>1
 <2> QED BY <2>2 DEF m
<1> QED BY <1>3, <1>4, <1>5, <1>6

LEMMA ModAlike ==
  ASSUME NEW R \in Nat \ {0}, NEW a \in Int, NEW q \in Int
  PROVE  (a + R * q) % R = a % R
<1> DEFINE d == a \div R
           m == a % R
<1>1. d \in Int /\ m \in 0 .. R - 1 /\ a = R * d + m OBVIOUS
<1> HIDE DEF d, m
<1>2. a + R * q = R * (d + q) + m BY <1>1
<1>3. d + q \in Int BY <1>1
<1>4. (R * (d + q) + m) % R = m BY <1>1, <1>3, ModUnique
<1> QED BY <1>2, <1>4 DEF m

LEMMA ModApart ==
  ASSUME NEW R \in Nat \ {0}, NEW a \in Int, NEW b \in Int, 0 < b - a, b - a < R
  PROVE  a % R # b % R
<1> SUFFICES ASSUME a % R = b % R PROVE FALSE OBVIOUS
<1> DEFINE d == a \div R
           e == b \div R
           m == a % R
<1>1. d \in Int /\ e \in Int /\ m \in 0 .. R - 1 /\ a = R * d + m /\ b = R * e + m OBVIOUS
<1> HIDE DEF d, e, m
<1>2. b - a = R * (e - d) /\ e - d \in Int BY <1>1
<1>3. CASE e - d >= 1
 <2>1. R * (e - d) >= R BY <1>2, <1>3
 <2> QED BY <1>2, <2>1
<1>4. CASE e - d <= 0
 <2>1. R * (e - d) <= 0 BY <1>2, <1>4
 <2> QED BY <1>2, <2>1
<1> QED BY <1>2, <1>3, <1>4

LEMMA ModRange ==
  ASSUME NEW R \in Nat \ {0}, NEW a \in Int
  PROVE  a % R \in 0 .. R - 1 /\ a \div R \in Int /\ a = R * (a \div R) + (a % R)
<1> DEFINE d == a \div R
           m == a % R
<1>1. d \in Int /\ m \in 0 .. R - 1 /\ a = R * d + m OBVIOUS
<1> HIDE DEF d, m
<1>2. m \in 0 .. R - 1 /\ d \in Int /\ a = R * d + m BY <1>1
<1> QED BY <1>2 DEF d, m

LEMMA ModSmall == ASSUME NEW R \in Nat \ {0}, NEW x \in 0 .. R - 1 PROVE x % R = x
OBVIOUS

----
\* Tapes and their beginnings.
LEMMA TapeCut ==
  ASSUME NEW t \in Tapes, NEW k \in 0 .. Len(t)
  PROVE  /\ SubSeq(t, 1, k) \in Tapes /\ Len(SubSeq(t, 1, k)) = k
         /\ \A i \in 1 .. k : SubSeq(t, 1, k)[i] = t[i]
<1>1. Len(t) \in Nat /\ \A i \in 1 .. k : t[i] \in Presses BY DEF Tapes
<1>2. k \in Int BY <1>1
<1> QED BY <1>1, <1>2, SubSeqProperties DEF Tapes

LEMMA CutOfCut ==
  ASSUME NEW t \in Tapes, NEW n \in 0 .. Len(t), NEW k \in 0 .. n
  PROVE  SubSeq(SubSeq(t, 1, n), 1, k) = SubSeq(t, 1, k)
<1> DEFINE u == SubSeq(t, 1, n)
<1>0. Len(t) \in Nat /\ k \in 0 .. Len(t) BY DEF Tapes
<1>1. u \in Tapes /\ Len(u) = n /\ \A i \in 1 .. n : u[i] = t[i] BY TapeCut
<1>2. /\ SubSeq(t, 1, k) \in Tapes /\ Len(SubSeq(t, 1, k)) = k
      /\ \A i \in 1 .. k : SubSeq(t, 1, k)[i] = t[i]
  BY <1>0, TapeCut
<1> HIDE DEF u
<1>3. /\ SubSeq(u, 1, k) \in Tapes /\ Len(SubSeq(u, 1, k)) = k
      /\ \A i \in 1 .. k : SubSeq(u, 1, k)[i] = u[i]
  BY <1>1, TapeCut
<1>4. \A i \in 1 .. k : SubSeq(u, 1, k)[i] = SubSeq(t, 1, k)[i] BY <1>1, <1>2, <1>3
<1>5. SubSeq(u, 1, k) = SubSeq(t, 1, k) BY <1>2, <1>3, <1>4, SeqEqual DEF Tapes
<1> QED BY <1>5 DEF u

LEMMA CutWhole == ASSUME NEW t \in Tapes PROVE SubSeq(t, 1, Len(t)) = t
BY SubSeqFull DEF Tapes

LEMMA TapeGrown ==
  ASSUME NEW t \in Tapes, NEW a \in Presses
  PROVE  LET u == Append(t, a)
         IN  /\ u \in Tapes /\ Len(u) = Len(t) + 1 /\ u[Len(t) + 1] = a
             /\ \A k \in 0 .. Len(t) : SubSeq(u, 1, k) = SubSeq(t, 1, k)
             /\ \A k \in 1 .. Len(t) : u[k] = t[k]
             /\ SubSeq(u, 1, Len(t) + 1) = u
<1> DEFINE u == Append(t, a)
<1>1. /\ u \in Tapes /\ Len(u) = Len(t) + 1 /\ u[Len(t) + 1] = a
      /\ \A k \in 1 .. Len(t) : u[k] = t[k]
  BY AppendProperties DEF Tapes
<1>2. Len(t) \in Nat BY DEF Tapes
<1> HIDE DEF u
<1>3. ASSUME NEW k \in 0 .. Len(t) PROVE SubSeq(u, 1, k) = SubSeq(t, 1, k)
 <2>1. k \in 0 .. Len(u) BY <1>1, <1>2
 <2>2. /\ SubSeq(u, 1, k) \in Tapes /\ Len(SubSeq(u, 1, k)) = k
       /\ \A i \in 1 .. k : SubSeq(u, 1, k)[i] = u[i]
   BY <1>1, <2>1, TapeCut
 <2>3. /\ SubSeq(t, 1, k) \in Tapes /\ Len(SubSeq(t, 1, k)) = k
       /\ \A i \in 1 .. k : SubSeq(t, 1, k)[i] = t[i]
   BY TapeCut
 <2>4. \A i \in 1 .. k : SubSeq(u, 1, k)[i] = SubSeq(t, 1, k)[i] BY <1>1, <1>2, <2>2, <2>3
 <2> QED BY <2>2, <2>3, <2>4, SeqEqual DEF Tapes
<1>4. SubSeq(u, 1, Len(t) + 1) = u BY <1>1, CutWhole
<1> QED BY <1>1, <1>3, <1>4 DEF u

LEMMA PrefixCuts ==
  ASSUME NEW s \in Tapes, NEW t \in Tapes, IsPrefix(s, t)
  PROVE  /\ Len(s) <= Len(t) /\ \A k \in 0 .. Len(s) : SubSeq(s, 1, k) = SubSeq(t, 1, k)
         /\ \A k \in 1 .. Len(s) : s[k] = t[k]
<1>1. Len(s) \in Nat /\ Len(t) \in Nat /\ Len(s) <= Len(t)
      /\ SubSeq(s, 1, Len(s)) = SubSeq(t, 1, Len(s))
  BY DEF IsPrefix, Tapes
<1>2. s = SubSeq(t, 1, Len(s)) BY <1>1, CutWhole
<1>3. Len(s) \in 0 .. Len(t) BY <1>1
<1>4. ASSUME NEW k \in 0 .. Len(s) PROVE SubSeq(s, 1, k) = SubSeq(t, 1, k) BY <1>2, <1>3, CutOfCut
<1>5. ASSUME NEW k \in 1 .. Len(s) PROVE s[k] = t[k] BY <1>2, <1>3, TapeCut
<1> QED BY <1>1, <1>4, <1>5

LEMMA CutIsPrefix ==
  ASSUME NEW s \in Tapes, NEW t \in Tapes, NEW n \in 0 .. Len(t), s = SubSeq(t, 1, n)
  PROVE  Len(s) = n /\ IsPrefix(s, t)
<1>1. Len(s) = n /\ Len(t) \in Nat BY TapeCut DEF Tapes
<1>2. SubSeq(s, 1, Len(s)) = SubSeq(t, 1, Len(s)) BY <1>1, CutWhole
<1> QED BY <1>1, <1>2 DEF IsPrefix

LEMMA NextCut ==
  ASSUME NEW t \in Tapes, NEW u \in Tapes, IsPrefix(t, u), Len(t) < Len(u)
  PROVE  Append(t, u[Len(t) + 1]) = SubSeq(u, 1, Len(t) + 1)
<1> DEFINE n == Len(t)
           a == u[n + 1]
<1>1. n \in Nat /\ Len(u) \in Nat /\ n + 1 \in 1 .. Len(u) BY DEF Tapes
<1>2. a \in Presses BY <1>1 DEF Tapes
<1> HIDE DEF a
<1>3. /\ Append(t, a) \in Tapes /\ Len(Append(t, a)) = n + 1 /\ Append(t, a)[n + 1] = a
      /\ \A k \in 1 .. n : Append(t, a)[k] = t[k]
  BY <1>2, TapeGrown
<1>4. \A k \in 1 .. n : t[k] = u[k] BY PrefixCuts
<1> HIDE DEF n
<1>5. /\ SubSeq(u, 1, n + 1) \in Tapes /\ Len(SubSeq(u, 1, n + 1)) = n + 1
      /\ \A i \in 1 .. n + 1 : SubSeq(u, 1, n + 1)[i] = u[i]
  BY <1>1, TapeCut
<1>6. \A i \in 1 .. n + 1 : Append(t, a)[i] = SubSeq(u, 1, n + 1)[i] BY <1>1, <1>3, <1>4, <1>5 DEF a
<1> QED BY <1>3, <1>5, <1>6, SeqEqual DEF Tapes, a, n

\* What is seen after a tape.
LEMMA SeenTyped == ASSUME NEW t \in Tapes PROVE Seen(t) \in Sights
<1>1. Len(t) \in Nat /\ DOMAIN t = 1 .. Len(t) BY DEF Tapes
<1>2. IsFiniteSet(DOMAIN t) BY <1>1, FS_Interval
<1>3. IsFiniteSet({k \in DOMAIN t : t[k].move = 1}) BY <1>2, FS_Subset
<1>4. Place(t) \in Nat BY <1>3, FS_CardinalityType DEF Place
<1>5. Hit(t) \in BOOLEAN /\ SpellActive(t) \in BOOLEAN BY DEF Hit, SpellActive
<1> QED BY <1>1, <1>4, <1>5 DEF Seen, Sights

\* What ends a run does not look beyond the update it is asked of.
LEMMA EndedAlike ==
  ASSUME NEW r, NEW q, r.asked.spell = q.asked.spell, NEW k \in Nat,
         \A i \in 0 .. k : SubSeq(r.tape, 1, i) = SubSeq(q.tape, 1, i)
  PROVE  /\ Begun(r.tape, k) = Begun(q.tape, k) /\ Completed(r, k) = Completed(q, k)
         /\ Ended(r, k) = Ended(q, k)
<1>1. \A i \in 1 .. k : SubSeq(r.tape, 1, i) = SubSeq(q.tape, 1, i) OBVIOUS
<1>2. SubSeq(r.tape, 1, k) = SubSeq(q.tape, 1, k) OBVIOUS
<1>3. Begun(r.tape, k) = Begun(q.tape, k) BY <1>1 DEF Begun
<1>4. Completed(r, k) = Completed(q, k) BY <1>2, <1>3 DEF Completed
<1>5. Ended(r, k) = Ended(q, k) BY <1>2, <1>4 DEF Ended
<1> QED BY <1>3, <1>4, <1>5

LEMMA BegunGrown ==
  ASSUME NEW t \in Tapes, NEW n \in Nat, n + 1 <= Len(t)
  PROVE  Begun(t, n + 1) = (Begun(t, n) \/ SpellActive(SubSeq(t, 1, n + 1)))
<1>1. \A k \in 1 .. n + 1 : k \in 1 .. n \/ k = n + 1 OBVIOUS
<1>2. 1 .. n \subseteq 1 .. n + 1 /\ n + 1 \in 1 .. n + 1 OBVIOUS
<1> QED BY <1>1, <1>2 DEF Begun

\* The digests of a tape that grows.
LEMMA UpdatesTyped ==
  ASSUME NEW t \in Tapes
  PROVE  /\ Updates(t) \in Digests /\ Len(Updates(t)) = Len(t)
         /\ \A k \in 1 .. Len(t) : Updates(t)[k] = <<Seen(SubSeq(t, 1, k)), t[k]>>
<1>1. Len(t) \in Nat /\ DOMAIN t = 1 .. Len(t) /\ \A k \in 1 .. Len(t) : t[k] \in Presses BY DEF Tapes
<1>2. ASSUME NEW k \in 1 .. Len(t) PROVE <<Seen(SubSeq(t, 1, k)), t[k]>> \in Sights \X Presses
 <2>1. SubSeq(t, 1, k) \in Tapes BY <1>1, TapeCut
 <2>2. Seen(SubSeq(t, 1, k)) \in Sights BY <2>1, SeenTyped
 <2> QED BY <1>1, <2>2
<1>3. Updates(t) = [k \in 1 .. Len(t) |-> <<Seen(SubSeq(t, 1, k)), t[k]>>] BY <1>1 DEF Updates
<1>4. Updates(t) \in [1 .. Len(t) -> Sights \X Presses] BY <1>2, <1>3
<1>5. Updates(t) \in Digests /\ Len(Updates(t)) = Len(t) BY <1>1, <1>4 DEF Digests
<1> QED BY <1>3, <1>5

LEMMA UpdatesGrown ==
  ASSUME NEW t \in Tapes, NEW a \in Presses
  PROVE  LET u == Append(t, a)
         IN  Updates(u) = Hashed(Updates(t), a, Seen(u)) /\ Front(Updates(u)) = Updates(t)
<1> DEFINE u == Append(t, a)
<1>1. /\ u \in Tapes /\ Len(u) = Len(t) + 1 /\ u[Len(t) + 1] = a
      /\ \A k \in 0 .. Len(t) : SubSeq(u, 1, k) = SubSeq(t, 1, k)
      /\ \A k \in 1 .. Len(t) : u[k] = t[k]
      /\ SubSeq(u, 1, Len(t) + 1) = u
  BY TapeGrown
<1>2. Len(t) \in Nat BY DEF Tapes
<1> HIDE DEF u
<1> DEFINE d == Updates(t)
           e == Updates(u)
           x == <<Seen(u), a>>
<1>3. d \in Digests /\ Len(d) = Len(t) /\ \A k \in 1 .. Len(t) : d[k] = <<Seen(SubSeq(t, 1, k)), t[k]>>
  BY UpdatesTyped
<1>4. /\ e \in Digests /\ Len(e) = Len(t) + 1
      /\ \A k \in 1 .. Len(t) + 1 : e[k] = <<Seen(SubSeq(u, 1, k)), u[k]>>
  BY <1>1, UpdatesTyped
<1>5. x \in Sights \X Presses BY <1>1, SeenTyped
<1> HIDE DEF d, e, x
<1> DEFINE S == Sights \X Presses
<1>6. /\ Append(d, x) \in Digests /\ Len(Append(d, x)) = Len(t) + 1
      /\ \A k \in 1 .. Len(t) : Append(d, x)[k] = d[k]
      /\ Append(d, x)[Len(t) + 1] = x
 <2>1. d \in Seq(S) /\ x \in S /\ Digests = Seq(S) BY <1>3, <1>5 DEF Digests
 <2> HIDE DEF S
 <2>2. /\ Append(d, x) \in Seq(S) /\ Len(Append(d, x)) = Len(d) + 1
       /\ \A k \in 1 .. Len(d) : Append(d, x)[k] = d[k]
       /\ Append(d, x)[Len(d) + 1] = x
   BY <2>1, AppendProperties
 <2> QED BY <1>3, <2>1, <2>2
<1>7. ASSUME NEW k \in 1 .. Len(t) PROVE e[k] = d[k]
 <2>1. k \in 0 .. Len(t) /\ k \in 1 .. Len(t) + 1 BY <1>2
 <2>2. SubSeq(u, 1, k) = SubSeq(t, 1, k) /\ u[k] = t[k] BY <1>1, <2>1
 <2> QED BY <1>3, <1>4, <2>1, <2>2
<1>8. e[Len(t) + 1] = x
 <2>1. Len(t) + 1 \in 1 .. Len(t) + 1 BY <1>2
 <2> QED BY <1>1, <1>4, <2>1 DEF x
<1>9. \A k \in 1 .. Len(e) : e[k] = Append(d, x)[k] BY <1>2, <1>4, <1>6, <1>7, <1>8
<1>10. e = Append(d, x) BY <1>4, <1>6, <1>9, SeqEqual DEF Digests
<1>11. Front(e) = d
 <2>1. Front(e) = SubSeq(e, 1, Len(t)) BY <1>2, <1>4 DEF Front
 <2>2. \A k \in 1 .. Len(t) : e[k] \in Sights \X Presses BY <1>2, <1>4 DEF Digests
 <2>3. /\ SubSeq(e, 1, Len(t)) \in Digests /\ Len(SubSeq(e, 1, Len(t))) = Len(t)
       /\ \A k \in 1 .. Len(t) : SubSeq(e, 1, Len(t))[k] = e[k]
   BY <1>2, <2>2, SubSeqProperties DEF Digests
 <2>4. SubSeq(e, 1, Len(t)) = d BY <1>3, <1>7, <2>3, SeqEqual DEF Digests
 <2> QED BY <2>1, <2>4
<1> QED BY <1>10, <1>11 DEF Hashed, d, e, x, u

LEMMA UpdatesAlike ==
  ASSUME NEW s \in Tapes, NEW t \in Tapes, NEW n \in 0 .. Len(s), n \in 0 .. Len(t),
         \A k \in 1 .. n : s[k] = t[k]
  PROVE  SubSeq(Updates(s), 1, n) = SubSeq(Updates(t), 1, n)
<1>1. Len(s) \in Nat /\ Len(t) \in Nat /\ n \in Nat BY DEF Tapes
<1>2. ASSUME NEW k \in 1 .. n PROVE Updates(s)[k] = Updates(t)[k]
 <2>1. k \in 0 .. Len(s) /\ k \in 0 .. Len(t) /\ k \in 1 .. Len(s) /\ k \in 1 .. Len(t) BY <1>1
 <2>2. SubSeq(s, 1, k) \in Tapes /\ Len(SubSeq(s, 1, k)) = k /\ \A i \in 1 .. k : SubSeq(s, 1, k)[i] = s[i]
   BY <2>1, TapeCut
 <2>3. SubSeq(t, 1, k) \in Tapes /\ Len(SubSeq(t, 1, k)) = k /\ \A i \in 1 .. k : SubSeq(t, 1, k)[i] = t[i]
   BY <2>1, TapeCut
 <2>4. \A i \in 1 .. k : SubSeq(s, 1, k)[i] = SubSeq(t, 1, k)[i] BY <1>1, <2>2, <2>3
 <2>5. SubSeq(s, 1, k) = SubSeq(t, 1, k) BY <2>2, <2>3, <2>4, SeqEqual DEF Tapes
 <2>6. /\ Updates(s)[k] = <<Seen(SubSeq(s, 1, k)), s[k]>>
       /\ Updates(t)[k] = <<Seen(SubSeq(t, 1, k)), t[k]>>
   BY <2>1, UpdatesTyped
 <2> QED BY <2>5, <2>6
<1> DEFINE d == Updates(s)
           e == Updates(t)
           S == Sights \X Presses
<1>3. d \in Seq(S) /\ Len(d) = Len(s) /\ e \in Seq(S) /\ Len(e) = Len(t) BY UpdatesTyped DEF Digests
<1>4. \A k \in 1 .. n : d[k] = e[k] BY <1>2
<1> HIDE DEF d, e, S
<1>5. /\ SubSeq(d, 1, n) \in Seq(S) /\ Len(SubSeq(d, 1, n)) = n
      /\ \A k \in 1 .. n : SubSeq(d, 1, n)[k] = d[k]
 <2>1. \A k \in 1 .. n : d[k] \in S BY <1>1, <1>3
 <2> QED BY <1>1, <1>3, <2>1, SubSeqProperties
<1>6. /\ SubSeq(e, 1, n) \in Seq(S) /\ Len(SubSeq(e, 1, n)) = n
      /\ \A k \in 1 .. n : SubSeq(e, 1, n)[k] = e[k]
 <2>1. \A k \in 1 .. n : e[k] \in S BY <1>1, <1>3
 <2> QED BY <1>1, <1>3, <2>1, SubSeqProperties
<1>7. \A k \in 1 .. n : SubSeq(d, 1, n)[k] = SubSeq(e, 1, n)[k] BY <1>4, <1>5, <1>6
<1>8. SubSeq(d, 1, n) = SubSeq(e, 1, n) BY <1>5, <1>6, <1>7, SeqEqual
<1> QED BY <1>8 DEF d, e

\* The trace takes a row in.
LEMMA TracedFields ==
  ASSUME NEW r \in Runs, NEW row \in Rows, r.slot \in 0 .. TraceRows - 1
  PROVE  LET s == Traced(r, row)
         IN  /\ s \in Runs /\ s.asked = r.asked /\ s.tape = r.tape /\ s.outcome = r.outcome
             /\ s.digest = r.digest /\ s.previous = r.previous /\ s.prefix = r.prefix
             /\ s.started = r.started /\ s.firstHit = r.firstHit /\ s.phase = r.phase
             /\ s.rows = (IF r.slot < Len(r.rows) THEN [r.rows EXCEPT ![r.slot + 1] = row]
                          ELSE Append(r.rows, row))
             /\ s.slot = (r.slot + 1) % TraceRows
             /\ s.kept = (IF r.kept < TraceRows THEN r.kept + 1 ELSE r.kept)
<1> USE HeadlessNumbers
<1> DEFINE rows == IF r.slot < Len(r.rows) THEN [r.rows EXCEPT ![r.slot + 1] = row] ELSE Append(r.rows, row)
           slot == (r.slot + 1) % TraceRows
           kept == IF r.kept < TraceRows THEN r.kept + 1 ELSE r.kept
           s == [r EXCEPT !.rows = rows, !.slot = slot, !.kept = kept]
<1>1. Traced(r, row) = s BY Zenon DEF Traced
<1>2. r.rows \in Seq(Rows) /\ r.slot \in Nat /\ r.kept \in Nat /\ Len(r.rows) \in Nat BY DEF Runs, Traces
<1>3. rows \in Seq(Rows)
 <2>1. CASE r.slot < Len(r.rows)
  <3>1. r.slot + 1 \in 1 .. Len(r.rows) BY <1>2, <2>1
  <3> QED BY <1>2, <2>1, <3>1, ExceptSeq
 <2>2. CASE ~(r.slot < Len(r.rows)) BY <1>2, <2>2, AppendProperties
 <2> QED BY <2>1, <2>2
<1>4. slot \in Nat /\ kept \in Nat /\ rows \in Traces BY <1>2, <1>3 DEF Traces
<1> HIDE DEF rows, slot, kept
<1>5. /\ s \in Runs /\ s.asked = r.asked /\ s.tape = r.tape /\ s.outcome = r.outcome
      /\ s.digest = r.digest /\ s.previous = r.previous /\ s.prefix = r.prefix
      /\ s.started = r.started /\ s.firstHit = r.firstHit /\ s.phase = r.phase
      /\ s.rows = rows /\ s.slot = slot /\ s.kept = kept
  BY <1>4 DEF Runs
<1> HIDE DEF s
<1> QED BY <1>1, <1>5 DEF rows, slot, kept

LEMMA RingKept ==
  ASSUME NEW r \in Runs, NEW a \in Presses, Ring(r),
         NEW s, s.tape = Append(r.tape, a),
         s.rows = (IF r.slot < Len(r.rows)
                   THEN [r.rows EXCEPT ![r.slot + 1] = RowAt(s.tape, Len(s.tape))]
                   ELSE Append(r.rows, RowAt(s.tape, Len(s.tape)))),
         s.slot = (r.slot + 1) % TraceRows,
         s.kept = (IF r.kept < TraceRows THEN r.kept + 1 ELSE r.kept)
  PROVE  Ring(s)
<1> USE HeadlessNumbers
<1> DEFINE n == Len(r.tape)
           u == Append(r.tape, a)
           row == RowAt(u, n + 1)
           place == n % TraceRows
<1>1. n \in Nat /\ r.tape \in Tapes /\ r.rows \in Seq(Rows) BY DEF Runs, Tapes, Traces
<1>2. /\ u \in Tapes /\ Len(u) = n + 1 /\ u[n + 1] = a
      /\ \A k \in 0 .. n : SubSeq(u, 1, k) = SubSeq(r.tape, 1, k)
      /\ \A k \in 1 .. n : u[k] = r.tape[k]
      /\ SubSeq(u, 1, n + 1) = u
  BY <1>1, TapeGrown
<1>3. /\ r.kept = Newest(n) /\ Len(r.rows) = Newest(n) /\ r.slot = place
      /\ \A i \in 1 .. n : n - i < Newest(n) => r.rows[((i - 1) % TraceRows) + 1] = RowAt(r.tape, i)
  BY DEF Ring
<1>4. ASSUME NEW i \in 1 .. n PROVE RowAt(u, i) = RowAt(r.tape, i)
 <2>1. i - 1 \in 0 .. n /\ i \in 0 .. n BY <1>1
 <2> QED BY <1>2, <2>1 DEF RowAt
<1>5. place \in 0 .. TraceRows - 1 /\ (n < TraceRows => place = n)
 <2>1. n \in Int /\ (n < TraceRows => n \in 0 .. TraceRows - 1) BY <1>1
 <2> QED BY <2>1, ModRange, ModSmall
<1>6. row \in Rows
 <2>1. n \in 0 .. Len(u) /\ n \in Int BY <1>1, <1>2
 <2> HIDE DEF u, n
 <2>4. SubSeq(u, 1, n) \in Tapes BY <1>2, <2>1, TapeCut
 <2>2. Seen(SubSeq(u, 1, n)) \in Sights /\ Seen(SubSeq(u, 1, n + 1)) \in Sights BY <1>2, <2>4, SeenTyped
 <2>3. (n + 1) - 1 = n BY <1>1
 <2> QED BY <1>2, <2>2, <2>3 DEF RowAt, Rows
<1>7. s.tape = u /\ Len(s.tape) = n + 1 BY <1>2
<1>8. s.slot = (n + 1) % TraceRows
 <2> DEFINE q == n \div TraceRows
 <2>1. q \in Int /\ n = TraceRows * q + place /\ n \in Int
  <3>1. n \in Int BY <1>1
  <3> HIDE DEF n
  <3> QED BY <3>1, ModRange
 <2> HIDE DEF q, place
 <2>2. n + 1 = (place + 1) + TraceRows * q /\ place + 1 \in Int BY <1>5, <2>1
 <2>3. (n + 1) % TraceRows = (place + 1) % TraceRows BY <2>1, <2>2, ModAlike
 <2> QED BY <1>3, <2>3
<1> HIDE DEF place, u, row
<1>9. s.kept = Newest(n + 1) BY <1>1, <1>3 DEF Newest
<1>10. /\ Len(s.rows) = Newest(n + 1) /\ s.rows[place + 1] = row
       /\ \A j \in 1 .. Len(r.rows) : j # place + 1 => s.rows[j] = r.rows[j]
 <2>1. row = RowAt(s.tape, Len(s.tape)) BY <1>7 DEF row
 <2>2. CASE n < TraceRows
  <3>1. Len(r.rows) = n /\ place = n /\ ~(r.slot < Len(r.rows)) /\ Newest(n + 1) = n + 1
    BY <1>1, <1>3, <1>5, <2>2 DEF Newest
  <3>2. s.rows = Append(r.rows, row) BY <2>1, <3>1
  <3> QED BY <1>1, <1>6, <3>1, <3>2, AppendProperties
 <2>3. CASE ~(n < TraceRows)
  <3>1. Len(r.rows) = TraceRows /\ r.slot < Len(r.rows) /\ Newest(n + 1) = TraceRows
    BY <1>1, <1>3, <1>5, <2>3 DEF Newest
  <3>2. s.rows = [r.rows EXCEPT ![place + 1] = row] /\ place + 1 \in 1 .. Len(r.rows) BY <1>3, <1>5, <2>1, <3>1
  <3> QED BY <1>1, <1>6, <3>1, <3>2, ExceptSeq
 <2> QED BY <2>2, <2>3
<1>11. ASSUME NEW i \in 1 .. n + 1, (n + 1) - i < Newest(n + 1)
       PROVE  s.rows[((i - 1) % TraceRows) + 1] = RowAt(u, i)
 <2>1. CASE i = n + 1
  <3>1. (i - 1) % TraceRows = place BY <1>1, <2>1 DEF place
  <3> QED BY <1>10, <2>1, <3>1 DEF row
 <2>2. CASE i # n + 1
  <3>1. i \in 1 .. n /\ i - 1 \in Nat BY <1>1, <2>2
  <3>2. n - (i - 1) < TraceRows /\ 0 < n - (i - 1) /\ n - i < Newest(n) BY <1>1, <1>11, <3>1 DEF Newest
  <3>3. (i - 1) % TraceRows # place
   <4>1. i - 1 \in Int /\ n \in Int BY <1>1, <3>1
   <4> HIDE DEF n
   <4> QED BY <3>2, <4>1, ModApart DEF place
  <3>4. (i - 1) % TraceRows \in 0 .. TraceRows - 1
   <4>1. i - 1 \in Int BY <3>1
   <4> QED BY <4>1, ModRange
  <3>5. (i - 1) % TraceRows < Len(r.rows)
   <4>1. CASE n < TraceRows
    <5>1. (i - 1) % TraceRows = i - 1 /\ Len(r.rows) = n BY <1>1, <1>3, <3>1, <4>1, ModSmall DEF Newest
    <5> QED BY <1>1, <3>1, <5>1
   <4>2. CASE ~(n < TraceRows) BY <1>3, <3>4, <4>2 DEF Newest
   <4> QED BY <4>1, <4>2
  <3> DEFINE j == (i - 1) % TraceRows
  <3>6. r.rows[j + 1] = RowAt(r.tape, i) BY <1>3, <3>1, <3>2
  <3> HIDE DEF j
  <3>7. j + 1 \in 1 .. Len(r.rows) /\ j + 1 # place + 1
   <4>1. Len(r.rows) \in Nat /\ j \in 0 .. TraceRows - 1 /\ j < Len(r.rows) /\ j # place
     BY <1>1, <3>3, <3>4, <3>5 DEF j
   <4> QED BY <1>5, <4>1
  <3>8. s.rows[j + 1] = RowAt(u, i) BY <1>4, <1>10, <3>1, <3>6, <3>7
  <3> QED BY <3>8 DEF j
 <2> QED BY <2>1, <2>2
<1> QED BY <1>7, <1>8, <1>9, <1>10, <1>11 DEF Ring

\* The trace of a run: its newest rows in order.
LEMMA TraceTold ==
  ASSUME NEW r \in Runs, Ring(r)
  PROVE  LET n == Len(r.tape)
         IN  /\ TraceOf(r) \in Seq(Rows) /\ Len(TraceOf(r)) = Newest(n)
             /\ \A k \in 1 .. Newest(n) : TraceOf(r)[k] = RowAt(r.tape, n - Newest(n) + k)
<1> USE HeadlessNumbers
<1> DEFINE n == Len(r.tape)
           m == Newest(n)
           place(k) == ((r.slot + TraceRows - r.kept + k - 1) % TraceRows) + 1
<1>1. n \in Nat /\ r.rows \in Seq(Rows) /\ m \in Nat /\ m <= n /\ m <= TraceRows
  BY DEF Runs, Tapes, Newest, Traces
<1>2. /\ r.kept = m /\ Len(r.rows) = m /\ r.slot = n % TraceRows
      /\ \A i \in 1 .. n : n - i < m => r.rows[((i - 1) % TraceRows) + 1] = RowAt(r.tape, i)
  BY DEF Ring
<1>3. TraceOf(r) = [k \in 1 .. m |-> r.rows[place(k)]] BY <1>2, Zenon DEF TraceOf
<1>4. n < TraceRows => m = n BY DEF Newest
<1>5. ~(n < TraceRows) => m = TraceRows BY DEF Newest
<1> HIDE DEF n, m
<1>6. ASSUME NEW k \in 1 .. m
      PROVE  place(k) \in 1 .. m /\ r.rows[place(k)] = RowAt(r.tape, n - m + k)
 <2> DEFINE i == n - m + k
            q == n \div TraceRows
 <2>1. q \in Int /\ n = TraceRows * q + (n % TraceRows) /\ n \in Int BY <1>1, ModRange
 <2> HIDE DEF q
 <2>2. i \in 1 .. n /\ n - i < m /\ i - 1 \in Int BY <1>1
 <2>3. r.slot + TraceRows - r.kept + k - 1 = (i - 1) + TraceRows * (1 - q)
  <3>1. r.slot = n - TraceRows * q /\ r.kept = m /\ TraceRows * q \in Int BY <1>2, <2>1
  <3>2. TraceRows * (1 - q) = TraceRows - TraceRows * q BY <2>1
  <3> QED BY <1>1, <2>1, <3>1, <3>2
 <2>4. 1 - q \in Int BY <2>1
 <2> HIDE DEF i
 <2>5. (r.slot + TraceRows - r.kept + k - 1) % TraceRows = (i - 1) % TraceRows BY <2>2, <2>3, <2>4, ModAlike
 <2>6. place(k) = ((i - 1) % TraceRows) + 1 BY <2>5
 <2>7. (i - 1) % TraceRows \in 0 .. m - 1
  <3>1. CASE n < TraceRows
   <4>1. i - 1 \in 0 .. TraceRows - 1 /\ i - 1 \in 0 .. m - 1 BY <1>1, <1>4, <2>2, <3>1
   <4> QED BY <4>1, ModSmall
  <3>2. CASE ~(n < TraceRows) BY <1>5, <2>2, <3>2, ModRange
  <3> QED BY <3>1, <3>2
 <2> HIDE DEF place
 <2>8. place(k) \in 1 .. m BY <1>1, <2>6, <2>7
 <2> QED BY <1>2, <2>2, <2>6, <2>8 DEF i
<1>7. ASSUME NEW k \in 1 .. m PROVE r.rows[place(k)] \in Rows BY <1>1, <1>2, <1>6, ElementOfSeq
<1> HIDE DEF place
<1>8. TraceOf(r) \in [1 .. m -> Rows] BY <1>3, <1>7
<1>9. TraceOf(r) \in Seq(Rows) /\ Len(TraceOf(r)) = m BY <1>1, <1>8
<1>10. \A k \in 1 .. m : TraceOf(r)[k] = RowAt(r.tape, n - m + k) BY <1>3, <1>6
<1> QED BY <1>9, <1>10 DEF n, m

----
\* A run begins.
LEMMA FreshRun ==
  ASSUME NEW o \in Asks, ~Refuses(o)
  PROVE  /\ RunInv(Fresh(o)) /\ Fresh(o).asked = o /\ Fresh(o).phase = "playing"
<1> USE HeadlessNumbers
<1> DEFINE r == Fresh(o)
<1>1. << >> \in Tapes /\ << >> \in Digests /\ << >> \in Seq(Rows) /\ Len(<< >>) = 0 BY DEF Tapes, Digests
<1>2. /\ r.phase = "playing" /\ r.asked = o /\ r.tape = << >> /\ r.outcome = "frame_limit"
      /\ r.digest = << >> /\ r.previous = << >> /\ r.prefix = << >> /\ r.started = FALSE
      /\ r.firstHit = 0 /\ r.rows = << >> /\ r.slot = 0 /\ r.kept = 0
  BY DEF Fresh, NoTape, NoDigest
<1>3. r \in Runs
 <2>1. r = [phase |-> "playing", asked |-> o, tape |-> << >>, outcome |-> "frame_limit",
            digest |-> << >>, previous |-> << >>, prefix |-> << >>, started |-> FALSE, firstHit |-> 0,
            rows |-> << >>, slot |-> 0, kept |-> 0]
   BY DEF Fresh, NoTape, NoDigest
 <2> QED BY <1>1, <2>1 DEF Runs, RunOutcomes, RunPhases, Traces
<1> HIDE DEF r
<1>4. ~Begun(r.tape, 0) BY DEF Begun
<1>5. Along(r)
 <2>1. o.limit \in Nat /\ o.tape \in Tapes /\ Len(o.tape) \in Nat BY DEF Asks, Tapes
 <2>2. SubSeq(<< >>, 1, 0) = << >> /\ SubSeq(o.tape, 1, 0) = << >> BY SubSeqEmpty
 <2>3. IsPrefix(r.tape, o.tape) BY <1>1, <1>2, <2>1, <2>2 DEF IsPrefix
 <2>4. ~Begun(r.tape, Len(r.tape)) /\ Len(r.tape) = 0 BY <1>1, <1>2, <1>4
 <2> QED BY <1>2, <2>1, <2>3, <2>4 DEF Along
<1>6. Digested(r)
 <2>1. Updates(<< >>) = << >>
  <3>1. Updates(<< >>) \in Digests /\ Len(Updates(<< >>)) = 0 BY <1>1, UpdatesTyped
  <3> QED BY <3>1, EmptySeq DEF Digests
 <2>2. Front(<< >>) = << >> BY <1>1, SubSeqEmpty DEF Front
 <2>3. o.prefix \in Nat /\ (0 >= o.prefix => SubSeq(<< >>, 1, o.prefix) = << >>) BY SubSeqEmpty DEF Asks
 <2> QED BY <1>1, <1>2, <2>1, <2>2, <2>3 DEF Digested
<1>7. Ring(r) BY <1>1, <1>2 DEF Ring, Newest
<1>8. Playing(r) BY <1>1, <1>2 DEF Playing
<1>9. r.started = Begun(r.tape, Len(r.tape)) BY <1>1, <1>2, <1>4 DEF Begun
<1>10. RunInv(r) BY <1>2, <1>3, <1>5, <1>6, <1>7, <1>8, <1>9 DEF RunInv
<1> QED BY <1>2, <1>10 DEF r

----
\* A run plays an update.
WithUpdate(s, t, before, d, p, b) ==
    [s EXCEPT !.tape = t, !.previous = before, !.digest = d, !.prefix = p, !.started = b]
WithOutcome(s, o, h, p) == [s EXCEPT !.outcome = o, !.firstHit = h, !.phase = p]

IsUpdate(u, s, t, before, d, p, b) ==
    /\ u \in Runs /\ u.asked = s.asked /\ u.tape = t /\ u.previous = before
    /\ u.digest = d /\ u.prefix = p /\ u.started = b
    /\ u.rows = s.rows /\ u.slot = s.slot /\ u.kept = s.kept

LEMMA UpdateSet ==
  ASSUME NEW s \in Runs, NEW t \in Tapes, NEW before \in Digests, NEW d \in Digests,
         NEW p \in Digests, NEW b \in BOOLEAN
  PROVE  IsUpdate(WithUpdate(s, t, before, d, p, b), s, t, before, d, p, b)
<1> DEFINE u == WithUpdate(s, t, before, d, p, b)
<1>1. /\ u.asked = s.asked /\ u.tape = t /\ u.previous = before
      /\ u.digest = d /\ u.prefix = p /\ u.started = b
      /\ u.rows = s.rows /\ u.slot = s.slot /\ u.kept = s.kept
  BY DEF WithUpdate, Runs
<1>2. u \in Runs BY DEF WithUpdate, Runs
<1> QED BY <1>1, <1>2 DEF IsUpdate

IsOutcome(u, s, o, h, p) ==
    /\ u \in Runs /\ u.asked = s.asked /\ u.tape = s.tape /\ u.previous = s.previous
    /\ u.digest = s.digest /\ u.prefix = s.prefix /\ u.started = s.started
    /\ u.rows = s.rows /\ u.slot = s.slot /\ u.kept = s.kept
    /\ u.outcome = o /\ u.firstHit = h /\ u.phase = p

LEMMA OutcomeSet ==
  ASSUME NEW s \in Runs, NEW o \in RunOutcomes, NEW h \in Nat, NEW p \in RunPhases
  PROVE  IsOutcome(WithOutcome(s, o, h, p), s, o, h, p)
<1> DEFINE u == WithOutcome(s, o, h, p)
<1>1. /\ u.asked = s.asked /\ u.tape = s.tape /\ u.previous = s.previous
      /\ u.digest = s.digest /\ u.prefix = s.prefix /\ u.started = s.started
      /\ u.rows = s.rows /\ u.slot = s.slot /\ u.kept = s.kept
      /\ u.outcome = o /\ u.firstHit = h /\ u.phase = p
  BY DEF WithOutcome, Runs
<1>2. u \in Runs BY DEF WithOutcome, Runs
<1> QED BY <1>1, <1>2 DEF IsOutcome

LEMMA HashedTyped ==
  ASSUME NEW d \in Digests, NEW a \in Presses, NEW s \in Sights
  PROVE  Hashed(d, a, s) \in Digests
<1> DEFINE S == Sights \X Presses
<1>1. <<s, a>> \in S /\ Digests = Seq(S) BY DEF Digests
<1> HIDE DEF S
<1>2. Append(d, <<s, a>>) \in Seq(S) BY <1>1, AppendProperties
<1> QED BY <1>1, <1>2, Zenon DEF Hashed

LEMMA PlayedFields ==
  ASSUME NEW r \in Runs, NEW a \in Presses, r.slot \in 0 .. TraceRows - 1
  PROVE  LET s == Played(r, a)
             t == Append(r.tape, a)
             started == r.started \/ SpellActive(t)
         IN  /\ s \in Runs /\ s.asked = r.asked /\ s.tape = t
             /\ s.digest = Hashed(r.digest, a, Seen(t)) /\ s.previous = r.digest
             /\ s.prefix = (IF Len(t) = r.asked.prefix THEN s.digest ELSE r.prefix)
             /\ s.started = started
             /\ s.rows = (IF r.slot < Len(r.rows)
                          THEN [r.rows EXCEPT ![r.slot + 1] = RowAt(t, Len(t))]
                          ELSE Append(r.rows, RowAt(t, Len(t))))
             /\ s.slot = (r.slot + 1) % TraceRows
             /\ s.kept = (IF r.kept < TraceRows THEN r.kept + 1 ELSE r.kept)
             /\ s.outcome = Decided(s, started)
             /\ s.firstHit = (IF s.outcome = "collision" THEN Len(t) ELSE 0)
             /\ s.phase = (IF s.outcome = "frame_limit" THEN "playing" ELSE "ended")
<1> DEFINE t == Append(r.tape, a)
           state == Seen(t)
           digest == Hashed(r.digest, a, state)
           started == r.started \/ SpellActive(t)
           row == [before |-> Seen(r.tape), action |-> a, after |-> state]
           traced == Traced(r, row)
           prefix == IF Len(t) = r.asked.prefix THEN digest ELSE traced.prefix
           updated == WithUpdate(traced, t, r.digest, digest, prefix, started)
           outcome == Decided(updated, started)
           hit == IF outcome = "collision" THEN Len(t) ELSE 0
           stage == IF outcome = "frame_limit" THEN "playing" ELSE "ended"
           s == WithOutcome(updated, outcome, hit, stage)
<1>1. Played(r, a) = s BY Zenon DEF Played, WithUpdate, WithOutcome
<1>2. /\ r.tape \in Tapes /\ t \in Tapes /\ Len(t) = Len(r.tape) + 1 /\ t[Len(r.tape) + 1] = a
      /\ SubSeq(t, 1, Len(r.tape) + 1) = t /\ SubSeq(t, 1, Len(r.tape)) = r.tape
      /\ Len(r.tape) \in Nat
 <2>1. r.tape \in Tapes /\ Len(r.tape) \in Nat BY DEF Runs, Tapes
 <2> QED BY <2>1, TapeGrown, CutWhole
<1>3. state \in Sights /\ row \in Rows /\ digest \in Digests /\ started \in BOOLEAN
 <2>1. Seen(r.tape) \in Sights /\ Seen(t) \in Sights BY <1>2, SeenTyped
 <2>2. r.digest \in Digests BY DEF Runs
 <2>3. digest \in Digests BY <2>1, <2>2, HashedTyped
 <2> QED BY <2>1, <2>3 DEF Rows
<1>4. row = RowAt(t, Len(t))
 <2>1. Len(t) - 1 = Len(r.tape) BY <1>2
 <2> QED BY <1>2, <2>1 DEF RowAt
<1> HIDE DEF row, t, digest, state, started
<1>5. /\ traced \in Runs /\ traced.asked = r.asked /\ traced.prefix = r.prefix
      /\ traced.rows = (IF r.slot < Len(r.rows) THEN [r.rows EXCEPT ![r.slot + 1] = row]
                        ELSE Append(r.rows, row))
      /\ traced.slot = (r.slot + 1) % TraceRows
      /\ traced.kept = (IF r.kept < TraceRows THEN r.kept + 1 ELSE r.kept)
  BY <1>3, TracedFields
<1> HIDE DEF traced
<1>6. prefix \in Digests /\ r.digest \in Digests /\ prefix = IF Len(t) = r.asked.prefix THEN digest ELSE r.prefix
  BY <1>3, <1>5 DEF Runs
<1> HIDE DEF prefix
<1>7. /\ updated \in Runs /\ updated.asked = r.asked /\ updated.tape = t
      /\ updated.previous = r.digest /\ updated.digest = digest /\ updated.prefix = prefix
      /\ updated.started = started /\ updated.rows = traced.rows /\ updated.slot = traced.slot
      /\ updated.kept = traced.kept
 <2>1. traced \in Runs /\ t \in Tapes BY <1>2, <1>5
 <2>2. IsUpdate(updated, traced, t, r.digest, digest, prefix, started) BY <1>3, <1>6, <2>1, UpdateSet, Zenon
 <2> HIDE DEF updated
 <2> QED BY <1>5, <2>2 DEF IsUpdate
<1> HIDE DEF updated
<1>8. outcome \in RunOutcomes /\ hit \in Nat /\ stage \in RunPhases
 <2>1. outcome \in RunOutcomes BY DEF Decided, RunOutcomes
 <2>2. Len(t) \in Nat BY <1>2
 <2> QED BY <2>1, <2>2 DEF RunPhases
<1> HIDE DEF outcome, hit, stage
<1>9. /\ s \in Runs /\ s.asked = r.asked /\ s.tape = t /\ s.previous = r.digest
      /\ s.digest = digest /\ s.prefix = prefix /\ s.started = started
      /\ s.rows = traced.rows /\ s.slot = traced.slot /\ s.kept = traced.kept
      /\ s.outcome = outcome /\ s.firstHit = hit /\ s.phase = stage
 <2>1. updated \in Runs BY <1>7
 <2>2. IsOutcome(s, updated, outcome, hit, stage) BY <1>8, <2>1, OutcomeSet, Zenon
 <2> HIDE DEF s
 <2> QED BY <1>7, <2>2 DEF IsOutcome
<1> HIDE DEF s
<1>10. Decided(s, started) = outcome
 <2>1. s.asked = updated.asked /\ s.tape = updated.tape BY <1>7, <1>9
 <2>2. Decided(s, started) = Decided(updated, started) BY <2>1, Zenon DEF Decided
 <2> QED BY <2>2 DEF outcome
<1>11. /\ hit = (IF s.outcome = "collision" THEN Len(t) ELSE 0)
       /\ stage = (IF s.outcome = "frame_limit" THEN "playing" ELSE "ended")
  BY <1>9 DEF hit, stage
<1>12. /\ s.prefix = (IF Len(t) = r.asked.prefix THEN s.digest ELSE r.prefix)
       /\ s.rows = (IF r.slot < Len(r.rows)
                    THEN [r.rows EXCEPT ![r.slot + 1] = RowAt(t, Len(t))]
                    ELSE Append(r.rows, RowAt(t, Len(t))))
       /\ s.slot = (r.slot + 1) % TraceRows
       /\ s.kept = (IF r.kept < TraceRows THEN r.kept + 1 ELSE r.kept)
  BY <1>4, <1>5, <1>6, <1>9
<1>13. /\ s \in Runs /\ s.asked = r.asked /\ s.tape = t /\ s.previous = r.digest
       /\ s.digest = Hashed(r.digest, a, Seen(t)) /\ s.started = started
       /\ s.outcome = Decided(s, started)
       /\ s.firstHit = (IF s.outcome = "collision" THEN Len(t) ELSE 0)
       /\ s.phase = (IF s.outcome = "frame_limit" THEN "playing" ELSE "ended")
  BY <1>9, <1>10, <1>11 DEF digest, state
<1> QED BY <1>1, <1>12, <1>13, Zenon DEF t, started

\* The judgement of an update is that of the invariant.
LEMMA DecidedJudges ==
  ASSUME NEW s, NEW b, b = Begun(s.tape, Len(s.tape)), Len(s.tape) \in Nat,
         SubSeq(s.tape, 1, Len(s.tape)) = s.tape
  PROVE  LET d == Decided(s, b)
         IN  /\ d = "collision" <=> Hit(s.tape)
             /\ d = "complete" <=> ~Hit(s.tape) /\ Completed(s, Len(s.tape))
             /\ d = "retry_menu" <=> ~Hit(s.tape) /\ ~Completed(s, Len(s.tape)) /\ RetryMenu(s.tape)
             /\ d = "frame_limit" <=> ~Ended(s, Len(s.tape))
             /\ d \in {"collision", "complete", "retry_menu", "frame_limit"}
<1> DEFINE n == Len(s.tape)
           c == Completed(s, n)
           h == Hit(s.tape)
           m == RetryMenu(s.tape)
<1>1. c = (IF s.asked.spell >= 0 THEN b /\ ~SpellActive(s.tape) ELSE Cleared(s.tape)) BY DEF Completed
<1>2. Ended(s, n) = (h \/ c \/ m) BY DEF Ended
<1>3. Decided(s, b) = CASE h -> "collision" [] ~h /\ c -> "complete"
                        [] OTHER -> IF m THEN "retry_menu" ELSE "frame_limit"
  BY <1>1 DEF Decided
<1> HIDE DEF c, h, m
<1>4. CASE h BY <1>2, <1>3, <1>4 DEF n, c, h, m
<1>5. CASE ~h /\ c BY <1>2, <1>3, <1>5 DEF n, c, h, m
<1>6. CASE ~h /\ ~c BY <1>2, <1>3, <1>6 DEF n, c, h, m
<1> QED BY <1>4, <1>5, <1>6

LEMMA PlayedRun ==
  ASSUME NEW r, NEW a \in Presses, RunInv(r), r.phase = "playing",
         Len(r.tape) < r.asked.limit, ~WrongSpell(r, Append(r.tape, a)),
         r.asked.replay => Len(r.tape) < Len(r.asked.tape) /\ a = r.asked.tape[Len(r.tape) + 1],
         r.asked.resume /\ Len(r.tape) < Len(r.asked.tape) => a = r.asked.tape[Len(r.tape) + 1]
  PROVE  RunInv(Played(r, a)) /\ Played(r, a).asked = r.asked
<1> USE HeadlessNumbers
<1> DEFINE s == Played(r, a)
           t == Append(r.tape, a)
           n == Len(r.tape)
           started == r.started \/ SpellActive(t)
<1>1. /\ r \in Runs /\ r.tape \in Tapes /\ n \in Nat /\ r.asked \in Asks /\ r.asked.tape \in Tapes
      /\ Len(r.asked.tape) \in Nat /\ r.asked.limit \in Nat /\ r.asked.prefix \in Nat
  BY DEF RunInv, Runs, Tapes, Asks
<1>2. Along(r) /\ Digested(r) /\ Ring(r) /\ r.started = Begun(r.tape, n) /\ Playing(r) BY DEF RunInv
<1>3. r.slot \in 0 .. TraceRows - 1
 <2>1. r.slot = n % TraceRows /\ n \in Int BY <1>1, <1>2 DEF Ring
 <2> HIDE DEF n
 <2> QED BY <2>1, ModRange
<1>4. /\ t \in Tapes /\ Len(t) = n + 1 /\ t[n + 1] = a
      /\ \A k \in 0 .. n : SubSeq(t, 1, k) = SubSeq(r.tape, 1, k)
      /\ \A k \in 1 .. n : t[k] = r.tape[k]
      /\ SubSeq(t, 1, n + 1) = t
  BY <1>1, TapeGrown
<1>5. /\ s \in Runs /\ s.asked = r.asked /\ s.tape = t
      /\ s.digest = Hashed(r.digest, a, Seen(t)) /\ s.previous = r.digest
      /\ s.prefix = (IF Len(t) = r.asked.prefix THEN s.digest ELSE r.prefix)
      /\ s.started = started
      /\ s.rows = (IF r.slot < Len(r.rows)
                   THEN [r.rows EXCEPT ![r.slot + 1] = RowAt(t, Len(t))]
                   ELSE Append(r.rows, RowAt(t, Len(t))))
      /\ s.slot = (r.slot + 1) % TraceRows
      /\ s.kept = (IF r.kept < TraceRows THEN r.kept + 1 ELSE r.kept)
      /\ s.outcome = Decided(s, started)
      /\ s.firstHit = (IF s.outcome = "collision" THEN Len(t) ELSE 0)
      /\ s.phase = (IF s.outcome = "frame_limit" THEN "playing" ELSE "ended")
  BY <1>1, <1>3, PlayedFields
<1> HIDE DEF s
<1>6. Ring(s)
 <2>1. s.tape = Append(r.tape, a) BY <1>5
 <2> QED BY <1>1, <1>2, <1>5, <2>1, RingKept
<1>7. Updates(t) = s.digest /\ Front(s.digest) = r.digest BY <1>1, <1>2, <1>5, UpdatesGrown DEF Digested
<1> HIDE DEF t
<1>8. started = Begun(t, n + 1)
 <2>1. Begun(t, n) = Begun(r.tape, n)
  <3>1. \A k \in 1 .. n : SubSeq(t, 1, k) = SubSeq(r.tape, 1, k) BY <1>1, <1>4
  <3> QED BY <3>1 DEF Begun
 <2>2. Begun(t, n + 1) = (Begun(t, n) \/ SpellActive(t))
  <3>1. n + 1 <= Len(t) BY <1>1, <1>4
  <3> HIDE DEF n
  <3>2. Begun(t, n + 1) = (Begun(t, n) \/ SpellActive(SubSeq(t, 1, n + 1))) BY <1>1, <1>4, <3>1, BegunGrown
  <3> QED BY <1>4, <3>2, Zenon
 <2> QED BY <1>2, <2>1, <2>2
<1>9. Begun(s.tape, Len(s.tape)) = started /\ Len(s.tape) \in Nat /\ SubSeq(s.tape, 1, Len(s.tape)) = s.tape
  BY <1>1, <1>4, <1>5, <1>8
<1>10. /\ s.outcome = "collision" <=> Hit(s.tape)
       /\ s.outcome = "complete" <=> ~Hit(s.tape) /\ Completed(s, Len(s.tape))
       /\ s.outcome = "retry_menu" <=> ~Hit(s.tape) /\ ~Completed(s, Len(s.tape)) /\ RetryMenu(s.tape)
       /\ s.outcome = "frame_limit" <=> ~Ended(s, Len(s.tape))
       /\ s.outcome \in {"collision", "complete", "retry_menu", "frame_limit"}
  BY <1>5, <1>9, DecidedJudges
<1>11. Along(s)
 <2>1. ~Refuses(s.asked) /\ Len(s.tape) <= s.asked.limit BY <1>1, <1>2, <1>4, <1>5 DEF Along
 <2>2. ASSUME NEW k \in 1 .. Len(s.tape) - 1 PROVE ~Ended(s, k)
  <3>1. k \in Nat /\ k \in 1 .. n BY <1>1, <1>4, <1>5
  <3>2. \A i \in 0 .. k : SubSeq(s.tape, 1, i) = SubSeq(r.tape, 1, i) BY <1>1, <1>4, <1>5, <3>1
  <3>3. Ended(s, k) = Ended(r, k)
   <4>1. s.asked.spell = r.asked.spell BY <1>5
   <4> QED BY <3>1, <3>2, <4>1, EndedAlike, Zenon
  <3>4. CASE k = n BY <1>2, <3>1, <3>3, <3>4 DEF Playing
  <3>5. CASE k # n BY <1>1, <1>2, <3>1, <3>3, <3>5 DEF Along
  <3> QED BY <3>4, <3>5
 <2>3. Begun(s.tape, Len(s.tape)) /\ s.asked.spell >= 0 => scene.spell = s.asked.spell
  <3>1. ~(SpellActive(t) /\ ~r.started /\ r.asked.spell >= 0 /\ scene.spell # r.asked.spell)
    BY DEF WrongSpell, t
  <3>2. r.started /\ r.asked.spell >= 0 => scene.spell = r.asked.spell BY <1>2 DEF Along
  <3> QED BY <1>5, <1>9, <3>1, <3>2
 <2>4. ASSUME IsPrefix(r.tape, r.asked.tape), n < Len(r.asked.tape), a = r.asked.tape[n + 1]
       PROVE  IsPrefix(s.tape, r.asked.tape)
  <3> DEFINE u == r.asked.tape
  <3>1. t = SubSeq(u, 1, n + 1) BY <1>1, <2>4, NextCut DEF t
  <3>2. n + 1 \in 0 .. Len(u) BY <1>1, <2>4
  <3> QED BY <1>1, <1>4, <1>5, <3>1, <3>2, CutIsPrefix
 <2>5. s.asked.replay => IsPrefix(s.tape, s.asked.tape) BY <1>2, <1>5, <2>4 DEF Along
 <2>6. s.asked.resume => IsPrefix(s.tape, s.asked.tape) \/ IsPrefix(s.asked.tape, s.tape)
  <3>1. CASE n < Len(r.asked.tape) /\ r.asked.resume
   <4>1. IsPrefix(r.tape, r.asked.tape)
    <5>1. CASE IsPrefix(r.asked.tape, r.tape) BY <1>1, <3>1, <5>1 DEF IsPrefix
    <5> QED BY <1>2, <3>1, <5>1 DEF Along
   <4> QED BY <1>5, <2>4, <3>1, <4>1
  <3>2. CASE ~(n < Len(r.asked.tape)) /\ r.asked.resume
   <4> DEFINE u == r.asked.tape
   <4>1. SubSeq(u, 1, Len(u)) = SubSeq(r.tape, 1, Len(u)) /\ Len(u) <= n
    <5>1. CASE IsPrefix(r.tape, u)
     <6>1. Len(u) = n BY <1>1, <3>2, <5>1 DEF IsPrefix
     <6> QED BY <1>1, <5>1, <6>1 DEF IsPrefix
    <5>2. CASE IsPrefix(u, r.tape) BY <5>2 DEF IsPrefix
    <5> QED BY <1>2, <3>2, <5>1, <5>2 DEF Along
   <4>2. Len(u) \in 0 .. n /\ Len(u) <= n + 1 BY <1>1, <4>1
   <4>3. SubSeq(t, 1, Len(u)) = SubSeq(r.tape, 1, Len(u)) BY <1>4, <4>2
   <4>4. IsPrefix(u, t) BY <1>4, <4>1, <4>2, <4>3 DEF IsPrefix
   <4> QED BY <1>5, <4>4
  <3> QED BY <1>5, <3>1, <3>2
 <2> QED BY <2>1, <2>2, <2>3, <2>5, <2>6 DEF Along
<1>12. Digested(s)
 <2>1. s.digest = Updates(s.tape) /\ s.previous = Front(s.digest) BY <1>5, <1>7
 <2>2. s.prefix = IF Len(s.tape) >= s.asked.prefix THEN SubSeq(s.digest, 1, s.asked.prefix) ELSE << >>
  <3>1. /\ r.digest \in Digests /\ s.digest \in Digests /\ Len(s.digest) = n + 1 /\ Len(r.digest) = n
        /\ r.digest = SubSeq(s.digest, 1, n)
   <4>1. Updates(r.tape) \in Digests /\ Len(Updates(r.tape)) = n BY <1>1, UpdatesTyped
   <4>2. Updates(t) \in Digests /\ Len(Updates(t)) = n + 1 BY <1>4, UpdatesTyped
   <4>3. n + 1 - 1 = n BY <1>1
   <4> QED BY <1>2, <1>7, <4>1, <4>2, <4>3 DEF Digested, Front
  <3> DEFINE p == r.asked.prefix
  <3>5. /\ Len(s.tape) = n + 1 /\ s.asked.prefix = p /\ p \in Nat
        /\ s.prefix = (IF n + 1 = p THEN s.digest ELSE r.prefix)
        /\ r.prefix = (IF n >= p THEN SubSeq(r.digest, 1, p) ELSE << >>)
    BY <1>1, <1>2, <1>4, <1>5 DEF Digested
  <3> HIDE DEF p
  <3>2. CASE p = n + 1
   <4>1. s.prefix = s.digest BY <3>2, <3>5
   <4>2. SubSeq(s.digest, 1, n + 1) = s.digest BY <3>1, SubSeqFull DEF Digests
   <4> QED BY <1>1, <3>2, <3>5, <4>1, <4>2
  <3>3. CASE p # n + 1 /\ n >= p
   <4>1. s.prefix = SubSeq(r.digest, 1, p) BY <3>3, <3>5
   <4>2. SubSeq(r.digest, 1, p) = SubSeq(s.digest, 1, p)
    <5>1. CASE p = 0 BY <5>1, SubSeqEmpty
    <5>2. CASE p # 0
     <6> DEFINE S == Sights \X Presses
     <6>1. /\ n \in 1 .. Len(s.digest) /\ 1 \in 1 .. Len(s.digest) /\ p \in 1 .. n - 1 + 1
           /\ 1 \in 1 .. n - 1 + 1 /\ 1 + 1 - 1 = 1 /\ 1 + p - 1 = p
       BY <1>1, <3>1, <3>3, <3>5, <5>2
     <6>2. s.digest \in Seq(S) BY <3>1 DEF Digests
     <6> HIDE DEF S, n, p
     <6>3. SubSeq(SubSeq(s.digest, 1, n), 1, p) = SubSeq(s.digest, 1 + 1 - 1, 1 + p - 1)
       BY <6>1, <6>2, SubSeqOfSubSeq
     <6> QED BY <3>1, <6>1, <6>3
    <5> QED BY <5>1, <5>2
   <4>3. n + 1 >= p BY <1>1, <3>3, <3>5
   <4>4. Len(s.tape) >= s.asked.prefix /\ s.prefix = SubSeq(s.digest, 1, s.asked.prefix)
     BY <3>5, <4>1, <4>2, <4>3, Zenon
   <4> QED BY <4>4
  <3>4. CASE p # n + 1 /\ ~(n >= p)
   <4>1. s.prefix = << >> BY <3>4, <3>5
   <4>2. ~(n + 1 >= p) BY <1>1, <3>4, <3>5
   <4> QED BY <3>5, <4>1, <4>2
  <3> QED BY <3>2, <3>3, <3>4
 <2> QED BY <2>1, <2>2 DEF Digested
<1>13. s.phase = "playing" => Playing(s)
 <2> SUFFICES ASSUME s.phase = "playing" PROVE Playing(s) OBVIOUS
 <2>1. s.outcome = "frame_limit" /\ s.firstHit = 0 BY <1>5
 <2> QED BY <1>10, <2>1 DEF Playing
<1>14. s.phase = "ended" => Halted(s)
 <2> SUFFICES ASSUME s.phase = "ended" PROVE Halted(s) OBVIOUS
 <2>1. s.outcome # "frame_limit" /\ s.outcome \in {"collision", "complete", "retry_menu"} BY <1>5, <1>10
 <2>2. Judged(s) BY <1>10, <2>1 DEF Judged
 <2>3. s.firstHit = (IF Hit(s.tape) THEN Len(s.tape) ELSE 0) /\ Len(s.tape) > 0 BY <1>1, <1>4, <1>5, <1>10
 <2> QED BY <2>1, <2>2, <2>3 DEF Halted
<1>15. RunInv(s) BY <1>5, <1>6, <1>9, <1>11, <1>12, <1>13, <1>14 DEF RunInv
<1> QED BY <1>5, <1>15 DEF s

----
\* A run ends without another update.
SameGame(s, r) == s.asked = r.asked /\ s.tape = r.tape

LEMMA AlongAlike ==
  ASSUME NEW s, NEW r, SameGame(s, r)
  PROVE  Along(s) = Along(r) /\ \A k \in Nat : Ended(s, k) = Ended(r, k) /\ Completed(s, k) = Completed(r, k)
<1>1. s.asked = r.asked /\ s.tape = r.tape BY DEF SameGame
<1>2. ASSUME NEW k PROVE Completed(s, k) = Completed(r, k) BY <1>1, Zenon DEF Completed
<1>3. ASSUME NEW k PROVE Ended(s, k) = Ended(r, k) BY <1>1, <1>2, Zenon DEF Ended
<1>4. Along(s) = Along(r) BY <1>1, <1>3 DEF Along
<1> QED BY <1>2, <1>3, <1>4

LEMMA RunEnds ==
  ASSUME NEW r, RunInv(r), r.phase = "playing", NEW o \in {"frame_limit", "tape_end"},
         o = "frame_limit" => Len(r.tape) = r.asked.limit,
         o = "tape_end" => r.asked.replay /\ Len(r.tape) = Len(r.asked.tape),
         NEW s, s = [r EXCEPT !.phase = "ended", !.outcome = o]
  PROVE  RunInv(s) /\ s.asked = r.asked
<1>1. /\ r \in Runs /\ r.tape \in Tapes /\ Len(r.tape) \in Nat /\ r.asked \in Asks
      /\ r.asked.tape \in Tapes /\ r.asked.limit \in Nat
  BY DEF RunInv, Runs, Tapes, Asks
<1>2. Along(r) /\ Digested(r) /\ Ring(r) /\ r.started = Begun(r.tape, Len(r.tape)) /\ Playing(r) BY DEF RunInv
<1>3. /\ s \in Runs /\ s.asked = r.asked /\ s.tape = r.tape /\ s.digest = r.digest
      /\ s.previous = r.previous /\ s.prefix = r.prefix /\ s.started = r.started
      /\ s.firstHit = r.firstHit /\ s.rows = r.rows /\ s.slot = r.slot /\ s.kept = r.kept
      /\ s.outcome = o /\ s.phase = "ended"
  BY <1>1 DEF Runs, RunOutcomes, RunPhases
<1>4. Along(s) /\ Ended(s, Len(s.tape)) = Ended(r, Len(r.tape))
      /\ Completed(s, Len(s.tape)) = Completed(r, Len(r.tape))
 <2>1. SameGame(s, r) BY <1>3 DEF SameGame
 <2> DEFINE n == Len(r.tape)
 <2>2. n \in Nat /\ Len(s.tape) = n BY <1>1, <1>3
 <2> HIDE DEF n
 <2>3. Along(s) = Along(r) /\ Ended(s, n) = Ended(r, n) /\ Completed(s, n) = Completed(r, n)
   BY <2>1, <2>2, AlongAlike
 <2> QED BY <1>2, <2>2, <2>3 DEF n
<1>5. Digested(s) /\ Ring(s) BY <1>2, <1>3 DEF Digested, Ring
<1>6. Len(s.tape) > 0
 <2>1. ~Refuses(r.asked) BY <1>2 DEF Along
 <2>2. r.asked.limit # 0 /\ (r.asked.replay => r.asked.tape # << >>) BY <2>1 DEF Refuses, NoTape
 <2>3. r.asked.replay => Len(r.asked.tape) # 0 BY <1>1, <2>2, EmptySeq DEF Tapes
 <2> QED BY <1>1, <1>3, <2>2, <2>3
<1>7. Halted(s)
 <2>1. ~Ended(s, Len(s.tape)) /\ SubSeq(s.tape, 1, Len(s.tape)) = s.tape
   BY <1>1, <1>2, <1>3, <1>4, <1>6, CutWhole DEF Playing
 <2>2. ~Hit(s.tape) /\ ~Completed(s, Len(s.tape)) /\ ~RetryMenu(s.tape) BY <2>1 DEF Ended
 <2>3. Judged(s) BY <1>3, <2>2 DEF Judged
 <2>4. s.firstHit = (IF Hit(s.tape) THEN Len(s.tape) ELSE 0) BY <1>2, <1>3, <2>2 DEF Playing
 <2> QED BY <1>3, <1>6, <2>3, <2>4 DEF Halted
<1>8. s.started = Begun(s.tape, Len(s.tape)) BY <1>2, <1>3
<1> QED BY <1>3, <1>4, <1>5, <1>7, <1>8 DEF RunInv

----
\* The report of a run.
ReportFacts(e) ==
    /\ e \in Reports /\ TellsTheGame(e) /\ TellsTheTape(e) /\ Along(e) /\ Halted(e)
    /\ e.asked.prefix <= Len(e.tape)

LEMMA UnusedCounted ==
  ASSUME NEW r, r.tape \in Tapes, r.asked.tape \in Tapes
  PROVE  Unused(r) \in Nat /\ Unused(r) = Cardinality(DOMAIN r.asked.tape \ DOMAIN r.tape)
<1> DEFINE n == Len(r.tape)
           m == Len(r.asked.tape)
<1>1. n \in Nat /\ m \in Nat /\ DOMAIN r.tape = 1 .. n /\ DOMAIN r.asked.tape = 1 .. m BY DEF Tapes
<1>2. r.asked.tape = NoTape => m = 0 BY DEF NoTape
<1>3. Unused(r) = IF n >= m THEN 0 ELSE m - n
 <2>1. CASE r.asked.tape = NoTape BY <1>1, <1>2, <2>1 DEF Unused
 <2>2. CASE r.asked.tape # NoTape BY <2>2 DEF Unused
 <2> QED BY <2>1, <2>2
<1> HIDE DEF n, m
<1>4. CASE n >= m
 <2>1. DOMAIN r.asked.tape \ DOMAIN r.tape = {} BY <1>1, <1>4
 <2>2. Cardinality({}) = 0 BY FS_EmptySet
 <2> QED BY <1>3, <1>4, <2>1, <2>2
<1>5. CASE ~(n >= m)
 <2>1. DOMAIN r.asked.tape \ DOMAIN r.tape = (n + 1) .. m BY <1>1, <1>5
 <2> DEFINE a == n + 1
 <2>2. a \in Int /\ m \in Int /\ ~(a > m) /\ m - a + 1 = m - n /\ m - n \in Nat BY <1>1, <1>5
 <2> HIDE DEF a
 <2>3. Cardinality(a .. m) = IF a > m THEN 0 ELSE m - a + 1 BY <2>2, FS_Interval
 <2>4. Cardinality((n + 1) .. m) = m - n BY <2>2, <2>3 DEF a
 <2> QED BY <1>3, <1>5, <2>1, <2>2, <2>4
<1> QED BY <1>4, <1>5

LEMMA ReportTells ==
  ASSUME NEW r, RunInv(r), r.phase = "ended", ~(Len(r.tape) < r.asked.prefix),
         ~(r.asked.replay /\ Len(r.tape) # Len(r.asked.tape) /\ ~r.asked.unused)
  PROVE  ReportFacts(Report(r)) /\ Report(r).asked = r.asked
<1> DEFINE e == Report(r)
           n == Len(r.tape)
<1>1. /\ r \in Runs /\ r.tape \in Tapes /\ n \in Nat /\ r.asked \in Asks
      /\ r.asked.tape \in Tapes /\ Len(r.asked.tape) \in Nat /\ r.asked.prefix \in Nat
  BY DEF RunInv, Runs, Tapes, Asks
<1>2. Along(r) /\ Digested(r) /\ Ring(r) /\ Halted(r) BY DEF RunInv
<1>3. /\ e.asked = r.asked /\ e.exit = (IF r.outcome = "complete" THEN 0 ELSE 2)
      /\ e.outcome = r.outcome /\ e.frames = n /\ e.tape = r.tape /\ e.digest = r.digest
      /\ e.previous = r.previous /\ e.prefix = r.prefix /\ e.firstHit = r.firstHit
      /\ e.unused = Unused(r) /\ e.trace = TraceOf(r)
  BY DEF Report
<1>4. Unused(r) \in Nat /\ Unused(r) = Cardinality(DOMAIN r.asked.tape \ DOMAIN r.tape) BY <1>1, UnusedCounted
<1>5. /\ TraceOf(r) \in Seq(Rows) /\ Len(TraceOf(r)) = Newest(n)
      /\ \A k \in 1 .. Newest(n) : TraceOf(r)[k] = RowAt(r.tape, n - Newest(n) + k)
  BY <1>1, <1>2, TraceTold
<1>6. e \in Reports
 <2>1. /\ r.outcome \in RunOutcomes /\ r.digest \in Digests /\ r.previous \in Digests
       /\ r.prefix \in Digests /\ r.firstHit \in Nat
   BY <1>1 DEF Runs
 <2>2. (IF r.outcome = "complete" THEN 0 ELSE 2) \in {0, 2} OBVIOUS
 <2> HIDE DEF n
 <2> QED BY <1>1, <1>4, <1>5, <2>1, <2>2 DEF Report, Reports, n
<1> HIDE DEF e
<1>7. SameGame(e, r) BY <1>3 DEF SameGame
<1>8. /\ Along(e) /\ \A k \in Nat : Ended(e, k) = Ended(r, k) /\ Completed(e, k) = Completed(r, k)
  BY <1>2, <1>7, AlongAlike
<1>9. n > 0 /\ Judged(r) BY <1>2 DEF Halted
<1>10. Halted(e)
 <2>1. Completed(e, n) = Completed(r, n) BY <1>1, <1>8
 <2>2. Judged(e) BY <1>3, <1>9, <2>1 DEF Judged
 <2> QED BY <1>2, <1>3, <2>2 DEF Halted
<1>11. TellsTheTape(e)
 <2>1. e.asked.replay => IsPrefix(e.tape, e.asked.tape) BY <1>8 DEF Along
 <2>2. e.asked.replay => e.asked.unused \/ e.tape = e.asked.tape
  <3> SUFFICES ASSUME e.asked.replay, ~e.asked.unused PROVE e.tape = e.asked.tape OBVIOUS
  <3>1. n = Len(r.asked.tape) /\ IsPrefix(r.tape, r.asked.tape) BY <1>3, <2>1
  <3>2. SubSeq(r.tape, 1, n) = SubSeq(r.asked.tape, 1, n) BY <3>1 DEF IsPrefix
  <3>3. SubSeq(r.tape, 1, n) = r.tape /\ SubSeq(r.asked.tape, 1, n) = r.asked.tape BY <1>1, <3>1, CutWhole
  <3> QED BY <1>3, <3>2, <3>3
 <2>3. e.asked.resume => IsPrefix(e.tape, e.asked.tape) \/ IsPrefix(e.asked.tape, e.tape) BY <1>8 DEF Along
 <2>4. e.unused = Cardinality(DOMAIN e.asked.tape \ DOMAIN e.tape) BY <1>3, <1>4
 <2> QED BY <2>1, <2>2, <2>3, <2>4 DEF TellsTheTape
<1>12. TellsTheGame(e)
 <2>1. \A k \in 1 .. n - 1 : ~Ended(e, k) BY <1>3, <1>8 DEF Along
 <2>2. SubSeq(e.tape, 1, n) = e.tape BY <1>1, <1>3, CutWhole
 <2>3. /\ e.outcome \in {"frame_limit", "tape_end"} => n > 0 /\ ~Ended(e, n)
       /\ e.exit = 0 <=> Completed(e, n) /\ ~Hit(e.tape)
  <3>1. Ended(e, n) = (Hit(e.tape) \/ Completed(e, n) \/ RetryMenu(e.tape)) BY <2>2 DEF Ended
  <3>2. e.outcome = IF Hit(e.tape) THEN "collision" ELSE IF Completed(e, n) THEN "complete"
                    ELSE IF RetryMenu(e.tape) THEN "retry_menu"
                    ELSE IF e.outcome = "tape_end" THEN "tape_end" ELSE "frame_limit"
    BY <1>3, <1>10 DEF Halted, Judged
  <3>3. e.exit = 0 <=> e.outcome = "complete" BY <1>3
  <3> QED BY <1>9, <3>1, <3>2, <3>3
 <2>4. e.firstHit = (IF Hit(e.tape) THEN n ELSE 0) BY <1>3, <1>10 DEF Halted
 <2>5. e.exit = 0 /\ e.asked.spell >= 0 => scene.spell = e.asked.spell
  <3> SUFFICES ASSUME e.exit = 0, e.asked.spell >= 0 PROVE scene.spell = e.asked.spell OBVIOUS
  <3>0. Completed(e, n) BY <2>3
  <3>1. Begun(e.tape, n) BY <2>2, <3>0 DEF Completed
  <3>2. Begun(e.tape, Len(e.tape)) BY <1>3, <3>1
  <3> QED BY <1>8, <3>2 DEF Along
 <2>6. e.frames = n /\ n <= e.asked.limit /\ e.digest = Updates(e.tape) /\ e.previous = Front(e.digest)
   BY <1>2, <1>3 DEF Along, Digested
 <2>7. e.prefix = SubSeq(e.digest, 1, e.asked.prefix)
  <3>1. n >= e.asked.prefix BY <1>1, <1>3
  <3> QED BY <1>2, <1>3, <3>1 DEF Digested
 <2>8. Len(e.trace) = (IF n < TraceRows THEN n ELSE TraceRows) BY <1>3, <1>5 DEF Newest
 <2>9. ASSUME NEW k \in DOMAIN e.trace
       PROVE  LET here == n - Len(e.trace) + k
              IN  e.trace[k] = [before |-> Seen(SubSeq(e.tape, 1, here - 1)), action |-> e.tape[here],
                                after |-> Seen(SubSeq(e.tape, 1, here))]
  <3>1. k \in 1 .. Newest(n) BY <1>3, <1>5
  <3>2. e.trace[k] = RowAt(e.tape, n - Newest(n) + k) BY <1>3, <1>5, <3>1
  <3> QED BY <1>3, <1>5, <3>2 DEF RowAt
 <2>10. Len(e.tape) = n BY <1>3
 <2> HIDE DEF n
 <2>11. /\ \A k \in 1 .. Len(e.tape) - 1 : ~Ended(e, k)
        /\ e.outcome \in {"frame_limit", "tape_end"} => Len(e.tape) > 0 /\ ~Ended(e, Len(e.tape))
        /\ e.exit = 0 <=> Completed(e, Len(e.tape)) /\ ~Hit(e.tape)
        /\ e.firstHit = (IF Hit(e.tape) THEN Len(e.tape) ELSE 0)
        /\ e.frames = Len(e.tape) /\ Len(e.tape) <= e.asked.limit
        /\ Len(e.trace) = (IF Len(e.tape) < TraceRows THEN Len(e.tape) ELSE TraceRows)
   BY <2>1, <2>3, <2>4, <2>6, <2>8, <2>10
 <2>12. \A k \in DOMAIN e.trace :
           LET here == Len(e.tape) - Len(e.trace) + k
           IN  e.trace[k] = [before |-> Seen(SubSeq(e.tape, 1, here - 1)), action |-> e.tape[here],
                             after |-> Seen(SubSeq(e.tape, 1, here))]
   BY <2>9, <2>10
 <2> QED BY <2>5, <2>6, <2>7, <2>11, <2>12, Zenon DEF TellsTheGame
<1>13. e.asked.prefix <= Len(e.tape) BY <1>1, <1>3
<1> QED BY <1>3, <1>6, <1>8, <1>10, <1>11, <1>12, <1>13 DEF ReportFacts, e

----
\* Why the replay of a tape may fail.
Script(o) == [asked |-> o, tape |-> o.tape]
Cause(o) ==
    \/ o.limit < Len(o.tape) \/ Len(o.tape) < o.prefix
    \/ \E k \in 1 .. Len(o.tape) :
          SpellActive(SubSeq(o.tape, 1, k)) /\ o.spell >= 0 /\ scene.spell # o.spell
    \/ \E k \in 1 .. Len(o.tape) - 1 : Ended(Script(o), k)
Entry(e) ==
    /\ e \in Reports \union FailedRuns
    /\ e.exit \in {0, 2} => ReportFacts(e)
    /\ e.exit = 1 /\ e.asked.replay /\ ~Refuses(e.asked) => Cause(e.asked)

LEMMA HaltedEnds ==
  ASSUME NEW r, r.tape \in Tapes, Halted(r), r.outcome \notin {"frame_limit", "tape_end"}
  PROVE  Ended(r, Len(r.tape))
<1> DEFINE n == Len(r.tape)
<1>1. SubSeq(r.tape, 1, n) = r.tape BY CutWhole
<1>2. Hit(r.tape) \/ Completed(r, n) \/ RetryMenu(r.tape) BY DEF Halted, Judged
<1> QED BY <1>1, <1>2 DEF Ended

LEMMA FailCause ==
  ASSUME NEW r, RunInv(r), r.phase = "ended", r.asked.replay,
         \/ Len(r.tape) < r.asked.prefix
         \/ Len(r.tape) # Len(r.asked.tape)
  PROVE  Cause(r.asked)
<1> DEFINE n == Len(r.tape)
           u == r.asked.tape
           q == Script(r.asked)
<1>1. r.tape \in Tapes /\ u \in Tapes /\ n \in Nat /\ Len(u) \in Nat BY DEF RunInv, Runs, Asks, Tapes
<1>2. Halted(r) /\ IsPrefix(r.tape, u) BY DEF RunInv, Along
<1>3. n <= Len(u) /\ \A k \in 0 .. n : SubSeq(r.tape, 1, k) = SubSeq(u, 1, k) BY <1>1, <1>2, PrefixCuts
<1>4. CASE n = Len(u) BY <1>4 DEF Cause
<1>5. CASE n < Len(u) /\ r.outcome = "frame_limit" BY <1>2, <1>5 DEF Halted, Cause
<1>6. CASE n < Len(u) /\ r.outcome = "tape_end" BY <1>1, <1>2, <1>6 DEF Halted
<1>7. CASE n < Len(u) /\ r.outcome \notin {"frame_limit", "tape_end"}
 <2>1. Ended(r, n) /\ n > 0 BY <1>1, <1>2, <1>7, HaltedEnds DEF Halted
 <2>2. q.asked = r.asked /\ q.tape = u BY DEF Script
 <2> HIDE DEF q, u
 <2>3. \A i \in 0 .. n : SubSeq(r.tape, 1, i) = SubSeq(q.tape, 1, i) BY <1>3, <2>2
 <2> HIDE DEF n
 <2>4. Ended(r, n) = Ended(q, n) BY <1>1, <2>2, <2>3, EndedAlike
 <2>5. n \in 1 .. Len(u) - 1 BY <1>1, <1>7, <2>1
 <2> QED BY <2>1, <2>4, <2>5 DEF Cause, q, u
<1> QED BY <1>1, <1>3, <1>4, <1>5, <1>6, <1>7

LEMMA WrongCause ==
  ASSUME NEW r, RunInv(r), r.asked.replay, Len(r.tape) < Len(r.asked.tape),
         WrongSpell(r, Append(r.tape, r.asked.tape[Len(r.tape) + 1]))
  PROVE  Cause(r.asked)
<1> DEFINE n == Len(r.tape)
           u == r.asked.tape
<1>1. r.tape \in Tapes /\ u \in Tapes /\ n \in Nat /\ Len(u) \in Nat BY DEF RunInv, Runs, Asks, Tapes
<1>2. IsPrefix(r.tape, u) BY DEF RunInv, Along
<1>3. Append(r.tape, u[n + 1]) = SubSeq(u, 1, n + 1) BY <1>1, <1>2, NextCut
<1>4. n + 1 \in 1 .. Len(u) BY <1>1
<1>5. SpellActive(SubSeq(u, 1, n + 1)) /\ r.asked.spell >= 0 /\ scene.spell # r.asked.spell
  BY <1>3 DEF WrongSpell
<1> QED BY <1>4, <1>5 DEF Cause

----
\* A whole tape played again.
LEMMA ReportTypes ==
  ASSUME NEW e, ReportFacts(e)
  PROVE  /\ e.tape \in Tapes /\ Len(e.tape) \in Nat /\ e.outcome \in RunOutcomes /\ e.exit \in {0, 2}
         /\ e.asked \in Asks
<1>1. e \in Reports BY DEF ReportFacts
<1>2. e.tape \in Tapes /\ e.outcome \in RunOutcomes /\ e.exit \in {0, 2} /\ e.asked \in Asks BY <1>1 DEF Reports
<1> QED BY <1>2 DEF Tapes

LEMMA AskTypes ==
  ASSUME NEW o \in Asks
  PROVE  /\ o.tape \in Tapes /\ Len(o.tape) \in Nat /\ o.limit \in Nat /\ o.prefix \in Nat
         /\ o.spell \in Int
<1>1. o.tape \in Tapes /\ o.limit \in Nat /\ o.prefix \in Nat /\ o.spell \in Int BY DEF Asks
<1> QED BY <1>1 DEF Tapes

LEMMA EntryTypes ==
  ASSUME NEW e, Entry(e)
  PROVE  e.asked \in Asks /\ e.exit \in {0, 1, 2, Signalled}
<1>1. CASE e \in Reports BY <1>1 DEF Reports
<1>2. CASE e \in FailedRuns BY <1>2 DEF FailedRuns
<1> QED BY <1>1, <1>2 DEF Entry

LEMMA TapeReproduced ==
  ASSUME NEW r, ReportFacts(r), NEW e, Entry(e), e.asked.spell = r.asked.spell
  PROVE  Reproduces(r, e)
<1> SUFFICES ASSUME e.exit # Signalled, e.asked.replay, ~Refuses(e.asked), e.asked.tape = r.tape,
                    Len(r.tape) <= e.asked.limit, e.asked.prefix <= Len(r.tape)
             PROVE  /\ e.exit = r.exit /\ e.tape = r.tape /\ e.digest = r.digest
                    /\ e.outcome = r.outcome \/ {e.outcome, r.outcome} \subseteq {"frame_limit", "tape_end"}
  BY DEF Reproduces
<1> DEFINE n == Len(r.tape)
           m == Len(e.tape)
           q == Script(e.asked)
<1>1. /\ r.tape \in Tapes /\ n \in Nat /\ r.outcome \in RunOutcomes /\ r.exit \in {0, 2}
      /\ e.asked.limit \in Nat /\ e.asked.prefix \in Nat /\ e.exit \in {0, 1, 2}
 <2>1. e.asked \in Asks /\ e.exit \in {0, 1, 2} BY EntryTypes
 <2> QED BY <2>1, ReportTypes, AskTypes
<1>2. Along(r) /\ Halted(r) /\ TellsTheGame(r) BY DEF ReportFacts
<1>3. CASE e.exit = 1
 <2>1. Cause(e.asked) BY <1>3 DEF Entry
 <2>2. ASSUME NEW k \in 1 .. n, SpellActive(SubSeq(r.tape, 1, k)), e.asked.spell >= 0, scene.spell # e.asked.spell
       PROVE  FALSE
  <3>1. Begun(r.tape, n) BY <2>2 DEF Begun
  <3> QED BY <1>2, <2>2, <3>1 DEF Along
 <2>3. ASSUME NEW k \in 1 .. n - 1, Ended(q, k) PROVE FALSE
  <3>1. q.asked.spell = r.asked.spell /\ q.tape = r.tape BY DEF Script
  <3> HIDE DEF q, n
  <3>2. k \in Nat /\ \A i \in 0 .. k : SubSeq(q.tape, 1, i) = SubSeq(r.tape, 1, i) BY <3>1
  <3>3. Ended(q, k) = Ended(r, k) BY <3>1, <3>2, EndedAlike, Zenon
  <3> QED BY <1>2, <2>3, <3>3 DEF Along, n
 <2> QED BY <1>1, <2>1, <2>2, <2>3 DEF Cause
<1>4. CASE e.exit # 1
 <2>1. ReportFacts(e) BY <1>1, <1>4 DEF Entry
 <2>2. /\ e.tape \in Tapes /\ m \in Nat /\ e.outcome \in RunOutcomes /\ e.exit \in {0, 2}
   BY <2>1 DEF ReportFacts, Reports, Tapes
 <2>3. Along(e) /\ Halted(e) /\ TellsTheGame(e) /\ IsPrefix(e.tape, r.tape) BY <2>1 DEF ReportFacts, Along
 <2>4. m <= n /\ \A k \in 0 .. m : SubSeq(e.tape, 1, k) = SubSeq(r.tape, 1, k) BY <1>1, <2>2, <2>3, PrefixCuts
 <2>5. m = n
  <3> SUFFICES ASSUME m < n PROVE FALSE BY <1>1, <2>2, <2>4
  <3>1. e.outcome \notin {"frame_limit", "tape_end"} /\ m > 0 BY <1>1, <2>2, <2>3 DEF Halted
  <3>2. Ended(e, m) BY <2>2, <2>3, <3>1, HaltedEnds
  <3> HIDE DEF m, n
  <3>3. Ended(e, m) = Ended(r, m) BY <2>2, <2>4, EndedAlike
  <3>4. m \in 1 .. n - 1 BY <1>1, <2>2, <3>1
  <3> QED BY <1>2, <3>2, <3>3, <3>4 DEF Along, n
 <2>6. e.tape = r.tape
  <3>1. SubSeq(e.tape, 1, m) = e.tape /\ SubSeq(r.tape, 1, n) = r.tape /\ m \in 0 .. m BY <1>1, <2>2, CutWhole
  <3> QED BY <2>4, <2>5, <3>1
 <2>7. e.digest = r.digest BY <1>2, <2>3, <2>6 DEF TellsTheGame
 <2>8. Completed(e, n) = Completed(r, n)
  <3>1. \A i \in 0 .. n : SubSeq(e.tape, 1, i) = SubSeq(r.tape, 1, i) BY <2>6
  <3> HIDE DEF n
  <3> QED BY <1>1, <3>1, EndedAlike
 <2>9. e.exit = r.exit
  <3>1. (e.exit = 0 <=> Completed(e, n) /\ ~Hit(e.tape)) /\ (r.exit = 0 <=> Completed(r, n) /\ ~Hit(r.tape))
    BY <1>2, <2>3, <2>5 DEF TellsTheGame
  <3> QED BY <1>1, <2>2, <2>6, <2>8, <3>1
 <2>10. e.outcome = r.outcome \/ {e.outcome, r.outcome} \subseteq {"frame_limit", "tape_end"}
  <3>1. Judged(e) /\ Judged(r) BY <1>2, <2>3 DEF Halted
  <3>2. /\ e.outcome = (IF Hit(e.tape) THEN "collision" ELSE IF Completed(e, n) THEN "complete"
                        ELSE IF RetryMenu(e.tape) THEN "retry_menu"
                        ELSE IF e.outcome = "tape_end" THEN "tape_end" ELSE "frame_limit")
        /\ r.outcome = (IF Hit(r.tape) THEN "collision" ELSE IF Completed(r, n) THEN "complete"
                        ELSE IF RetryMenu(r.tape) THEN "retry_menu"
                        ELSE IF r.outcome = "tape_end" THEN "tape_end" ELSE "frame_limit")
    BY <2>5, <3>1 DEF Judged
  <3> QED BY <2>6, <2>8, <3>2
 <2> QED BY <2>6, <2>7, <2>9, <2>10
<1> QED BY <1>3, <1>4

----
\* The probe's branches.
BranchFrom(e, frame, through, move) ==
    [e.asked EXCEPT !.tape = Replaced(SubSeq(e.tape, 1, through), frame, move),
                    !.replay = TRUE, !.resume = FALSE, !.limit = through,
                    !.prefix = frame - 1, !.unused = TRUE]
IsBranch(o, e, frame, through, move) ==
    /\ o \in Asks /\ o.spell = e.asked.spell /\ o.replay /\ o.limit = through /\ o.prefix = frame - 1
    /\ o.tape = Replaced(SubSeq(e.tape, 1, through), frame, move)
    /\ Len(o.tape) = through /\ o.tape[frame].move = move
    /\ \A k \in 1 .. through : k # frame => o.tape[k] = e.tape[k]
    /\ e.tape[frame].move = move => o.tape = SubSeq(e.tape, 1, through)

LEMMA BranchTyped ==
  ASSUME NEW e, e.asked \in Asks, e.tape \in Tapes, NEW through \in 1 .. Len(e.tape),
         NEW frame \in 1 .. through, NEW move \in Headings
  PROVE  IsBranch(BranchFrom(e, frame, through, move), e, frame, through, move)
<1> DEFINE c == SubSeq(e.tape, 1, through)
           t == Replaced(c, frame, move)
           o == BranchFrom(e, frame, through, move)
<1>1. Len(e.tape) \in Nat /\ through \in 0 .. Len(e.tape) /\ frame \in Nat /\ through \in Nat /\ frame - 1 \in Nat
  BY DEF Tapes
<1>2. c \in Tapes /\ Len(c) = through /\ \A k \in 1 .. through : c[k] = e.tape[k] BY <1>1, TapeCut
<1> HIDE DEF c
<1>3. c[frame] \in Presses /\ DOMAIN c = 1 .. through BY <1>1, <1>2 DEF Tapes
<1> DEFINE p == [c[frame] EXCEPT !.move = move]
<1>4. p \in Presses /\ p.move = move /\ (c[frame].move = move => p = c[frame]) BY <1>3 DEF Presses
<1>5. t = [c EXCEPT ![frame] = p] BY <1>3 DEF Replaced
<1> HIDE DEF p
<1>6. t \in Tapes /\ Len(t) = through /\ t[frame] = p
      /\ \A k \in 1 .. through : k # frame => t[k] = c[k]
  BY <1>1, <1>2, <1>4, <1>5, ExceptSeq DEF Tapes
<1> HIDE DEF t
<1>7. e.tape[frame].move = move => t = c
 <2> SUFFICES ASSUME e.tape[frame].move = move PROVE t = c OBVIOUS
 <2>1. p = c[frame] BY <1>2, <1>4
 <2>2. \A k \in 1 .. through : t[k] = c[k] BY <1>6, <2>1
 <2> QED BY <1>2, <1>6, <2>2, SeqEqual DEF Tapes
<1>8. o = [e.asked EXCEPT !.tape = t, !.replay = TRUE, !.resume = FALSE, !.limit = through,
                          !.prefix = frame - 1, !.unused = TRUE]
  BY Zenon DEF BranchFrom, t, c
<1>9. /\ o \in Asks /\ o.spell = e.asked.spell /\ o.replay /\ o.limit = through
      /\ o.prefix = frame - 1 /\ o.tape = t
 <2>1. /\ o.spell = e.asked.spell /\ o.replay /\ o.limit = through
       /\ o.prefix = frame - 1 /\ o.tape = t
   BY <1>8 DEF Asks
 <2>2. o \in Asks
  <3>1. /\ e.asked.spell \in Int /\ e.asked.shoot \in {"default", "yes", "no"}
        /\ e.asked.identity \in BOOLEAN
    BY DEF Asks
  <3>2. o = [spell |-> e.asked.spell, limit |-> through, prefix |-> frame - 1,
             shoot |-> e.asked.shoot, identity |-> e.asked.identity,
             replay |-> TRUE, resume |-> FALSE, unused |-> TRUE, tape |-> t]
    BY <1>8 DEF Asks
  <3> HIDE DEF o
  <3> QED BY <1>1, <1>6, <3>1, <3>2 DEF Asks
 <2> QED BY <2>1, <2>2
<1> HIDE DEF o
<1>10. \A k \in 1 .. through : k # frame => t[k] = e.tape[k] BY <1>2, <1>6
<1> QED BY <1>4, <1>6, <1>7, <1>9, <1>10 DEF IsBranch, o, t, c

BranchSays(r, e, frame, through, move) ==
    /\ r.prefix = SubSeq(e.digest, 1, frame - 1)
    /\ r.tape[frame].move = move
    /\ e.tape[frame].move = move => r.digest = SubSeq(e.digest, 1, through)

LEMMA BranchTells ==
  ASSUME NEW e, ReportFacts(e), NEW through \in 1 .. Len(e.tape), NEW frame \in 1 .. through,
         NEW move, NEW r, ReportFacts(r), IsBranch(r.asked, e, frame, through, move),
         r.frames >= frame
  PROVE  BranchSays(r, e, frame, through, move)
<1> DEFINE u == r.asked.tape
           m == Len(r.tape)
<1>1. /\ e.tape \in Tapes /\ Len(e.tape) \in Nat /\ r.tape \in Tapes /\ m \in Nat /\ u \in Tapes
      /\ r.outcome \in RunOutcomes /\ frame \in Nat /\ through \in Nat /\ frame - 1 \in Nat
 <2>1. frame \in Nat /\ through \in Nat /\ frame - 1 \in Nat BY ReportTypes
 <2>2. r.asked \in Asks BY ReportTypes
 <2> QED BY <2>1, <2>2, ReportTypes, AskTypes
<1>2. /\ Along(e) /\ Along(r) /\ Halted(r) /\ e.digest = Updates(e.tape) /\ r.digest = Updates(r.tape)
      /\ r.frames = m /\ r.prefix = SubSeq(r.digest, 1, r.asked.prefix)
  BY DEF ReportFacts, TellsTheGame
<1>3. /\ r.asked.spell = e.asked.spell /\ r.asked.replay /\ r.asked.limit = through
      /\ r.asked.prefix = frame - 1 /\ Len(u) = through /\ u[frame].move = move
      /\ \A k \in 1 .. through : k # frame => u[k] = e.tape[k]
      /\ e.tape[frame].move = move => u = SubSeq(e.tape, 1, through)
  BY DEF IsBranch
<1>4. IsPrefix(r.tape, u) BY <1>2, <1>3 DEF Along
<1> HIDE DEF u
<1>5. /\ m <= through /\ \A k \in 0 .. m : SubSeq(r.tape, 1, k) = SubSeq(u, 1, k)
      /\ \A k \in 1 .. m : r.tape[k] = u[k]
  BY <1>1, <1>3, <1>4, PrefixCuts
<1>6. m >= frame BY <1>2
<1> HIDE DEF m
<1>7. r.tape[frame].move = move
 <2>1. frame \in 1 .. m BY <1>1, <1>6
 <2> QED BY <1>3, <1>5, <2>1
<1>8. r.prefix = SubSeq(e.digest, 1, frame - 1)
 <2>1. \A k \in 1 .. frame - 1 : r.tape[k] = e.tape[k] BY <1>1, <1>3, <1>5, <1>6
 <2>2. frame - 1 \in 0 .. Len(r.tape) /\ frame - 1 \in 0 .. Len(e.tape) BY <1>1, <1>6 DEF m
 <2>3. SubSeq(r.digest, 1, frame - 1) = SubSeq(e.digest, 1, frame - 1) BY <1>1, <1>2, <2>1, <2>2, UpdatesAlike
 <2> QED BY <1>2, <1>3, <2>3
<1>9. ASSUME e.tape[frame].move = move PROVE r.digest = SubSeq(e.digest, 1, through)
 <2>1. u = SubSeq(e.tape, 1, through) /\ through \in 0 .. Len(e.tape) BY <1>1, <1>3, <1>9
 <2>2. ASSUME NEW k \in 0 .. m PROVE SubSeq(r.tape, 1, k) = SubSeq(e.tape, 1, k)
  <3>1. k \in 0 .. through BY <1>1, <1>5
  <3>2. SubSeq(u, 1, k) = SubSeq(e.tape, 1, k) BY <1>1, <2>1, <3>1, CutOfCut
  <3> QED BY <1>5, <3>2
 <2>3. m = through
  <3> SUFFICES ASSUME m < through PROVE FALSE BY <1>1, <1>5
  <3>1. r.outcome \notin {"frame_limit", "tape_end"} /\ m > 0 BY <1>1, <1>2, <1>3 DEF Halted, m, u
  <3>2. Ended(r, m) BY <1>1, <1>2, <3>1, HaltedEnds DEF m
  <3>3. Ended(r, m) = Ended(e, m) BY <1>1, <1>3, <2>2, EndedAlike
  <3>4. m \in 1 .. Len(e.tape) - 1 BY <1>1, <3>1
  <3> QED BY <1>2, <3>2, <3>3, <3>4 DEF Along
 <2>4. \A k \in 1 .. through : r.tape[k] = e.tape[k]
  <3>1. \A k \in 1 .. through : u[k] = e.tape[k] BY <1>1, <2>1, TapeCut
  <3> QED BY <1>5, <2>3, <3>1
 <2>5. Len(r.tape) = through /\ through \in 0 .. Len(r.tape) BY <1>1, <2>3 DEF m
 <2>6. SubSeq(r.digest, 1, through) = SubSeq(e.digest, 1, through)
  <3>1. SubSeq(Updates(r.tape), 1, through) = SubSeq(Updates(e.tape), 1, through)
    BY <1>1, <2>1, <2>4, <2>5, UpdatesAlike
  <3> QED BY <1>2, <3>1
 <2>7. SubSeq(r.digest, 1, through) = r.digest
  <3>1. r.digest \in Digests /\ Len(r.digest) = through BY <1>1, <1>2, <2>5, UpdatesTyped
  <3> QED BY <3>1, SubSeqFull DEF Digests
 <2> QED BY <2>6, <2>7
<1> QED BY <1>7, <1>8, <1>9 DEF BranchSays

----
\* The runs that ended, the run in progress and the probe.
PastInv(p) ==
    /\ p \in Seq(Reports \union FailedRuns)
    /\ \A k \in 1 .. Len(p) : Entry(p[k]) /\ p[k].asked.spell = p[1].asked.spell
NativeInv(n, p) ==
    n # NoNative => RunInv(n) /\ (Len(p) > 0 => n.asked.spell = p[1].asked.spell)
Probings == [phase : {"none", "refused", "branching", "failed", "agreed"}, frame : Nat, through : Nat,
             runs : Seq(Nat), summary : {"none", "old", "new"}]
Reached(e, frame) == e.exit \in {0, 2} /\ e.frames >= frame
Branching(b, p, n) ==
    LET asked(o, i) == IsBranch(o, p[1], b.frame, b.through, CompassOrder[i])
    IN  /\ b.through \in 1 .. Len(p[1].tape) /\ b.frame \in 1 .. b.through
        /\ \A i \in 1 .. Len(b.runs) : b.runs[i] = i + 1
        /\ Len(p) = IF n = NoNative THEN Len(b.runs) + 1 ELSE Len(b.runs)
        /\ \A i \in 1 .. Len(b.runs) : i + 1 <= Len(p) => asked(p[i + 1].asked, i)
        /\ n # NoNative => b.phase = "branching" /\ asked(n.asked, Len(b.runs))
        /\ \A i \in 1 .. Len(b.runs) - 1 : Reached(p[i + 1], b.frame)
        /\ b.phase = "agreed" => \A i \in 1 .. Len(b.runs) : Reached(p[i + 1], b.frame)
ProbeInv(b, p, n) ==
    /\ b \in Probings
    /\ b.summary = "new" <=> b.phase = "agreed"
    /\ b.summary = "old" <=> b.phase \in {"none", "refused"}
    /\ b.phase = "none" => b.runs = << >>
    /\ b.phase = "refused" => n = NoNative
    /\ b.phase # "none" => Len(p) > 0 /\ p[1].exit \in {0, 2}
    /\ b.phase \in {"branching", "failed", "agreed"} => Branching(b, p, n)
HeadOk(p, n, b) == PastInv(p) /\ NativeInv(n, p) /\ ProbeInv(b, p, n)
HeadlessInv == HeadOk(past, native, probe)

----
LEMMA PastGrows ==
  ASSUME NEW p, PastInv(p), NEW e, Entry(e), Len(p) > 0 => e.asked.spell = p[1].asked.spell
  PROVE  LET q == Append(p, e)
         IN  /\ PastInv(q) /\ Len(q) = Len(p) + 1 /\ q[Len(p) + 1] = e
             /\ \A k \in 1 .. Len(p) : q[k] = p[k]
<1> DEFINE q == Append(p, e)
<1>1. e \in Reports \union FailedRuns /\ p \in Seq(Reports \union FailedRuns) /\ Len(p) \in Nat
  BY DEF Entry, PastInv
<1>2. /\ q \in Seq(Reports \union FailedRuns) /\ Len(q) = Len(p) + 1 /\ q[Len(p) + 1] = e
      /\ \A k \in 1 .. Len(p) : q[k] = p[k]
  BY <1>1, AppendProperties
<1> HIDE DEF q
<1>3. ASSUME NEW k \in 1 .. Len(q) PROVE Entry(q[k]) /\ q[k].asked.spell = q[1].asked.spell
 <2>1. CASE k = Len(p) + 1
  <3>1. CASE Len(p) = 0 BY <1>2, <2>1, <3>1
  <3>2. CASE Len(p) > 0
   <4>1. q[1] = p[1] /\ q[k] = e BY <1>1, <1>2, <2>1, <3>2
   <4> QED BY <3>2, <4>1
  <3> QED BY <1>1, <3>1, <3>2
 <2>2. CASE k # Len(p) + 1
  <3>1. k \in 1 .. Len(p) /\ 1 \in 1 .. Len(p) BY <1>1, <1>2, <2>2
  <3>2. q[k] = p[k] /\ q[1] = p[1] BY <1>2, <3>1
  <3> QED BY <3>1, <3>2 DEF PastInv
 <2> QED BY <2>1, <2>2
<1> QED BY <1>2, <1>3 DEF PastInv, q

\* A run that ended is put with the others.
LEMMA RunPut ==
  ASSUME NEW p, NEW n, NEW b, HeadOk(p, n, b), n # NoNative,
         NEW e, Entry(e), e.asked = n.asked
  PROVE  HeadOk(Append(p, e), NoNative, b)
<1> DEFINE q == Append(p, e)
<1>1. PastInv(p) /\ NativeInv(n, p) /\ ProbeInv(b, p, n) /\ Len(p) \in Nat BY DEF HeadOk, PastInv
<1>2. /\ PastInv(q) /\ Len(q) = Len(p) + 1 /\ q[Len(p) + 1] = e
      /\ \A k \in 1 .. Len(p) : q[k] = p[k]
  BY <1>1, PastGrows DEF NativeInv
<1> HIDE DEF q
<1>3. b.phase # "none" => Len(q) > 0 /\ q[1] = p[1]
 <2> SUFFICES ASSUME b.phase # "none" PROVE Len(q) > 0 /\ q[1] = p[1] OBVIOUS
 <2>1. Len(p) > 0 BY <1>1 DEF ProbeInv
 <2>2. 1 \in 1 .. Len(p) BY <1>1, <2>1
 <2> QED BY <1>1, <1>2, <2>2
<1>4. ASSUME Branching(b, p, n), b \in Probings, q[1] = p[1] PROVE Branching(b, q, NoNative)
 <2> DEFINE m == Len(b.runs)
 <2>1. /\ b.through \in 1 .. Len(p[1].tape) /\ b.frame \in 1 .. b.through
       /\ \A i \in 1 .. m : b.runs[i] = i + 1
       /\ Len(p) = m /\ b.phase = "branching"
       /\ \A i \in 1 .. m : i + 1 <= Len(p) => IsBranch(p[i + 1].asked, p[1], b.frame, b.through, CompassOrder[i])
       /\ IsBranch(n.asked, p[1], b.frame, b.through, CompassOrder[m])
       /\ \A i \in 1 .. m - 1 : Reached(p[i + 1], b.frame)
   BY <1>4 DEF Branching
 <2>2. m \in Nat BY <1>4 DEF Probings
 <2> HIDE DEF m
 <2>3. ASSUME NEW i \in 1 .. m PROVE IsBranch(q[i + 1].asked, q[1], b.frame, b.through, CompassOrder[i])
  <3>1. CASE i = m BY <1>2, <1>4, <2>1, <3>1
  <3>2. CASE i # m
   <4>1. i + 1 \in 1 .. Len(p) BY <2>1, <2>2, <3>2
   <4> QED BY <1>2, <1>4, <2>1, <4>1
  <3> QED BY <3>1, <3>2
 <2>4. ASSUME NEW i \in 1 .. m - 1 PROVE Reached(q[i + 1], b.frame)
  <3>1. i + 1 \in 1 .. Len(p) BY <2>1, <2>2
  <3> QED BY <1>2, <2>1, <3>1
 <2>5. Len(q) = m + 1 BY <1>2, <2>1
 <2> QED BY <1>4, <2>1, <2>3, <2>4, <2>5 DEF Branching, m
<1>5. ProbeInv(b, q, NoNative) BY <1>1, <1>3, <1>4 DEF ProbeInv
<1> QED BY <1>2, <1>5 DEF HeadOk, NativeInv, q

\* The run goes on.
LEMMA RunOn ==
  ASSUME NEW p, NEW n, NEW b, HeadOk(p, n, b), n # NoNative,
         NEW s, RunInv(s), s.asked = n.asked
  PROVE  HeadOk(p, s, b)
<1>1. s # NoNative BY DEF RunInv, Runs, NoNative
<1>2. NativeInv(s, p) BY DEF HeadOk, NativeInv
<1>3. Branching(b, p, n) => Branching(b, p, s) BY <1>1 DEF Branching
<1>4. ProbeInv(b, p, s) BY <1>1, <1>3 DEF HeadOk, ProbeInv
<1> QED BY <1>2, <1>4 DEF HeadOk

LEMMA FailedEntry ==
  ASSUME NEW o \in Asks, NEW x \in {1, Signalled}, x = 1 /\ o.replay /\ ~Refuses(o) => Cause(o)
  PROVE  LET e == [asked |-> o, exit |-> x] IN Entry(e) /\ e.asked = o
BY DEF Entry, FailedRuns, Signalled

\* A run is launched.
LEMMA RunLaunched ==
  ASSUME NEW p, NEW b, HeadOk(p, NoNative, b), NEW o \in Asks, NEW q, NEW n,
         Len(p) > 0 => o.spell = p[1].asked.spell,
         \/ Refuses(o) /\ q = Append(p, FailedRun(o)) /\ n = NoNative
         \/ ~Refuses(o) /\ q = p /\ n = Fresh(o)
  PROVE  /\ PastInv(q) /\ NativeInv(n, q)
         /\ \/ n = NoNative /\ Len(q) = Len(p) + 1 /\ q[Len(p) + 1].asked = o
            \/ n # NoNative /\ Len(q) = Len(p) /\ n.asked = o
         /\ \A k \in 1 .. Len(p) : q[k] = p[k]
<1>1. PastInv(p) BY DEF HeadOk
<1>2. CASE Refuses(o) /\ q = Append(p, FailedRun(o)) /\ n = NoNative
 <2> DEFINE e == FailedRun(o)
 <2>1. Entry(e) /\ e.asked = o BY <1>2, FailedEntry DEF FailedRun
 <2> HIDE DEF e
 <2>2. /\ PastInv(Append(p, e)) /\ Len(Append(p, e)) = Len(p) + 1 /\ Append(p, e)[Len(p) + 1] = e
       /\ \A k \in 1 .. Len(p) : Append(p, e)[k] = p[k]
   BY <1>1, <2>1, PastGrows
 <2> QED BY <1>2, <2>1, <2>2 DEF NativeInv, e
<1>3. CASE ~Refuses(o) /\ q = p /\ n = Fresh(o)
 <2>1. RunInv(n) /\ n.asked = o BY <1>3, FreshRun
 <2>2. n # NoNative BY <2>1 DEF RunInv, Runs, NoNative
 <2> QED BY <1>1, <1>3, <2>1, <2>2 DEF NativeInv
<1> QED BY <1>2, <1>3

----
LEMMA InvFacts ==
  ASSUME HeadlessInv
  PROVE  /\ PastInv(past) /\ NativeInv(native, past) /\ ProbeInv(probe, past, native) /\ Len(past) \in Nat
         /\ probe \in Probings /\ Len(probe.runs) \in Nat
         /\ native.phase = "idle" <=> native = NoNative
         /\ native # NoNative => RunInv(native) /\ native.asked \in Asks /\ native.asked.tape \in Tapes
                                 /\ native.tape \in Tapes /\ native.phase \in {"playing", "ended"}
<1>1. /\ PastInv(past) /\ NativeInv(native, past) /\ ProbeInv(probe, past, native) /\ Len(past) \in Nat
  BY DEF HeadlessInv, HeadOk, PastInv
<1>2. NoNative.phase = "idle" BY DEF NoNative
<1>3. native # NoNative => RunInv(native) /\ native \in Runs BY <1>1 DEF NativeInv, RunInv
<1>4. native # NoNative => /\ native.asked \in Asks /\ native.asked.tape \in Tapes
                           /\ native.tape \in Tapes /\ native.phase \in {"playing", "ended"}
  BY <1>3 DEF Runs, Asks, RunPhases
<1>5. probe \in Probings /\ Len(probe.runs) \in Nat BY <1>1 DEF ProbeInv, Probings
<1> QED BY <1>1, <1>2, <1>3, <1>4, <1>5

LEMMA Facts1 ==
  ASSUME HeadlessInv, Len(past) > 0, past[1].exit \in {0, 2}
  PROVE  /\ ReportFacts(past[1]) /\ past[1].asked \in Asks /\ Source \in Tapes /\ Len(Source) \in Nat
         /\ Source # << >> /\ Len(Source) > 0
<1>1. 1 \in 1 .. Len(past) BY InvFacts
<1>2. Entry(past[1]) BY <1>1, InvFacts DEF PastInv
<1>3. ReportFacts(past[1]) BY <1>2 DEF Entry
<1>4. past[1].asked \in Asks /\ Source \in Tapes /\ Len(Source) \in Nat /\ Len(Source) > 0
  BY <1>3 DEF ReportFacts, Reports, Source, Tapes, Halted
<1>5. Source # << >> BY <1>4, EmptySeq DEF Tapes
<1> QED BY <1>3, <1>4, <1>5

LEMMA HandedTyped ==
  ASSUME HeadlessInv, Len(past) > 0, past[1].exit \in {0, 2}
  PROVE  Handed \subseteq Tapes
<1>1. Source \in Tapes /\ Len(Source) \in Nat /\ Len(Source) > 0 BY Facts1
<1>2. NoTape \in Tapes BY DEF NoTape, Tapes
<1>3. Unreadable \in Tapes BY DEF Unreadable, Tapes, Presses, Headings
<1>4. \A n \in 1 .. Len(Source) : SubSeq(Source, 1, n) \in Tapes
 <2> TAKE n \in 1 .. Len(Source)
 <2>1. n \in 0 .. Len(Source) BY <1>1
 <2> QED BY <1>1, <2>1, TapeCut
<1>5. Append(Source, Last(Source)) \in Tapes
 <2>1. Len(Source) \in 1 .. Len(Source) BY <1>1
 <2>2. Last(Source) \in Presses BY <1>1, <2>1 DEF Last, Tapes
 <2> QED BY <1>1, <2>2, TapeGrown
<1> QED BY <1>1, <1>2, <1>3, <1>4, <1>5 DEF Handed

LEMMA LaunchedIdle ==
  ASSUME HeadlessInv, native.phase = "idle", NEW o \in Asks, LaunchRun(o),
         Len(past) > 0 => o.spell = past[1].asked.spell
  PROVE  /\ PastInv(past') /\ NativeInv(native', past')
         /\ \/ native' = NoNative /\ Len(past') = Len(past) + 1 /\ past'[Len(past) + 1].asked = o
            \/ native' # NoNative /\ Len(past') = Len(past) /\ native'.asked = o
         /\ \A k \in 1 .. Len(past) : past'[k] = past[k]
<1>1. native = NoNative /\ HeadOk(past, NoNative, probe) BY InvFacts DEF HeadlessInv
<1>2. \/ Refuses(o) /\ past' = Append(past, FailedRun(o)) /\ native' = NoNative
      \/ ~Refuses(o) /\ past' = past /\ native' = Fresh(o)
  BY <1>1 DEF LaunchRun
<1> QED BY <1>1, <1>2, RunLaunched

LEMMA AskRunKeeps == ASSUME HeadlessInv, AskRun PROVE HeadOk(past', native', probe')
<1>1. native.phase = "idle" /\ probe.phase = "none" /\ scene' = scene /\ probe' = probe BY DEF AskRun
<1>2. PICK o \in Asks : LaunchRun(o) /\ (Len(past) > 0 => o.spell = past[1].asked.spell)
 <2>1. CASE past = << >> /\ \E o \in FirstOptions : LaunchRun(o)
  <3>1. PICK o \in FirstOptions : LaunchRun(o) BY <2>1
  <3>2. o \in RunOptions /\ {<< >>} \subseteq Tapes BY HeadlessNumbers DEF Tapes
  <3> HIDE DEF LaunchRun
  <3>3. o \in Asks BY <3>2 DEF RunOptions, Asks
  <3>4. ~(Len(past) > 0) BY <2>1
  <3> QED BY <3>1, <3>3, <3>4
 <2>2. CASE past # << >> /\ Reported(1) /\ \E o \in TapeOptions, given \in Handed :
               LaunchRun([o EXCEPT !.tape = given, !.spell = past[1].asked.spell])
  <3>1. PICK o \in TapeOptions, given \in Handed :
              LaunchRun([o EXCEPT !.tape = given, !.spell = past[1].asked.spell])
    BY <2>2
  <3>2. Len(past) > 0 /\ past[1].exit \in {0, 2} BY <2>2, InvFacts, EmptySeq DEF PastInv, Reported
  <3>3. given \in Tapes /\ past[1].asked.spell \in Int BY <3>2, Facts1, HandedTyped DEF Asks
  <3> DEFINE q == [o EXCEPT !.tape = given, !.spell = past[1].asked.spell]
  <3>4. o \in RunOptions BY HeadlessNumbers
  <3>5. q \in Asks /\ q.spell = past[1].asked.spell BY <3>3, <3>4 DEF RunOptions, Asks
  <3> QED BY <3>1, <3>5
 <2> QED BY <2>1, <2>2 DEF AskRun
<1>3. PastInv(past') /\ NativeInv(native', past') BY <1>1, <1>2, LaunchedIdle
<1>4. ProbeInv(probe', past', native') BY <1>1, InvFacts DEF ProbeInv
<1> QED BY <1>3, <1>4 DEF HeadOk

LEMMA FailsOk ==
  ASSUME HeadlessInv, native # NoNative, FailRun, UNCHANGED probe,
         native.asked.replay => Cause(native.asked)
  PROVE  HeadOk(past', native', probe')
<1>1. past' = Append(past, FailedRun(native.asked)) /\ native' = NoNative /\ probe' = probe BY DEF FailRun
<1> DEFINE e == FailedRun(native.asked)
<1>2. Entry(e) /\ e.asked = native.asked BY InvFacts, FailedEntry DEF FailedRun
<1> HIDE DEF e
<1>3. HeadOk(Append(past, e), NoNative, probe) BY <1>2, RunPut DEF HeadlessInv
<1> QED BY <1>1, <1>3 DEF e

LEMMA FrameKeeps == ASSUME HeadlessInv, Frame PROVE HeadOk(past', native', probe')
<1>1. native.phase = "playing" /\ scene' = scene /\ probe' = probe BY DEF Frame
<1>2. /\ native # NoNative /\ RunInv(native) /\ native.asked \in Asks /\ native.asked.tape \in Tapes
      /\ native.tape \in Tapes /\ Len(native.tape) \in Nat /\ Len(native.asked.tape) \in Nat
      /\ native.asked.limit \in Nat /\ Along(native)
  BY <1>1, InvFacts DEF Tapes, Asks, RunInv
<1>3. CASE Len(native.tape) = native.asked.limit
           /\ native' = [native EXCEPT !.phase = "ended"] /\ past' = past
 <2>1. native.outcome = "frame_limit" /\ native \in Runs BY <1>1, <1>2 DEF RunInv, Playing
 <2>2. native' = [native EXCEPT !.phase = "ended", !.outcome = "frame_limit"] BY <1>3, <2>1 DEF Runs
 <2>3. RunInv(native') /\ native'.asked = native.asked BY <1>1, <1>2, <1>3, <2>2, RunEnds
 <2> QED BY <1>1, <1>2, <1>3, <2>3, RunOn DEF HeadlessInv
<1>4. CASE native.asked.replay /\ Len(native.tape) = Len(native.asked.tape)
           /\ native' = [native EXCEPT !.phase = "ended", !.outcome = "tape_end"] /\ past' = past
 <2>1. RunInv(native') /\ native'.asked = native.asked BY <1>1, <1>2, <1>4, RunEnds
 <2> QED BY <1>1, <1>2, <1>4, <2>1, RunOn DEF HeadlessInv
<1>5. ASSUME Len(native.tape) < native.asked.limit,
             NEW action \in IF Recorded(native)
                            THEN {native.asked.tape[k] : k \in {Len(native.tape) + 1} \cap DOMAIN native.asked.tape}
                            ELSE {Chosen(native, move) : move \in Compass},
             IF WrongSpell(native, Append(native.tape, action)) THEN FailRun
             ELSE native' = Played(native, action) /\ UNCHANGED past
      PROVE  HeadOk(past', native', probe')
 <2> DEFINE n == Len(native.tape)
            u == native.asked.tape
 <2>1. Recorded(native) => n < Len(u) /\ action = u[n + 1]
  <3>1. DOMAIN u = 1 .. Len(u) BY <1>2 DEF Tapes
  <3> QED BY <1>2, <1>5, <3>1
 <2>2. action \in Presses
  <3>1. CASE Recorded(native)
   <4>1. n + 1 \in 1 .. Len(u) BY <1>2, <2>1, <3>1
   <4> QED BY <1>2, <2>1, <3>1, <4>1 DEF Tapes
  <3>2. CASE ~Recorded(native)
   <4>1. PICK move \in Compass : action = Chosen(native, move) BY <1>5, <3>2
   <4> DEFINE shot == IF native.asked.shoot = "default" THEN native.asked.spell < 0 ELSE native.asked.shoot = "yes"
              confirm == native.asked.spell < 0 /\ Len(native.tape) % 2 = 1
   <4>2. shot \in BOOLEAN /\ confirm \in BOOLEAN
    <5>1. (native.asked.spell < 0) \in BOOLEAN BY <1>2 DEF Asks
    <5>2. (native.asked.shoot = "yes") \in BOOLEAN /\ confirm \in BOOLEAN BY Zenon
    <5> QED BY <5>1, <5>2, Zenon
   <4>3. action = [move |-> move, shot |-> shot, confirm |-> confirm] BY <4>1, Zenon DEF Chosen
   <4> HIDE DEF shot, confirm
   <4>4. move \in Headings BY DEF Headings
   <4> QED BY <4>2, <4>3, <4>4 DEF Presses
  <3> QED BY <3>1, <3>2
 <2>3. native.asked.replay => n < Len(u) /\ action = u[n + 1] BY <2>1 DEF Recorded
 <2>4. native.asked.resume /\ n < Len(u) => action = u[n + 1] BY <2>1 DEF Recorded
 <2>5. CASE WrongSpell(native, Append(native.tape, action))
  <3>1. native.asked.replay => Cause(native.asked) BY <1>2, <2>3, <2>5, WrongCause
  <3> QED BY <1>1, <1>2, <1>5, <2>5, <3>1, FailsOk
 <2>6. CASE ~WrongSpell(native, Append(native.tape, action))
  <3>1. native' = Played(native, action) /\ past' = past BY <1>5, <2>6
  <3>2. RunInv(Played(native, action)) /\ Played(native, action).asked = native.asked
    BY <1>1, <1>2, <1>5, <2>2, <2>3, <2>4, <2>6, PlayedRun
  <3> QED BY <1>1, <1>2, <3>1, <3>2, RunOn DEF HeadlessInv
 <2> QED BY <2>5, <2>6
<1> QED BY <1>3, <1>4, <1>5 DEF Frame

LEMMA EndingsKeep ==
  ASSUME HeadlessInv, Unforeseen \/ KilledRun \/ ConcludeRun
  PROVE  HeadOk(past', native', probe')
<1>1. scene' = scene /\ probe' = probe BY DEF Unforeseen, KilledRun, ConcludeRun
<1>2. CASE Unforeseen
 <2>1. native # NoNative /\ ~native.asked.replay /\ FailRun BY <1>2, InvFacts DEF Unforeseen, Recorded
 <2> QED BY <1>1, <2>1, FailsOk
<1>3. CASE KilledRun
 <2>1. native # NoNative /\ native' = NoNative
       /\ past' = Append(past, [asked |-> native.asked, exit |-> Signalled])
   BY <1>3, InvFacts DEF KilledRun
 <2> DEFINE e == [asked |-> native.asked, exit |-> Signalled]
 <2>2. Entry(e) /\ e.asked = native.asked
  <3>1. native.asked \in Asks /\ Signalled # 1 BY <2>1, InvFacts DEF Signalled
  <3> QED BY <3>1, FailedEntry
 <2> HIDE DEF e
 <2>3. HeadOk(Append(past, e), NoNative, probe) BY <2>1, <2>2, RunPut DEF HeadlessInv
 <2> QED BY <1>1, <2>1, <2>3 DEF e
<1>4. CASE ConcludeRun
 <2> DEFINE bad == \/ Len(native.tape) < native.asked.prefix
                   \/ native.asked.replay /\ Len(native.tape) # Len(native.asked.tape) /\ ~native.asked.unused
 <2>1. native # NoNative /\ native.phase = "ended" /\ RunInv(native) BY <1>4, InvFacts DEF ConcludeRun
 <2>2. CASE bad
  <3>1. FailRun BY <1>4, <2>2 DEF ConcludeRun
  <3>2. native.asked.replay => Cause(native.asked) BY <2>1, <2>2, FailCause
  <3> QED BY <1>1, <2>1, <3>1, <3>2, FailsOk
 <2>3. CASE ~bad
  <3>1. past' = Append(past, Report(native)) /\ native' = NoNative BY <1>4, <2>3 DEF ConcludeRun
  <3> DEFINE e == Report(native)
  <3>2. ReportFacts(e) /\ e.asked = native.asked BY <2>1, <2>3, ReportTells
  <3> HIDE DEF e
  <3>3. Entry(e) BY <3>2 DEF Entry, ReportFacts, Reports
  <3>4. HeadOk(Append(past, e), NoNative, probe) BY <2>1, <3>2, <3>3, RunPut DEF HeadlessInv
  <3> QED BY <1>1, <3>1, <3>4 DEF e
 <2> QED BY <2>2, <2>3
<1> QED BY <1>2, <1>3, <1>4

LEMMA ProbeStartsKeeps == ASSUME HeadlessInv, ProbeStarts PROVE HeadOk(past', native', probe')
<1>1. /\ probe.phase = "none" /\ native = NoNative /\ Len(past) = 1 /\ past[1].exit \in {0, 2}
      /\ past' = past /\ native' = NoNative /\ Len(past') > 0 /\ past'[1].exit \in {0, 2}
 <2>1. /\ probe.phase = "none" /\ native.phase = "idle" /\ Len(past) = 1 /\ Reported(1)
       /\ past' = past /\ native' = native
   BY DEF ProbeStarts
 <2>2. native = NoNative BY <2>1, InvFacts
 <2> QED BY <2>1, <2>2 DEF Reported
<1>2. PICK ask \in Probes :
          LET through == IF ask.through = 0 THEN ask.frame ELSE ask.through
          IN  IF ask.frame = 0 \/ through < ask.frame \/ through > Len(Source)
              THEN probe' = [probe EXCEPT !.phase = "refused"]
              ELSE probe' = [probe EXCEPT !.phase = "branching", !.frame = ask.frame, !.through = through,
                                          !.summary = "none"]
  BY DEF ProbeStarts
<1> DEFINE through == IF ask.through = 0 THEN ask.frame ELSE ask.through
<1>3. ask.frame \in Nat /\ through \in Nat BY HeadlessNumbers
<1>4. /\ probe \in Probings /\ probe.runs = << >> /\ probe.summary = "old" /\ Len(Source) \in Nat
      /\ Len(probe.runs) = 0
  BY <1>1, InvFacts, Facts1 DEF ProbeInv
<1> HIDE DEF through
<1>5. CASE ask.frame = 0 \/ through < ask.frame \/ through > Len(Source)
 <2>1. probe' = [probe EXCEPT !.phase = "refused"] BY <1>2, <1>5 DEF through
 <2>2. probe' \in Probings /\ probe'.phase = "refused" /\ probe'.summary = "old" /\ probe'.runs = << >>
   BY <1>4, <2>1 DEF Probings
 <2>3. /\ probe'.summary = "new" <=> probe'.phase = "agreed"
       /\ probe'.summary = "old" <=> probe'.phase \in {"none", "refused"}
       /\ probe'.phase # "none" /\ probe'.phase \notin {"branching", "failed", "agreed"}
   BY <2>2
 <2>4. ProbeInv(probe', past', native') BY <1>1, <2>2, <2>3 DEF ProbeInv
 <2>5. PastInv(past') /\ NativeInv(native', past') BY <1>1, InvFacts
 <2> QED BY <2>4, <2>5 DEF HeadOk
<1>6. CASE ~(ask.frame = 0 \/ through < ask.frame \/ through > Len(Source))
 <2>1. probe' = [probe EXCEPT !.phase = "branching", !.frame = ask.frame, !.through = through,
                              !.summary = "none"]
   BY <1>2, <1>6 DEF through
 <2>2. /\ probe' \in Probings /\ probe'.phase = "branching" /\ probe'.summary = "none"
       /\ probe'.runs = probe.runs /\ probe'.frame = ask.frame /\ probe'.through = through
   BY <1>3, <1>4, <2>1 DEF Probings
 <2>3. through \in 1 .. Len(past[1].tape) /\ ask.frame \in 1 .. through BY <1>3, <1>4, <1>6 DEF Source
 <2>4. Branching(probe', past', native') BY <1>1, <1>4, <2>2, <2>3 DEF Branching
 <2>5. /\ probe'.summary = "new" <=> probe'.phase = "agreed"
       /\ probe'.summary = "old" <=> probe'.phase \in {"none", "refused"}
       /\ probe'.phase # "none" /\ probe'.phase # "refused"
   BY <2>2
 <2>6. ProbeInv(probe', past', native') BY <1>1, <2>2, <2>4, <2>5 DEF ProbeInv
 <2>7. PastInv(past') /\ NativeInv(native', past') BY <1>1, InvFacts
 <2> QED BY <2>6, <2>7 DEF HeadOk
<1> QED BY <1>5, <1>6

LEMMA ProbeBranchKeeps == ASSUME HeadlessInv, ProbeBranch PROVE HeadOk(past', native', probe')
<1> DEFINE m == Len(probe.runs)
           move == CompassOrder[m + 1]
           o == BranchOf(move)
<1>1. /\ probe.phase = "branching" /\ native = NoNative /\ native.phase = "idle" /\ Len(past) = 1 + m
      /\ LaunchRun(o) /\ probe' = [probe EXCEPT !.runs = Append(@, Len(past) + 1)]
      /\ probe.runs # << >> => Agrees(Last(probe.runs))
  BY InvFacts DEF ProbeBranch
<1>2. /\ probe \in Probings /\ m \in Nat /\ probe.summary = "none" /\ Branching(probe, past, NoNative)
      /\ Len(past) > 0 /\ past[1].exit \in {0, 2} /\ PastInv(past)
  BY <1>1, InvFacts DEF ProbeInv, Probings
<1>3. /\ past[1].asked \in Asks /\ past[1].tape \in Tapes BY <1>2, Facts1 DEF Source
<1>4. /\ probe.through \in 1 .. Len(past[1].tape) /\ probe.frame \in 1 .. probe.through
      /\ \A i \in 1 .. m : probe.runs[i] = i + 1
      /\ \A i \in 1 .. m : i + 1 <= Len(past) =>
            IsBranch(past[i + 1].asked, past[1], probe.frame, probe.through, CompassOrder[i])
      /\ \A i \in 1 .. m - 1 : Reached(past[i + 1], probe.frame)
  BY <1>2 DEF Branching
<1>5. IsBranch(o, past[1], probe.frame, probe.through, move)
 <2>1. m + 1 \in Nat BY <1>2
 <2>2. move \in Headings BY <2>1 DEF Headings
 <2>3. o = BranchFrom(past[1], probe.frame, probe.through, move) BY DEF BranchOf, BranchFrom, Source
 <2> HIDE DEF o, move
 <2> QED BY <1>3, <1>4, <2>2, <2>3, BranchTyped
<1> HIDE DEF o, move
<1>6. o \in Asks /\ o.spell = past[1].asked.spell BY <1>5 DEF IsBranch
<1>7. /\ PastInv(past') /\ NativeInv(native', past')
      /\ \/ native' = NoNative /\ Len(past') = Len(past) + 1 /\ past'[Len(past) + 1].asked = o
         \/ native' # NoNative /\ Len(past') = Len(past) /\ native'.asked = o
      /\ \A k \in 1 .. Len(past) : past'[k] = past[k]
  BY <1>1, <1>6, LaunchedIdle
<1> DEFINE runs == Append(probe.runs, m + 2)
<1>8. /\ probe.runs \in Seq(Nat) /\ m + 2 \in Nat /\ Len(past) + 1 = m + 2 BY <1>1, <1>2 DEF Probings
<1>9. /\ runs \in Seq(Nat) /\ Len(runs) = m + 1 /\ runs[m + 1] = m + 2
      /\ \A i \in 1 .. m : runs[i] = probe.runs[i]
  BY <1>8, AppendProperties
<1>10. probe' = [probe EXCEPT !.runs = runs] BY <1>1, <1>8
<1> HIDE DEF runs
<1>11. /\ probe' \in Probings /\ probe'.phase = "branching" /\ probe'.summary = "none"
       /\ probe'.runs = runs /\ probe'.frame = probe.frame /\ probe'.through = probe.through
  BY <1>1, <1>2, <1>9, <1>10 DEF Probings
<1>12. past'[1] = past[1] /\ Len(past') > 0 /\ past'[1].exit \in {0, 2}
 <2>1. 1 \in 1 .. Len(past) BY <1>1, <1>2
 <2>2. past'[1] = past[1] BY <1>7, <2>1
 <2> QED BY <1>1, <1>2, <1>7, <2>2
<1>13. \A i \in 1 .. m : Reached(past[i + 1], probe.frame)
 <2> SUFFICES ASSUME NEW i \in 1 .. m PROVE Reached(past[i + 1], probe.frame) OBVIOUS
 <2>1. CASE i = m
  <3>1. probe.runs # << >> /\ Last(probe.runs) = m + 1 BY <1>2, <1>4, <2>1 DEF Last
  <3>2. Agrees(m + 1) BY <1>1, <3>1
  <3> QED BY <2>1, <3>2 DEF Agrees, Reported, Reached
 <2>2. CASE i # m BY <1>2, <1>4, <2>2
 <2> QED BY <2>1, <2>2
<1> HIDE DEF m
<1>14. ASSUME NEW i \in 1 .. m + 1
       PROVE  /\ runs[i] = i + 1
              /\ i + 1 <= Len(past') =>
                    IsBranch(past'[i + 1].asked, past'[1], probe.frame, probe.through, CompassOrder[i])
 <2>1. CASE i = m + 1
  <3>1. runs[i] = i + 1 /\ i + 1 = Len(past) + 1 BY <1>1, <1>2, <1>9, <2>1
  <3>2. i + 1 <= Len(past') => past'[i + 1].asked = o BY <1>1, <1>2, <1>7, <3>1
  <3> QED BY <1>5, <1>12, <2>1, <3>1, <3>2 DEF move
 <2>2. CASE i # m + 1
  <3>1. i \in 1 .. m /\ i + 1 \in 1 .. Len(past) /\ i + 1 <= Len(past) BY <1>1, <1>2, <2>2
  <3> QED BY <1>4, <1>7, <1>9, <1>12, <3>1
 <2> QED BY <2>1, <2>2
<1>15. \A i \in 1 .. m : Reached(past'[i + 1], probe.frame)
 <2> SUFFICES ASSUME NEW i \in 1 .. m PROVE Reached(past'[i + 1], probe.frame) OBVIOUS
 <2>1. i + 1 \in 1 .. Len(past) BY <1>1, <1>2
 <2> QED BY <1>7, <1>13, <2>1
<1>16. Branching(probe', past', native')
 <2>1. Len(past') = IF native' = NoNative THEN Len(runs) + 1 ELSE Len(runs) BY <1>1, <1>2, <1>7, <1>9
 <2>2. native' # NoNative =>
          IsBranch(native'.asked, past'[1], probe.frame, probe.through, CompassOrder[m + 1])
   BY <1>5, <1>7, <1>12 DEF move
 <2>3. m + 1 - 1 = m BY <1>2
 <2> DEFINE b == probe'
            p == past'
            n == native'
 <2>4. Len(b.runs) = m + 1 /\ Len(b.runs) - 1 = m
  <3>1. Len(b.runs) = m + 1 BY <1>9, <1>11
  <3> QED BY <1>2, <3>1
 <2>5. b.through \in 1 .. Len(p[1].tape) /\ b.frame \in 1 .. b.through BY <1>4, <1>11, <1>12
 <2>6. \A i \in 1 .. Len(b.runs) : b.runs[i] = i + 1 BY <1>11, <1>14, <2>4
 <2>7. \A i \in 1 .. Len(b.runs) : i + 1 <= Len(p) =>
          IsBranch(p[i + 1].asked, p[1], b.frame, b.through, CompassOrder[i])
   BY <1>11, <1>14, <2>4
 <2>8. n # NoNative => b.phase = "branching"
                       /\ IsBranch(n.asked, p[1], b.frame, b.through, CompassOrder[Len(b.runs)])
   BY <1>11, <2>2, <2>4
 <2>9. \A i \in 1 .. Len(b.runs) - 1 : Reached(p[i + 1], b.frame) BY <1>11, <1>15, <2>4
 <2>10. b.phase # "agreed" /\ Len(p) = IF n = NoNative THEN Len(b.runs) + 1 ELSE Len(b.runs)
   BY <1>11, <2>1, <2>4
 <2> HIDE DEF b, p, n
 <2>11. Branching(b, p, n) BY <2>5, <2>6, <2>7, <2>8, <2>9, <2>10 DEF Branching
 <2> QED BY <2>11 DEF b, p, n
<1>17. ProbeInv(probe', past', native') BY <1>11, <1>12, <1>16 DEF ProbeInv
<1> QED BY <1>7, <1>17 DEF HeadOk

LEMMA ProbeJudgesKeeps == ASSUME HeadlessInv, ProbeJudges PROVE HeadOk(past', native', probe')
<1> DEFINE m == Len(probe.runs)
<1>1. /\ probe.phase = "branching" /\ native = NoNative /\ probe.runs # << >> /\ Len(past) = Last(probe.runs)
      /\ past' = past /\ native' = native
      /\ \/ probe' = [probe EXCEPT !.phase = "failed"]
         \/ Agrees(Last(probe.runs)) /\ probe' = [probe EXCEPT !.phase = "agreed", !.summary = "new"]
  BY InvFacts DEF ProbeJudges
<1>2. /\ probe \in Probings /\ m \in Nat /\ probe.summary = "none" /\ Branching(probe, past, NoNative)
      /\ Len(past) > 0 /\ past[1].exit \in {0, 2}
  BY <1>1, InvFacts DEF ProbeInv, Probings
<1>3. /\ probe'.phase \in {"failed", "agreed"} /\ probe' \in Probings
      /\ probe'.frame = probe.frame /\ probe'.through = probe.through /\ probe'.runs = probe.runs
      /\ probe'.summary = (IF probe'.phase = "agreed" THEN "new" ELSE "none")
  BY <1>1, <1>2 DEF Probings
<1>4. probe'.phase = "agreed" => \A i \in 1 .. m : Reached(past[i + 1], probe.frame)
 <2> SUFFICES ASSUME probe'.phase = "agreed", NEW i \in 1 .. m PROVE Reached(past[i + 1], probe.frame) OBVIOUS
 <2>1. Agrees(Last(probe.runs)) BY <1>1, <1>2 DEF Probings
 <2>2. CASE i = m
  <3>1. Last(probe.runs) = m + 1 BY <1>2, <2>2 DEF Last, Branching
  <3> QED BY <2>1, <2>2, <3>1 DEF Agrees, Reported, Reached
 <2>3. CASE i # m
  <3>1. i \in 1 .. m - 1 BY <1>2, <2>3
  <3> QED BY <1>2, <3>1 DEF Branching
 <2> QED BY <2>2, <2>3
<1>5. Branching(probe', past', native') BY <1>1, <1>2, <1>3, <1>4 DEF Branching
<1>6. ProbeInv(probe', past', native') BY <1>1, <1>2, <1>3, <1>5 DEF ProbeInv
<1> QED BY <1>1, <1>6, InvFacts DEF HeadOk

----
HeadlessSpec == HeadlessInit /\ [][HeadlessNext]_headlessVars

LEMMA HeadlessStarts == ASSUME HeadlessInit PROVE HeadlessInv
<1>1. past = << >> /\ native = NoNative /\ Len(past) = 0 BY DEF HeadlessInit
<1>2. PastInv(past) /\ NativeInv(native, past) BY <1>1 DEF PastInv, NativeInv
<1>3. probe = [phase |-> "none", frame |-> 0, through |-> 0, runs |-> << >>, summary |-> "old"]
  BY DEF HeadlessInit
<1>4. probe \in Probings BY <1>3 DEF Probings
<1>5. ProbeInv(probe, past, native) BY <1>3, <1>4 DEF ProbeInv
<1> QED BY <1>2, <1>5 DEF HeadlessInv, HeadOk

LEMMA SameScene ==
  ASSUME scene' = scene, NEW p, NEW n, NEW b
  PROVE  HeadOk(p, n, b)' <=> HeadOk(p, n, b)
<1>1. ASSUME NEW t PROVE Seen(t)' = Seen(t) /\ (Hit(t)' <=> Hit(t)) /\ (SpellActive(t)' <=> SpellActive(t))
                         /\ (Cleared(t)' <=> Cleared(t)) /\ (RetryMenu(t)' <=> RetryMenu(t))
  BY DEF Hit, SpellActive, Cleared, RetryMenu, Seen, Place, Pressed
<1>2. ASSUME NEW t, NEW k PROVE Begun(t, k)' <=> Begun(t, k) BY <1>1 DEF Begun
<1>3. ASSUME NEW r, NEW k PROVE Completed(r, k)' <=> Completed(r, k) BY <1>1, <1>2 DEF Completed
<1>4. ASSUME NEW r, NEW k PROVE Ended(r, k)' <=> Ended(r, k) BY <1>1, <1>3 DEF Ended
<1>5. ASSUME NEW t PROVE Updates(t)' = Updates(t) BY <1>1 DEF Updates
<1>6. ASSUME NEW r PROVE TellsTheGame(r)' <=> TellsTheGame(r)
  BY DEF TellsTheGame, Ended, Completed, Begun, Hit, SpellActive, Cleared, RetryMenu, Updates, Seen, Place, Pressed
<1>7. ASSUME NEW r PROVE (Along(r)' <=> Along(r)) /\ (Halted(r)' <=> Halted(r)) /\ (Playing(r)' <=> Playing(r))
  BY <1>1, <1>2, <1>3, <1>4 DEF Along, Halted, Judged, Playing
<1>8. ASSUME NEW r PROVE (Digested(r)' <=> Digested(r)) /\ (Ring(r)' <=> Ring(r))
  BY <1>1, <1>5 DEF Digested, Ring, RowAt
<1>9. ASSUME NEW o PROVE Cause(o)' <=> Cause(o) BY <1>1, <1>4 DEF Cause, Script
<1>10. ASSUME NEW e PROVE Entry(e)' <=> Entry(e) BY <1>6, <1>7, <1>9 DEF Entry, ReportFacts, TellsTheTape
<1>11. ASSUME NEW r PROVE RunInv(r)' <=> RunInv(r) BY <1>2, <1>7, <1>8 DEF RunInv
<1> QED BY <1>10, <1>11 DEF HeadOk, PastInv, NativeInv, ProbeInv, Branching

LEMMA HeadlessKept == ASSUME HeadlessInv, [HeadlessNext]_headlessVars PROVE HeadlessInv'
<1>1. HeadOk(past', native', probe')
 <2>1. CASE HeadlessNext
   BY <2>1, AskRunKeeps, FrameKeeps, EndingsKeep, ProbeStartsKeeps, ProbeBranchKeeps, ProbeJudgesKeeps
      DEF HeadlessNext
 <2>2. CASE UNCHANGED headlessVars BY <2>2 DEF headlessVars, HeadlessInv
 <2> QED BY <2>1, <2>2
<1>2. scene' = scene
  BY DEF HeadlessNext, AskRun, Frame, Unforeseen, KilledRun, ConcludeRun, ProbeStarts, ProbeBranch, ProbeJudges,
         headlessVars
<1>3. (HeadOk(past, native, probe))' BY <1>1, <1>2, SameScene
<1> QED BY <1>3 DEF HeadlessInv

LEMMA ProbeHonest == ASSUME HeadlessInv PROVE ProbeTells
<1>1. ProbeInv(probe, past, native) /\ PastInv(past) /\ probe \in Probings /\ Len(past) \in Nat BY InvFacts
<1>2. ASSUME probe.phase = "agreed", NEW i \in DOMAIN probe.runs
      PROVE  LET r == past[probe.runs[i]]
             IN  /\ r.prefix = SubSeq(past[1].digest, 1, probe.frame - 1)
                 /\ r.tape[probe.frame].move = CompassOrder[i]
                 /\ Source[probe.frame].move = CompassOrder[i] => r.digest = SubSeq(past[1].digest, 1, probe.through)
 <2>1. /\ Branching(probe, past, native) /\ Len(past) > 0 /\ past[1].exit \in {0, 2}
       /\ native = NoNative /\ i \in 1 .. Len(probe.runs) /\ Len(probe.runs) \in Nat
  <3>1. Branching(probe, past, native) /\ Len(past) > 0 /\ past[1].exit \in {0, 2} BY <1>1, <1>2 DEF ProbeInv
  <3>2. native = NoNative BY <1>2, <3>1 DEF Branching
  <3>3. probe.runs \in Seq(Nat) BY <1>1 DEF Probings
  <3>4. i \in 1 .. Len(probe.runs) /\ Len(probe.runs) \in Nat BY <1>2, <3>3
  <3> QED BY <3>1, <3>2, <3>4
 <2>2. /\ probe.through \in 1 .. Len(past[1].tape) /\ probe.frame \in 1 .. probe.through
       /\ probe.runs[i] = i + 1 /\ Len(past) = Len(probe.runs) + 1
       /\ IsBranch(past[i + 1].asked, past[1], probe.frame, probe.through, CompassOrder[i])
       /\ Reached(past[i + 1], probe.frame)
   BY <1>2, <2>1 DEF Branching
 <2> DEFINE r == past[i + 1]
 <2>3. ReportFacts(past[1]) BY <2>1, Facts1
 <2>4. Entry(r)
  <3>1. i + 1 \in 1 .. Len(past) BY <2>1, <2>2
  <3> QED BY <1>1, <3>1 DEF PastInv
 <2>5. ReportFacts(r) /\ r.frames >= probe.frame BY <2>2, <2>4 DEF Entry, Reached
 <2>6. /\ r.prefix = SubSeq(past[1].digest, 1, probe.frame - 1)
       /\ r.tape[probe.frame].move = CompassOrder[i]
       /\ past[1].tape[probe.frame].move = CompassOrder[i] => r.digest = SubSeq(past[1].digest, 1, probe.through)
  <3> DEFINE e == past[1]
             move == CompassOrder[i]
  <3>1. ReportFacts(e) /\ ReportFacts(r) /\ IsBranch(r.asked, e, probe.frame, probe.through, move)
        /\ probe.through \in 1 .. Len(e.tape) /\ probe.frame \in 1 .. probe.through /\ r.frames >= probe.frame
    BY <2>2, <2>3, <2>5
  <3> HIDE DEF e, r, move
  <3>2. BranchSays(r, e, probe.frame, probe.through, move) BY <3>1, BranchTells, Zenon
  <3> QED BY <3>2 DEF BranchSays, e, move
 <2>7. past[probe.runs[i]] = r BY <2>2
 <2> HIDE DEF r
 <2> QED BY <2>6, <2>7, Zenon DEF Source
<1> QED BY <1>1, <1>2 DEF ProbeTells, ProbeInv

LEMMA TapesTold == ASSUME HeadlessInv PROVE HonestTape
<1>1. PastInv(past) /\ Len(past) \in Nat /\ DOMAIN past = 1 .. Len(past) BY InvFacts DEF PastInv
<1>2. ASSUME NEW k \in DOMAIN past, Reported(k)
      PROVE  /\ TellsTheGame(past[k]) /\ TellsTheTape(past[k])
             /\ \A j \in k + 1 .. Len(past) : Reproduces(past[k], past[j])
 <2>1. Entry(past[k]) /\ past[k].asked.spell = past[1].asked.spell BY <1>1 DEF PastInv
 <2>2. ReportFacts(past[k]) BY <1>2, <2>1 DEF Entry, Reported
 <2>3. ASSUME NEW j \in k + 1 .. Len(past) PROVE Reproduces(past[k], past[j])
  <3>1. j \in 1 .. Len(past) BY <1>1
  <3>2. Entry(past[j]) /\ past[j].asked.spell = past[k].asked.spell BY <1>1, <2>1, <3>1 DEF PastInv
  <3> QED BY <2>2, <3>2, TapeReproduced
 <2> QED BY <2>2, <2>3 DEF ReportFacts
<1> QED BY <1>2, ProbeHonest DEF HonestTape

\* What the report of a native run says is true of the updates it played,
\* a tape played again means the same update for update, and the probe's
\* branches agree up to the update that was replaced (headless.cpp lines
\* 425-656, headless_probe.cpp lines 125-190).
THEOREM TapeHonest == HeadlessSpec => []HonestTape
<1>1. HeadlessInit => HeadlessInv BY HeadlessStarts
<1>2. HeadlessInv /\ [HeadlessNext]_headlessVars => HeadlessInv' BY HeadlessKept
<1>3. HeadlessInv => HonestTape BY TapesTold
<1> QED BY <1>1, <1>2, <1>3, PTL DEF HeadlessSpec

----
\* The selections.  A finite set in a linear order: its members have ranks
\* of their own, from nothing up, and Ranked lists them by rank.
Linear(which, ahead) ==
    /\ IsFiniteSet(which)
    /\ \A c \in which : <<c, c>> \notin ahead
    /\ \A c, d \in which : c # d => <<c, d>> \in ahead \/ <<d, c>> \in ahead
    /\ \A c, d, e \in which : <<c, d>> \in ahead /\ <<d, e>> \in ahead => <<c, e>> \in ahead

LEMMA RankGrows ==
  ASSUME NEW which, NEW ahead, Linear(which, ahead), NEW c \in which, NEW d \in which, <<c, d>> \in ahead
  PROVE  RankIn(which, ahead, c) < RankIn(which, ahead, d)
<1> DEFINE low == {e \in which : <<e, c>> \in ahead}
           high == {e \in which : <<e, d>> \in ahead}
<1>1. low \subseteq high /\ c \in high /\ c \notin low /\ high \subseteq which BY DEF Linear
<1>2. IsFiniteSet(high) /\ Cardinality(high) \in Nat BY <1>1, FS_Subset, FS_CardinalityType DEF Linear
<1>3. IsFiniteSet(low) /\ Cardinality(low) \in Nat /\ Cardinality(low) <= Cardinality(high)
      /\ Cardinality(low) # Cardinality(high)
  BY <1>1, <1>2, FS_Subset, FS_CardinalityType
<1>4. RankIn(which, ahead, c) = Cardinality(low) /\ RankIn(which, ahead, d) = Cardinality(high) BY DEF RankIn
<1> QED BY <1>2, <1>3, <1>4

LEMMA RankRange ==
  ASSUME NEW which, NEW ahead, Linear(which, ahead), NEW c \in which
  PROVE  Cardinality(which) \in Nat \ {0} /\ RankIn(which, ahead, c) \in 0 .. Cardinality(which) - 1
<1> DEFINE low == {e \in which : <<e, c>> \in ahead}
<1>1. low \subseteq which /\ low # which /\ IsFiniteSet(which) BY DEF Linear
<1>2. /\ Cardinality(which) \in Nat /\ Cardinality(low) \in Nat /\ Cardinality(low) <= Cardinality(which)
      /\ Cardinality(low) # Cardinality(which)
  BY <1>1, FS_Subset, FS_CardinalityType
<1>3. RankIn(which, ahead, c) = Cardinality(low) BY DEF RankIn
<1> QED BY <1>2, <1>3

LEMMA RankOrder ==
  ASSUME NEW which, NEW ahead, Linear(which, ahead), NEW c \in which, NEW d \in which
  PROVE  /\ <<c, d>> \in ahead <=> RankIn(which, ahead, c) < RankIn(which, ahead, d)
         /\ RankIn(which, ahead, c) = RankIn(which, ahead, d) <=> c = d
<1>1. RankIn(which, ahead, c) \in Int /\ RankIn(which, ahead, d) \in Int BY RankRange
<1>2. CASE c = d BY <1>1, <1>2 DEF Linear
<1>3. CASE <<c, d>> \in ahead BY <1>1, <1>3, RankGrows DEF Linear
<1>4. CASE c # d /\ <<c, d>> \notin ahead
 <2>1. <<d, c>> \in ahead BY <1>4 DEF Linear
 <2>2. RankIn(which, ahead, d) < RankIn(which, ahead, c) BY <2>1, RankGrows
 <2> QED BY <1>1, <1>4, <2>2
<1> QED BY <1>2, <1>3, <1>4

LEMMA RankApart ==
  ASSUME NEW which, NEW ahead, Linear(which, ahead), NEW c \in which, NEW d \in which,
         RankIn(which, ahead, c) = RankIn(which, ahead, d)
  PROVE  c = d
<1>1. RankIn(which, ahead, c) \in Int /\ RankIn(which, ahead, d) \in Int BY RankRange
<1>2. ~ (<<c, d>> \in ahead) BY <1>1, RankGrows
<1>3. ~ (<<d, c>> \in ahead) BY <1>1, RankGrows
<1> QED BY <1>2, <1>3 DEF Linear

LEMMA RankHeld ==
  ASSUME NEW which, NEW ahead, Linear(which, ahead), NEW k \in 0 .. Cardinality(which) - 1
  PROVE  \E c \in which : RankIn(which, ahead, c) = k
<1> DEFINE n == Cardinality(which)
           f == [c \in which |-> RankIn(which, ahead, c)]
<1>1. IsFiniteSet(which) /\ n \in Nat BY FS_CardinalityType DEF Linear
<1>2. IsFiniteSet(0 .. n - 1) /\ Cardinality(0 .. n - 1) = n BY <1>1, FS_Interval
<1>3. f \in [which -> 0 .. n - 1] BY RankRange
<1>4. ASSUME NEW c \in which, NEW d \in which, f[c] = f[d] PROVE c = d
 <2>1. RankIn(which, ahead, c) = RankIn(which, ahead, d) BY <1>4
 <2> QED BY <2>1, RankApart
<1>5. f \in Injection(which, 0 .. n - 1) BY <1>3, <1>4 DEF Injection, IsInjective
<1>6. f \in Surjection(which, 0 .. n - 1)
 <2> HIDE DEF n, f
 <2> QED BY <1>1, <1>2, <1>5, FS_Injection DEF n
<1>7. PICK c \in which : f[c] = k BY <1>6 DEF Surjection
<1> QED BY <1>7

LEMMA RankedIs ==
  ASSUME NEW which, NEW ahead, Linear(which, ahead)
  PROVE  /\ Cardinality(which) \in Nat
         /\ Ranked(which, ahead) \in [1 .. Cardinality(which) -> which]
         /\ \A n \in 1 .. Cardinality(which) : RankIn(which, ahead, Ranked(which, ahead)[n]) = n - 1
<1>1. Cardinality(which) \in Nat BY FS_CardinalityType DEF Linear
<1>2. ASSUME NEW n \in 1 .. Cardinality(which)
      PROVE  Ranked(which, ahead)[n] \in which /\ RankIn(which, ahead, Ranked(which, ahead)[n]) = n - 1
 <2> DEFINE At(c) == RankIn(which, ahead, c) = n - 1
 <2>1. Ranked(which, ahead)[n] = CHOOSE c \in which : At(c) BY DEF Ranked
 <2>2. n - 1 \in 0 .. Cardinality(which) - 1 BY <1>1
 <2>3. \E c \in which : At(c) BY <2>2, RankHeld
 <2> HIDE DEF At
 <2>4. Ranked(which, ahead)[n] \in which /\ At(Ranked(which, ahead)[n]) BY <2>1, <2>3, Zenon
 <2> QED BY <2>4 DEF At
<1>3. Ranked(which, ahead) \in [1 .. Cardinality(which) -> which]
 <2>1. Ranked(which, ahead) = [n \in 1 .. Cardinality(which) |-> Ranked(which, ahead)[n]] BY DEF Ranked
 <2> QED BY <1>2, <2>1
<1> QED BY <1>1, <1>2, <1>3

\* The first m of a ranked set are the ones ranked below m.
LEMMA FirstOfRanked ==
  ASSUME NEW which, NEW ahead, Linear(which, ahead), NEW m \in 0 .. Cardinality(which)
  PROVE  /\ {Ranked(which, ahead)[n] : n \in 1 .. m} = {c \in which : RankIn(which, ahead, c) < m}
         /\ Cardinality({c \in which : RankIn(which, ahead, c) < m}) = m
<1> DEFINE all == Ranked(which, ahead)
           low == {c \in which : RankIn(which, ahead, c) < m}
<1>1. Cardinality(which) \in Nat /\ all \in [1 .. Cardinality(which) -> which]
      /\ \A n \in 1 .. Cardinality(which) : RankIn(which, ahead, all[n]) = n - 1
  BY RankedIs
<1>2. \A c \in which : RankIn(which, ahead, c) \in 0 .. Cardinality(which) - 1 BY RankRange
<1>3. ASSUME NEW c \in which, NEW d \in which, RankIn(which, ahead, c) = RankIn(which, ahead, d) PROVE c = d
  BY <1>3, RankApart
<1> HIDE DEF all
<1>4. \A c \in which : c = all[RankIn(which, ahead, c) + 1]
 <2> SUFFICES ASSUME NEW c \in which PROVE c = all[RankIn(which, ahead, c) + 1] OBVIOUS
 <2> DEFINE k == RankIn(which, ahead, c) + 1
 <2>1. k \in 1 .. Cardinality(which) /\ k - 1 = RankIn(which, ahead, c) BY <1>1, <1>2
 <2> HIDE DEF k
 <2>2. all[k] \in which /\ RankIn(which, ahead, all[k]) = RankIn(which, ahead, c) BY <1>1, <2>1
 <2>3. all[k] = c BY <1>3, <2>2
 <2> QED BY <2>3 DEF k
<1>5. m \in Nat /\ m <= Cardinality(which) BY <1>1
<1>6. {all[n] : n \in 1 .. m} = low
 <2>1. ASSUME NEW n \in 1 .. m PROVE all[n] \in low
  <3>1. n \in 1 .. Cardinality(which) /\ n - 1 < m BY <1>1, <1>5
  <3> QED BY <1>1, <3>1
 <2>2. ASSUME NEW c \in low PROVE c \in {all[n] : n \in 1 .. m}
  <3>1. RankIn(which, ahead, c) + 1 \in 1 .. m BY <1>1, <1>2, <1>5
  <3> QED BY <1>4, <3>1
 <2> QED BY <2>1, <2>2
<1>7. Cardinality(low) = m
 <2> DEFINE f == [n \in 1 .. m |-> all[n]]
 <2>1. f \in [1 .. m -> low] BY <1>6
 <2>2. \A n, k \in 1 .. m : f[n] = f[k] => n = k BY <1>1, <1>5
 <2>3. \A c \in low : \E n \in 1 .. m : f[n] = c BY <1>6
 <2>4. f \in Bijection(1 .. m, low) BY <2>1, <2>2, <2>3 DEF Bijection, Injection, IsInjective, Surjection
 <2> HIDE DEF low
 <2>5. ExistsBijection(1 .. m, low) BY <2>4 DEF ExistsBijection
 <2> QED BY <1>5, <2>5, FS_CountingElements
<1> QED BY <1>6, <1>7 DEF all

\* A subset in the same order.
LEMMA LinearBelow ==
  ASSUME NEW which, NEW ahead, Linear(which, ahead), NEW some \in SUBSET which
  PROVE  Linear(some, ahead)
<1>1. IsFiniteSet(some) BY FS_Subset DEF Linear
<1> QED BY <1>1 DEF Linear

LEMMA LeastOfTwo ==
  ASSUME NEW a \in Int, NEW b \in Int
  PROVE  Min({a, b}) = IF a <= b THEN a ELSE b
<1> DEFINE Least(x) == \A y \in {a, b} : x =< y
<1>1. \E x \in {a, b} : Least(x) OBVIOUS
<1>2. Min({a, b}) = CHOOSE x \in {a, b} : Least(x) BY DEF Min
<1> HIDE DEF Least
<1>3. Min({a, b}) \in {a, b} /\ Least(Min({a, b})) BY <1>1, <1>2, Zenon
<1> QED BY <1>3 DEF Least

----
\* The beam.  The keys of the bounded variant order the scores the same.
Scores == 0 .. 2 * SignBit - 1
Node == [cell : Int, score : Scores]
Nodes == Seq(Node)

LEMMA NodesAre ==
  ASSUME NEW nodes \in Nodes
  PROVE  /\ Len(nodes) \in Nat /\ DOMAIN nodes = 1 .. Len(nodes)
         /\ IsFiniteSet(DOMAIN nodes) /\ Cardinality(DOMAIN nodes) = Len(nodes)
         /\ \A i \in DOMAIN nodes : nodes[i].score \in Scores
<1>1. Len(nodes) \in Nat /\ DOMAIN nodes = 1 .. Len(nodes) /\ \A i \in DOMAIN nodes : nodes[i] \in Node
  BY DEF Nodes
<1>2. \A x \in Node : x.score \in Scores BY DEF Node
<1>3. IsFiniteSet(1 .. Len(nodes)) /\ Cardinality(1 .. Len(nodes)) = Len(nodes) BY <1>1, FS_Interval
<1> QED BY <1>1, <1>2, <1>3

LEMMA DenseAlike ==
  ASSUME NEW a \in Scores, NEW b \in Scores
  PROVE  /\ Value(a) \in Int /\ DenseKey(a) \in Int
         /\ DenseKey(a) < DenseKey(b) <=> Value(a) < Value(b)
         /\ DenseKey(a) = DenseKey(b) <=> Value(a) = Value(b)
BY DEF DenseKey, Value, SignBit, Scores

LEMMA AheadAlike ==
  ASSUME NEW nodes \in Nodes, NEW i \in DOMAIN nodes, NEW j \in DOMAIN nodes
  PROVE  Ahead(Keys(nodes, TRUE), i, j) <=> Ahead(Keys(nodes, FALSE), i, j)
<1> DEFINE a == nodes[i].score
           b == nodes[j].score
<1>1. a \in Scores /\ b \in Scores BY NodesAre
<1>2. /\ Keys(nodes, TRUE)[i] = DenseKey(a) /\ Keys(nodes, TRUE)[j] = DenseKey(b)
      /\ Keys(nodes, FALSE)[i] = Value(a) /\ Keys(nodes, FALSE)[j] = Value(b)
  BY DEF Keys
<1> HIDE DEF a, b
<1>3. /\ DenseKey(a) < DenseKey(b) <=> Value(a) < Value(b)
      /\ DenseKey(a) = DenseKey(b) <=> Value(a) = Value(b)
  BY <1>1, DenseAlike
<1> QED BY <1>2, <1>3 DEF Ahead

\* The pairs in order, and what Retain keeps, spelt out.
Rivals(nodes, keys) == {p \in (DOMAIN nodes) \X (DOMAIN nodes) : Ahead(keys, p[1], p[2])}
Leaders(which, ahead, many) ==
    {Ranked(which, ahead)[n] : n \in 1 .. Min({many, Cardinality(which)})}
Limit(nodes, width) == Min({width, Len(nodes)})
Filled(nodes, width, keys) ==
    Winners(nodes, keys) \union Leaders(DOMAIN nodes \ Winners(nodes, keys), Rivals(nodes, keys),
                                        Limit(nodes, width) - Cardinality(Winners(nodes, keys)))
Survivors(nodes, width, keys) ==
    IF Cardinality(Winners(nodes, keys)) < Limit(nodes, width) THEN Filled(nodes, width, keys)
    ELSE Leaders(Winners(nodes, keys), Rivals(nodes, keys), Limit(nodes, width))

LEMMA RetainIs ==
  ASSUME NEW nodes, NEW width, NEW keys
  PROVE  Retain(nodes, width, keys) = Ranked(Survivors(nodes, width, keys), Rivals(nodes, keys))
BY DEF Retain, Survivors, Filled, Leaders, Limit, Rivals

LEMMA RetainAlike ==
  ASSUME NEW nodes \in Nodes, NEW width
  PROVE  Retain(nodes, width, Keys(nodes, TRUE)) = Retain(nodes, width, Keys(nodes, FALSE))
<1> DEFINE k == Keys(nodes, TRUE)
           l == Keys(nodes, FALSE)
<1>1. ASSUME NEW i \in DOMAIN nodes, NEW j \in DOMAIN nodes PROVE Ahead(k, i, j) <=> Ahead(l, i, j)
  BY AheadAlike
<1> HIDE DEF k, l
<1>2. Rivals(nodes, k) = Rivals(nodes, l) BY <1>1 DEF Rivals
<1>3. Winners(nodes, k) = Winners(nodes, l) BY <1>1 DEF Winners
<1>4. Survivors(nodes, width, k) = Survivors(nodes, width, l) BY <1>2, <1>3 DEF Survivors, Filled
<1>5. Retain(nodes, width, k) = Retain(nodes, width, l) BY <1>2, <1>4, RetainIs
<1> QED BY <1>5 DEF k, l

LEMMA RivalsLinear ==
  ASSUME NEW nodes \in Nodes
  PROVE  Linear(DOMAIN nodes, Rivals(nodes, Keys(nodes, FALSE)))
<1> DEFINE k == Keys(nodes, FALSE)
<1>1. Len(nodes) \in Nat /\ DOMAIN nodes = 1 .. Len(nodes) /\ \A i \in DOMAIN nodes : nodes[i].score \in Scores
  BY NodesAre
<1>2. IsFiniteSet(DOMAIN nodes) BY NodesAre
<1>3. \A i \in DOMAIN nodes : k[i] \in Int /\ i \in Int
 <2>1. \A a \in Scores : Value(a) \in Int BY DenseAlike
 <2>2. \A i \in DOMAIN nodes : k[i] = Value(nodes[i].score) BY DEF Keys
 <2>3. \A i \in 1 .. Len(nodes) : i \in Int BY <1>1
 <2> HIDE DEF k
 <2> QED BY <1>1, <2>1, <2>2, <2>3
<1>4. \A i, j \in DOMAIN nodes : <<i, j>> \in Rivals(nodes, k) <=> (k[i] < k[j] \/ (k[i] = k[j] /\ i < j))
  BY DEF Rivals, Ahead
<1> HIDE DEF k
<1>5. Linear(DOMAIN nodes, Rivals(nodes, k)) BY <1>2, <1>3, <1>4 DEF Linear
<1> QED BY <1>5 DEF k

\* The leaders of a set: so many of them, each ahead of those left out.
LEMMA LeadersAre ==
  ASSUME NEW which, NEW ahead, Linear(which, ahead), NEW m \in Nat
  PROVE  /\ Leaders(which, ahead, m) \subseteq which
         /\ IsFiniteSet(Leaders(which, ahead, m))
         /\ Cardinality(Leaders(which, ahead, m)) = IF m <= Cardinality(which) THEN m ELSE Cardinality(which)
         /\ \A c \in Leaders(which, ahead, m), d \in which \ Leaders(which, ahead, m) : <<c, d>> \in ahead
<1> DEFINE top == Min({m, Cardinality(which)})
           low == {c \in which : RankIn(which, ahead, c) < top}
<1>1. Cardinality(which) \in Nat /\ IsFiniteSet(which) BY FS_CardinalityType DEF Linear
<1>2. top = IF m <= Cardinality(which) THEN m ELSE Cardinality(which) BY <1>1, LeastOfTwo
<1>3. top \in 0 .. Cardinality(which) BY <1>1, <1>2
<1>4. Leaders(which, ahead, m) = {Ranked(which, ahead)[n] : n \in 1 .. top} BY DEF Leaders
<1> HIDE DEF top
<1>5. Leaders(which, ahead, m) = low /\ Cardinality(low) = top BY <1>3, <1>4, FirstOfRanked
<1>6. IsFiniteSet(low) BY <1>1, FS_Subset
<1>7. ASSUME NEW c \in low, NEW d \in which \ low PROVE <<c, d>> \in ahead
 <2>1. RankIn(which, ahead, c) \in Int /\ RankIn(which, ahead, d) \in Int /\ top \in Int
   BY <1>1, <1>3, RankRange
 <2>2. RankIn(which, ahead, c) < RankIn(which, ahead, d) BY <2>1
 <2> QED BY <2>2, RankOrder
<1> QED BY <1>2, <1>5, <1>6, <1>7

LEMMA BeamFair ==
  ASSUME NEW nodes \in Nodes, NEW width \in Nat
  PROVE  FairBeam(nodes, width, Retain(nodes, width, Keys(nodes, FALSE)))
<1> DEFINE keys == Keys(nodes, FALSE)
           ahead == Rivals(nodes, keys)
           won == Winners(nodes, keys)
           rest == DOMAIN nodes \ won
           limit == Limit(nodes, width)
           kept == Survivors(nodes, width, keys)
           result == Retain(nodes, width, keys)
<1>1. Len(nodes) \in Nat /\ DOMAIN nodes = 1 .. Len(nodes) /\ IsFiniteSet(DOMAIN nodes)
      /\ Cardinality(DOMAIN nodes) = Len(nodes)
  BY NodesAre
<1>2. Linear(DOMAIN nodes, ahead) BY RivalsLinear
<1>3. \A i, j \in DOMAIN nodes : <<i, j>> \in ahead <=> Ahead(keys, i, j) BY DEF Rivals
<1>4. won \subseteq DOMAIN nodes BY DEF Winners
<1>5. limit = (IF width <= Len(nodes) THEN width ELSE Len(nodes)) /\ limit = Min({width, Len(nodes)})
  BY <1>1, LeastOfTwo DEF Limit
<1>6. kept = IF Cardinality(won) < limit
             THEN won \union Leaders(rest, ahead, limit - Cardinality(won))
             ELSE Leaders(won, ahead, limit)
  BY DEF Survivors, Filled
<1>7. result = Ranked(kept, ahead) BY RetainIs
<1> HIDE DEF keys, ahead, won, limit, kept, result
<1>8. Linear(won, ahead) /\ Linear(rest, ahead) BY <1>2, <1>4, LinearBelow
<1>9. /\ IsFiniteSet(won) /\ IsFiniteSet(rest) /\ Cardinality(won) \in Nat /\ Cardinality(rest) \in Nat
      /\ Cardinality(rest) = Len(nodes) - Cardinality(won)
 <2>1. IsFiniteSet(won) /\ IsFiniteSet(rest) BY <1>8 DEF Linear
 <2>2. (DOMAIN nodes) \cap won = won BY <1>4
 <2>3. Cardinality(rest) = Cardinality(DOMAIN nodes) - Cardinality(won)
  <3> DEFINE all == DOMAIN nodes
  <3>1. IsFiniteSet(all) /\ all \cap won = won BY <1>1, <2>2
  <3> HIDE DEF all
  <3>2. Cardinality(all \ won) = Cardinality(all) - Cardinality(all \cap won) BY <2>1, <3>1, FS_Difference
  <3> QED BY <3>1, <3>2 DEF all
 <2> QED BY <1>1, <2>1, <2>3, FS_CardinalityType
<1>10. /\ kept \subseteq DOMAIN nodes /\ IsFiniteSet(kept) /\ Cardinality(kept) = limit
       /\ \A i \in kept, j \in DOMAIN nodes \ kept : (i \in won <=> j \in won) => <<i, j>> \in ahead
       /\ \A i \in kept, j \in DOMAIN nodes \ kept : j \in won => i \in won
 <2>1. CASE Cardinality(won) < limit
  <3> DEFINE m == limit - Cardinality(won)
             more == Leaders(rest, ahead, m)
  <3>1. m \in Nat /\ m <= Cardinality(rest) BY <1>1, <1>5, <1>9, <2>1
  <3>2. kept = won \union more BY <1>6, <2>1
  <3> HIDE DEF m
  <3>3. /\ more \subseteq rest /\ IsFiniteSet(more) /\ Cardinality(more) = m
        /\ \A i \in more, j \in rest \ more : <<i, j>> \in ahead
    BY <1>8, <3>1, LeadersAre
  <3> HIDE DEF more
  <3>4. won \cap more = {} BY <3>3
  <3>5. IsFiniteSet(kept) /\ Cardinality(kept) = Cardinality(won) + m - 0
   <4>1. /\ IsFiniteSet(won \union more)
         /\ Cardinality(won \union more) = Cardinality(won) + Cardinality(more) - Cardinality(won \cap more)
     BY <1>9, <3>3, FS_Union
   <4>2. Cardinality(won \cap more) = 0 BY <3>4, FS_EmptySet
   <4> QED BY <3>2, <3>3, <4>1, <4>2
  <3>6. Cardinality(kept) = limit BY <1>1, <1>5, <1>9, <3>5 DEF m
  <3> QED BY <1>4, <3>2, <3>3, <3>5, <3>6
 <2>2. CASE ~ (Cardinality(won) < limit)
  <3>1. limit \in Nat /\ limit <= Cardinality(won) BY <1>1, <1>5, <1>9, <2>2
  <3>2. kept = Leaders(won, ahead, limit) BY <1>6, <2>2
  <3>3. /\ kept \subseteq won /\ IsFiniteSet(kept) /\ Cardinality(kept) = limit
        /\ \A i \in kept, j \in won \ kept : <<i, j>> \in ahead
    BY <1>8, <3>1, <3>2, LeadersAre
  <3> QED BY <1>4, <3>3
 <2> QED BY <2>1, <2>2
<1>11. Linear(kept, ahead) BY <1>2, <1>10, LinearBelow
<1>12. /\ limit \in Nat /\ result \in [1 .. limit -> kept]
       /\ \A n \in 1 .. limit : RankIn(kept, ahead, result[n]) = n - 1
  BY <1>7, <1>10, <1>11, RankedIs
<1>13. Len(result) = limit /\ DOMAIN result = 1 .. limit BY <1>12
<1>14. ToSet(result) = kept
 <2>1. ToSet(result) = {result[n] : n \in 1 .. limit} BY <1>13 DEF ToSet
 <2>2. ASSUME NEW c \in kept PROVE \E n \in 1 .. limit : result[n] = c
  <3> DEFINE n == RankIn(kept, ahead, c) + 1
  <3>1. n \in 1 .. limit /\ n - 1 = RankIn(kept, ahead, c) BY <1>10, <1>11, <1>12, RankRange
  <3> HIDE DEF n
  <3>2. result[n] \in kept /\ RankIn(kept, ahead, result[n]) = RankIn(kept, ahead, c) BY <1>12, <3>1
  <3>3. result[n] = c BY <1>11, <3>2, RankApart
  <3> QED BY <3>1, <3>3
 <2> QED BY <1>12, <2>1, <2>2
<1>15. ASSUME NEW i \in DOMAIN result, NEW j \in DOMAIN result, i < j PROVE Ahead(keys, result[i], result[j])
 <2>1. result[i] \in kept /\ result[j] \in kept BY <1>12, <1>13
 <2>2. RankIn(kept, ahead, result[i]) < RankIn(kept, ahead, result[j]) BY <1>12, <1>13, <1>15
 <2>3. <<result[i], result[j]>> \in ahead BY <1>11, <2>1, <2>2, RankOrder
 <2> QED BY <1>3, <1>10, <2>1, <2>3
<1>16. \A i \in kept, j \in DOMAIN nodes \ kept : (i \in won <=> j \in won) => Ahead(keys, i, j) BY <1>3, <1>10
<1> QED BY <1>5, <1>10, <1>13, <1>14, <1>15, <1>16 DEF FairBeam, keys, won, result

----
\* The frontier.  An archive as its ledger leaves it.
Filed(archive) ==
    /\ IsFiniteSet(archive)
    /\ \A c \in archive : c.id \in Nat \ {0} /\ c.family \in Int /\ c.score \in Int
    /\ \A c, d \in archive : c.id = d.id => c = d

LEMMA DistinctAre ==
  ASSUME NEW archive, Filed(archive)
  PROVE  /\ Distinct(archive) \subseteq archive /\ IsFiniteSet(Distinct(archive))
         /\ Cardinality(Distinct(archive)) \in Nat
<1>1. Distinct(archive) \subseteq archive BY DEF Distinct, Eligible
<1> QED BY <1>1, FS_Subset, FS_CardinalityType DEF Filed

\* A family, the best first.
Betters(archive, f) == {p \in Members(archive, f) \X Members(archive, f) : Better(p[1], p[2])}

LEMMA MembersLinear ==
  ASSUME NEW archive, Filed(archive), NEW f
  PROVE  Linear(Members(archive, f), Betters(archive, f))
<1>1. Members(archive, f) \subseteq archive BY DistinctAre DEF Members
<1>2. IsFiniteSet(Members(archive, f)) BY <1>1, FS_Subset DEF Filed
<1>3. \A c \in Members(archive, f) : c.id \in Int /\ c.score \in Int BY <1>1 DEF Filed
<1>4. \A c, d \in Members(archive, f) : c.id = d.id => c = d BY <1>1 DEF Filed
<1>5. \A c, d \in Members(archive, f) :
         <<c, d>> \in Betters(archive, f) <=> (c.score > d.score \/ (c.score = d.score /\ c.id < d.id))
  BY DEF Betters, Better
<1> QED BY <1>2, <1>3, <1>4, <1>5 DEF Linear

LEMMA DepthIs ==
  ASSUME NEW archive, Filed(archive), NEW c \in Distinct(archive)
  PROVE  /\ c \in Members(archive, c.family)
         /\ Depth(archive, c) = RankIn(Members(archive, c.family), Betters(archive, c.family), c)
         /\ Depth(archive, c) \in Nat
<1>1. c \in Members(archive, c.family) BY DEF Members
<1> DEFINE house == Members(archive, c.family)
           low == {d \in house : Better(d, c)}
<1>2. {d \in house : <<d, c>> \in Betters(archive, c.family)} = low BY <1>1 DEF Betters
<1>3. Depth(archive, c) = Cardinality(low) BY DEF Depth
<1>4. RankIn(house, Betters(archive, c.family), c) = Cardinality(low) BY <1>2 DEF RankIn
<1> HIDE DEF low
<1>5. RankIn(house, Betters(archive, c.family), c) \in Nat BY <1>1, MembersLinear, RankRange
<1> QED BY <1>1, <1>3, <1>4, <1>5

\* The families, and the turn each has.
Families(archive) == {c.family : c \in Distinct(archive)}
Standing(archive) == {p \in Families(archive) \X Families(archive) : p[1] < p[2]}

LEMMA FamiliesLinear ==
  ASSUME NEW archive, Filed(archive)
  PROVE  Families(archive) \subseteq Int /\ Linear(Families(archive), Standing(archive))
<1> DEFINE t == [c \in Distinct(archive) |-> c.family]
<1>1. t \in Surjection(Distinct(archive), Families(archive)) BY DEF Surjection, Families
<1> HIDE DEF t
<1>2. IsFiniteSet(Families(archive)) BY <1>1, DistinctAre, FS_Surjection
<1>3. Families(archive) \subseteq Int BY DistinctAre DEF Families, Filed
<1> QED BY <1>2, <1>3 DEF Linear, Standing

LEMMA TurnIs ==
  ASSUME NEW archive, Filed(archive), NEW g \in Nat, NEW f \in Families(archive)
  PROVE  LET n == Cardinality(Families(archive))
             p == RankIn(Families(archive), Standing(archive), f)
         IN  /\ n \in Nat \ {0} /\ p \in 0 .. n - 1
             /\ Turn(archive, g, f) = (p - g) % n /\ Turn(archive, g, f) \in 0 .. n - 1
<1> DEFINE n == Cardinality(Families(archive))
           p == RankIn(Families(archive), Standing(archive), f)
           low == {h \in Families(archive) : h < f}
<1>1. n \in Nat \ {0} /\ p \in 0 .. n - 1 BY FamiliesLinear, RankRange
<1>2. {h \in Families(archive) : <<h, f>> \in Standing(archive)} = low BY DEF Standing
<1>3. p = Cardinality(low) BY <1>2 DEF RankIn
<1>4. Turn(archive, g, f) = (Cardinality(low) - g) % n BY DEF Turn, Families
<1> HIDE DEF n, p, low
<1>5. p - g \in Int BY <1>1
<1>6. (p - g) % n \in 0 .. n - 1 BY <1>1, <1>5, ModRange
<1> QED BY <1>1, <1>3, <1>4, <1>6 DEF n, p

LEMMA TurnApart ==
  ASSUME NEW archive, Filed(archive), NEW g \in Nat,
         NEW f \in Families(archive), NEW h \in Families(archive), Turn(archive, g, f) = Turn(archive, g, h)
  PROVE  f = h
<1> DEFINE n == Cardinality(Families(archive))
           p == RankIn(Families(archive), Standing(archive), f)
           q == RankIn(Families(archive), Standing(archive), h)
<1>1. n \in Nat \ {0} /\ p \in 0 .. n - 1 /\ q \in 0 .. n - 1 /\ (p - g) % n = (q - g) % n BY TurnIs
<1>2. p = q => f = h BY FamiliesLinear, RankApart
<1> HIDE DEF n, p, q
<1>3. CASE p < q
 <2>1. p - g \in Int /\ q - g \in Int /\ 0 < (q - g) - (p - g) /\ (q - g) - (p - g) < n BY <1>1, <1>3
 <2> QED BY <1>1, <2>1, ModApart
<1>4. CASE q < p
 <2>1. p - g \in Int /\ q - g \in Int /\ 0 < (p - g) - (q - g) /\ (p - g) - (q - g) < n BY <1>1, <1>4
 <2> QED BY <1>1, <2>1, ModApart
<1> QED BY <1>1, <1>2, <1>3, <1>4

\* The order of admission is one: by depth, then by turn.
LEMMA OrderLinear ==
  ASSUME NEW archive, Filed(archive), NEW g \in Nat
  PROVE  Linear(Distinct(archive), Order(archive, g))
<1>1. \A c \in Distinct(archive) : c.family \in Families(archive) BY DEF Families
<1>2. \A c \in Distinct(archive) : Depth(archive, c) \in Int BY DepthIs
<1>3. ASSUME NEW c \in Distinct(archive) PROVE Turn(archive, g, c.family) \in Int BY <1>1, TurnIs
<1>4. ASSUME NEW c \in Distinct(archive), NEW d \in Distinct(archive), Depth(archive, c) = Depth(archive, d),
             Turn(archive, g, c.family) = Turn(archive, g, d.family)
      PROVE  c = d
 <2>1. c.family = d.family BY <1>1, <1>4, TurnApart
 <2>2. c \in Members(archive, c.family) /\ d \in Members(archive, c.family) BY <2>1, DepthIs
 <2>3. RankIn(Members(archive, c.family), Betters(archive, c.family), c) =
       RankIn(Members(archive, c.family), Betters(archive, c.family), d)
   BY <1>4, <2>1, DepthIs
 <2>4. Linear(Members(archive, c.family), Betters(archive, c.family)) BY MembersLinear
 <2> QED BY <2>2, <2>3, <2>4, RankApart
<1>5. \A c, d \in Distinct(archive) : <<c, d>> \in Order(archive, g) <=>
         \/ Depth(archive, c) < Depth(archive, d)
         \/ /\ Depth(archive, c) = Depth(archive, d)
            /\ Turn(archive, g, c.family) < Turn(archive, g, d.family)
  BY DEF Order, Precedes
<1>6. IsFiniteSet(Distinct(archive)) BY DistinctAre
<1>7. \A c \in Distinct(archive) : <<c, c>> \notin Order(archive, g) BY <1>2, <1>3, <1>5
<1>8. \A c, d \in Distinct(archive) : c # d => <<c, d>> \in Order(archive, g) \/ <<d, c>> \in Order(archive, g)
  BY <1>2, <1>3, <1>4, <1>5
<1>9. \A c, d, e \in Distinct(archive) :
         <<c, d>> \in Order(archive, g) /\ <<d, e>> \in Order(archive, g) => <<c, e>> \in Order(archive, g)
  BY <1>2, <1>3, <1>5
<1> QED BY <1>6, <1>7, <1>8, <1>9 DEF Linear

LEMMA FrontierIs ==
  ASSUME NEW archive, Filed(archive), ~ Mixed(archive), NEW width \in Nat, NEW g \in Nat
  PROVE  LET all == Ranked(Distinct(archive), Order(archive, g))
             m == Min({width, Cardinality(Distinct(archive))})
         IN  /\ m \in 0 .. Cardinality(Distinct(archive)) /\ m = Len(Frontier(archive, width, g))
             /\ m = IF width <= Cardinality(Distinct(archive)) THEN width ELSE Cardinality(Distinct(archive))
             /\ Frontier(archive, width, g) = [i \in 1 .. m |-> all[i].id]
<1> DEFINE all == Ranked(Distinct(archive), Order(archive, g))
           n == Cardinality(Distinct(archive))
           m == Min({width, n})
<1>1. n \in Nat /\ all \in [1 .. n -> Distinct(archive)] BY OrderLinear, RankedIs
<1>2. Frontier(archive, width, g) = [i \in 1 .. Min({width, Len(all)}) |-> all[i].id] BY DEF Frontier
<1> HIDE DEF all, n
<1>3. Len(all) = n BY <1>1
<1>4. m = IF width <= n THEN width ELSE n BY <1>1, LeastOfTwo
<1>5. Frontier(archive, width, g) = [i \in 1 .. m |-> all[i].id] BY <1>2, <1>3
<1> HIDE DEF m
<1>6. m \in 0 .. n /\ m \in Nat BY <1>1, <1>4
<1>7. Len(Frontier(archive, width, g)) = m BY <1>5, <1>6
<1> QED BY <1>4, <1>5, <1>6, <1>7 DEF all, n, m

\* Who is chosen: the first m in the order of admission.
LEMMA ChosenAre ==
  ASSUME NEW archive, Filed(archive), ~ Mixed(archive), NEW width \in Nat, NEW g \in Nat,
         NEW result, result = Frontier(archive, width, g),
         NEW chosen, chosen = {c \in Distinct(archive) : c.id \in ToSet(result)}
  PROVE  /\ Cardinality(chosen) = Len(result)
         /\ \A c \in chosen, d \in Distinct(archive) \ chosen : <<c, d>> \in Order(archive, g)
<1> DEFINE all == Ranked(Distinct(archive), Order(archive, g))
           n == Cardinality(Distinct(archive))
           low(m) == {c \in Distinct(archive) : RankIn(Distinct(archive), Order(archive, g), c) < m}
           least == Min({width, n})
<1>0. least \in 0 .. n /\ least = Len(result) /\ result = [i \in 1 .. least |-> all[i].id] BY FrontierIs
<1> HIDE DEF least
<1>1. PICK m \in 0 .. n : m = Len(result) /\ result = [i \in 1 .. m |-> all[i].id] BY <1>0
<1>2. n \in Nat /\ all \in [1 .. n -> Distinct(archive)] BY OrderLinear, RankedIs
<1>3. {all[i] : i \in 1 .. m} = low(m) /\ Cardinality(low(m)) = m
 <2>1. Linear(Distinct(archive), Order(archive, g)) BY OrderLinear
 <2> QED BY <1>1, <2>1, FirstOfRanked
<1> HIDE DEF all, n
<1>4. ToSet(result) = {all[i].id : i \in 1 .. m}
 <2>1. DOMAIN result = 1 .. m BY <1>1
 <2> QED BY <1>1, <2>1 DEF ToSet
<1>5. \A i \in 1 .. m : all[i] \in Distinct(archive)
 <2>1. \A i \in 1 .. m : i \in 1 .. n BY <1>1, <1>2
 <2> QED BY <1>2, <2>1
<1>6. chosen = {all[i] : i \in 1 .. m}
 <2>1. \A c, d \in Distinct(archive) : c.id = d.id => c = d BY DistinctAre DEF Filed
 <2>2. ASSUME NEW c \in chosen PROVE \E i \in 1 .. m : c = all[i] BY <1>4, <1>5, <2>1
 <2>3. ASSUME NEW i \in 1 .. m PROVE all[i] \in chosen BY <1>4, <1>5
 <2> QED BY <2>2, <2>3
<1>7. chosen = low(m) BY <1>3, <1>6
<1>8. ASSUME NEW c \in chosen, NEW d \in Distinct(archive) \ chosen PROVE <<c, d>> \in Order(archive, g)
 <2>1. c \in Distinct(archive) /\ d \in Distinct(archive)
       /\ RankIn(Distinct(archive), Order(archive, g), c) < m
       /\ ~ (RankIn(Distinct(archive), Order(archive, g), d) < m)
   BY <1>7
 <2>2. /\ RankIn(Distinct(archive), Order(archive, g), c) \in Int
       /\ RankIn(Distinct(archive), Order(archive, g), d) \in Int
   BY <2>1, OrderLinear, RankRange
 <2>3. m \in Int BY <1>1, <1>2
 <2>4. RankIn(Distinct(archive), Order(archive, g), c) < RankIn(Distinct(archive), Order(archive, g), d)
   BY <2>1, <2>2, <2>3
 <2> QED BY <2>1, <2>4, OrderLinear, RankOrder
<1> QED BY <1>1, <1>3, <1>7, <1>8

\* Admission by depth: the better of a family comes first, and the depth
\* never falls.
LEMMA AdmittedFirst ==
  ASSUME NEW archive, Filed(archive), NEW g \in Nat, NEW c \in Distinct(archive), NEW d \in Distinct(archive),
         <<c, d>> \in Order(archive, g)
  PROVE  /\ Depth(archive, c) <= Depth(archive, d)
         /\ c.family = d.family => Better(c, d) /\ Depth(archive, c) < Depth(archive, d)
<1>1. Depth(archive, c) \in Int /\ Depth(archive, d) \in Int BY DepthIs
<1>2. \/ Depth(archive, c) < Depth(archive, d)
      \/ /\ Depth(archive, c) = Depth(archive, d)
         /\ Turn(archive, g, c.family) < Turn(archive, g, d.family)
  BY DEF Order, Precedes
<1>3. ASSUME c.family = d.family PROVE Better(c, d) /\ Depth(archive, c) < Depth(archive, d)
 <2> DEFINE house == Members(archive, c.family)
            r == Betters(archive, c.family)
 <2>1. c \in house /\ d \in house /\ Depth(archive, c) = RankIn(house, r, c) /\ Depth(archive, d) = RankIn(house, r, d)
   BY <1>3, DepthIs
 <2>2. c.family \in Families(archive) BY DEF Families
 <2>3. Turn(archive, g, c.family) \in Int BY <2>2, TurnIs
 <2>4. Depth(archive, c) < Depth(archive, d) BY <1>2, <1>3, <2>3
 <2>5. Linear(house, r) BY MembersLinear
 <2>6. <<c, d>> \in r
  <3> HIDE DEF house, r
  <3> QED BY <2>1, <2>4, <2>5, RankOrder
 <2> QED BY <2>4, <2>6 DEF Betters
<1> QED BY <1>1, <1>2, <1>3

\* Of a family, those at most k deep are so many.
LEMMA ShareBound ==
  ASSUME NEW archive, Filed(archive), NEW f, NEW some \in SUBSET Members(archive, f), NEW k \in Nat,
         \A c \in some : Depth(archive, c) < k
  PROVE  IsFiniteSet(some) /\ Cardinality(some) \in Nat /\ Cardinality(some) <= k
<1> DEFINE house == Members(archive, f)
           r == Betters(archive, f)
<1>1. Linear(house, r) /\ IsFiniteSet(house) /\ IsFiniteSet(some) BY MembersLinear, FS_Subset DEF Linear
<1>2. \A c \in house : c \in Distinct(archive) /\ c.family = f BY DEF Members
<1>3. \A c \in some : Depth(archive, c) \in 0 .. k - 1 BY <1>2, DepthIs
<1> DEFINE t == [c \in some |-> Depth(archive, c)]
<1>4. t \in [some -> 0 .. k - 1] BY <1>3
<1>5. ASSUME NEW c \in some, NEW d \in some, t[c] = t[d] PROVE c = d
 <2>1. c \in house /\ d \in house /\ RankIn(house, r, c) = RankIn(house, r, d) BY <1>2, <1>5, DepthIs
 <2> HIDE DEF house, r
 <2> QED BY <1>1, <2>1, RankApart
<1>6. t \in Injection(some, 0 .. k - 1) BY <1>4, <1>5 DEF Injection, IsInjective
<1>7. IsFiniteSet(0 .. k - 1) /\ Cardinality(0 .. k - 1) = k BY FS_Interval
<1> HIDE DEF t
<1>8. Cardinality(some) <= k BY <1>6, <1>7, FS_Injection
<1> QED BY <1>1, <1>8, FS_CardinalityType

\* A family that still has somebody to offer has one as deep as its share.
LEMMA NextInLine ==
  ASSUME NEW archive, Filed(archive), NEW f, NEW some \in SUBSET Members(archive, f),
         some # Members(archive, f),
         \A c \in some, d \in Members(archive, f) \ some : Depth(archive, c) < Depth(archive, d)
  PROVE  \E e \in Members(archive, f) \ some : Depth(archive, e) = Cardinality(some)
<1> DEFINE house == Members(archive, f)
           r == Betters(archive, f)
           s == Cardinality(some)
<1>1. Linear(house, r) /\ IsFiniteSet(house) /\ IsFiniteSet(some) BY MembersLinear, FS_Subset DEF Linear
<1>2. s \in Nat /\ Cardinality(house) \in Nat /\ s < Cardinality(house) BY <1>1, FS_Subset, FS_CardinalityType
<1>3. \A c \in house : Depth(archive, c) = RankIn(house, r, c) /\ Depth(archive, c) \in Nat
 <2> SUFFICES ASSUME NEW c \in house PROVE Depth(archive, c) = RankIn(house, r, c) /\ Depth(archive, c) \in Nat
   OBVIOUS
 <2>1. c \in Distinct(archive) /\ c.family = f BY DEF Members
 <2> QED BY <2>1, DepthIs
<1> HIDE DEF house, r, s
<1>4. PICK e \in house : RankIn(house, r, e) = s
 <2>1. s \in 0 .. Cardinality(house) - 1 BY <1>2
 <2> QED BY <1>1, <2>1, RankHeld
<1>5. ASSUME e \in some PROVE FALSE
 <2> DEFINE low == {c \in house : RankIn(house, r, c) < s + 1}
 <2>1. s + 1 \in 0 .. Cardinality(house) BY <1>2
 <2>2. Cardinality(low) = s + 1 BY <1>1, <2>1, FirstOfRanked
 <2>3. ASSUME NEW c \in low PROVE c \in some
  <3>1. c \in house /\ Depth(archive, c) \in Nat /\ Depth(archive, c) <= s /\ Depth(archive, e) = s
    BY <1>2, <1>3, <1>4
  <3>2. ASSUME c \notin some PROVE FALSE
   <4>1. Depth(archive, e) < Depth(archive, c) BY <1>5, <3>1, <3>2 DEF house
   <4> QED BY <1>2, <3>1, <4>1
  <3> QED BY <3>2
 <2>4. Cardinality(low) <= s
  <3> HIDE DEF low
  <3> QED BY <1>1, <2>3, FS_Subset DEF s
 <2> QED BY <1>2, <2>2, <2>4
<1> QED BY <1>3, <1>4, <1>5 DEF house, s

LEMMA FirstOfFrontier ==
  ASSUME NEW archive, Filed(archive), ~ Mixed(archive), NEW g \in Nat, Cardinality(Distinct(archive)) \in Nat \ {0}
  PROVE  Frontier(archive, 1, g)[1] = Ranked(Distinct(archive), Order(archive, g))[1].id
<1> DEFINE all == Ranked(Distinct(archive), Order(archive, g))
<1>1. Frontier(archive, 1, g) = [i \in 1 .. Min({1, Len(all)}) |-> all[i].id] BY DEF Frontier
<1>2. all \in [1 .. Cardinality(Distinct(archive)) -> Distinct(archive)] BY OrderLinear, RankedIs
<1> HIDE DEF all
<1>3. Len(all) \in Nat \ {0} BY <1>2
<1>4. Min({1, Len(all)}) = 1 BY <1>3, LeastOfTwo
<1>5. Frontier(archive, 1, g) = [i \in 1 .. 1 |-> all[i].id] BY <1>1, <1>4
<1> QED BY <1>5 DEF all

\* A width of one: the best of the family whose turn it is.
LEMMA FirstTurn ==
  ASSUME NEW archive, Filed(archive), ~ Mixed(archive), NEW g \in Nat, NEW f \in Families(archive),
         Turn(archive, g, f) = 0
  PROVE  \E e \in Distinct(archive) : e.family = f /\ Frontier(archive, 1, g)[1] = e.id
<1> DEFINE all == Ranked(Distinct(archive), Order(archive, g))
           n == Cardinality(Distinct(archive))
<1>1. Linear(Distinct(archive), Order(archive, g)) BY OrderLinear
<1>2. n \in Nat /\ all \in [1 .. n -> Distinct(archive)]
      /\ \A i \in 1 .. n : RankIn(Distinct(archive), Order(archive, g), all[i]) = i - 1
  BY <1>1, RankedIs
<1>3. PICK c \in Distinct(archive) : c.family = f BY DEF Families
<1>4. n \in Nat \ {0} BY <1>1, <1>3, RankRange
<1>5. Frontier(archive, 1, g)[1] = all[1].id BY <1>4, FirstOfFrontier
<1> HIDE DEF all, n
<1>6. PICK e \in Members(archive, f) : Depth(archive, e) = 0
 <2> DEFINE none == {d \in Members(archive, f) : FALSE}
 <2>1. none \in SUBSET Members(archive, f) /\ none = {} /\ c \in Members(archive, f) BY <1>3 DEF Members
 <2>2. Cardinality(none) = 0 BY <2>1, FS_EmptySet
 <2>3. none # Members(archive, f) BY <2>1
 <2>4. \A x \in none, y \in Members(archive, f) \ none : Depth(archive, x) < Depth(archive, y) OBVIOUS
 <2> HIDE DEF none
 <2> QED BY <2>1, <2>2, <2>3, <2>4, NextInLine
<1>7. e \in Distinct(archive) /\ e.family = f BY DEF Members
<1>8. ASSUME e # all[1] PROVE FALSE
 <2> DEFINE a == all[1]
 <2>1. a \in Distinct(archive) /\ RankIn(Distinct(archive), Order(archive, g), a) = 0 BY <1>2, <1>4
 <2> HIDE DEF a
 <2>2. RankIn(Distinct(archive), Order(archive, g), e) \in Nat BY <1>1, <1>7, RankRange
 <2>3. ~ (<<e, a>> \in Order(archive, g)) BY <1>1, <1>7, <2>1, <2>2, RankOrder
 <2>4. a.family \in Families(archive) /\ Depth(archive, a) \in Nat BY <2>1, DepthIs DEF Families
 <2>5. Turn(archive, g, a.family) \in Nat BY <2>4, TurnIs
 <2>6. <<a, e>> \in Order(archive, g) BY <1>1, <1>7, <1>8, <2>1, <2>3 DEF a, Linear
 <2>7. Depth(archive, a) < Depth(archive, e) \/ Turn(archive, g, a.family) < Turn(archive, g, e.family)
   BY <2>6 DEF Order, Precedes
 <2> QED BY <1>6, <1>7, <2>4, <2>5, <2>7
<1> QED BY <1>5, <1>7, <1>8

\* Every family has its generation.
Turns(archive, g) == {Frontier(archive, 1, g + i)[1] : i \in 0 .. Cardinality(Families(archive)) - 1}

LEMMA Rotation ==
  ASSUME NEW archive, Filed(archive), ~ Mixed(archive), NEW g \in Nat
  PROVE  {c.family : c \in {d \in archive : d.id \in Turns(archive, g)}} = Families(archive)
<1> DEFINE turns == Turns(archive, g)
           n == Cardinality(Families(archive))
           place(f) == RankIn(Families(archive), Standing(archive), f)
<1>1. \A c, d \in archive : c.id = d.id => c = d BY DEF Filed
<1>2. Distinct(archive) \subseteq archive BY DistinctAre
<1>3. ASSUME NEW f \in Families(archive)
      PROVE  \E d \in archive : d.id \in turns /\ d.family = f
 <2>1. n \in Nat \ {0} /\ place(f) \in 0 .. n - 1 BY TurnIs
 <2> DEFINE i == (place(f) - g) % n
 <2> HIDE DEF n, place
 <2>2. i \in 0 .. n - 1 /\ \E q \in Int : place(f) - g = n * q + i
  <3>1. place(f) - g \in Int BY <2>1
  <3> QED BY <2>1, <3>1, ModRange
 <2> HIDE DEF i
 <2>3. PICK q \in Int : place(f) - g = n * q + i BY <2>2
 <2>4. n * q \in Int BY <2>1, <2>3
 <2>5. g + i \in Nat /\ place(f) - (g + i) = n * q + 0 /\ 0 \in 0 .. n - 1
  <3> DEFINE z == n * q
  <3>1. z \in Int /\ place(f) - g = z + i BY <2>3, <2>4
  <3> HIDE DEF z
  <3>2. g + i \in Nat /\ place(f) - (g + i) = z + 0 /\ 0 \in 0 .. n - 1 BY <2>1, <2>2, <3>1
  <3> QED BY <3>2 DEF z
 <2>6. (n * q + 0) % n = 0 BY <2>1, <2>5, ModUnique
 <2>7. Turn(archive, g + i, f) = 0 BY <2>5, <2>6, TurnIs DEF n, place
 <2>8. PICK e \in Distinct(archive) : e.family = f /\ Frontier(archive, 1, g + i)[1] = e.id
   BY <2>5, <2>7, FirstTurn
 <2> QED BY <1>2, <2>2, <2>8 DEF n, Turns
<1>4. ASSUME NEW d \in archive, d.id \in turns PROVE d.family \in Families(archive)
 <2>1. PICK i \in 0 .. n - 1 : d.id = Frontier(archive, 1, g + i)[1] BY <1>4 DEF Turns
 <2> DEFINE all == Ranked(Distinct(archive), Order(archive, g + i))
 <2>2. n \in Nat BY FamiliesLinear, FS_CardinalityType DEF Linear
 <2>3. g + i \in Nat /\ n # 0 BY <2>2
 <2>4. Linear(Distinct(archive), Order(archive, g + i)) BY <2>3, OrderLinear
 <2>5. Cardinality(Distinct(archive)) \in Nat /\ all \in [1 .. Cardinality(Distinct(archive)) -> Distinct(archive)]
   BY <2>4, RankedIs
 <2>6. Cardinality(Distinct(archive)) # 0
  <3>1. PICK f \in Families(archive) : TRUE BY <2>2, <2>3, FamiliesLinear, FS_EmptySet DEF Linear
  <3>2. PICK c \in Distinct(archive) : TRUE BY DEF Families
  <3> QED BY DistinctAre, FS_EmptySet
 <2>7. Frontier(archive, 1, g + i)[1] = all[1].id BY <2>3, <2>5, <2>6, FirstOfFrontier
 <2>8. all[1] \in Distinct(archive) BY <2>5, <2>6
 <2> HIDE DEF all
 <2>9. d = all[1] BY <1>1, <1>2, <2>1, <2>7, <2>8
 <2> QED BY <2>8, <2>9 DEF Families
<1> QED BY <1>3, <1>4

LEMMA FrontierFair ==
  ASSUME NEW archive, Filed(archive), ~ Mixed(archive), NEW width \in Nat, NEW g \in Nat
  PROVE  FairFrontier(archive, width, g, Frontier(archive, width, g))
<1> DEFINE result == Frontier(archive, width, g)
           chosen == {c \in Distinct(archive) : c.id \in ToSet(result)}
           left == Distinct(archive) \ chosen
           share(f) == Cardinality({c \in chosen : c.family = f})
           turns == Turns(archive, g)
<1>1. Len(result) = Min({width, Cardinality(Distinct(archive))}) BY FrontierIs
<1>2. result = Frontier(archive, width, g) OBVIOUS
<1> HIDE DEF result
<1>3. chosen = {c \in Distinct(archive) : c.id \in ToSet(result)} /\ chosen \subseteq Distinct(archive) OBVIOUS
<1> HIDE DEF chosen
<1>4. Cardinality(chosen) = Len(result) /\ \A c \in chosen, d \in left : <<c, d>> \in Order(archive, g)
  BY <1>2, <1>3, ChosenAre
<1>5. {c.family : c \in {d \in archive : d.id \in turns}} = Families(archive) BY Rotation
<1>6. ASSUME NEW c \in chosen, NEW d \in left
      PROVE  /\ Depth(archive, c) <= Depth(archive, d)
             /\ c.family = d.family => Better(c, d) /\ Depth(archive, c) < Depth(archive, d)
  BY <1>3, <1>4, AdmittedFirst
<1>7. ASSUME NEW c \in chosen, NEW d \in left PROVE share(c.family) <= share(d.family) + 1
 <2> DEFINE mine == {x \in chosen : x.family = c.family}
            theirs == {x \in chosen : x.family = d.family}
 <2>1. mine \in SUBSET Members(archive, c.family) /\ theirs \in SUBSET Members(archive, d.family)
   BY <1>3 DEF Members
 <2>2. d \in Members(archive, d.family) /\ d \notin theirs BY DEF Members
 <2>3. Members(archive, d.family) \ theirs \subseteq left BY DEF Members
 <2>4. \A x \in theirs, y \in Members(archive, d.family) \ theirs : Depth(archive, x) < Depth(archive, y)
  <3>1. \A y \in Members(archive, d.family) : y.family = d.family BY DEF Members
  <3> QED BY <1>6, <2>3, <3>1
 <2>5. theirs # Members(archive, d.family) BY <2>2
 <2> HIDE DEF theirs
 <2>6. PICK e \in Members(archive, d.family) \ theirs : Depth(archive, e) = Cardinality(theirs)
   BY <2>1, <2>4, <2>5, NextInLine
 <2>7. Cardinality(theirs) \in Nat
  <3>1. e \in Distinct(archive) BY DEF Members
  <3> QED BY <2>6, <3>1, DepthIs
 <2>8. \A x \in mine : Depth(archive, x) < Cardinality(theirs) + 1
  <3> SUFFICES ASSUME NEW x \in mine PROVE Depth(archive, x) < Cardinality(theirs) + 1 OBVIOUS
  <3>1. x \in chosen /\ e \in left BY <2>3
  <3>2. Depth(archive, x) <= Cardinality(theirs) BY <1>6, <2>6, <3>1
  <3>3. Depth(archive, x) \in Nat BY <1>3, <3>1, DepthIs
  <3> QED BY <2>7, <3>2, <3>3
 <2> HIDE DEF mine
 <2>9. Cardinality(mine) <= Cardinality(theirs) + 1
  <3> DEFINE k == Cardinality(theirs) + 1
             house == c.family
  <3>1. k \in Nat /\ mine \in SUBSET Members(archive, house) /\ \A x \in mine : Depth(archive, x) < k
    BY <2>1, <2>7, <2>8
  <3> HIDE DEF k, house
  <3>2. Cardinality(mine) <= k BY <3>1, ShareBound
  <3> QED BY <3>2 DEF k
 <2> QED BY <2>9 DEF mine, theirs
<1> QED BY <1>1, <1>6, <1>7, <1>4, <1>5 DEF FairFrontier, result, chosen, Turns, Families

----
\* Counting up to n.
LEMMA CountUp ==
  ASSUME NEW n \in Nat, NEW S, 0 \in S, \A k \in 0 .. n - 1 : k \in S => k + 1 \in S
  PROVE  \A k \in 0 .. n : k \in S
<1> DEFINE Out == {k \in 0 .. n : k \notin S}
<1>1. ASSUME Out # {} PROVE FALSE
 <2>1. PICK k \in Out : \A j \in Out : k <= j
  <3>1. Out \subseteq Nat OBVIOUS
  <3> QED BY <1>1, <3>1, LeastElement
 <2>2. k \in 0 .. n /\ k # 0 /\ k - 1 \in 0 .. n - 1 /\ k - 1 \in 0 .. n /\ (k - 1) + 1 = k BY <2>1
 <2>3. k - 1 \notin Out BY <2>1, <2>2
 <2> QED BY <2>1, <2>2, <2>3
<1> QED BY <1>1

\* The onset.  The scan of a log, step by step.
LogUpdate == [horizon : Nat, overlap : Nat]
Unseen == [onset |-> 0, safe |-> FALSE, unsafe |-> FALSE]
Scans(log, n, f) ==
    f = [k \in 0 .. n |-> IF k = 0 THEN Unseen ELSE Scanned(log, Last(log).horizon, f[k - 1], k)]

LEMMA ScanExists ==
  ASSUME NEW log, NEW n \in Nat
  PROVE  \E f : Scans(log, n, f)
<1> DEFINE Bad == {k \in Nat : ~ \E f : Scans(log, k, f)}
<1>1. ASSUME Bad # {} PROVE FALSE
 <2>1. PICK k \in Bad : \A j \in Bad : k <= j
  <3>1. Bad \subseteq Nat OBVIOUS
  <3> QED BY <1>1, <3>1, LeastElement
 <2>2. k # 0
  <3>1. Scans(log, 0, [j \in 0 .. 0 |-> Unseen]) BY DEF Scans
  <3> QED BY <2>1, <3>1
 <2>3. k - 1 \in Nat /\ k \in Nat /\ k - 1 \notin Bad BY <2>1, <2>2
 <2>4. PICK f : Scans(log, k - 1, f) BY <2>3
 <2> DEFINE step(s, j) == Scanned(log, Last(log).horizon, s, j)
            g == [j \in 0 .. k |-> IF j = k THEN step(f[k - 1], k) ELSE f[j]]
 <2>5. \A j \in 0 .. k - 1 : f[j] = IF j = 0 THEN Unseen ELSE step(f[j - 1], j) BY <2>4 DEF Scans
 <2> HIDE DEF step
 <2>6. ASSUME NEW j \in 0 .. k PROVE g[j] = IF j = 0 THEN Unseen ELSE step(g[j - 1], j)
  <3>1. CASE j = k
   <4>1. j # 0 /\ k - 1 \in 0 .. k /\ k - 1 # k /\ k \in 0 .. k BY <2>2, <2>3, <3>1
   <4>2. g[k - 1] = f[k - 1] /\ g[k] = step(f[k - 1], k) BY <4>1
   <4> QED BY <3>1, <4>1, <4>2
  <3>2. CASE j # k /\ j # 0
   <4>1. j - 1 \in 0 .. k /\ j - 1 # k /\ j \in 0 .. k - 1 BY <2>3, <3>2
   <4>2. g[j - 1] = f[j - 1] /\ g[j] = f[j] BY <3>2, <4>1
   <4> QED BY <2>5, <3>2, <4>1, <4>2
  <3>3. CASE j = 0
   <4>1. j # k /\ j \in 0 .. k - 1 BY <2>2, <2>3, <3>3
   <4>2. g[j] = f[j] BY <4>1
   <4> QED BY <2>5, <3>3, <4>1, <4>2
  <3> QED BY <3>1, <3>2, <3>3
 <2>7. g = [j \in 0 .. k |-> g[j]] OBVIOUS
 <2> HIDE DEF g
 <2>8. g = [j \in 0 .. k |-> IF j = 0 THEN Unseen ELSE step(g[j - 1], j)] BY <2>6, <2>7
 <2>9. Scans(log, k, g) BY <2>8 DEF Scans, step
 <2> QED BY <2>1, <2>9
<1> QED BY <1>1

LEMMA OnsetIs ==
  ASSUME NEW log, Len(log) \in Nat
  PROVE  \E f : /\ Scans(log, Len(log), f)
                /\ Onset(log) = IF Last(log).horizon \in {12, 32} /\ f[Len(log)].unsafe
                                THEN f[Len(log)].onset ELSE 0
<1> DEFINE Solves(f) == f = [n \in 0 .. Len(log) |->
                             IF n = 0 THEN [onset |-> 0, safe |-> FALSE, unsafe |-> FALSE]
                             ELSE Scanned(log, Last(log).horizon, f[n - 1], n)]
           g == CHOOSE f : Solves(f)
<1>1. Onset(log) = IF Last(log).horizon \in {12, 32} /\ g[Len(log)].unsafe THEN g[Len(log)].onset ELSE 0
  BY DEF Onset
<1>2. \A f : Solves(f) <=> Scans(log, Len(log), f) BY DEF Scans, Unseen
<1> HIDE DEF Solves
<1>3. \E f : Solves(f) BY <1>2, ScanExists
<1>4. Solves(g) BY <1>3, Zenon
<1> HIDE DEF g
<1> QED BY <1>1, <1>2, <1>4

\* What it knows of the first k updates: where the danger it is in began,
\* or whether the last of them was safe.
Alike(log, k) == log[k].horizon = Last(log).horizon /\ log[k].overlap > 0
Danger(log, k) == Alike(log, k) /\ log[k].overlap <= log[k].horizon
Began(log, k, b) ==
    b \in 1 .. k /\ (\A j \in b .. k : Danger(log, j)) /\ (b > 1 => ~ Danger(log, b - 1))
Knows(log, k, s) ==
    /\ s \in [onset : Nat, safe : BOOLEAN, unsafe : BOOLEAN]
    /\ s.unsafe => \E b \in 1 .. k : /\ Began(log, k, b)
                                     /\ s.onset = IF b > 1 /\ Alike(log, b - 1) THEN b ELSE 0
    /\ ~ s.unsafe => /\ k > 0 => ~ Danger(log, k)
                     /\ s.safe <=> (k > 0 /\ Alike(log, k))

LEMMA KnowsMore ==
  ASSUME NEW log \in Seq(LogUpdate), NEW k \in 1 .. Len(log), NEW s, Knows(log, k - 1, s)
  PROVE  Knows(log, k, Scanned(log, Last(log).horizon, s, k))
<1> DEFINE h == Last(log).horizon
           t == Scanned(log, h, s, k)
<1>1. log[k] \in LogUpdate /\ Len(log) \in Nat /\ log[Len(log)] \in LogUpdate OBVIOUS
<1>2. log[k].horizon \in Nat /\ log[k].overlap \in Nat BY <1>1 DEF LogUpdate
<1>3. s \in [onset : Nat, safe : BOOLEAN, unsafe : BOOLEAN] BY DEF Knows
<1>4. k \in Nat /\ k > 0 /\ k - 1 \in Nat BY <1>1
<1>5. CASE ~ Alike(log, k)
 <2>1. t = [onset |-> 0, safe |-> FALSE, unsafe |-> FALSE] BY <1>2, <1>5 DEF Scanned, Alike
 <2> HIDE DEF t
 <2>2. t \in [onset : Nat, safe : BOOLEAN, unsafe : BOOLEAN] /\ ~ t.unsafe /\ ~ t.safe BY <2>1
 <2>3. ~ Danger(log, k) BY <1>5 DEF Danger
 <2>4. Knows(log, k, t) BY <1>5, <2>2, <2>3 DEF Knows
 <2> QED BY <2>4 DEF t
<1>6. CASE Alike(log, k) /\ ~ Danger(log, k)
 <2>1. t = [onset |-> 0, safe |-> TRUE, unsafe |-> FALSE] BY <1>2, <1>6 DEF Scanned, Alike, Danger
 <2> HIDE DEF t
 <2>2. t \in [onset : Nat, safe : BOOLEAN, unsafe : BOOLEAN] /\ ~ t.unsafe /\ t.safe BY <2>1
 <2>3. Knows(log, k, t) BY <1>4, <1>6, <2>2 DEF Knows
 <2> QED BY <2>3 DEF t
<1>7. CASE Danger(log, k) /\ s.unsafe
 <2>1. t = s BY <1>2, <1>7 DEF Scanned, Alike, Danger
 <2>2. PICK b \in 1 .. k - 1 : /\ Began(log, k - 1, b)
                               /\ s.onset = IF b > 1 /\ Alike(log, b - 1) THEN b ELSE 0
   BY <1>7 DEF Knows
 <2>3. b \in 1 .. k /\ Began(log, k, b)
  <3>1. \A j \in b .. k : j = k \/ j \in b .. k - 1 BY <1>4
  <3> QED BY <1>4, <1>7, <2>2, <3>1 DEF Began
 <2> HIDE DEF t
 <2>4. Knows(log, k, t) BY <1>3, <1>7, <2>1, <2>2, <2>3 DEF Knows
 <2> QED BY <2>4 DEF t
<1>8. CASE Danger(log, k) /\ ~ s.unsafe
 <2>1. t = [s EXCEPT !.onset = IF s.safe THEN k ELSE 0, !.unsafe = TRUE]
   BY <1>2, <1>8 DEF Scanned, Alike, Danger
 <2> HIDE DEF t
 <2>2. /\ t \in [onset : Nat, safe : BOOLEAN, unsafe : BOOLEAN]
       /\ t.unsafe /\ t.onset = IF s.safe THEN k ELSE 0
   BY <1>3, <1>4, <2>1
 <2>3. s.safe <=> (k > 1 /\ Alike(log, k - 1)) BY <1>4, <1>8 DEF Knows
 <2>4. k > 1 => ~ Danger(log, k - 1) BY <1>4, <1>8 DEF Knows
 <2>5. Began(log, k, k)
  <3>1. \A j \in k .. k : j = k BY <1>4
  <3> QED BY <1>4, <1>8, <2>4, <3>1 DEF Began
 <2>6. t.onset = IF k > 1 /\ Alike(log, k - 1) THEN k ELSE 0 BY <2>2, <2>3
 <2>7. k \in 1 .. k BY <1>4
 <2>8. Knows(log, k, t) BY <2>2, <2>5, <2>6, <2>7 DEF Knows
 <2> QED BY <2>8 DEF t
<1>9. Danger(log, k) => Alike(log, k) BY DEF Danger
<1> QED BY <1>5, <1>6, <1>7, <1>8, <1>9

LEMMA ScanKnows ==
  ASSUME NEW log \in Seq(LogUpdate), NEW f, Scans(log, Len(log), f)
  PROVE  Knows(log, Len(log), f[Len(log)])
<1> DEFINE n == Len(log)
           S == {k \in 0 .. n : Knows(log, k, f[k])}
<1>1. n \in Nat OBVIOUS
<1>2. \A k \in 0 .. n : f[k] = IF k = 0 THEN Unseen ELSE Scanned(log, Last(log).horizon, f[k - 1], k)
  BY DEF Scans
<1> HIDE DEF n
<1>3. 0 \in S
 <2>1. f[0] = Unseen /\ 0 \in 0 .. n BY <1>1, <1>2
 <2>2. Knows(log, 0, Unseen) BY DEF Knows, Unseen
 <2> QED BY <2>1, <2>2
<1>4. ASSUME NEW k \in 0 .. n - 1, k \in S PROVE k + 1 \in S
 <2> DEFINE m == k + 1
 <2>1. m \in 1 .. n /\ m \in 0 .. n /\ m # 0 /\ m - 1 = k BY <1>1
 <2> HIDE DEF m
 <2>2. f[m] = Scanned(log, Last(log).horizon, f[m - 1], m) BY <1>2, <2>1
 <2>3. Knows(log, m - 1, f[m - 1]) BY <1>4, <2>1
 <2>4. Knows(log, m, f[m]) BY <2>1, <2>2, <2>3, KnowsMore DEF n
 <2> QED BY <2>1, <2>4 DEF m
<1> HIDE DEF S
<1>5. \A k \in 0 .. n : k \in S BY <1>1, <1>3, <1>4, CountUp
<1>6. n \in S BY <1>1, <1>5
<1> QED BY <1>6 DEF S, n

\* The update at which a danger began is the only one of its kind.
LEMMA TurningIs ==
  ASSUME NEW log \in Seq(LogUpdate), log # << >>, NEW n \in DOMAIN log
  PROVE  Turning(log, n) <=> Onset(log) = n
<1> DEFINE l == Len(log)
<1>1. l \in Nat \ {0} /\ n \in 1 .. l /\ \A k \in 1 .. l : log[k] \in LogUpdate OBVIOUS
<1>2. \A k \in 1 .. l : log[k].overlap \in Nat BY <1>1 DEF LogUpdate
<1>3. PICK f : /\ Scans(log, Len(log), f)
               /\ Onset(log) = IF Last(log).horizon \in {12, 32} /\ f[Len(log)].unsafe
                               THEN f[Len(log)].onset ELSE 0
  BY <1>1, OnsetIs
<1>4. Knows(log, l, f[l]) BY <1>3, ScanKnows
<1>5. Turning(log, n) <=> /\ n > 1 /\ Last(log).horizon \in {12, 32}
                          /\ \A k \in n .. l : Danger(log, k)
                          /\ Alike(log, n - 1) /\ ~ Danger(log, n - 1)
  BY DEF Turning, Danger, Alike
<1> HIDE DEF l
<1>6. CASE Last(log).horizon \notin {12, 32}
 <2>1. Onset(log) = 0 BY <1>3, <1>6
 <2> QED BY <1>1, <1>5, <1>6, <2>1
<1>7. CASE Last(log).horizon \in {12, 32} /\ ~ f[l].unsafe
 <2>1. Onset(log) = 0 BY <1>3, <1>7 DEF l
 <2>2. ~ Danger(log, l) /\ l \in n .. l BY <1>1, <1>4, <1>7 DEF Knows
 <2> QED BY <1>1, <1>5, <2>1, <2>2
<1>8. CASE Last(log).horizon \in {12, 32} /\ f[l].unsafe
 <2>1. PICK b \in 1 .. l : Began(log, l, b) /\ f[l].onset = IF b > 1 /\ Alike(log, b - 1) THEN b ELSE 0
   BY <1>4, <1>8 DEF Knows
 <2>2. Onset(log) = IF b > 1 /\ Alike(log, b - 1) THEN b ELSE 0 BY <1>3, <1>8, <2>1 DEF l
 <2>3. (\A j \in b .. l : Danger(log, j)) /\ (b > 1 => ~ Danger(log, b - 1)) BY <2>1 DEF Began
 <2>4. ASSUME Turning(log, n) PROVE Onset(log) = n
  <3>1. CASE n < b
   <4>1. b > 1 /\ b - 1 \in n .. l BY <1>1, <2>1, <3>1
   <4> QED BY <1>5, <2>3, <2>4, <4>1
  <3>2. CASE n > b
   <4>1. n - 1 \in b .. l BY <1>1, <2>1, <3>2
   <4> QED BY <1>5, <2>3, <2>4, <4>1
  <3>3. CASE n = b BY <1>5, <2>2, <2>4, <3>3
  <3> QED BY <1>1, <2>1, <3>1, <3>2, <3>3
 <2>5. ASSUME Onset(log) = n PROVE Turning(log, n)
  <3>1. n = b /\ b > 1 /\ Alike(log, b - 1) BY <1>1, <2>2, <2>5
  <3> QED BY <1>5, <1>8, <2>3, <3>1
 <2> QED BY <2>4, <2>5
<1> QED BY <1>6, <1>7, <1>8

----
\* Whatever has been picked is the answer to what was asked.
AskedFrontier == {[what |-> "frontier", archive |-> archive, width |-> width, generation |-> g] :
                    archive \in Archives, width \in Widths, g \in Generations}
AskedBeam == {[what |-> "beam", nodes |-> beam, width |-> width] : beam \in Beams, width \in Widths}
AskedBounded == {[what |-> "bounded", nodes |-> beam, width |-> width] : beam \in Beams, width \in Widths}
AskedOnset == {[what |-> "onset", log |-> log] : log \in Logs}

SelectionInv ==
    \/ request = Idle
    \/ /\ request \in AskedFrontier
       /\ picked = Frontier(request.archive, request.width, request.generation)
    \/ /\ request \in AskedBeam
       /\ picked = Retain(request.nodes, request.width, Keys(request.nodes, FALSE))
    \/ /\ request \in AskedBounded
       /\ picked = Retain(request.nodes, request.width, Keys(request.nodes, TRUE))
    \/ request \in AskedOnset /\ picked = << Onset(request.log) >>

SelectionSpec == SelectionInit /\ [][SelectionNext]_selectionVars

LEMMA SelectionStep == SelectionInv /\ [SelectionNext]_selectionVars => SelectionInv'
<1> SUFFICES ASSUME SelectionInv, [SelectionNext]_selectionVars PROVE SelectionInv' OBVIOUS
<1>1. CASE UNCHANGED selectionVars
 <2>1. request' = request /\ picked' = picked BY <1>1 DEF selectionVars
 <2> QED BY <2>1 DEF SelectionInv
<1>2. CASE Ask
 <2> DEFINE answer == CASE request'.what = "frontier" ->
                            Frontier(request'.archive, request'.width, request'.generation)
                     [] request'.what = "onset" -> << Onset(request'.log) >>
                     [] OTHER -> Retain(request'.nodes, request'.width,
                                        Keys(request'.nodes, request'.what = "bounded"))
 <2>1. picked' = answer BY <1>2 DEF Ask
 <2>2. CASE \E archive \in Archives, width \in Widths, g \in Generations :
              request' = [what |-> "frontier", archive |-> archive, width |-> width, generation |-> g]
  <3>1. request' \in AskedFrontier /\ request'.what = "frontier" BY <2>2 DEF AskedFrontier
  <3>2. picked' = Frontier(request'.archive, request'.width, request'.generation) BY <2>1, <3>1
  <3> QED BY <3>1, <3>2 DEF SelectionInv
 <2>3. CASE \E beam \in Beams, width \in Widths : request' = [what |-> "beam", nodes |-> beam, width |-> width]
  <3>1. request' \in AskedBeam /\ request'.what = "beam" BY <2>3 DEF AskedBeam
  <3>2. picked' = Retain(request'.nodes, request'.width, Keys(request'.nodes, request'.what = "bounded"))
    BY <2>1, <3>1
  <3>3. Keys(request'.nodes, request'.what = "bounded") = Keys(request'.nodes, FALSE) BY <3>1 DEF Keys
  <3> QED BY <3>1, <3>2, <3>3 DEF SelectionInv
 <2>4. CASE \E beam \in Beams, width \in Widths :
              request' = [what |-> "bounded", nodes |-> beam, width |-> width]
  <3>1. request' \in AskedBounded /\ request'.what = "bounded" BY <2>4 DEF AskedBounded
  <3>2. picked' = Retain(request'.nodes, request'.width, Keys(request'.nodes, request'.what = "bounded"))
    BY <2>1, <3>1
  <3>3. Keys(request'.nodes, request'.what = "bounded") = Keys(request'.nodes, TRUE) BY <3>1 DEF Keys
  <3> QED BY <3>1, <3>2, <3>3 DEF SelectionInv
 <2>5. CASE \E log \in Logs : request' = [what |-> "onset", log |-> log]
  <3>1. request' \in AskedOnset /\ request'.what = "onset" BY <2>5 DEF AskedOnset
  <3>2. picked' = << Onset(request'.log) >> BY <2>1, <3>1
  <3> QED BY <3>1, <3>2 DEF SelectionInv
 <2> QED BY <1>2, <2>2, <2>3, <2>4, <2>5 DEF Ask
<1> QED BY <1>1, <1>2 DEF SelectionNext

LEMMA Questionable ==
  /\ \A archive \in Archives : Filed(archive)
  /\ \A beam \in Beams : beam \in Nodes
  /\ \A log \in Logs : log \in Seq(LogUpdate) /\ log # << >>
  /\ Widths \subseteq Nat /\ Generations \subseteq Nat
BY SelectionAssumption DEF Filed, Nodes, Node, Scores, LogUpdate

LEMMA SelectionFair == SelectionInv => FairSelection
<1> SUFFICES ASSUME SelectionInv PROVE FairSelection OBVIOUS
<1>1. CASE request = Idle BY <1>1 DEF Idle, FairSelection
<1>2. CASE request \in AskedFrontier /\ picked = Frontier(request.archive, request.width, request.generation)
 <2>1. /\ request.what = "frontier" /\ request.archive \in Archives /\ request.width \in Widths
       /\ request.generation \in Generations
   BY <1>2 DEF AskedFrontier
 <2>2. Filed(request.archive) /\ request.width \in Nat /\ request.generation \in Nat BY <2>1, Questionable
 <2>3. ASSUME picked # Refused PROVE FairFrontier(request.archive, request.width, request.generation, picked)
  <3>1. ~ Mixed(request.archive) BY <1>2, <2>3 DEF Frontier
  <3> QED BY <1>2, <2>2, <3>1, FrontierFair
 <2> QED BY <2>1, <2>3 DEF FairSelection
<1>3. CASE request \in AskedBeam /\ picked = Retain(request.nodes, request.width, Keys(request.nodes, FALSE))
 <2>1. request.what = "beam" /\ request.nodes \in Beams /\ request.width \in Widths BY <1>3 DEF AskedBeam
 <2>2. request.nodes \in Nodes /\ request.width \in Nat BY <2>1, Questionable
 <2>3. FairBeam(request.nodes, request.width, picked) BY <1>3, <2>2, BeamFair
 <2> QED BY <2>1, <2>3 DEF FairSelection
<1>4. CASE /\ request \in AskedBounded
           /\ picked = Retain(request.nodes, request.width, Keys(request.nodes, TRUE))
 <2>1. request.what = "bounded" /\ request.nodes \in Beams /\ request.width \in Widths BY <1>4 DEF AskedBounded
 <2>2. request.nodes \in Nodes /\ request.width \in Nat BY <2>1, Questionable
 <2>3. picked = Retain(request.nodes, request.width, Keys(request.nodes, FALSE)) BY <1>4, <2>2, RetainAlike
 <2>4. FairBeam(request.nodes, request.width, picked) BY <2>2, <2>3, BeamFair
 <2> QED BY <2>1, <2>4 DEF FairSelection
<1>5. CASE request \in AskedOnset /\ picked = << Onset(request.log) >>
 <2>1. request.what = "onset" /\ request.log \in Logs BY <1>5 DEF AskedOnset
 <2>2. request.log \in Seq(LogUpdate) /\ request.log # << >> BY <2>1, Questionable
 <2>3. \A n \in DOMAIN request.log : Turning(request.log, n) <=> Onset(request.log) = n BY <2>2, TurningIs
 <2>4. picked[1] = Onset(request.log) BY <1>5
 <2> QED BY <2>1, <2>3, <2>4 DEF FairSelection
<1> QED BY <1>1, <1>2, <1>3, <1>4, <1>5 DEF SelectionInv

\* The selections are fair, for every archive, beam and log: of a family
\* the better come first and every family has its turn, no cell keeps a
\* second node before each has one, whichever way the scores are compared,
\* and the onset of a danger is where it began.
THEOREM SelectionsFair == SelectionSpec => []FairSelection
<1>1. SelectionInit => SelectionInv BY DEF SelectionInit, SelectionInv
<1>2. SelectionInv /\ [SelectionNext]_selectionVars => SelectionInv' BY SelectionStep
<1>3. SelectionInv => FairSelection BY SelectionFair
<1> QED BY <1>1, <1>2, <1>3, PTL DEF SelectionSpec
====
