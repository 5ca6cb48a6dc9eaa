---- MODULE HeadlessRun ----
(* One run of the native game (tools/headless.cpp) and the probe that      *)
(* makes it nine times (tools/headless_probe.cpp).  A run plays a tape, a  *)
(* policy, or a policy after a prefix of a tape; it ends at the first      *)
(* update that decides it and writes the tape it played and a report with  *)
(* digests of its updates.  What it writes is what every other tool works  *)
(* with, so a tape must mean the same update for update when it is played  *)
(* again.  The probe replaces the direction of one update of a tape and    *)
(* plays on; the runs must agree up to that update.                        *)
EXTENDS Integers, Sequences, FiniteSets, SequencesExt

CONSTANTS
    Scenes,     \* scenes, see Hit, Active, Cleared and RetryMenu
    Compass,    \* directions of an update, nine in the code
    FirstOptions, \* what a run without a tape may be asked
    TapeOptions,  \* what a run with a tape may be asked
    Probes,       \* what the probe may be asked: frame, through
    TraceRows,    \* updates the diagnostic trace keeps, 32 in the code
    MaxRuns       \* bound: runs beside the probe's

RunOptions == [spell : Int, limit : Nat, prefix : Nat, shoot : {"default", "yes", "no"}, identity : BOOLEAN,
               replay : BOOLEAN, resume : BOOLEAN, unused : BOOLEAN, tape : {<< >>}]
ASSUME HeadlessAssumption ==
    /\ TraceRows \in Nat \ {0} /\ MaxRuns \in Nat
    /\ FirstOptions \subseteq RunOptions /\ TapeOptions \subseteq RunOptions
    /\ Probes \subseteq [frame : Nat, through : Nat]

VARIABLES
    scene,  \* the game, the same for all runs
    past,   \* history: the runs that ended, with what was asked of them
    native, \* the run in progress
    probe   \* the probe, its runs as indices of past, and summary.json

headlessVars == <<scene, past, native, probe>>

NoTape == << >>
Unreadable == << [move |-> -1, shot |-> FALSE, confirm |-> FALSE] >> \* a file that is no tape
NoDigest == << >>

----
(* The game after a tape.  The digest stands for the hash of every update: *)
(* it names the updates and their order.                                   *)
Place(tape) == Cardinality({k \in DOMAIN tape : tape[k].move = 1})
Pressed(tape, key) == Cardinality({k \in DOMAIN tape : tape[k][key]})
Hit(tape) == <<Len(tape), Place(tape)>> \in scene.fatal
SpellActive(tape) == scene.from <= Len(tape) /\ Len(tape) < scene.till
Cleared(tape) == Pressed(tape, "confirm") >= scene.talk /\ Pressed(tape, "shot") >= scene.hp
RetryMenu(tape) == Len(tape) = scene.retry
Seen(tape) == [frame |-> Len(tape), place |-> Place(tape), hit |-> Hit(tape), active |-> SpellActive(tape)]
Hashed(digest, action, state) == Append(digest, <<state, action>>)

(* What is refused before the game starts, in the order of the code.       *)
Refuses(o) ==
    \/ o.limit = 0
    \/ o.replay /\ o.resume
    \/ o.prefix > o.limit
    \/ o.unused /\ ~o.replay
    \/ ~o.identity
    \/ (o.replay \/ o.resume) /\ o.tape \in {NoTape, Unreadable}
    \/ o.resume /\ Len(o.tape) > o.limit

NoNative == [phase |-> "idle"]
Fresh(o) ==
    [phase |-> "playing", asked |-> o, tape |-> NoTape, outcome |-> "frame_limit",
     digest |-> NoDigest, previous |-> NoDigest, prefix |-> NoDigest, started |-> FALSE, firstHit |-> 0,
     rows |-> << >>, slot |-> 0, kept |-> 0]
FailedRun(o) == [asked |-> o, exit |-> 1]

(* A run is launched, or refuses its options. *)
LaunchRun(o) ==
    IF Refuses(o) THEN past' = Append(past, FailedRun(o)) /\ UNCHANGED native
    ELSE native' = Fresh(o) /\ UNCHANGED past

(* A tape is played as it is; the policy only chooses the move, and its    *)
(* inputs get the fire key and, in a stage, a confirmation every other     *)
(* update.                                                                 *)
Recorded(r) == r.asked.replay \/ (r.asked.resume /\ Len(r.tape) < Len(r.asked.tape))
Chosen(r, move) ==
    [move |-> move,
     shot |-> IF r.asked.shoot = "default" THEN r.asked.spell < 0 ELSE r.asked.shoot = "yes",
     confirm |-> r.asked.spell < 0 /\ Len(r.tape) % 2 = 1]

(* The trace is a ring that is filled from its first slot. *)
Traced(r, row) ==
    [r EXCEPT !.rows = IF r.slot < Len(r.rows) THEN [@ EXCEPT ![r.slot + 1] = row] ELSE Append(@, row),
              !.slot = (@ + 1) % TraceRows, !.kept = IF @ < TraceRows THEN @ + 1 ELSE @]

(* A version in which a completion counts before a collision. *)
CompletedFirst(r, started) ==
    CASE IF r.asked.spell >= 0 THEN started /\ ~SpellActive(r.tape) ELSE Cleared(r.tape) -> "complete"
      [] OTHER -> IF Hit(r.tape) THEN "collision" ELSE IF RetryMenu(r.tape) THEN "retry_menu" ELSE "frame_limit"

(* What an update decides.  A collision counts before a completion, and a  *)
(* spell is only complete if it was seen to begin.                         *)
Decided(r, started) ==
    CASE Hit(r.tape) -> "collision"
      [] ~Hit(r.tape) /\ (IF r.asked.spell >= 0 THEN started /\ ~SpellActive(r.tape) ELSE Cleared(r.tape)) -> "complete"
      [] OTHER -> IF RetryMenu(r.tape) THEN "retry_menu" ELSE "frame_limit"

WrongSpell(r, tape) == SpellActive(tape) /\ ~r.started /\ r.asked.spell >= 0 /\ scene.spell # r.asked.spell

Played(r, action) ==
    LET tape == Append(r.tape, action)
        state == Seen(tape)
        digest == Hashed(r.digest, action, state)
        started == r.started \/ SpellActive(tape)
        updated == [Traced(r, [before |-> Seen(r.tape), action |-> action, after |-> state]) EXCEPT
                     !.tape = tape, !.previous = r.digest, !.digest = digest,
                     !.prefix = IF Len(tape) = r.asked.prefix THEN digest ELSE @, !.started = started]
        outcome == Decided(updated, started)
    IN  [updated EXCEPT !.outcome = outcome, !.firstHit = IF outcome = "collision" THEN Len(tape) ELSE 0,
                      !.phase = IF outcome = "frame_limit" THEN "playing" ELSE "ended"]

FailRun == past' = Append(past, FailedRun(native.asked)) /\ native' = NoNative

Frame ==
    /\ native.phase = "playing" /\ UNCHANGED <<scene, probe>>
    /\ \/ Len(native.tape) = native.asked.limit
          /\ native' = [native EXCEPT !.phase = "ended"] /\ UNCHANGED past
       \/ Len(native.tape) < native.asked.limit /\ native.asked.replay
          /\ Len(native.tape) = Len(native.asked.tape)
          /\ native' = [native EXCEPT !.phase = "ended", !.outcome = "tape_end"] /\ UNCHANGED past
       \/ /\ Len(native.tape) < native.asked.limit
          /\ \E action \in IF Recorded(native)
                           THEN {native.asked.tape[k] : k \in {Len(native.tape) + 1} \cap DOMAIN native.asked.tape}
                           ELSE {Chosen(native, move) : move \in Compass} :
                 IF WrongSpell(native, Append(native.tape, action)) THEN FailRun
                 ELSE native' = Played(native, action) /\ UNCHANGED past

(* A policy that meets an instruction it cannot forecast stops the run. *)
Unforeseen ==
    /\ native.phase = "playing" /\ Len(native.tape) < native.asked.limit /\ ~Recorded(native)
    /\ FailRun /\ UNCHANGED <<scene, probe>>

(* The process of a run is killed. *)
Signalled == 137
KilledRun ==
    /\ native.phase # "idle"
    /\ past' = Append(past, [asked |-> native.asked, exit |-> Signalled]) /\ native' = NoNative
    /\ UNCHANGED <<scene, probe>>

(* The rows of the trace, the oldest first. *)
TraceOf(r) == [k \in 1 .. r.kept |-> r.rows[((r.slot + TraceRows - r.kept + k - 1) % TraceRows) + 1]]
Unused(r) ==
    IF r.asked.tape = NoTape \/ Len(r.tape) >= Len(r.asked.tape) THEN 0 ELSE Len(r.asked.tape) - Len(r.tape)
Report(r) ==
    [asked |-> r.asked, exit |-> IF r.outcome = "complete" THEN 0 ELSE 2, outcome |-> r.outcome,
     frames |-> Len(r.tape), tape |-> r.tape, digest |-> r.digest, previous |-> r.previous,
     prefix |-> r.prefix, firstHit |-> r.firstHit, unused |-> Unused(r), trace |-> TraceOf(r)]

(* A run that did not reach the boundary it was asked about, or a tape     *)
(* that goes on, leaves nothing behind.                                    *)
ConcludeRun ==
    /\ native.phase = "ended"
    /\ IF \/ Len(native.tape) < native.asked.prefix
          \/ native.asked.replay /\ Len(native.tape) # Len(native.asked.tape) /\ ~native.asked.unused
       THEN FailRun
       ELSE past' = Append(past, Report(native)) /\ native' = NoNative
    /\ UNCHANGED <<scene, probe>>

----
(* The probe.  Its arguments are checked before an older summary is        *)
(* removed; then every direction gets a run of its own.                    *)
Reported(k) == past[k].exit \in {0, 2}
Source == past[1].tape
Replaced(tape, frame, move) == [tape EXCEPT ![frame].move = move]
CompassOrder == SetToSortSeq(Compass, <)
BranchOf(move) ==
    [past[1].asked EXCEPT !.tape = Replaced(SubSeq(Source, 1, probe.through), probe.frame, move),
                          !.replay = TRUE, !.resume = FALSE, !.limit = probe.through,
                          !.prefix = probe.frame - 1, !.unused = TRUE]

ProbeStarts ==
    /\ probe.phase = "none" /\ native.phase = "idle" /\ Len(past) = 1 /\ Reported(1)
    /\ \E ask \in Probes :
          LET through == IF ask.through = 0 THEN ask.frame ELSE ask.through
          IN  IF ask.frame = 0 \/ through < ask.frame \/ through > Len(Source)
              THEN probe' = [probe EXCEPT !.phase = "refused"]
              ELSE probe' = [probe EXCEPT !.phase = "branching", !.frame = ask.frame, !.through = through,
                                          !.summary = "none"]
    /\ UNCHANGED <<scene, past, native>>

(* A branch must have reached the update that was replaced, and have come  *)
(* there as the first branch did.                                          *)
Agrees(k) ==
    /\ Reported(k) /\ past[k].frames >= probe.frame
    /\ past[k].prefix = past[probe.runs[1]].prefix

ProbeBranch ==
    /\ probe.phase = "branching" /\ native.phase = "idle"
    /\ Len(past) = 1 + Len(probe.runs) /\ Len(probe.runs) < Len(CompassOrder)
    /\ probe.runs # << >> => Agrees(Last(probe.runs))
    /\ LaunchRun(BranchOf(CompassOrder[Len(probe.runs) + 1]))
    /\ probe' = [probe EXCEPT !.runs = Append(@, Len(past) + 1)]
    /\ UNCHANGED scene

ProbeJudges ==
    /\ probe.phase = "branching" /\ native.phase = "idle"
    /\ probe.runs # << >> /\ Len(past) = Last(probe.runs)
    /\ IF ~Agrees(Last(probe.runs)) THEN probe' = [probe EXCEPT !.phase = "failed"]
       ELSE /\ Len(probe.runs) = Len(CompassOrder)
            /\ probe' = [probe EXCEPT !.phase = "agreed", !.summary = "new"]
    /\ UNCHANGED <<scene, past, native>>

----
HeadlessInit ==
    /\ scene \in Scenes /\ past = << >> /\ native = NoNative
    /\ probe = [phase |-> "none", frame |-> 0, through |-> 0, runs |-> << >>, summary |-> "old"]

(* Runs are asked for by whoever holds a tape: the first has none, the     *)
(* next one plays the first one's, a part of it, or a longer one.          *)
Handed ==
    {NoTape, Unreadable, Source} \union {SubSeq(Source, 1, n) : n \in 1 .. Len(Source)}
    \union {Append(Source, Last(Source))}
AskRun ==
    /\ native.phase = "idle" /\ probe.phase = "none" /\ Len(past) < MaxRuns
    /\ \/ past = << >> /\ \E o \in FirstOptions : LaunchRun(o)
       \/ /\ past # << >> /\ Reported(1)
          /\ \E o \in TapeOptions, tape \in Handed :
                LaunchRun([o EXCEPT !.tape = tape, !.spell = past[1].asked.spell])
    /\ UNCHANGED <<scene, probe>>

----
(* What a report says about the game, whatever led to it. *)
Begun(tape, n) == \E k \in 1 .. n : SpellActive(SubSeq(tape, 1, k))
Completed(r, n) ==
    LET tape == SubSeq(r.tape, 1, n)
    IN  IF r.asked.spell >= 0 THEN Begun(tape, n) /\ ~SpellActive(tape) ELSE Cleared(tape)
Ended(r, n) == LET tape == SubSeq(r.tape, 1, n) IN Hit(tape) \/ Completed(r, n) \/ RetryMenu(tape)
Updates(tape) == [k \in DOMAIN tape |-> <<Seen(SubSeq(tape, 1, k)), tape[k]>>]
TellsTheGame(r) ==
    LET n == Len(r.tape)
        hit == Hit(r.tape)
    IN  /\ \A k \in 1 .. n - 1 : ~Ended(r, k)
        /\ r.outcome \in {"frame_limit", "tape_end"} => n > 0 /\ ~Ended(r, n)
        /\ r.exit = 0 <=> Completed(r, n) /\ ~hit
        /\ r.firstHit = (IF hit THEN n ELSE 0)
        /\ r.exit = 0 /\ r.asked.spell >= 0 => scene.spell = r.asked.spell
        /\ r.frames = n /\ n <= r.asked.limit
        /\ r.digest = Updates(r.tape) /\ r.previous = Front(r.digest)
        /\ r.prefix = SubSeq(r.digest, 1, r.asked.prefix)
        /\ Len(r.trace) = (IF n < TraceRows THEN n ELSE TraceRows)
        /\ \A k \in DOMAIN r.trace :
              LET at == n - Len(r.trace) + k
              IN  r.trace[k] = [before |-> Seen(SubSeq(r.tape, 1, at - 1)), action |-> r.tape[at],
                                after |-> Seen(SubSeq(r.tape, 1, at))]
TellsTheTape(r) ==
    /\ r.asked.replay => IsPrefix(r.tape, r.asked.tape) /\ (r.asked.unused \/ r.tape = r.asked.tape)
    /\ r.asked.resume => IsPrefix(r.tape, r.asked.tape) \/ IsPrefix(r.asked.tape, r.tape)
    /\ r.asked.replay \/ r.asked.resume =>
          r.unused = Cardinality(DOMAIN r.asked.tape \ DOMAIN r.tape)

(* A whole tape played again is never refused and tells the same.          *)
Reproduces(r, again) ==
    again.exit # Signalled /\ again.asked.replay /\ ~Refuses(again.asked) /\ again.asked.tape = r.tape /\ Len(r.tape) <= again.asked.limit
        /\ again.asked.prefix <= Len(r.tape)
    => /\ again.exit = r.exit /\ again.tape = r.tape /\ again.digest = r.digest
       /\ again.outcome = r.outcome \/ {again.outcome, r.outcome} \subseteq {"frame_limit", "tape_end"}

ProbeTells ==
    /\ probe.phase = "agreed" => \A i \in DOMAIN probe.runs :
          LET r == past[probe.runs[i]]
          IN  /\ r.prefix = SubSeq(past[1].digest, 1, probe.frame - 1)
              /\ r.tape[probe.frame].move = CompassOrder[i]
              /\ Source[probe.frame].move = CompassOrder[i] => r.digest = SubSeq(past[1].digest, 1, probe.through)
    /\ probe.summary = "new" <=> probe.phase = "agreed"
    /\ probe.summary = "old" <=> probe.phase \in {"none", "refused"}

(* A tape means the same update for update whenever it is played again: a  *)
(* run says complete, and exits with 0, only if the spell it was asked for *)
(* began and ended, or the stage was cleared, without a collision at that  *)
(* very update; its digests, its trace and its count of unused actions are *)
(* those of the updates it played; a strict replay plays the whole tape; a *)
(* resumed run keeps its prefix; and the probe's branches agree up to the  *)
(* update that was replaced, the unchanged one with the source all the way *)
(* (headless.cpp lines 425-656, headless_probe.cpp lines 125-190).         *)
HonestTape ==
    /\ \A k \in DOMAIN past : Reported(k) =>
          /\ TellsTheGame(past[k]) /\ TellsTheTape(past[k])
          /\ \A j \in k + 1 .. Len(past) : Reproduces(past[k], past[j])
    /\ ProbeTells

HeadlessNext == AskRun \/ Frame \/ Unforeseen \/ KilledRun \/ ConcludeRun \/ ProbeStarts \/ ProbeBranch \/ ProbeJudges
====
