---- MODULE Follower ----
(***************************************************************************)
(* The shadow follower: tools/shadow_follow.cpp, the owner, plays a tape   *)
(* on its own world and has a child process (src/shadow_process.cpp) play  *)
(* the same tape on another one, input by input, over a socket pair; it    *)
(* compares the receipts of the two after every update.  A packet crosses  *)
(* in pieces, every transfer has a deadline, the child may fail, crash or  *)
(* hang, and the owner may be killed.                                      *)
(***************************************************************************)
EXTENDS Integers, Sequences

CONSTANTS Tape,     \* number of inputs of the tape
          Frames,   \* --frames, the updates allowed
          Pieces,   \* pieces a packet crosses the socket in
          Buffer,   \* pieces a direction of the socket holds
          Moments   \* when things happen in the worlds: see World

ASSUME FollowerAssumption == /\ Tape \in Nat /\ Frames \in Nat \ {0}
                             /\ Pieces \in Nat \ {0} /\ Buffer \in Nat \ {0}
                             /\ Moments \subseteq Nat

(* What the tape does to the worlds: the update that changes the stage,    *)
(* after which the player is dead, the goal is reached, and from which the *)
(* follower's world differs in a compared field (0: from the start).       *)
World == [handoff : Moments \ {0}, death : Moments, goal : Moments,
          diverges : Moments]

VARIABLES world,
          owner,    \* step of the owner
          follower, \* step of the child process
          moved,    \* pieces of the packet in hand each process has moved
          played,   \* updates each process's world has made
          receipt,  \* each process's own receipt
          held,     \* the packet each process received or is receiving
          wire,     \* wire[p]: the pieces on their way to process p
          open,     \* processes whose end of the socket pair is open
          outcome   \* what the owner reports, and its exit code

vars == <<world, owner, follower, moved, played, receipt, held, wire, open, outcome>>
ownerVars == <<owner, outcome>>

Process == {"owner", "follower"}
Other(p) == IF p = "owner" THEN "follower" ELSE "owner"
Set(f, p, value) == [f EXCEPT ![p] = value]
Earlier(a, b) == IF a < b THEN a ELSE b

(* The projection of a world: the compared fields, the stage among them.   *)
Capture(p) == [stage |-> IF played[p] >= world.handoff THEN 1 ELSE 0,
               digest |-> IF p = "follower" /\ played[p] >= world.diverges
                          THEN "other" ELSE "common"]
CaptureAfter(p) == [stage |-> IF played[p] + 1 >= world.handoff THEN 1 ELSE 0,
                    digest |-> IF p = "follower" /\ played[p] + 1 >= world.diverges
                               THEN "other" ELSE "common"]

Packet(kind, sequence, epoch, input, status, state) ==
    [kind |-> kind, sequence |-> sequence, epoch |-> epoch, input |-> input,
     status |-> status, state |-> state]
NoCode == -1
NoState == [stage |-> 0, digest |-> "none"]
TornState == [stage |-> 0, digest |-> "torn"]
NoPacket == Packet("Nothing", 0, 0, 0, 0, NoState)
FirstReceipt(p) == Packet("State", 0, 0, 0, 0, Capture(p))
Failure == Packet("Failure", 0, 0, 0, 1, NoState)
Request(sequence, epoch, input) == Packet("Advance", sequence, epoch, input, 0, NoState)

(* A receipt advances by exactly one update; a new stage is a new epoch.   *)
AdvanceReceipt(r, input, after) ==
    Packet("State", r.sequence + 1,
           r.epoch + IF r.state.stage # after.stage THEN 1 ELSE 0, input, 0, after)

(* A version in which packets of any kind and any digest compare equal. *)
DifferenceInOrderOnly(a, b) ==
    IF a.sequence # b.sequence THEN "sequence"
    ELSE IF a.epoch # b.epoch THEN "epoch" ELSE "none"

(* The first field in which two packets differ, "none" if they agree.      *)
Difference(a, b) ==
    CASE a.kind # "State" \/ b.kind # "State" \/ a.status # 0 \/ b.status # 0
            -> "packet_status"
      [] OTHER -> IF a.sequence # b.sequence THEN "sequence"
                  ELSE IF a.epoch # b.epoch THEN "epoch"
                  ELSE IF a.input # b.input THEN "actual_input"
                  ELSE IF a.state # b.state THEN "field" ELSE "none"

Init == /\ world \in World
        /\ owner = "start" /\ follower = "none"
        /\ moved = [p \in Process |-> 0] /\ played = [p \in Process |-> 0]
        /\ receipt = [p \in Process |-> NoPacket]
        /\ held = [p \in Process |-> NoPacket]
        /\ wire = [p \in Process |-> <<>>] /\ open = {}
        /\ outcome = [what |-> "none", code |-> NoCode]
----
(* Transport.  transfer moves a packet in pieces while its deadline has    *)
(* not passed; the other end may close under it.                           *)

PutPiece(p, packet) ==
    /\ Len(wire[Other(p)]) < Buffer
    /\ Other(p) \in open
    /\ wire' = Set(wire, Other(p), Append(wire[Other(p)], packet))
    /\ UNCHANGED open
(* Pieces of two packets make one with the header of the first.            *)
TakePiece(p) == /\ wire[p] # <<>>
                /\ wire' = Set(wire, p, Tail(wire[p]))
                /\ held' = Set(held, p,
                      IF moved[p] = 0 \/ held[p] = Head(wire[p]) THEN Head(wire[p])
                      ELSE [held[p] EXCEPT !.state = TornState])
                /\ UNCHANGED open
(* The pieces of the packet in hand but the last, and then the last.       *)
More(p) == /\ moved[p] + 1 < Pieces
           /\ moved' = Set(moved, p, moved[p] + 1)
LastPiece(p) == /\ moved[p] + 1 = Pieces
                /\ moved' = Set(moved, p, 0)
(* The deadline, or the end of the other process, ends a transfer.         *)
TransferFails(p) == /\ moved' = Set(moved, p, 0)
                    /\ UNCHANGED <<wire, open>>
Close(p) == /\ open' = open \ {p}
            /\ wire' = Set(wire, p, <<>>)
----
(* The child: follow, and the handler around it.                           *)

FollowerAlone == UNCHANGED <<world, ownerVars>>

(* Its world is built, or the engine throws.                               *)
FollowerBoot ==
    /\ follower = "boot"
    /\ \/ /\ follower' = "advance_receipt"
          /\ receipt' = Set(receipt, "follower", FirstReceipt("follower"))
       \/ follower' = "failure" /\ UNCHANGED receipt
    /\ UNCHANGED <<moved, played, held, wire, open>> /\ FollowerAlone

FollowerSends ==
    /\ follower = "advance_receipt"
    /\ \/ /\ PutPiece("follower", receipt["follower"])
          /\ \/ More("follower") /\ UNCHANGED follower
             \/ LastPiece("follower") /\ follower' = "request"
       \/ TransferFails("follower") /\ follower' = "failure"
    /\ UNCHANGED <<played, receipt, held>> /\ FollowerAlone

FollowerReceives ==
    /\ follower = "request"
    /\ \/ /\ TakePiece("follower")
          /\ \/ More("follower") /\ UNCHANGED follower
             \/ LastPiece("follower") /\ follower' = "check"
       \/ TransferFails("follower") /\ follower' = "failure" /\ UNCHANGED held
    /\ UNCHANGED <<played, receipt>> /\ FollowerAlone

InOrder == LET request == held["follower"] IN
           /\ request.kind = "Advance" /\ request.status = 0
           /\ request.sequence = receipt["follower"].sequence + 1
           /\ request.epoch = receipt["follower"].epoch
Over(p) == played[p] >= Earlier(world.goal, world.death)

(* The owner never sends the Stop the child would obey.                    *)
FollowerChecks ==
    /\ follower = "check"
    /\ follower' = CASE held["follower"].kind = "Stop" -> "exit"
                     [] OTHER -> IF InOrder /\ ~Over("follower") THEN "step" ELSE "failure"
    /\ UNCHANGED <<moved, played, receipt, held, wire, open>> /\ FollowerAlone

(* session.step returns, throws, or never returns.                         *)
FollowerSteps ==
    /\ follower = "step"
    /\ \/ /\ played' = Set(played, "follower", played["follower"] + 1)
          /\ receipt' = Set(receipt, "follower",
                AdvanceReceipt(receipt["follower"], held["follower"].input, CaptureAfter("follower")))
          /\ follower' = "advance_receipt"
       \/ follower' \in {"failure", "hung"} /\ UNCHANGED <<played, receipt>>
    /\ UNCHANGED <<moved, held, wire, open>> /\ FollowerAlone

(* The handler reports the failure if it can, then the process exits.      *)
FollowerFails ==
    /\ follower = "failure"
    /\ \/ /\ PutPiece("follower", Failure)
          /\ \/ More("follower") /\ UNCHANGED follower
             \/ LastPiece("follower") /\ follower' = "exit"
       \/ TransferFails("follower") /\ follower' = "exit"
    /\ UNCHANGED <<played, receipt, held>> /\ FollowerAlone

Gone == /\ follower' = "gone"
        /\ Close("follower")
        /\ moved' = Set(moved, "follower", 0)
        /\ UNCHANGED <<played, receipt, held>> /\ FollowerAlone
FollowerExits == follower = "exit" /\ Gone
(* The engine may take the process down anywhere.                          *)
FollowerCrashes == follower \notin {"none", "gone"} /\ Gone
----
(* The owner.                                                              *)

OwnerAlone == UNCHANGED <<world, follower>>
Report(what) == outcome' = [outcome EXCEPT !.what = what]
(* An exception: main's handler, after the destructors.                    *)
Throw == /\ owner' = "close"
         /\ outcome' = [outcome EXCEPT !.code = 2]

(* The options, the tape and the hashes of the report.                     *)
OwnerReads ==
    /\ owner = "start"
    /\ \/ owner' = "fork" /\ UNCHANGED outcome
       \/ owner' = "ended" /\ outcome' = [outcome EXCEPT !.code = 2]
    /\ UNCHANGED <<moved, played, receipt, held, wire, open>> /\ OwnerAlone

(* Impl: the directory, the sockets and the fork; when one fails what was  *)
(* made before it is undone and there is nothing to close.                 *)
OwnerForks ==
    /\ owner = "fork"
    /\ \/ /\ owner' = "build" /\ follower' = "boot"
          /\ open' = Process
          /\ UNCHANGED outcome
       \/ /\ owner' = "ended" /\ outcome' = [outcome EXCEPT !.code = 2]
          /\ UNCHANGED <<follower, open>>
    /\ UNCHANGED <<world, moved, played, receipt, held, wire>>

(* The owner's scratch directory and world.                                *)
OwnerBuilds ==
    /\ owner = "build"
    /\ \/ /\ owner' = "initial"
          /\ receipt' = Set(receipt, "owner", FirstReceipt("owner"))
          /\ UNCHANGED outcome
       \/ Throw /\ UNCHANGED receipt
    /\ UNCHANGED <<moved, played, held, wire, open>> /\ OwnerAlone

(* initial, and the second half of advance.                                *)
OwnerReceives ==
    /\ owner \in {"initial", "reply"}
    /\ \/ /\ TakePiece("owner")
          /\ \/ More("owner") /\ UNCHANGED owner
             \/ /\ LastPiece("owner")
                /\ owner' = IF owner = "initial" THEN "compare" ELSE "step"
          /\ UNCHANGED outcome
       \/ TransferFails("owner") /\ Throw /\ UNCHANGED held
    /\ UNCHANGED <<played, receipt>> /\ OwnerAlone

OwnerCompares ==
    /\ owner = "compare"
    /\ LET mismatch == Difference(receipt["owner"], held["owner"]) IN
       IF mismatch = "none" THEN owner' = "judge" /\ Report("budget")
                            ELSE owner' = "report" /\ Report("desynchronized")
    /\ UNCHANGED <<moved, played, receipt, held, wire, open>> /\ OwnerAlone

(* The world after an agreed update; at the head of the first update the   *)
(* goal is looked at before the death, after an update behind it.          *)
Dead == played["owner"] >= world.death
Cleared == played["owner"] >= world.goal
OwnerJudges ==
    /\ owner = "judge"
    /\ \/ /\ Cleared \/ Dead
          /\ Report(IF Cleared /\ (played["owner"] = 0 \/ ~Dead) THEN "complete" ELSE "death")
          /\ owner' = "report"
       \/ ~Cleared /\ ~Dead /\ played["owner"] >= Earlier(Tape, Frames)
          /\ owner' = "report" /\ UNCHANGED outcome
       \/ ~Cleared /\ ~Dead /\ played["owner"] < Earlier(Tape, Frames)
          /\ owner' = "advance" /\ UNCHANGED outcome
    /\ UNCHANGED <<moved, played, receipt, held, wire, open>> /\ OwnerAlone

NextInput == played["owner"] + 1

(* A version in which the owner does not wait for the receipt of its       *)
(* request.                                                                *)
PipelinedSends ==
    /\ owner = "advance"
    /\ \/ /\ PutPiece("owner", Request(receipt["owner"].sequence + 1,
                                       receipt["owner"].epoch, NextInput))
          /\ \/ More("owner") /\ UNCHANGED owner
             \/ LastPiece("owner") /\ owner' = "step"
          /\ UNCHANGED outcome
       \/ TransferFails("owner") /\ Throw
    /\ UNCHANGED <<played, receipt, held>> /\ OwnerAlone

(* The first half of advance: the request for the next input.              *)
OwnerSends ==
    /\ owner = "advance"
    /\ \/ /\ PutPiece("owner", Request(receipt["owner"].sequence + 1,
                                       receipt["owner"].epoch, NextInput))
          /\ \/ More("owner") /\ UNCHANGED owner
             \/ LastPiece("owner") /\ owner' = "reply"
          /\ UNCHANGED outcome
       \/ TransferFails("owner") /\ Throw
    /\ UNCHANGED <<played, receipt, held>> /\ OwnerAlone

OwnerSteps ==
    /\ owner = "step"
    /\ \/ /\ played' = Set(played, "owner", NextInput)
          /\ receipt' = Set(receipt, "owner",
                AdvanceReceipt(receipt["owner"], NextInput, CaptureAfter("owner")))
          /\ owner' = "compare" /\ UNCHANGED outcome
       \/ Throw /\ UNCHANGED <<played, receipt>>
    /\ UNCHANGED <<moved, held, wire, open>> /\ OwnerAlone

ExitCode(what) == CASE what = "desynchronized" -> 3
                    [] what \in {"complete", "budget"} -> 0
                    [] OTHER -> 4

OwnerReports ==
    /\ owner = "report"
    /\ owner' = "close"
    /\ outcome' \in {[outcome EXCEPT !.code = ExitCode(outcome.what)],
                     [what |-> "none", code |-> 2]}
    /\ UNCHANGED <<moved, played, receipt, held, wire, open>> /\ OwnerAlone

(* ~Impl: the socket is closed, the child asked to end and waited for.     *)
OwnerCloses ==
    /\ owner = "close"
    /\ owner' = "terminate"
    /\ Close("owner")
    /\ UNCHANGED <<moved, played, receipt, held, outcome>> /\ OwnerAlone

(* A version in which the child is joined without being told to end. *)
JoinOnly ==
    /\ owner = "terminate"
    /\ owner' = "join"
    /\ UNCHANGED <<world, follower, moved, played, receipt, held, wire, open, outcome>>

(* SIGTERM, which nothing in the child handles.                            *)
OwnerTerminates ==
    /\ owner = "terminate"
    /\ owner' = "join"
    /\ follower' = "gone"
    /\ Close("follower")
    /\ moved' = Set(moved, "follower", 0)
    /\ UNCHANGED <<world, played, receipt, held, outcome>>

OwnerJoins ==
    /\ owner = "join" /\ follower = "gone"
    /\ owner' = "ended"
    /\ UNCHANGED <<moved, played, receipt, held, wire, open, outcome>> /\ OwnerAlone

(* The owner is killed: the kernel closes its end and nobody joins.        *)
OwnerKilled ==
    /\ owner \notin {"ended", "killed"}
    /\ owner' = "killed"
    /\ Close("owner")
    /\ UNCHANGED <<moved, played, receipt, held, outcome>> /\ OwnerAlone
----
FollowerNext == \/ FollowerBoot \/ FollowerSends \/ FollowerReceives
                \/ FollowerChecks \/ FollowerSteps \/ FollowerFails \/ FollowerExits
OwnerNext == \/ OwnerReads \/ OwnerForks \/ OwnerBuilds \/ OwnerReceives \/ OwnerCompares
             \/ OwnerJudges \/ OwnerSends \/ OwnerSteps \/ OwnerReports
             \/ OwnerCloses \/ OwnerTerminates \/ OwnerJoins
Done == /\ owner \in {"ended", "killed"} /\ follower \in {"none", "gone", "hung"}
        /\ UNCHANGED vars
Next == FollowerNext \/ FollowerCrashes \/ OwnerNext \/ OwnerKilled \/ Done

(* Both processes go on while they can: a transfer ends by a piece or by   *)
(* its deadline, so neither ever waits for the other's fairness.           *)
Spec == Init /\ [][Next]_vars /\ WF_vars(OwnerNext) /\ WF_vars(FollowerNext)
----
Unequal == played["owner"] >= world.diverges
FollowerFailed == held["owner"] = Failure \/ held["owner"].state = TornState

(* The two worlds are in lock step: the follower has made the owner's      *)
(* updates, and at most the one the owner is about to make itself; it is   *)
(* never given an input the owner has not committed to.  The owner is ahead*)
(* only by the update for which the follower reported that it failed.      *)
LockStep ==
    \/ played["follower"] = played["owner"]
    \/ /\ played["follower"] = played["owner"] + 1
       /\ owner \in {"reply", "step", "close", "terminate", "join", "ended", "killed"}
    \/ /\ played["owner"] = played["follower"] + 1
       /\ owner \in {"compare", "report", "close", "terminate", "join", "ended", "killed"}
       /\ FollowerFailed

(* An exit with 0 or 4 vouches that every receipt agreed, so the worlds are*)
(* the same after every update it counts; an exit with 3 comes from a world*)
(* that differs or from a child that failed, whole or in the middle of its *)
(* receipt.                                                                *)
HonestReport == /\ outcome.code \in {0, 4} => /\ ~Unequal /\ ~FollowerFailed
                                               /\ played["follower"] = played["owner"]
                /\ outcome.code = 3 => Unequal \/ FollowerFailed

(* Whatever the child does, the owner ends, and when it has ended, or was  *)
(* killed, its child ends too, except one that hangs after a kill.         *)
Terminates == <>[](/\ owner \in {"ended", "killed"}
                   /\ \/ follower \in {"none", "gone"}
                      \/ owner = "killed" /\ follower = "hung")
====
