---- MODULE FollowerProofs ----
(***************************************************************************)
(* Two components of the practice tools.  The follower: for every tape,    *)
(* frame limit, packet size and socket buffer the two worlds stay in lock  *)
(* step and the owner's exit code is honest, wherever a transfer fails in  *)
(* the middle of a packet, whatever the child does and whenever the owner  *)
(* is killed.  The practice entry: for every stage timeline, script and    *)
(* pool size and whatever its calls supply, the world is the log of what   *)
(* was committed, and the log is the program's.                            *)
(***************************************************************************)
EXTENDS Follower, PracticeEntry, FiniteSetTheorems, SequenceTheorems, WellFoundedInduction, TLAPS

Leaving == {"close", "terminate", "join", "ended", "killed"}
OwnerStep == {"start", "fork", "build", "initial", "reply", "compare", "judge", "advance",
              "step", "report"} \cup Leaving
Serving == {"boot", "advance_receipt", "request", "check", "step"}
FollowerStep == {"none", "failure", "exit", "gone", "hung"} \cup Serving
State == [stage : {0, 1}, digest : {"none", "torn", "common", "other"}]
PacketType == [kind : {"Nothing", "State", "Failure", "Advance"}, sequence : Nat, epoch : Nat,
               input : Nat, status : {0, 1}, state : State]

Typed ==
  /\ world \in World /\ owner \in OwnerStep /\ follower \in FollowerStep
  /\ moved \in [Process -> 0 .. Pieces - 1] /\ played \in [Process -> Nat]
  /\ receipt \in [Process -> PacketType] /\ held \in [Process -> PacketType]
  /\ wire \in [Process -> Seq(PacketType)]
  /\ open \subseteq Process
  /\ outcome \in [what : {"none", "budget", "desynchronized", "complete", "death"},
                  code : {NoCode, 0, 2, 3, 4}]

\* The receipt of a world that has made n updates, whatever way it took,
\* and the request that asks for the next one.
EpochAt(n) == IF n >= world.handoff THEN 1 ELSE 0
ReceiptOf(p) == Packet("State", played[p], EpochAt(played[p]), played[p], 0, Capture(p))
Ours == receipt["owner"]
Theirs == receipt["follower"]
Asked == Request(played["follower"] + 1, EpochAt(played["follower"]), played["follower"] + 1)
Booted == Theirs = ReceiptOf("follower")

Ready(step) == step \in {"initial", "reply", "compare", "judge", "advance", "step", "report"}
Receipts ==
  /\ Ready(owner) => Ours = ReceiptOf("owner")
  /\ owner \in {"start", "fork", "build", "initial"} => played["owner"] = 0
  /\ follower \in Serving \ {"boot"} => Booted
  /\ follower \in {"none", "boot"} => played["follower"] = 0
  /\ played["follower"] > 0 => Booted

\* A process has a packet in hand only where it transfers one.
Hands ==
  /\ follower \notin {"advance_receipt", "request", "failure"} => moved["follower"] = 0
  /\ owner \notin {"initial", "reply", "advance"} \cup Leaving => moved["owner"] = 0
  /\ owner \in {"start", "fork"} => follower = "none"
  /\ follower = "none" => owner \in {"start", "fork", "ended", "killed"}
  /\ follower = "none" => wire = [p \in Process |-> <<>>] /\ played = [p \in Process |-> 0]
  /\ FollowerFailed => follower \notin Serving \cup {"none"}

\* The request: the pieces on the wire and in the follower's hand, while
\* it may still serve it.
Idle == wire["follower"] = <<>> /\ (follower = "request" => moved["follower"] = 0)
Requested ==
  follower \in Serving =>
    /\ \A i \in 1 .. Len(wire["follower"]) : wire["follower"][i] = Asked
    /\ follower \in {"boot", "advance_receipt", "check", "step"} => wire["follower"] = <<>>
    /\ follower = "request" /\ moved["follower"] > 0 => held["follower"] = Asked
    /\ follower \in {"check", "step"} => held["follower"] = Asked
    /\ follower = "request" =>
         LET under == moved["follower"] + Len(wire["follower"])
         IN  /\ under <= Pieces
             /\ owner = "advance" => under = moved["owner"]
             /\ owner = "reply" /\ played["follower"] = played["owner"] => under = Pieces

\* How far the two are apart at each step of the owner.
Phases ==
  LET k == played["owner"]
      n == played["follower"]
      heard == ~FollowerFailed /\ held["owner"] = Theirs /\ Booted
               /\ (follower \in Serving => follower = "request")
  IN  /\ owner \in {"build", "initial"} =>
           n = 0 /\ (follower \in Serving =>
                       follower \in {"boot", "advance_receipt", "request"} /\ Idle)
      /\ owner = "reply" =>
           \/ n = k /\ (follower \in Serving => follower \in {"request", "check", "step"})
           \/ n = k + 1 /\ (follower \in Serving =>
                               follower \in {"advance_receipt", "request"} /\ Idle)
      /\ owner = "step" =>
           \/ heard /\ n = k + 1 /\ (follower \in Serving => Idle)
           \/ FollowerFailed /\ n \in {k, k + 1}
      /\ owner \in {"compare", "report"} =>
           \/ heard /\ n = k /\ (follower \in Serving => Idle)
           \/ FollowerFailed /\ (n = k \/ k = n + 1)
      /\ owner = "judge" => heard /\ n = k /\ (follower \in Serving => Idle)
      /\ owner = "advance" => heard /\ n = k
      /\ owner \in Leaving =>
           \/ n = k
           \/ n = k + 1 /\ (follower \in Serving =>
                               follower \in {"advance_receipt", "request"} /\ Idle)
           \/ k = n + 1 /\ FollowerFailed

\* The receipts: the pieces on their way to the owner are a of the last
\* receipt and then failures.  Until the owner has the receipt whole,
\* these pieces and those it holds are what the follower has sent.
StreamOf(a) ==
  \A i \in 1 .. Len(wire["owner"]) : wire["owner"][i] = IF i <= a THEN Theirs ELSE Failure
Expecting == \/ owner \in {"build", "initial"}
             \/ owner = "reply" /\ played["follower"] = played["owner"] + 1
Sent == CASE follower = "advance_receipt" -> moved["follower"]
          [] follower = "request" -> Pieces
          [] OTHER -> 0
Coming(a) ==
  /\ moved["owner"] + a <= Pieces
  /\ a > 0 => Booted
  /\ moved["owner"] > 0 => \/ held["owner"] = Theirs /\ Booted
                           \/ a = 0 /\ FollowerFailed
  /\ follower \in Serving =>
       /\ a = Len(wire["owner"]) /\ moved["owner"] + a = Sent
       /\ moved["owner"] > 0 => held["owner"] = Theirs
Drained(a) ==
  /\ a = 0
  /\ follower \in Serving => wire["owner"] = <<>>
  /\ owner = "reply" => /\ moved["owner"] > 0 => held["owner"] = Failure
                        /\ follower \in Serving => moved["owner"] = 0
Streamed(a) ==
  /\ StreamOf(a)
  /\ Expecting => Coming(a)
  /\ ~Expecting /\ ~(FollowerFailed /\ owner \in {"step", "compare", "report"}) => Drained(a)
Streams == owner = "build" \/ Ready(owner) => \E a \in 0 .. Len(wire["owner"]) : Streamed(a)

\* What the owner has found out, and what it says of it.
Agreed == ~Unequal /\ ~FollowerFailed /\ played["follower"] = played["owner"]
Verdicts ==
  /\ owner \in {"judge", "advance"} => Agreed
  /\ owner = "judge" => outcome.what = "budget"
  /\ owner = "report" =>
       /\ outcome.what = "desynchronized" => Unequal \/ FollowerFailed
       /\ outcome.what # "desynchronized" => Agreed /\ outcome.what # "none"
  /\ owner \notin Leaving => outcome.code = NoCode
  /\ outcome.code \in {0, 4} =>
       Agreed /\ (follower \in Serving => follower = "request" /\ Idle)
  /\ outcome.code = 3 => Unequal \/ FollowerFailed

IInv == Typed /\ Receipts /\ Hands /\ Requested /\ Phases /\ Streams /\ Verdicts
----
LEMMA Numbers == Tape \in Nat /\ Frames \in Nat /\ Pieces \in Nat \ {0} /\ Buffer \in Nat \ {0}
BY FollowerAssumption

\* What a piece put on the wire, and one taken from it, does to a queue.
LEMMA Put ==
  ASSUME NEW S, NEW s \in Seq(S), NEW x \in S
  PROVE  /\ Append(s, x) \in Seq(S) /\ Append(s, x) # <<>>
         /\ Len(s) \in Nat /\ Len(Append(s, x)) = Len(s) + 1
         /\ \A i \in 1 .. Len(s) : Append(s, x)[i] = s[i]
         /\ Append(s, x)[Len(s) + 1] = x
BY SMT

LEMMA Take ==
  ASSUME NEW S, NEW s \in Seq(S), s # <<>>
  PROVE  /\ Tail(s) \in Seq(S) /\ Len(s) \in Nat \ {0}
         /\ Len(Tail(s)) = Len(s) - 1
         /\ \A i \in 1 .. Len(s) - 1 : Tail(s)[i] = s[i + 1]
         /\ Head(s) = s[1] /\ Head(s) \in S
BY SMT

LEMMA Fresh ==
  ASSUME NEW S
  PROVE  <<>> \in Seq(S) /\ Len(<<>>) = 0 /\ \A s \in Seq(S) : Len(s) = 0 <=> s = <<>>
BY SMT

\* The packets the processes make are packets.
LEMMA PacketsTyped ==
  ASSUME Typed, NEW p \in Process
  PROVE  /\ Capture(p) \in State /\ CaptureAfter(p) \in State
         /\ NoPacket \in PacketType /\ Failure \in PacketType /\ FirstReceipt(p) \in PacketType
         /\ \A n, e, i \in Nat : Request(n, e, i) \in PacketType
         /\ \A r \in PacketType, i \in Nat, t \in State : AdvanceReceipt(r, i, t) \in PacketType
<1>1. Capture(p) \in State /\ CaptureAfter(p) \in State BY DEF Capture, CaptureAfter, State
<1>2. NoState \in State BY DEF NoState, State
<1>3. NoPacket \in PacketType /\ Failure \in PacketType /\ FirstReceipt(p) \in PacketType
  BY <1>1, <1>2 DEF NoPacket, Failure, FirstReceipt, Packet, PacketType
<1>4. ASSUME NEW n \in Nat, NEW e \in Nat, NEW i \in Nat
      PROVE  Request(n, e, i) \in PacketType
  BY <1>2 DEF Request, Packet, PacketType
<1>5. ASSUME NEW r \in PacketType, NEW i \in Nat, NEW t \in State
      PROVE  AdvanceReceipt(r, i, t) \in PacketType
  BY <1>5 DEF AdvanceReceipt, Packet, PacketType
<1> QED BY <1>1, <1>3, <1>4, <1>5

\* A receipt is neither a failure nor torn.
LEMMA ReceiptsWhole ==
  ASSUME NEW p \in Process
  PROVE  /\ ReceiptOf(p) # Failure /\ ReceiptOf(p) # NoPacket
         /\ ReceiptOf(p).state # TornState /\ Failure.state # TornState
         /\ NoPacket # Failure /\ NoPacket.state # TornState
BY DEF ReceiptOf, Packet, Failure, NoPacket, NoState, TornState, Capture

\* The receipt of the update after, and that of the world built.
LEMMA NextReceipt ==
  ASSUME Typed, NEW p \in Process, receipt[p] = ReceiptOf(p), world' = world,
         played' = Set(played, p, played[p] + 1)
  PROVE  AdvanceReceipt(receipt[p], played[p] + 1, CaptureAfter(p)) = ReceiptOf(p)'
<1>1. /\ played'[p] = played[p] + 1 /\ played[p] \in Nat
      /\ world.handoff \in Nat /\ world'.handoff = world.handoff
      /\ world'.diverges = world.diverges
  BY FollowerAssumption DEF Typed, Set, World
<1>2. CaptureAfter(p) = Capture(p)' BY <1>1 DEF CaptureAfter, Capture
<1>3. receipt[p].state = Capture(p) /\ receipt[p].sequence = played[p]
      /\ receipt[p].epoch = EpochAt(played[p])
  BY DEF ReceiptOf, Packet
<1>4. EpochAt(played[p]) + (IF Capture(p).stage # CaptureAfter(p).stage THEN 1 ELSE 0)
        = IF played[p] + 1 >= world.handoff THEN 1 ELSE 0
 <2>1. Capture(p).stage = EpochAt(played[p]) BY DEF Capture, EpochAt
 <2>2. CaptureAfter(p).stage = IF played[p] + 1 >= world.handoff THEN 1 ELSE 0 BY DEF CaptureAfter
 <2> QED BY <1>1, <2>1, <2>2 DEF EpochAt
<1>5. ReceiptOf(p)' = Packet("State", played[p] + 1,
                             IF played[p] + 1 >= world.handoff THEN 1 ELSE 0,
                             played[p] + 1, 0, CaptureAfter(p))
  BY <1>1, <1>2 DEF ReceiptOf, EpochAt, Packet
<1> QED BY <1>3, <1>4, <1>5 DEF AdvanceReceipt

LEMMA FirstIsReceipt ==
  ASSUME Typed, NEW p \in Process, played[p] = 0
  PROVE  FirstReceipt(p) = ReceiptOf(p)
<1>1. world.handoff \in Nat \ {0} BY FollowerAssumption DEF Typed, World
<1> QED BY <1>1 DEF FirstReceipt, ReceiptOf, EpochAt

LEMMA SameReceipt ==
  ASSUME NEW p \in Process, world' = world, played'[p] = played[p]
  PROVE  /\ ReceiptOf(p)' = ReceiptOf(p) /\ Capture(p)' = Capture(p)
         /\ EpochAt(played[p])' = EpochAt(played[p])
BY DEF ReceiptOf, Capture, EpochAt

----
LEMMA InitIInv == Init => IInv
<1> SUFFICES ASSUME Init PROVE IInv OBVIOUS
<1> USE Numbers DEF Init
<1>1. Typed
 <2>1. NoPacket \in PacketType BY DEF NoPacket, Packet, PacketType, NoState, State
 <2>2. wire \in [Process -> Seq(PacketType)] BY Fresh
 <2> QED BY <2>1, <2>2 DEF Typed, OwnerStep, FollowerStep
<1>2. ~FollowerFailed BY ReceiptsWhole DEF FollowerFailed, Process
<1>3. Receipts /\ Hands BY <1>2 DEF Receipts, Hands, Ready, Serving, Leaving, Process
<1>4. Requested /\ Phases /\ Streams /\ Verdicts
  BY <1>2 DEF Requested, Phases, Streams, Verdicts, Ready, Serving, Leaving, Process, NoCode
<1> QED BY <1>1, <1>3, <1>4 DEF IInv

\* What the transfers do to the state's types.
LEMMA TransferTypes ==
  ASSUME Typed, NEW p \in Process
  PROVE  /\ \A x \in PacketType : PutPiece(p, x)
              => wire' \in [Process -> Seq(PacketType)] /\ open' = open
         /\ TakePiece(p) => /\ wire' \in [Process -> Seq(PacketType)] /\ open' = open
                            /\ held' \in [Process -> PacketType]
         /\ More(p) \/ LastPiece(p) \/ TransferFails(p) \/ moved' = Set(moved, p, 0)
              => moved' \in [Process -> 0 .. Pieces - 1]
         /\ Close(p) => wire' \in [Process -> Seq(PacketType)] /\ open' \subseteq Process
<1> USE DEF Typed
<1>1. ASSUME NEW x \in PacketType, PutPiece(p, x)
      PROVE  wire' \in [Process -> Seq(PacketType)] /\ open' = open
 <2>1. Other(p) \in Process BY DEF Other, Process
 <2> QED BY <1>1, <2>1, Put DEF PutPiece, Set
<1>2. TakePiece(p) => /\ wire' \in [Process -> Seq(PacketType)] /\ open' = open
                      /\ held' \in [Process -> PacketType]
 <2> SUFFICES ASSUME TakePiece(p)
              PROVE  wire' \in [Process -> Seq(PacketType)] /\ held' \in [Process -> PacketType]
   BY DEF TakePiece
 <2>1. Tail(wire[p]) \in Seq(PacketType) /\ Head(wire[p]) \in PacketType BY Take DEF TakePiece
 <2>2. [held[p] EXCEPT !.state = TornState] \in PacketType
  <3>1. held[p] \in PacketType OBVIOUS
  <3> QED BY <3>1 DEF TornState, PacketType, State
 <2> QED BY <2>1, <2>2 DEF TakePiece, Set
<1>3. More(p) \/ LastPiece(p) \/ TransferFails(p) \/ moved' = Set(moved, p, 0)
        => moved' \in [Process -> 0 .. Pieces - 1]
  BY Numbers DEF More, LastPiece, TransferFails, Set
<1>4. Close(p) => wire' \in [Process -> Seq(PacketType)] /\ open' \subseteq Process BY Fresh DEF Close, Set
<1> QED BY <1>1, <1>2, <1>3, <1>4

LEMMA FollowerTyped == Typed /\ (FollowerNext \/ FollowerCrashes) => Typed'
<1> SUFFICES ASSUME Typed, FollowerNext \/ FollowerCrashes PROVE Typed' OBVIOUS
<1> USE DEF OwnerStep, FollowerStep, Serving
<1>0. "follower" \in Process BY DEF Process
<1>1. CASE FollowerBoot
  BY ZenonT(40), <1>0, <1>1, PacketsTyped DEF FollowerBoot, FollowerAlone, ownerVars, Typed, Set
<1>2. CASE FollowerSends
 <2>1. receipt["follower"] \in PacketType BY <1>0 DEF Typed
 <2> QED BY <1>0, <1>2, <2>1, TransferTypes
         DEF FollowerSends, FollowerAlone, ownerVars, Typed, TransferFails
<1>3. CASE FollowerReceives
  BY ZenonT(40), <1>0, <1>3, TransferTypes DEF FollowerReceives, FollowerAlone, ownerVars, Typed, TransferFails
<1>4. CASE FollowerChecks BY <1>4 DEF FollowerChecks, FollowerAlone, ownerVars, Typed
<1>5. CASE FollowerSteps
 <2>1. /\ held["follower"].input \in Nat /\ receipt["follower"] \in PacketType
       /\ played["follower"] \in Nat
   BY <1>0 DEF Typed, PacketType
 <2>2. AdvanceReceipt(receipt["follower"], held["follower"].input, CaptureAfter("follower"))
         \in PacketType
   BY <1>0, <2>1, PacketsTyped
 <2>3. receipt' \in [Process -> PacketType] /\ played' \in [Process -> Nat]
  <3>1. CASE UNCHANGED <<played, receipt>> BY <3>1 DEF Typed
  <3>2. CASE /\ played' = Set(played, "follower", played["follower"] + 1)
             /\ receipt' = Set(receipt, "follower",
                  AdvanceReceipt(receipt["follower"], held["follower"].input,
                                 CaptureAfter("follower")))
    BY <1>0, <2>1, <2>2, <3>2 DEF Typed, Set
  <3> QED BY <1>5, <3>1, <3>2 DEF FollowerSteps
 <2> QED BY <1>0, <1>5, <2>3 DEF FollowerSteps, FollowerAlone, ownerVars, Typed
<1>6. CASE FollowerFails
  BY ZenonT(40), <1>0, <1>6, PacketsTyped, TransferTypes
     DEF FollowerFails, FollowerAlone, ownerVars, Typed, TransferFails
<1>7. CASE FollowerExits \/ FollowerCrashes
  BY <1>0, <1>7, TransferTypes DEF FollowerExits, FollowerCrashes, Gone, FollowerAlone, ownerVars, Typed
<1> QED BY <1>1, <1>2, <1>3, <1>4, <1>5, <1>6, <1>7 DEF FollowerNext

LEMMA OwnerTyped == Typed /\ (OwnerNext \/ OwnerKilled) => Typed'
<1> SUFFICES ASSUME Typed, OwnerNext \/ OwnerKilled PROVE Typed' OBVIOUS
<1> USE DEF OwnerStep, FollowerStep, Serving, Leaving, OwnerAlone
<1>0. "owner" \in Process /\ "follower" \in Process BY DEF Process
<1>1. CASE OwnerReads \/ OwnerForks BY <1>1 DEF OwnerReads, OwnerForks, Typed
<1>2. CASE OwnerBuilds BY <1>0, <1>2, PacketsTyped DEF OwnerBuilds, Throw, Typed, Set
<1>3. CASE OwnerReceives BY <1>0, <1>3, TransferTypes DEF OwnerReceives, Throw, Typed, TransferFails
<1>4. CASE OwnerCompares \/ OwnerJudges \/ OwnerReports
  BY <1>4 DEF OwnerCompares, OwnerJudges, OwnerReports, Report, ExitCode, Typed
<1>5. CASE OwnerSends
 <2>1. /\ receipt["owner"].sequence + 1 \in Nat /\ receipt["owner"].epoch \in Nat
       /\ NextInput \in Nat
  <3>1. receipt["owner"] \in PacketType /\ played["owner"] \in Nat BY <1>0 DEF Typed
  <3> QED BY <3>1 DEF PacketType, NextInput
 <2>2. Request(receipt["owner"].sequence + 1, receipt["owner"].epoch, NextInput) \in PacketType
   BY <1>0, <2>1, PacketsTyped
 <2> QED BY <1>0, <1>5, <2>2, TransferTypes DEF OwnerSends, Throw, Typed, TransferFails
<1>6. CASE OwnerSteps
 <2>1. played["owner"] + 1 \in Nat /\ receipt["owner"] \in PacketType BY <1>0 DEF Typed
 <2>2. AdvanceReceipt(receipt["owner"], NextInput, CaptureAfter("owner")) \in PacketType
   BY <1>0, <2>1, PacketsTyped DEF NextInput
 <2> QED BY ZenonT(40), <1>0, <1>6, <2>1, <2>2 DEF OwnerSteps, Throw, Typed, Set, NextInput
<1>7. CASE OwnerCloses \/ OwnerTerminates \/ OwnerJoins \/ OwnerKilled
  BY <1>0, <1>7, TransferTypes DEF OwnerCloses, OwnerTerminates, OwnerJoins, OwnerKilled, Typed
<1> QED BY <1>1, <1>2, <1>3, <1>4, <1>5, <1>6, <1>7 DEF OwnerNext

----
\* The same, as facts about what the two processes have and move.
LEMMA TypeFacts ==
  ASSUME Typed, NEW p \in Process
  PROVE  /\ wire[p] \in Seq(PacketType) /\ Len(wire[p]) \in Nat
         /\ moved[p] \in 0 .. Pieces - 1 /\ played[p] \in Nat
         /\ receipt[p] \in PacketType /\ held[p] \in PacketType
BY DEF Typed

LEMMA Sizes ==
  ASSUME Typed
  PROVE  /\ played["owner"] \in Nat /\ played["follower"] \in Nat
         /\ Len(wire["owner"]) \in Nat /\ Len(wire["follower"]) \in Nat
         /\ moved["owner"] \in Nat /\ moved["owner"] < Pieces
         /\ moved["follower"] \in Nat /\ moved["follower"] < Pieces /\ Pieces \in Nat
<1>1. "owner" \in Process /\ "follower" \in Process BY DEF Process
<1> QED BY <1>1, TypeFacts, Numbers

LEMMA Ends == /\ Process = {"owner", "follower"} /\ Other("owner") = "follower"
              /\ Other("follower") = "owner"
BY DEF Process, Other

LEMMA Puts ==
  ASSUME Typed, NEW p \in Process, NEW x \in PacketType, PutPiece(p, x)
  PROVE  /\ wire'[p] = wire[p]
         /\ Len(wire'[Other(p)]) = Len(wire[Other(p)]) + 1
         /\ \A i \in 1 .. Len(wire[Other(p)]) : wire'[Other(p)][i] = wire[Other(p)][i]
         /\ wire'[Other(p)][Len(wire[Other(p)]) + 1] = x
         /\ Other(p) \in open
<1>1. Other(p) \in Process /\ Other(p) # p BY DEF Other, Process
<1>2. wire[Other(p)] \in Seq(PacketType) BY <1>1, TypeFacts
<1>3. wire \in [Process -> Seq(PacketType)] BY DEF Typed
<1>4. /\ wire'[Other(p)] = Append(wire[Other(p)], x)
      /\ wire'[p] = wire[p]
  BY <1>1, <1>3 DEF PutPiece, Set
<1> QED BY <1>2, <1>4, Put DEF PutPiece

LEMMA Takes ==
  ASSUME Typed, NEW p \in Process, TakePiece(p)
  PROVE  /\ wire'[Other(p)] = wire[Other(p)]
         /\ Len(wire[p]) > 0 /\ Len(wire'[p]) = Len(wire[p]) - 1
         /\ \A i \in 1 .. Len(wire[p]) - 1 : wire'[p][i] = wire[p][i + 1]
         /\ held'[Other(p)] = held[Other(p)]
         /\ IF moved[p] = 0 \/ held[p] = wire[p][1] THEN held'[p] = wire[p][1]
                                                    ELSE held'[p].state = TornState
<1>1. Other(p) \in Process /\ Other(p) # p BY DEF Other, Process
<1>2. wire[p] \in Seq(PacketType) /\ held[p] \in PacketType BY TypeFacts
<1>3. wire \in [Process -> Seq(PacketType)] /\ held \in [Process -> PacketType] BY DEF Typed
<1>4. /\ wire'[p] = Tail(wire[p])
      /\ wire'[Other(p)] = wire[Other(p)]
      /\ held'[p] = IF moved[p] = 0 \/ held[p] = Head(wire[p]) THEN Head(wire[p])
                    ELSE [held[p] EXCEPT !.state = TornState]
      /\ held'[Other(p)] = held[Other(p)]
  BY <1>1, <1>3 DEF TakePiece, Set
<1>5. [held[p] EXCEPT !.state = TornState].state = TornState BY <1>2 DEF PacketType
<1>6. /\ Len(wire[p]) \in Nat \ {0} /\ Len(wire'[p]) = Len(wire[p]) - 1
      /\ \A i \in 1 .. Len(wire[p]) - 1 : wire'[p][i] = wire[p][i + 1]
      /\ Head(wire[p]) = wire[p][1]
 <2>1. wire[p] # <<>> BY DEF TakePiece
 <2>2. wire'[p] = Tail(wire[p]) BY <1>4
 <2> QED BY <1>2, <2>1, <2>2, Take
<1> QED BY <1>4, <1>5, <1>6

LEMMA Moves ==
  ASSUME Typed, NEW p \in Process
  PROVE  /\ More(p) => /\ moved'[p] = moved[p] + 1 /\ moved[p] + 1 < Pieces
                       /\ moved'[Other(p)] = moved[Other(p)]
         /\ LastPiece(p) => /\ moved'[p] = 0 /\ moved[p] + 1 = Pieces
                            /\ moved'[Other(p)] = moved[Other(p)]
         /\ moved' = Set(moved, p, 0) => /\ moved'[p] = 0
                                         /\ moved'[Other(p)] = moved[Other(p)]
<1>1. Other(p) \in Process /\ Other(p) # p BY DEF Other, Process
<1>2. moved \in [Process -> 0 .. Pieces - 1] BY DEF Typed
<1> QED BY <1>1, <1>2 DEF More, LastPiece, Set

LEMMA Closes ==
  ASSUME Typed, NEW p \in Process, Close(p)
  PROVE  wire'[p] = <<>> /\ wire'[Other(p)] = wire[Other(p)]
<1>1. Other(p) \in Process /\ Other(p) # p BY DEF Other, Process
<1>2. wire \in [Process -> Seq(PacketType)] BY DEF Typed
<1> QED BY <1>1, <1>2 DEF Close, Set

----
\* A child that gives up, hangs or is gone no longer serves; what it has
\* sent stays as it is, and nothing but its failure follows.
LEMMA Withdraws ==
  ASSUME IInv, Typed', follower # "none", follower' \notin Serving \cup {"none"},
         UNCHANGED <<world, played, receipt, held>>, UNCHANGED <<owner, outcome>>,
         moved'["owner"] = moved["owner"], follower' = "failure" \/ moved'["follower"] = 0,
         \/ wire'["owner"] = wire["owner"]
         \/ /\ Len(wire'["owner"]) = Len(wire["owner"]) + 1
            /\ \A i \in 1 .. Len(wire["owner"]) : wire'["owner"][i] = wire["owner"][i]
            /\ wire'["owner"][Len(wire["owner"]) + 1] = Failure
  PROVE  IInv'
<1> USE DEF IInv
<1>1. ReceiptOf("owner")' = ReceiptOf("owner") /\ ReceiptOf("follower")' = ReceiptOf("follower")
  BY SameReceipt, Ends
<1>2. (FollowerFailed' <=> FollowerFailed) /\ (Unequal' <=> Unequal) /\ (Agreed' <=> Agreed)
      /\ Theirs' = Theirs /\ (Booted' <=> Booted)
  BY <1>1 DEF FollowerFailed, Unequal, Agreed, Theirs, Booted
<1>3. Receipts' BY <1>1, <1>2 DEF Receipts, Ours, Ready, Serving
<1>4. Hands' BY <1>2 DEF Hands, Serving
<1>5. Requested' BY DEF Requested
<1>6. Phases' BY <1>2 DEF Phases
<1>7. Streams'
 <2> SUFFICES ASSUME (owner = "build" \/ Ready(owner))'
              PROVE  (\E a \in 0 .. Len(wire["owner"]) : Streamed(a))'
   BY DEF Streams
 <2>1. PICK a \in 0 .. Len(wire["owner"]) : Streamed(a) BY DEF Streams, Ready
 <2>2. StreamOf(a)' /\ a \in 0 .. Len(wire'["owner"])
  <3>1. CASE wire'["owner"] = wire["owner"] BY <1>2, <2>1, <3>1 DEF Streamed, StreamOf
  <3>2. CASE /\ Len(wire'["owner"]) = Len(wire["owner"]) + 1
             /\ \A i \in 1 .. Len(wire["owner"]) : wire'["owner"][i] = wire["owner"][i]
             /\ wire'["owner"][Len(wire["owner"]) + 1] = Failure
   <4>1. Len(wire["owner"]) \in Nat BY Sizes
   <4>2. ASSUME NEW i \in 1 .. Len(wire'["owner"])
         PROVE  wire'["owner"][i] = IF i <= a THEN Theirs ELSE Failure
    <5>1. CASE i \in 1 .. Len(wire["owner"]) BY <2>1, <3>2, <5>1 DEF Streamed, StreamOf
    <5>2. CASE i = Len(wire["owner"]) + 1 BY <2>1, <3>2, <4>1, <5>2
    <5> QED BY <3>2, <4>1, <5>1, <5>2
   <4> QED BY <1>2, <2>1, <3>2, <4>1, <4>2 DEF StreamOf
  <3> QED BY <3>1, <3>2
 <2>3. Streamed(a)' BY <1>2, <2>1, <2>2 DEF Streamed, Expecting, Coming, Drained
 <2> QED BY <2>2, <2>3
<1>8. Verdicts' BY <1>2 DEF Verdicts
<1> QED BY <1>3, <1>4, <1>5, <1>6, <1>7, <1>8

LEMMA BootKeeps == IInv /\ FollowerBoot => IInv'
<1> SUFFICES ASSUME IInv, FollowerBoot PROVE IInv' OBVIOUS
<1> USE DEF IInv, FollowerBoot, FollowerAlone, ownerVars
<1>1. Typed' BY FollowerTyped DEF FollowerNext
<1>2. /\ played' = played /\ world' = world /\ moved' = moved /\ held' = held /\ wire' = wire
      /\ owner' = owner /\ outcome' = outcome /\ follower = "boot"
      /\ receipt'["owner"] = receipt["owner"] /\ played["follower"] = 0
      /\ follower' \in {"advance_receipt", "failure"}
      /\ follower' = "advance_receipt" => Theirs' = ReceiptOf("follower")
  BY FirstIsReceipt, Ends DEF Receipts, Set, Typed, Theirs
<1>3. ReceiptOf("owner")' = ReceiptOf("owner") /\ ReceiptOf("follower")' = ReceiptOf("follower")
  BY <1>2, SameReceipt, Ends
<1>4. owner \in {"build", "initial"} \cup Leaving /\ ~FollowerFailed
      /\ FollowerFailed' = FollowerFailed
  BY <1>2 DEF Phases, Hands, Serving, OwnerStep, Typed, FollowerFailed, Receipts, Verdicts
<1>5. Receipts' BY <1>2, <1>3 DEF Receipts, Ours, Booted, Theirs, Ready, Serving
<1>6. Hands' BY <1>2, <1>4 DEF Hands, Serving, Leaving
<1>7. Requested' BY <1>2, <1>4 DEF Requested, Serving
<1>8. Phases' BY <1>2, <1>4 DEF Phases, Serving, Idle, Requested, Leaving
<1>9. Streams'
 <2> SUFFICES ASSUME (owner = "build" \/ Ready(owner))'
              PROVE  (\E a \in 0 .. Len(wire["owner"]) : Streamed(a))'
   BY DEF Streams
 <2>1. owner \in {"build", "initial"} BY <1>2, <1>4 DEF Ready, Leaving
 <2>2. PICK a \in 0 .. Len(wire["owner"]) : Streamed(a) BY <2>1, <1>2 DEF Streams, Ready
 <2>3. a = 0 /\ Len(wire["owner"]) = 0 /\ moved["owner"] = 0
   BY <2>1, <2>2, <1>2, TypeFacts, Ends DEF Streamed, Expecting, Coming, Sent, Serving
 <2>4. moved["follower"] = 0 BY <1>2 DEF Hands
 <2>5. Streamed(a)'
   BY <2>1, <2>3, <2>4, <1>2, <1>4, Numbers
      DEF Streamed, StreamOf, Expecting, Coming, Drained, Sent, Serving, Leaving
 <2> QED BY <2>3, <2>5, <1>2
<1>10. Verdicts' BY <1>2, <1>4 DEF Verdicts, Agreed, Unequal, Serving, Leaving
<1> QED BY <1>1, <1>5, <1>6, <1>7, <1>8, <1>9, <1>10

LEMMA SendsKeeps == IInv /\ FollowerSends => IInv'
<1> SUFFICES ASSUME IInv, FollowerSends PROVE IInv' OBVIOUS
<1> USE DEF IInv, FollowerSends, FollowerAlone, ownerVars
<1>1. Typed' /\ "follower" \in Process /\ "owner" \in Process BY FollowerTyped, Ends DEF FollowerNext
<1>2. CASE TransferFails("follower") /\ follower' = "failure"
 <2>1. moved'["owner"] = moved["owner"] /\ wire' = wire BY <1>1, <1>2, Moves, Ends DEF TransferFails
 <2> QED BY <1>1, <1>2, <2>1, Withdraws DEF Serving
<1>3. CASE /\ PutPiece("follower", receipt["follower"])
           /\ \/ More("follower") /\ UNCHANGED follower
              \/ LastPiece("follower") /\ follower' = "request"
 <2>1. /\ wire'["follower"] = wire["follower"] /\ moved'["owner"] = moved["owner"]
       /\ Len(wire'["owner"]) = Len(wire["owner"]) + 1
       /\ \A i \in 1 .. Len(wire["owner"]) : wire'["owner"][i] = wire["owner"][i]
       /\ wire'["owner"][Len(wire["owner"]) + 1] = Theirs
   BY <1>1, <1>3, TypeFacts, Puts, Moves, Ends DEF Theirs
 <2>2. /\ Booted /\ ~FollowerFailed /\ wire["follower"] = <<>>
       /\ owner \in {"build", "initial", "reply"} \cup Leaving
       /\ owner = "reply" => played["follower"] = played["owner"] + 1
       /\ owner \in Leaving => played["follower"] \in {played["owner"], played["owner"] + 1}
       /\ outcome.code \notin {0, 4}
   BY TypeFacts, Ends DEF Receipts, Hands, Requested, Phases, Serving, Leaving, Verdicts, OwnerStep, Typed
 <2>3. \/ follower' = "advance_receipt" /\ moved'["follower"] = moved["follower"] + 1
                                        /\ moved'["follower"] < Pieces
       \/ follower' = "request" /\ moved'["follower"] = 0 /\ moved["follower"] + 1 = Pieces
   BY <1>1, <1>3, Moves
 <2>4. ReceiptOf("owner")' = ReceiptOf("owner") /\ ReceiptOf("follower")' = ReceiptOf("follower")
   BY SameReceipt, Ends
 <2>5. (FollowerFailed' <=> FollowerFailed) /\ (Unequal' <=> Unequal) /\ (Agreed' <=> Agreed)
       /\ Theirs' = Theirs /\ (Booted' <=> Booted)
   BY <2>4 DEF FollowerFailed, Unequal, Agreed, Theirs, Booted
 <2>6. Receipts' BY <2>2, <2>3, <2>4, <2>5 DEF Receipts, Ours, Ready, Serving
 <2>7. Hands' BY <2>1, <2>2, <2>3, <2>5 DEF Hands, Serving
 <2>8. Requested'
  <3>1. Asked' = Asked BY DEF Asked, EpochAt
  <3>2. Len(wire'["follower"]) = 0 BY <2>1, <2>2
  <3> QED BY <1>1, <2>1, <2>2, <2>3, <3>1, <3>2, TypeFacts, Numbers
          DEF Requested, Serving, Leaving
 <2>9. Phases' BY <2>1, <2>2, <2>3, <2>5, TypeFacts, Ends DEF Phases, Idle, Serving, Leaving
 <2>10. Streams'
  <3> SUFFICES ASSUME (owner = "build" \/ Ready(owner))'
               PROVE  (\E a \in 0 .. Len(wire["owner"]) : Streamed(a))'
    BY DEF Streams
  <3>1. Expecting /\ Expecting' BY <2>2 DEF Expecting, Ready, Leaving
  <3>2. PICK a \in 0 .. Len(wire["owner"]) : Streamed(a) BY DEF Streams, Ready
  <3>3. /\ a = Len(wire["owner"]) /\ moved["owner"] + a = moved["follower"]
        /\ StreamOf(a) /\ Coming(a)
    BY <3>1, <3>2 DEF Streamed, Coming, Sent, Serving
  <3>4. StreamOf(a + 1)'
   <4>1. \A i \in 1 .. Len(wire["owner"]) : wire["owner"][i] = Theirs BY <3>3, Sizes DEF StreamOf
   <4>2. Len(wire["owner"]) \in Nat BY Sizes
   <4> HIDE DEF IInv, FollowerSends
   <4>3. ASSUME NEW i \in 1 .. Len(wire'["owner"])
         PROVE  wire'["owner"][i] = Theirs /\ i <= a + 1
    <5>1. CASE i \in 1 .. Len(wire["owner"]) BY <2>1, <3>3, <4>1, <4>2, <5>1
    <5>2. CASE i = Len(wire["owner"]) + 1 BY <2>1, <3>3, <4>2, <5>2
    <5> QED BY <2>1, <4>2, <5>1, <5>2
   <4> QED BY <2>5, <4>3 DEF StreamOf
  <3>5. Coming(a + 1)'
   <4>1. Sent' = moved["follower"] + 1 BY <1>1, <2>3, TypeFacts, Numbers DEF Sent
   <4>2. moved["owner"] > 0 => held["owner"] = Theirs BY <3>3 DEF Coming, Serving
   <4>3. moved["owner"] + (a + 1) = moved["follower"] + 1 /\ moved["follower"] + 1 <= Pieces
         /\ a + 1 = Len(wire'["owner"])
     BY <2>1, <3>3, Sizes
   <4> HIDE DEF IInv
   <4> QED BY <2>1, <2>2, <2>5, <4>1, <4>2, <4>3 DEF Coming
  <3>6. a + 1 \in 0 .. Len(wire'["owner"]) BY <1>1, <2>1, <3>3, TypeFacts
  <3> QED BY <3>1, <3>4, <3>5, <3>6 DEF Streamed
 <2>11. Verdicts' BY <2>2, <2>5 DEF Verdicts
 <2> QED BY <1>1, <2>6, <2>7, <2>8, <2>9, <2>10, <2>11
<1> QED BY <1>2, <1>3

LEMMA ReceivesKeeps == IInv /\ FollowerReceives => IInv'
<1> SUFFICES ASSUME IInv, FollowerReceives PROVE IInv' OBVIOUS
<1> USE DEF IInv, FollowerReceives, FollowerAlone, ownerVars
<1>1. Typed' /\ "follower" \in Process /\ "owner" \in Process BY FollowerTyped, Ends DEF FollowerNext
<1>2. CASE TransferFails("follower") /\ follower' = "failure" /\ UNCHANGED held
 <2>1. moved'["owner"] = moved["owner"] /\ wire' = wire BY <1>1, <1>2, Moves, Ends DEF TransferFails
 <2> QED BY <1>1, <1>2, <2>1, Withdraws DEF Serving
<1>3. CASE /\ TakePiece("follower")
           /\ \/ More("follower") /\ UNCHANGED follower
              \/ LastPiece("follower") /\ follower' = "check"
 <2>1. /\ wire'["owner"] = wire["owner"] /\ moved'["owner"] = moved["owner"]
       /\ held'["owner"] = held["owner"]
       /\ Len(wire["follower"]) > 0 /\ Len(wire'["follower"]) = Len(wire["follower"]) - 1
       /\ \A i \in 1 .. Len(wire["follower"]) - 1 :
             wire'["follower"][i] = wire["follower"][i + 1]
       /\ moved["follower"] = 0 \/ held["follower"] = wire["follower"][1]
            => held'["follower"] = wire["follower"][1]
   BY <1>1, <1>3, Takes, Moves, Ends
 <2>2. /\ Booted /\ ~FollowerFailed /\ ~Idle
       /\ \A i \in 1 .. Len(wire["follower"]) : wire["follower"][i] = Asked
       /\ moved["follower"] > 0 => held["follower"] = Asked
       /\ moved["follower"] + Len(wire["follower"]) <= Pieces
   BY <2>1 DEF Receipts, Hands, Requested, Serving, Idle
 <2>3. /\ owner \in {"advance", "reply"} \cup Leaving
       /\ played["follower"] = played["owner"]
       /\ outcome.code \notin {0, 4}
  <3>1. played["follower"] \in Nat /\ played["owner"] \in Nat BY <1>1, TypeFacts
  <3> QED BY <2>2, <3>1 DEF Phases, Hands, Serving, Leaving, Verdicts, OwnerStep, Typed
 <2>4. held'["follower"] = Asked BY <1>1, <2>1, <2>2, TypeFacts
 <2>5. \/ follower' = "request" /\ moved'["follower"] = moved["follower"] + 1
       \/ follower' = "check" /\ moved'["follower"] = 0 /\ moved["follower"] + 1 = Pieces
   BY <1>1, <1>3, Moves
 <2>6. ReceiptOf("owner")' = ReceiptOf("owner") /\ ReceiptOf("follower")' = ReceiptOf("follower")
   BY SameReceipt, Ends
 <2>7. (FollowerFailed' <=> FollowerFailed) /\ (Unequal' <=> Unequal) /\ (Agreed' <=> Agreed)
       /\ Theirs' = Theirs /\ (Booted' <=> Booted) /\ Asked' = Asked
   BY <2>1, <2>6 DEF FollowerFailed, Unequal, Agreed, Theirs, Booted, Asked, EpochAt
 <2>8. Receipts' BY <2>2, <2>5, <2>6, <2>7 DEF Receipts, Ours, Ready, Serving
 <2>9. Hands' BY <2>1, <2>2, <2>5, <2>7 DEF Hands, Serving
 <2>10. Requested'
  <3>1. \A i \in 1 .. Len(wire'["follower"]) : wire'["follower"][i] = Asked
    BY SMTT(30), <1>1, <2>1, <2>2, TypeFacts
  <3>2. wire'["follower"] \in Seq(PacketType) /\ Len(wire["follower"]) \in Nat
        /\ moved["follower"] \in Nat
    BY <1>1, TypeFacts, Numbers DEF Typed
  <3>3. CASE follower' = "check"
   <4>1. wire'["follower"] = <<>> BY <1>1, <2>1, <2>2, <2>5, <3>2, <3>3, Fresh, Numbers
   <4> QED BY <2>4, <2>7, <3>1, <3>3, <4>1 DEF Requested, Serving
  <3>4. CASE follower' = "request"
   <4>1. moved'["follower"] + Len(wire'["follower"]) = moved["follower"] + Len(wire["follower"])
    <5>1. moved["follower"] \in Nat /\ Len(wire["follower"]) \in Nat BY Sizes
    <5> HIDE DEF IInv, FollowerReceives
    <5> QED BY <2>1, <2>5, <3>4, <5>1
   <4>2. LET under == moved["follower"] + Len(wire["follower"])
         IN  /\ under <= Pieces
             /\ owner = "advance" => under = moved["owner"]
             /\ owner = "reply" /\ played["follower"] = played["owner"] => under = Pieces
     BY DEF Requested, Serving
   <4> HIDE DEF IInv
   <4> QED BY <2>1, <2>4, <2>7, <3>1, <3>4, <4>1, <4>2 DEF Requested
  <3> QED BY <2>5, <3>3, <3>4
 <2>11. Phases'
  <3>1. CASE owner = "advance"
   <4>1. moved["follower"] + Len(wire["follower"]) = moved["owner"] BY <3>1 DEF Requested, Serving
   <4>2. follower' = "request" BY <1>1, <2>1, <2>5, <4>1, TypeFacts, Numbers
   <4> QED BY <2>1, <2>7, <3>1, <4>2 DEF Phases, Serving, Leaving
  <3>2. CASE owner # "advance" BY <2>3, <2>5, <3>2 DEF Phases, Serving, Leaving
  <3> QED BY <3>1, <3>2
 <2>12. Streams'
  <3> SUFFICES ASSUME (owner = "build" \/ Ready(owner))'
               PROVE  (\E a \in 0 .. Len(wire["owner"]) : Streamed(a))'
    BY DEF Streams
  <3>1. PICK a \in 0 .. Len(wire["owner"]) : Streamed(a) BY DEF Streams, Ready
  <3>2. ~Expecting /\ ~Expecting' /\ owner \in {"advance", "reply"} /\ follower \in Serving
    BY <1>1, <2>3, TypeFacts DEF Expecting, Leaving, Ready, Serving
  <3>3. StreamOf(a) /\ Drained(a) BY <2>2, <3>1, <3>2 DEF Streamed
  <3> HIDE DEF IInv
  <3>4. StreamOf(a)' /\ Drained(a)' BY <2>1, <2>7, <3>2, <3>3 DEF StreamOf, Drained
  <3> QED BY <2>1, <3>2, <3>4 DEF Streamed
 <2>13. Verdicts' BY <2>3, <2>7 DEF Verdicts
 <2> QED BY <1>1, <2>8, <2>9, <2>10, <2>11, <2>12, <2>13
<1> QED BY <1>2, <1>3

LEMMA ChecksKeeps == IInv /\ FollowerChecks => IInv'
<1> SUFFICES ASSUME IInv, FollowerChecks PROVE IInv' OBVIOUS
<1> USE DEF IInv, FollowerChecks, FollowerAlone, ownerVars
<1>1. Typed' BY FollowerTyped DEF FollowerNext
<1>2. CASE follower' \in {"exit", "failure"}
 <2>1. moved["follower"] = 0 BY DEF Hands
 <2> QED BY <1>1, <1>2, <2>1, Withdraws DEF Serving
<1>3. CASE follower' = "step"
 <2>1. ReceiptOf("owner")' = ReceiptOf("owner") /\ ReceiptOf("follower")' = ReceiptOf("follower")
   BY SameReceipt, Ends
 <2>2. (FollowerFailed' <=> FollowerFailed) /\ (Unequal' <=> Unequal) /\ (Agreed' <=> Agreed)
       /\ Theirs' = Theirs /\ (Booted' <=> Booted) /\ Asked' = Asked
   BY <2>1 DEF FollowerFailed, Unequal, Agreed, Theirs, Booted, Asked, EpochAt
 <2>3. Receipts' BY <1>3, <2>1, <2>2 DEF Receipts, Ours, Ready, Serving
 <2>4. Hands' BY <1>3, <2>2 DEF Hands, Serving
 <2>5. Requested' BY <1>3, <2>2 DEF Requested, Serving
 <2>6. Phases' BY <1>3, <2>2 DEF Phases, Serving
 <2>7. Streams'
  <3> SUFFICES ASSUME (owner = "build" \/ Ready(owner))'
               PROVE  (\E a \in 0 .. Len(wire["owner"]) : Streamed(a))'
    BY DEF Streams
  <3>1. PICK a \in 0 .. Len(wire["owner"]) : Streamed(a) BY DEF Streams, Ready
  <3>2. Streamed(a)' BY <1>3, <2>2, <3>1 DEF Streamed, StreamOf, Expecting, Coming, Drained, Sent, Serving
  <3> QED BY <3>2
 <2>8. Verdicts' BY <1>3, <2>2 DEF Verdicts, Serving
 <2> QED BY <1>1, <2>3, <2>4, <2>5, <2>6, <2>7, <2>8
<1> QED BY <1>2, <1>3

LEMMA StepsKeeps == IInv /\ FollowerSteps => IInv'
<1> SUFFICES ASSUME IInv, FollowerSteps PROVE IInv' OBVIOUS
<1> USE DEF IInv, FollowerAlone, ownerVars
<1>1. Typed' BY FollowerTyped DEF FollowerNext
<1>2. moved["follower"] = 0 BY DEF Hands, FollowerSteps
<1>3. CASE follower' \in {"failure", "hung"} /\ UNCHANGED <<played, receipt>>
  BY <1>1, <1>2, <1>3, Withdraws DEF Serving, FollowerSteps
<1>4. CASE /\ played' = Set(played, "follower", played["follower"] + 1)
           /\ receipt' = Set(receipt, "follower",
                AdvanceReceipt(receipt["follower"], held["follower"].input,
                               CaptureAfter("follower")))
           /\ follower' = "advance_receipt"
 <2>1. /\ played'["owner"] = played["owner"] /\ played'["follower"] = played["follower"] + 1
       /\ receipt'["owner"] = receipt["owner"]
       /\ Theirs' = AdvanceReceipt(receipt["follower"], held["follower"].input,
                                   CaptureAfter("follower"))
   BY <1>4, Ends DEF Typed, Set, Theirs
 <2>2. /\ follower = "step" /\ UNCHANGED <<world, owner, outcome, moved, held, wire>>
       /\ Booted /\ held["follower"] = Asked /\ wire["follower"] = <<>> /\ ~FollowerFailed
   BY DEF FollowerSteps, Receipts, Requested, Hands, Serving
 <2>3. /\ owner \in {"reply"} \cup Leaving /\ played["follower"] = played["owner"]
       /\ outcome.code \notin {0, 4}
   BY <2>2, Sizes DEF Phases, Serving, Leaving, Hands, OwnerStep, Typed, Verdicts
 <2>4. Booted'
  <3>1. held["follower"].input = played["follower"] + 1 BY <2>2 DEF Asked, Request, Packet
  <3> QED BY <1>4, <2>1, <2>2, <3>1, NextReceipt, Ends DEF Booted, Theirs
 <2>5. ReceiptOf("owner")' = ReceiptOf("owner") BY <2>1, <2>2, SameReceipt, Ends
 <2>6. (FollowerFailed' <=> FollowerFailed) /\ (Unequal' <=> Unequal) BY <2>1, <2>2 DEF FollowerFailed, Unequal
 <2>7. Receipts' BY <1>4, <2>1, <2>2, <2>3, <2>4, <2>5 DEF Receipts, Ours, Ready, Serving, Leaving
 <2>8. Hands' BY <1>4, <2>2, <2>6 DEF Hands, Serving
 <2>9. Requested'
  <3>1. Len(wire'["follower"]) = 0 BY <2>2
  <3> QED BY <1>4, <2>2, <3>1 DEF Requested, Serving
 <2>10. Phases' BY <1>4, <2>1, <2>2, <2>3 DEF Phases, Idle, Serving, Leaving
 <2>11. Streams'
  <3> SUFFICES ASSUME (owner = "build" \/ Ready(owner))'
               PROVE  (\E a \in 0 .. Len(wire["owner"]) : Streamed(a))'
    BY DEF Streams
  <3>1. owner = "reply" BY <2>2, <2>3 DEF Ready, Leaving
  <3>2. PICK a \in 0 .. Len(wire["owner"]) : Streamed(a) BY <3>1 DEF Streams, Ready
  <3>3. a = 0 /\ wire["owner"] = <<>> /\ moved["owner"] = 0
    BY <2>2, <2>3, <3>1, <3>2, Sizes DEF Streamed, Expecting, Drained, Serving
  <3>4. Streamed(0)'
    BY <1>2, <1>4, <2>1, <2>2, <2>3, <3>1, <3>3, Sizes DEF Streamed, StreamOf, Expecting, Coming, Sent, Serving
  <3> QED BY <2>2, <3>3, <3>4
 <2>12. Verdicts' BY <2>2, <2>3, <2>6 DEF Verdicts, Leaving
 <2> QED BY <1>1, <2>7, <2>8, <2>9, <2>10, <2>11, <2>12
<1> QED BY <1>3, <1>4 DEF FollowerSteps

LEMMA FailsKeeps == IInv /\ FollowerFails => IInv'
<1> SUFFICES ASSUME IInv, FollowerFails PROVE IInv' OBVIOUS
<1> USE DEF IInv, FollowerFails, FollowerAlone, ownerVars
<1>1. Typed' /\ "follower" \in Process BY FollowerTyped, Ends DEF FollowerNext
<1>2. CASE TransferFails("follower") /\ follower' = "exit"
 <2>1. moved'["owner"] = moved["owner"] /\ moved'["follower"] = 0 /\ wire' = wire
   BY <1>1, <1>2, Moves, Ends DEF TransferFails
 <2> QED BY <1>1, <1>2, <2>1, Withdraws DEF Serving
<1>3. CASE /\ PutPiece("follower", Failure)
           /\ \/ More("follower") /\ UNCHANGED follower
              \/ LastPiece("follower") /\ follower' = "exit"
 <2>1. Failure \in PacketType BY <1>1, PacketsTyped
 <2>2. /\ moved'["owner"] = moved["owner"]
       /\ Len(wire'["owner"]) = Len(wire["owner"]) + 1
       /\ \A i \in 1 .. Len(wire["owner"]) : wire'["owner"][i] = wire["owner"][i]
       /\ wire'["owner"][Len(wire["owner"]) + 1] = Failure
   BY <1>1, <1>3, <2>1, Puts, Moves, Ends
 <2>3. \/ follower' = "failure"
       \/ follower' = "exit" /\ moved'["follower"] = 0
   BY <1>1, <1>3, Moves
 <2> QED BY <1>1, <2>2, <2>3, Withdraws DEF Serving
<1> QED BY <1>2, <1>3

LEMMA GoneKeeps == IInv /\ (FollowerExits \/ FollowerCrashes) => IInv'
<1> SUFFICES ASSUME IInv, FollowerExits \/ FollowerCrashes PROVE IInv' OBVIOUS
<1> USE DEF IInv, Gone, FollowerAlone, ownerVars
<1>1. Typed' /\ "follower" \in Process BY FollowerTyped, Ends DEF FollowerNext
<1>2. /\ wire'["owner"] = wire["owner"]
      /\ moved'["owner"] = moved["owner"] /\ moved'["follower"] = 0
  BY <1>1, Closes, Moves, Ends DEF FollowerExits, FollowerCrashes
<1> QED BY <1>1, <1>2, Withdraws DEF FollowerExits, FollowerCrashes, Serving

----
\* An owner that gives up, has reported, closes, joins or is killed.
LEMMA Leaves ==
  ASSUME IInv, Typed', owner' \in Leaving, UNCHANGED <<world, follower, played, receipt, held>>,
         wire'["follower"] = wire["follower"], moved'["follower"] = moved["follower"],
         follower = "none" => owner' \in {"ended", "killed"} /\ wire' = wire,
         \/ outcome'.code \in {NoCode, 2, outcome.code}
         \/ owner = "report" /\ outcome'.code = ExitCode(outcome.what)
  PROVE  IInv'
<1> USE DEF IInv
<1>1. ReceiptOf("owner")' = ReceiptOf("owner") /\ ReceiptOf("follower")' = ReceiptOf("follower")
  BY SameReceipt, Ends
<1>2. (FollowerFailed' <=> FollowerFailed) /\ (Unequal' <=> Unequal) /\ (Agreed' <=> Agreed)
      /\ Theirs' = Theirs /\ (Booted' <=> Booted) /\ Asked' = Asked
      /\ (follower = "request" => (Idle' <=> Idle))
  BY <1>1 DEF FollowerFailed, Unequal, Agreed, Theirs, Booted, Asked, EpochAt, Idle
<1>3. owner' \notin {"start", "fork", "build", "initial", "reply", "compare", "judge",
                     "advance", "step", "report"}
  BY DEF Leaving
<1>4. Receipts' BY <1>1, <1>2, <1>3 DEF Receipts, Ready
<1>5. Hands' BY <1>2, <1>3 DEF Hands
<1>6. Requested' BY <1>2, <1>3 DEF Requested
<1>7. Phases'
 <2>1. LET k == played["owner"]
           n == played["follower"]
       IN  \/ n = k
           \/ n = k + 1 /\ (follower \in Serving =>
                               follower \in {"advance_receipt", "request"} /\ Idle)
           \/ k = n + 1 /\ FollowerFailed
  <3>1. CASE owner \in {"start", "fork"} BY <3>1 DEF Receipts, Hands
  <3>2. CASE owner \in {"build", "initial"} BY <3>2 DEF Receipts, Phases
  <3>3. CASE owner \in {"compare", "judge", "advance", "report"} \cup Leaving BY <3>3 DEF Phases
  <3>4. CASE owner \in {"reply", "step"} BY <3>4 DEF Phases, Hands
  <3> QED BY <3>1, <3>2, <3>3, <3>4 DEF Typed, OwnerStep
 <2>2. follower \in {"advance_receipt", "request"} => (Idle' <=> Idle) BY DEF Idle
 <2> HIDE DEF IInv
 <2> QED BY <1>2, <1>3, <2>1, <2>2 DEF Phases
<1>8. Streams' BY <1>3 DEF Streams, Ready
<1>9. Verdicts'
 <2>1. CASE outcome'.code \in {NoCode, 2} BY <1>3, <2>1 DEF Verdicts, NoCode
 <2>2. CASE outcome'.code = outcome.code BY <1>2, <1>3, <2>2 DEF Verdicts
 <2>3. CASE owner = "report" /\ outcome'.code = ExitCode(outcome.what)
  <3>1. CASE outcome.what = "desynchronized" BY <1>2, <1>3, <2>3, <3>1 DEF Verdicts, ExitCode
  <3>2. CASE outcome.what # "desynchronized"
   <4>1. Agreed /\ ~FollowerFailed BY <2>3, <3>2 DEF Verdicts, Agreed
   <4>2. follower \in Serving => follower = "request" /\ Idle BY <2>3, <4>1 DEF Phases
   <4>3. outcome'.code \in {0, 4} BY <2>3, <3>2 DEF ExitCode
   <4> HIDE DEF IInv
   <4> QED BY <1>2, <1>3, <4>1, <4>2, <4>3 DEF Verdicts
  <3> QED BY <3>1, <3>2
 <2> QED BY <2>1, <2>2, <2>3
<1> QED BY <1>4, <1>5, <1>6, <1>7, <1>8, <1>9

LEMMA LeavingKeeps ==
  IInv /\ (OwnerReports \/ OwnerCloses \/ OwnerTerminates \/ OwnerJoins \/ OwnerKilled) => IInv'
<1> SUFFICES ASSUME IInv, \/ OwnerReports \/ OwnerCloses \/ OwnerTerminates
                          \/ OwnerJoins \/ OwnerKilled
             PROVE  IInv'
  OBVIOUS
<1> USE DEF IInv, OwnerAlone
<1>1. Typed' /\ "owner" \in Process /\ "follower" \in Process BY OwnerTyped, Ends DEF OwnerNext
<1>2. CASE OwnerReports
 <2>1. outcome'.code \in {NoCode, 2, outcome.code} \/ outcome'.code = ExitCode(outcome.what)
  <3>1. outcome \in [what : {"none", "budget", "desynchronized", "complete", "death"},
                     code : {NoCode, 0, 2, 3, 4}]
    BY DEF Typed
  <3> QED BY <1>2, <3>1 DEF OwnerReports
 <2>2. follower # "none" BY <1>2 DEF OwnerReports, Hands
 <2> QED BY <1>1, <1>2, <2>1, <2>2, Leaves DEF OwnerReports, Leaving
<1>3. CASE OwnerCloses
 <2>1. wire'["follower"] = wire["follower"] /\ follower # "none"
   BY <1>1, <1>3, Closes, Ends DEF OwnerCloses, Hands
 <2> QED BY <1>1, <1>3, <2>1, Leaves DEF OwnerCloses, Leaving
<1>4. CASE OwnerJoins BY <1>1, <1>4, Leaves DEF OwnerJoins, Leaving
<1>5. CASE OwnerKilled
 <2>1. wire'["follower"] = wire["follower"] BY <1>1, <1>5, Closes, Ends DEF OwnerKilled
 <2>2. follower = "none" => wire' = wire BY <1>1, <1>5 DEF OwnerKilled, Close, Set, Hands
 <2> QED BY <1>1, <1>5, <2>1, <2>2, Leaves DEF OwnerKilled, Leaving
<1>6. CASE OwnerTerminates
 <2>1. /\ owner = "terminate" /\ owner' = "join" /\ follower' = "gone"
       /\ UNCHANGED <<world, played, receipt, held, outcome>>
       /\ moved'["follower"] = 0
   BY <1>1, <1>6, Moves DEF OwnerTerminates
 <2>2. ReceiptOf("owner")' = ReceiptOf("owner") /\ ReceiptOf("follower")' = ReceiptOf("follower")
   BY <2>1, SameReceipt, Ends
 <2>3. (FollowerFailed' <=> FollowerFailed) /\ (Unequal' <=> Unequal) /\ (Agreed' <=> Agreed)
       /\ (Booted' <=> Booted)
   BY <2>1, <2>2 DEF FollowerFailed, Unequal, Agreed, Theirs, Booted
 <2>4. Receipts' /\ Hands' /\ Requested' /\ Streams'
   BY <2>1, <2>3 DEF Receipts, Hands, Requested, Streams, Ready, Leaving, Serving
 <2>5. Phases' /\ Verdicts' BY <2>1, <2>3 DEF Phases, Verdicts, Leaving, Serving
 <2> QED BY <1>1, <2>4, <2>5
<1> QED BY <1>2, <1>3, <1>4, <1>5, <1>6

LEMMA StartKeeps == IInv /\ (OwnerReads \/ OwnerForks) => IInv'
<1> SUFFICES ASSUME IInv, OwnerReads \/ OwnerForks PROVE IInv' OBVIOUS
<1> USE DEF IInv, OwnerAlone
<1>1. Typed' BY OwnerTyped DEF OwnerNext
<1>2. /\ follower = "none" /\ ~FollowerFailed /\ moved["owner"] = 0 /\ moved["follower"] = 0
      /\ wire["owner"] = <<>> /\ wire["follower"] = <<>>
      /\ played["owner"] = 0 /\ played["follower"] = 0 /\ outcome.code = NoCode
  BY Ends DEF OwnerReads, OwnerForks, Hands, Receipts, Verdicts, Serving, Leaving
<1>3. CASE owner' = "ended" /\ outcome' = [outcome EXCEPT !.code = 2]
           /\ UNCHANGED <<world, follower, moved, played, receipt, held, wire>>
 <2>1. outcome'.code = 2 BY <1>3 DEF Typed
 <2> QED BY <1>1, <1>3, <2>1, Leaves DEF Leaving
<1>4. CASE UNCHANGED <<world, follower, moved, played, receipt, held, wire, outcome>>
           /\ owner' = "fork"
 <2>1. (FollowerFailed' <=> FollowerFailed) /\ (Booted' <=> Booted)
   BY <1>4, SameReceipt, Ends DEF FollowerFailed, Booted, Theirs
 <2>2. Receipts' /\ Hands' /\ Requested'
   BY <1>2, <1>4, <2>1 DEF Receipts, Hands, Requested, Ready, Serving, Leaving
 <2>3. Phases' /\ Streams' /\ Verdicts'
   BY <1>2, <1>4 DEF Phases, Streams, Verdicts, Ready, Serving, Leaving, NoCode
 <2> QED BY <1>1, <2>2, <2>3
<1>5. CASE UNCHANGED <<world, moved, played, receipt, held, wire, outcome>>
           /\ owner' = "build" /\ follower' = "boot"
 <2>1. ~FollowerFailed' BY <1>2, <1>5 DEF FollowerFailed
 <2>2. Receipts' /\ Hands' BY <1>2, <1>5, <2>1 DEF Receipts, Hands, Ready, Serving, Leaving
 <2>3. Requested' /\ Phases' BY <1>2, <1>5 DEF Requested, Phases, Idle, Serving, Leaving
 <2>4. Streams'
  <3>1. Streamed(0)' BY <1>2, <1>5, <2>1, Sizes DEF Streamed, StreamOf, Expecting, Coming, Sent, Serving
  <3> QED BY <1>2, <1>5, <3>1 DEF Streams
 <2>5. Verdicts' BY <1>2, <1>5 DEF Verdicts, Leaving, NoCode
 <2> QED BY <1>1, <2>2, <2>3, <2>4, <2>5
<1> QED BY <1>3, <1>4, <1>5 DEF OwnerReads, OwnerForks

\* An exception of the owner from any step but the first two.
LEMMA ThrowKeeps ==
  ASSUME IInv, Typed', Throw, owner \notin {"start", "fork"} \cup Leaving,
         UNCHANGED <<world, follower, played, receipt, held, wire>>,
         moved'["follower"] = moved["follower"]
  PROVE  IInv'
<1>1. outcome'.code = 2 BY DEF IInv, Typed, Throw
<1>2. follower # "none" BY DEF IInv, Hands, Leaving
<1> QED BY <1>1, <1>2, Leaves DEF Throw, Leaving

LEMMA BuildsKeeps == IInv /\ OwnerBuilds => IInv'
<1> SUFFICES ASSUME IInv, OwnerBuilds PROVE IInv' OBVIOUS
<1> USE DEF IInv, OwnerAlone, OwnerBuilds
<1>1. Typed' BY OwnerTyped DEF OwnerNext
<1>2. CASE Throw /\ UNCHANGED receipt BY <1>1, <1>2, ThrowKeeps DEF Leaving
<1>3. CASE /\ owner' = "initial" /\ UNCHANGED outcome
           /\ receipt' = Set(receipt, "owner", FirstReceipt("owner"))
 <2>1. /\ UNCHANGED <<world, follower, moved, played, held, wire, outcome>>
       /\ owner = "build" /\ owner' = "initial"
       /\ played["owner"] = 0 /\ Theirs' = Theirs /\ Ours' = FirstReceipt("owner")
   BY <1>3, Ends DEF Receipts, Typed, Set, Theirs, Ours
 <2>2. ReceiptOf("owner")' = ReceiptOf("owner") /\ ReceiptOf("follower")' = ReceiptOf("follower")
   BY <2>1, SameReceipt, Ends
 <2>3. (FollowerFailed' <=> FollowerFailed) /\ (Unequal' <=> Unequal) /\ (Agreed' <=> Agreed)
       /\ (Booted' <=> Booted) /\ Asked' = Asked /\ (Idle' <=> Idle)
   BY <2>1, <2>2 DEF FollowerFailed, Unequal, Agreed, Booted, Asked, EpochAt, Idle
 <2>4. Receipts' BY <2>1, <2>2, <2>3, FirstIsReceipt, Ends DEF Receipts, Ready
 <2>5. Hands' BY <2>1, <2>3 DEF Hands, Leaving
 <2>6. Requested' BY <2>1, <2>3 DEF Requested
 <2>7. Phases' BY <2>1, <2>3 DEF Phases, Leaving
 <2>8. Streams'
  <3>1. PICK a \in 0 .. Len(wire["owner"]) : Streamed(a) BY <2>1 DEF Streams
  <3>2. Streamed(a)' BY <2>1, <2>3, <3>1 DEF Streamed, StreamOf, Expecting, Coming, Sent
  <3> QED BY <2>1, <3>2 DEF Streams
 <2>9. Verdicts' BY <2>1, <2>3 DEF Verdicts, Leaving
 <2> QED BY <1>1, <2>4, <2>5, <2>6, <2>7, <2>8, <2>9
<1> QED BY <1>2, <1>3

\* What the owner takes off its socket while it waits for a receipt: while
\* the child serves, or its last receipt is not yet all read, a piece of
\* that receipt, and then a failure.
LEMMA TakenPiece ==
  ASSUME IInv, owner \in {"initial", "reply"}, TakePiece("owner"),
         NEW a \in 0 .. Len(wire["owner"]), Streamed(a)
  PROVE  /\ a > 0 => /\ Expecting /\ Coming(a) /\ Booted
                     /\ held'["owner"] = Theirs
         /\ a = 0 => /\ follower \notin Serving
                     /\ held'["owner"] = Failure \/ held'["owner"].state = TornState
                     /\ ~Expecting => held'["owner"] = Failure
         /\ \A i \in 1 .. Len(wire["owner"]) - 1 :
               wire'["owner"][i] = IF i <= a - 1 THEN Theirs ELSE Failure
<1> USE DEF IInv
<1>1. /\ Len(wire["owner"]) > 0 /\ Len(wire["owner"]) \in Nat
      /\ \A i \in 1 .. Len(wire["owner"]) - 1 : wire'["owner"][i] = wire["owner"][i + 1]
      /\ IF moved["owner"] = 0 \/ held["owner"] = wire["owner"][1]
         THEN held'["owner"] = wire["owner"][1] ELSE held'["owner"].state = TornState
  BY Takes, Ends, Sizes
<1>2. moved["owner"] \in Nat /\ Len(wire["owner"]) \in Nat /\ a \in Nat BY Sizes
<1>3. \A i \in 1 .. Len(wire["owner"]) : wire["owner"][i] = IF i <= a THEN Theirs ELSE Failure
  BY DEF Streamed, StreamOf
<1>4. owner \notin {"step", "compare", "report"} /\ (Expecting \/ Drained(a))
      /\ (Expecting => Coming(a))
  BY DEF Streamed
<1> HIDE DEF IInv
<1>5. ASSUME a > 0
      PROVE  /\ Expecting /\ Coming(a) /\ Booted /\ held'["owner"] = Theirs
 <2>1. Expecting /\ Coming(a) /\ Booted BY <1>2, <1>4, <1>5 DEF Coming, Drained
 <2>2. wire["owner"][1] = Theirs BY <1>1, <1>2, <1>3, <1>5
 <2>3. moved["owner"] = 0 \/ held["owner"] = Theirs BY <1>2, <1>5, <2>1 DEF Coming
 <2> QED BY <1>1, <2>1, <2>2, <2>3
<1>6. ASSUME a = 0
      PROVE  /\ follower \notin Serving
             /\ held'["owner"] = Failure \/ held'["owner"].state = TornState
             /\ ~Expecting => held'["owner"] = Failure
 <2>1. wire["owner"][1] = Failure BY <1>1, <1>2, <1>3, <1>6
 <2>2. follower \notin Serving
  <3>1. Len(wire["owner"]) # 0 /\ wire["owner"] # <<>> BY <1>1
  <3> QED BY <1>4, <1>6, <3>1 DEF Coming, Drained
 <2>3. ~Expecting => moved["owner"] = 0 \/ held["owner"] = Failure
  <3>1. ~Expecting => owner = "reply" BY DEF Expecting
  <3> QED BY <1>2, <1>4, <3>1 DEF Drained
 <2> QED BY <1>1, <2>1, <2>2, <2>3
<1>7. ASSUME NEW i \in 1 .. Len(wire["owner"]) - 1
      PROVE  wire'["owner"][i] = IF i <= a - 1 THEN Theirs ELSE Failure
  BY <1>1, <1>2, <1>3
<1> QED BY <1>2, <1>5, <1>6, <1>7

LEMMA OwnerReceivesKeeps == IInv /\ OwnerReceives => IInv'
<1> SUFFICES ASSUME IInv, OwnerReceives PROVE IInv' OBVIOUS
<1> USE DEF IInv, OwnerAlone
<1>1. Typed' /\ owner \in {"initial", "reply"} /\ "owner" \in Process
  BY OwnerTyped, Ends DEF OwnerNext, OwnerReceives
<1>2. CASE TransferFails("owner") /\ Throw /\ UNCHANGED held
 <2>1. moved'["follower"] = moved["follower"] /\ wire' = wire BY <1>1, <1>2, Moves, Ends DEF TransferFails
 <2> QED BY <1>1, <1>2, <2>1, ThrowKeeps DEF OwnerReceives, Leaving
<1>3. CASE /\ TakePiece("owner") /\ UNCHANGED outcome
           /\ \/ More("owner") /\ UNCHANGED owner
              \/ /\ LastPiece("owner")
                 /\ owner' = IF owner = "initial" THEN "compare" ELSE "step"
 <2>1. /\ UNCHANGED <<world, follower, played, receipt, outcome>>
       /\ wire'["follower"] = wire["follower"] /\ moved'["follower"] = moved["follower"]
       /\ held'["follower"] = held["follower"]
       /\ Len(wire["owner"]) > 0 /\ Len(wire'["owner"]) = Len(wire["owner"]) - 1
   BY <1>1, <1>3, Takes, Moves, Ends DEF OwnerReceives
 <2>2. \/ owner' = owner /\ moved'["owner"] = moved["owner"] + 1 /\ moved'["owner"] < Pieces
       \/ /\ moved["owner"] + 1 = Pieces /\ moved'["owner"] = 0
          /\ owner' = IF owner = "initial" THEN "compare" ELSE "step"
   BY <1>1, <1>3, Moves
 <2>3. PICK a \in 0 .. Len(wire["owner"]) : Streamed(a) BY <1>1 DEF Streams, Ready
 <2>4. /\ a > 0 => /\ Expecting /\ Coming(a) /\ Booted
                   /\ held'["owner"] = Theirs
       /\ a = 0 => /\ follower \notin Serving
                   /\ held'["owner"] = Failure \/ held'["owner"].state = TornState
                   /\ ~Expecting => held'["owner"] = Failure
       /\ \A i \in 1 .. Len(wire["owner"]) - 1 :
             wire'["owner"][i] = IF i <= a - 1 THEN Theirs ELSE Failure
  <3>1. IInv OBVIOUS
  <3> HIDE DEF IInv
  <3> QED BY <1>1, <1>3, <2>3, <3>1, TakenPiece
 <2>5. ReceiptOf("owner")' = ReceiptOf("owner") /\ ReceiptOf("follower")' = ReceiptOf("follower")
   BY <2>1, SameReceipt, Ends
 <2>6. /\ (Unequal' <=> Unequal) /\ Theirs' = Theirs /\ (Booted' <=> Booted) /\ Asked' = Asked
       /\ (Idle' <=> Idle) /\ Sent' = Sent
   BY <2>1, <2>5 DEF Unequal, Theirs, Booted, Asked, EpochAt, Idle, Sent
 <2>7. /\ follower # "none"
       /\ owner = "initial" => played["owner"] = 0 /\ played["follower"] = 0
       /\ owner = "reply" => played["follower"] \in {played["owner"], played["owner"] + 1}
       /\ owner = "reply" => (Expecting <=> played["follower"] = played["owner"] + 1)
       /\ owner = "initial" => Expecting
       /\ Expecting /\ follower \in Serving =>
             follower \in {"boot", "advance_receipt", "request"} /\ Idle
       /\ outcome.code = NoCode /\ Ours = ReceiptOf("owner")
   BY <1>1, Sizes DEF Hands, Receipts, Phases, Expecting, Verdicts, Serving, Leaving, Ready
 <2>8. /\ a > 0 => ~FollowerFailed'
       /\ a = 0 => FollowerFailed'
   BY <2>4, ReceiptsWhole, Ends DEF FollowerFailed, Booted
 <2>9. owner' # owner /\ a > 0 =>
         a = 1 /\ (follower \in Serving => follower = "request" /\ Idle /\ Len(wire["owner"]) = 1)
  <3> SUFFICES ASSUME owner' # owner, a > 0
               PROVE  a = 1 /\ (follower \in Serving =>
                                  follower = "request" /\ Idle /\ Len(wire["owner"]) = 1)
    OBVIOUS
  <3>1. moved["owner"] + 1 = Pieces /\ moved["owner"] + a <= Pieces /\ a = 1 BY <2>2, <2>4, Sizes DEF Coming
  <3>2. follower \in Serving => Sent = Pieces /\ Len(wire["owner"]) = 1 BY <2>4, <3>1, Sizes DEF Coming
  <3>3. follower \in Serving => follower = "request" BY <2>4, <2>7, <3>2, Sizes, Numbers DEF Sent
  <3> QED BY <2>4, <2>7, <3>1, <3>2, <3>3
 <2>10. Receipts' BY <1>1, <2>1, <2>2, <2>5, <2>6, <2>7 DEF Receipts, Ours, Ready
 <2>11. Hands' BY <1>1, <2>1, <2>2, <2>4, <2>7, <2>8 DEF Hands, Leaving
 <2>12. Requested' BY <1>1, <2>1, <2>2, <2>6 DEF Requested
 <2>13. Phases'
  <3>1. CASE owner' = owner BY <1>1, <2>1, <2>6, <3>1 DEF Phases, Leaving
  <3>2. CASE owner' # owner /\ a > 0 BY <1>1, <2>1, <2>2, <2>4, <2>6, <2>7, <2>8, <2>9, <3>2 DEF Phases, Leaving
  <3>3. CASE owner' # owner /\ a = 0 BY <1>1, <2>1, <2>2, <2>7, <2>8, <3>3 DEF Phases, Leaving
  <3> QED BY <2>3, <3>1, <3>2, <3>3, Sizes
 <2>14. Streams'
  <3>1. CASE a = 0
   <4>1. StreamOf(0)' BY SMTT(30), <2>1, <2>4, <3>1, Sizes DEF StreamOf
   <4>2. Streamed(0)'
     BY <1>1, <2>1, <2>2, <2>4, <2>7, <2>8, <3>1, <4>1, Sizes DEF Streamed, Expecting, Coming, Drained
   <4> QED BY <2>1, <4>2, Sizes DEF Streams
  <3>2. CASE a > 0
   <4>0. /\ Len(wire["owner"]) \in Nat /\ moved["owner"] \in Nat /\ Pieces \in Nat
         /\ a \in Nat /\ a <= Len(wire["owner"])
     BY <2>3, Sizes
   <4> HIDE DEF IInv
   <4>1. StreamOf(a - 1)' /\ a - 1 \in 0 .. Len(wire'["owner"]) BY <2>1, <2>4, <2>6, <3>2, <4>0 DEF StreamOf
   <4>2. CASE owner' = owner
    <5>1. Expecting' BY <2>1, <2>4, <3>2, <4>2 DEF Expecting
    <5>2. Coming(a - 1)' BY <1>1, <2>1, <2>2, <2>4, <2>6, <2>8, <3>2, <4>0, <4>2 DEF Coming
    <5> QED BY <4>1, <5>1, <5>2 DEF Streams, Streamed
   <4>3. CASE owner' # owner
    <5>1. a = 1 /\ ~Expecting' /\ owner' \in {"compare", "step"} BY <1>1, <2>2, <2>9, <3>2, <4>3 DEF Expecting
    <5>2. Drained(0)'
     <6>1. Len(wire'["owner"]) = 0 => wire'["owner"] = <<>> BY <1>1, Fresh DEF Typed
     <6>2. follower \in Serving => wire'["owner"] = <<>> BY <2>1, <2>9, <3>2, <4>3, <6>1
     <6> QED BY <2>1, <5>1, <6>2 DEF Drained
    <5> QED BY <4>1, <5>1, <5>2 DEF Streams, Streamed
   <4> QED BY <4>2, <4>3
  <3> QED BY <2>3, <3>1, <3>2, Sizes
 <2>15. Verdicts' BY <1>1, <2>1, <2>2, <2>7 DEF Verdicts, Leaving, NoCode
 <2> QED BY <1>1, <2>10, <2>11, <2>12, <2>13, <2>14, <2>15
<1> QED BY <1>2, <1>3 DEF OwnerReceives

\* The comparison finds a follower that failed, and a world that differs.
LEMMA Comparison ==
  ASSUME Ours = ReceiptOf("owner"),
         \/ FollowerFailed
         \/ played["follower"] = played["owner"] /\ held["owner"] = ReceiptOf("follower")
  PROVE  LET mismatch == Difference(Ours, held["owner"])
         IN  /\ FollowerFailed => mismatch # "none"
             /\ ~FollowerFailed => (mismatch = "none" <=> ~Unequal)
<1>1. /\ Ours.kind = "State" /\ Ours.status = 0 /\ Ours.sequence = played["owner"]
      /\ Ours.epoch = EpochAt(played["owner"]) /\ Ours.input = played["owner"]
      /\ Ours.state = Capture("owner")
  BY DEF ReceiptOf, Packet
<1>2. CASE held["owner"] = Failure BY <1>1, <1>2 DEF Difference, Failure, Packet, FollowerFailed
<1>3. CASE held["owner"].state = TornState
 <2>1. Ours.state # held["owner"].state BY <1>1, <1>3 DEF Capture, TornState
 <2> QED BY <1>3, <2>1 DEF Difference, FollowerFailed
<1>4. CASE /\ ~FollowerFailed /\ played["follower"] = played["owner"]
           /\ held["owner"] = ReceiptOf("follower")
 <2>1. /\ held["owner"].kind = "State" /\ held["owner"].status = 0
       /\ held["owner"].sequence = played["owner"] /\ held["owner"].input = played["owner"]
       /\ held["owner"].epoch = EpochAt(played["owner"])
       /\ held["owner"].state = Capture("follower")
   BY <1>4 DEF ReceiptOf, Packet
 <2>2. Capture("owner") = Capture("follower") <=> ~Unequal BY <1>4 DEF Capture, Unequal
 <2> QED BY <1>1, <1>4, <2>1, <2>2 DEF Difference
<1> QED BY <1>2, <1>3, <1>4 DEF FollowerFailed

LEMMA ComparesKeeps == IInv /\ OwnerCompares => IInv'
<1> SUFFICES ASSUME IInv, OwnerCompares PROVE IInv' OBVIOUS
<1> USE DEF IInv, OwnerAlone
<1>1. Typed' /\ owner = "compare" BY OwnerTyped DEF OwnerNext, OwnerCompares
<1>2. UNCHANGED <<world, follower, moved, played, receipt, held, wire>> BY DEF OwnerCompares
<1>3. \/ /\ owner' = "judge" /\ outcome'.what = "budget" /\ Agreed
      \/ /\ owner' = "report" /\ outcome'.what = "desynchronized"
         /\ Unequal \/ FollowerFailed
 <2>1. Ours = ReceiptOf("owner") BY <1>1 DEF Receipts, Ready
 <2>2. \/ FollowerFailed
       \/ played["follower"] = played["owner"] /\ held["owner"] = ReceiptOf("follower")
   BY <1>1 DEF Phases, Booted
 <2>3. LET mismatch == Difference(Ours, held["owner"])
       IN  /\ FollowerFailed => mismatch # "none"
           /\ ~FollowerFailed => (mismatch = "none" <=> ~Unequal)
   BY <2>1, <2>2, Comparison
 <2>4. \/ /\ owner' = "judge" /\ outcome'.what = "budget"
          /\ Difference(Ours, held["owner"]) = "none"
       \/ /\ owner' = "report" /\ outcome'.what = "desynchronized"
          /\ Difference(Ours, held["owner"]) # "none"
   BY DEF OwnerCompares, Report, Typed, Ours
 <2> QED BY <2>2, <2>3, <2>4 DEF Agreed
<1>4. outcome'.code = NoCode BY <1>1 DEF OwnerCompares, Report, Typed, Verdicts, Leaving
<1>5. ReceiptOf("owner")' = ReceiptOf("owner") /\ ReceiptOf("follower")' = ReceiptOf("follower")
  BY <1>2, SameReceipt, Ends
<1>6. (FollowerFailed' <=> FollowerFailed) /\ (Unequal' <=> Unequal) /\ (Agreed' <=> Agreed)
      /\ Theirs' = Theirs /\ (Booted' <=> Booted) /\ Asked' = Asked /\ (Idle' <=> Idle)
  BY <1>2, <1>5 DEF FollowerFailed, Unequal, Agreed, Theirs, Booted, Asked, EpochAt, Idle
<1>7. Receipts' BY <1>1, <1>2, <1>3, <1>5, <1>6 DEF Receipts, Ours, Ready
<1>8. Hands' BY <1>1, <1>2, <1>3, <1>6 DEF Hands, Leaving
<1>9. Requested' BY <1>2, <1>3, <1>6 DEF Requested
<1>10. Phases' BY <1>1, <1>2, <1>3, <1>6 DEF Phases, Agreed, Leaving
<1>11. Streams'
 <2>1. PICK a \in 0 .. Len(wire["owner"]) : Streamed(a) BY <1>1 DEF Streams, Ready
 <2>2. StreamOf(a)' /\ ~Expecting /\ ~Expecting'
   BY <1>1, <1>2, <1>3, <1>6, <2>1 DEF Streamed, StreamOf, Expecting
 <2>3. ~FollowerFailed => Drained(a) /\ Drained(a)' BY <1>1, <1>2, <1>3, <1>6, <2>1, <2>2 DEF Streamed, Drained
 <2>4. owner' = "judge" => ~FollowerFailed BY <1>3 DEF Agreed
 <2>5. Streamed(a)' BY <1>3, <1>6, <2>2, <2>3, <2>4 DEF Streamed
 <2> QED BY <1>2, <2>5 DEF Streams
<1>12. Verdicts' BY <1>2, <1>3, <1>4, <1>6 DEF Verdicts, Leaving, NoCode
<1> QED BY <1>1, <1>7, <1>8, <1>9, <1>10, <1>11, <1>12

LEMMA JudgesKeeps == IInv /\ OwnerJudges => IInv'
<1> SUFFICES ASSUME IInv, OwnerJudges PROVE IInv' OBVIOUS
<1> USE DEF IInv, OwnerAlone
<1>1. Typed' /\ owner = "judge" /\ outcome.what = "budget" /\ outcome.code = NoCode /\ Agreed
  BY OwnerTyped DEF OwnerNext, OwnerJudges, Verdicts, Leaving
<1>2. UNCHANGED <<world, follower, moved, played, receipt, held, wire>> BY DEF OwnerJudges
<1>3. \/ owner' = "report" /\ outcome'.what \in {"budget", "complete", "death"}
      \/ owner' = "advance"
  BY <1>1 DEF OwnerJudges, Report, Typed
<1>4. outcome'.code = NoCode BY <1>1 DEF OwnerJudges, Report, Typed
<1>5. ReceiptOf("owner")' = ReceiptOf("owner") /\ ReceiptOf("follower")' = ReceiptOf("follower")
  BY <1>2, SameReceipt, Ends
<1>6. (FollowerFailed' <=> FollowerFailed) /\ (Unequal' <=> Unequal) /\ (Agreed' <=> Agreed)
      /\ Theirs' = Theirs /\ (Booted' <=> Booted) /\ Asked' = Asked /\ (Idle' <=> Idle)
  BY <1>2, <1>5 DEF FollowerFailed, Unequal, Agreed, Theirs, Booted, Asked, EpochAt, Idle
<1>7. Receipts' BY <1>1, <1>2, <1>3, <1>5, <1>6 DEF Receipts, Ours, Ready
<1>8. Hands' BY <1>1, <1>2, <1>3, <1>6 DEF Hands, Leaving
<1>9. Requested'
 <2>1. moved["owner"] = 0 BY <1>1 DEF Hands, Leaving
 <2>2. follower \in Serving => follower = "request" /\ wire["follower"] = <<>>
                                /\ moved["follower"] = 0
   BY <1>1 DEF Phases, Idle
 <2>3. Len(<<>>) = 0 BY Fresh
 <2> QED BY <1>2, <1>3, <1>6, <2>1, <2>2, <2>3, Numbers DEF Requested
<1>10. Phases' BY <1>1, <1>2, <1>3, <1>6 DEF Phases, Leaving
<1>11. Streams'
 <2>1. PICK a \in 0 .. Len(wire["owner"]) : Streamed(a) BY <1>1 DEF Streams, Ready
 <2>2. StreamOf(a)' /\ ~Expecting /\ ~Expecting'
   BY <1>1, <1>2, <1>3, <1>6, <2>1 DEF Streamed, StreamOf, Expecting
 <2>3. Drained(a)' BY <1>1, <1>2, <1>3, <2>1, <2>2 DEF Streamed, Drained
 <2> QED BY <1>2, <2>2, <2>3 DEF Streams, Streamed
<1>12. Verdicts' BY <1>1, <1>2, <1>3, <1>4, <1>6 DEF Verdicts, Leaving, NoCode
<1> QED BY <1>1, <1>7, <1>8, <1>9, <1>10, <1>11, <1>12

LEMMA OwnerSendsKeeps == IInv /\ OwnerSends => IInv'
<1> SUFFICES ASSUME IInv, OwnerSends PROVE IInv' OBVIOUS
<1> USE DEF IInv, OwnerAlone
<1>1. Typed' /\ owner = "advance" /\ "owner" \in Process BY OwnerTyped, Ends DEF OwnerNext, OwnerSends
<1>2. CASE TransferFails("owner") /\ Throw
 <2>1. moved'["follower"] = moved["follower"] /\ wire' = wire BY <1>1, <1>2, Moves, Ends DEF TransferFails
 <2> QED BY <1>1, <1>2, <2>1, ThrowKeeps DEF OwnerSends, Leaving
<1>3. CASE /\ PutPiece("owner", Request(receipt["owner"].sequence + 1,
                                        receipt["owner"].epoch, NextInput))
           /\ \/ More("owner") /\ UNCHANGED owner
              \/ LastPiece("owner") /\ owner' = "reply"
           /\ UNCHANGED outcome
 <2>1. /\ Agreed /\ ~FollowerFailed /\ played["follower"] = played["owner"]
       /\ Ours = ReceiptOf("owner") /\ outcome.code = NoCode /\ follower # "none"
       /\ held["owner"] = Theirs /\ Booted /\ (follower \in Serving => follower = "request")
   BY <1>1 DEF Verdicts, Agreed, Receipts, Ready, Leaving, Hands, Phases
 <2>2. Request(receipt["owner"].sequence + 1, receipt["owner"].epoch, NextInput) = Asked
   BY <2>1 DEF Asked, ReceiptOf, Ours, NextInput, Packet
 <2>3. Asked \in PacketType
  <3>1. played["follower"] + 1 \in Nat /\ EpochAt(played["follower"]) \in Nat BY Sizes DEF EpochAt
  <3>2. \A n, e, i \in Nat : Request(n, e, i) \in PacketType BY <1>1, PacketsTyped
  <3> HIDE DEF IInv
  <3> QED BY <3>1, <3>2 DEF Asked
 <2>4. /\ wire'["owner"] = wire["owner"] /\ moved'["follower"] = moved["follower"]
       /\ Len(wire'["follower"]) = Len(wire["follower"]) + 1
       /\ \A i \in 1 .. Len(wire["follower"]) : wire'["follower"][i] = wire["follower"][i]
       /\ wire'["follower"][Len(wire["follower"]) + 1] = Asked
   BY <1>1, <1>3, <2>2, <2>3, Puts, Moves, Ends
 <2>5. \/ owner' = "advance" /\ moved'["owner"] = moved["owner"] + 1
                             /\ moved["owner"] + 1 < Pieces
       \/ owner' = "reply" /\ moved'["owner"] = 0 /\ moved["owner"] + 1 = Pieces
   BY <1>1, <1>3, Moves
 <2>6. UNCHANGED <<world, follower, played, receipt, held, outcome>> BY <1>3 DEF OwnerSends
 <2>7. ReceiptOf("owner")' = ReceiptOf("owner") /\ ReceiptOf("follower")' = ReceiptOf("follower")
   BY <2>6, SameReceipt, Ends
 <2>8. (FollowerFailed' <=> FollowerFailed) /\ (Unequal' <=> Unequal) /\ (Agreed' <=> Agreed)
       /\ Theirs' = Theirs /\ (Booted' <=> Booted) /\ Asked' = Asked
   BY <2>6, <2>7 DEF FollowerFailed, Unequal, Agreed, Theirs, Booted, Asked, EpochAt
 <2>9. Receipts' BY <1>1, <2>5, <2>6, <2>7, <2>8 DEF Receipts, Ours, Ready
 <2>10. Hands' BY <1>1, <2>1, <2>4, <2>5, <2>6, <2>8 DEF Hands, Leaving
 <2>11. Requested'
  <3> SUFFICES ASSUME follower \in Serving PROVE Requested' BY <2>6 DEF Requested
  <3>1. /\ follower = "request" /\ moved["follower"] + Len(wire["follower"]) = moved["owner"]
        /\ \A i \in 1 .. Len(wire["follower"]) : wire["follower"][i] = Asked
        /\ moved["follower"] > 0 => held["follower"] = Asked
    BY <1>1, <2>1 DEF Requested
  <3>2. /\ Len(wire["follower"]) \in Nat /\ moved["follower"] \in Nat
        /\ moved["owner"] \in Nat /\ Pieces \in Nat
    BY Sizes
  <3> HIDE DEF IInv
  <3>3. \A i \in 1 .. Len(wire'["follower"]) : wire'["follower"][i] = Asked BY <2>4, <3>1, <3>2
  <3>4. moved'["follower"] + Len(wire'["follower"]) = moved["owner"] + 1 BY <2>4, <3>1, <3>2
  <3> QED BY <2>4, <2>5, <2>6, <2>8, <3>1, <3>2, <3>3, <3>4 DEF Requested
 <2>12. Phases' BY <1>1, <2>1, <2>5, <2>6, <2>8 DEF Phases, Leaving
 <2>13. Streams'
  <3>1. PICK a \in 0 .. Len(wire["owner"]) : Streamed(a) BY <1>1 DEF Streams, Ready
  <3>2. StreamOf(a)' /\ ~Expecting /\ ~Expecting'
    BY <1>1, <2>1, <2>4, <2>5, <2>6, <2>8, <3>1, Sizes DEF Streamed, StreamOf, Expecting
  <3>3. Drained(a) BY <1>1, <3>1, <3>2 DEF Streamed
  <3>4. Drained(a)' BY <2>4, <2>5, <2>6, <3>3, Numbers DEF Drained
  <3> QED BY <2>4, <3>2, <3>4 DEF Streams, Streamed
 <2>14. Verdicts' BY <1>1, <2>1, <2>5, <2>6, <2>8 DEF Verdicts, Leaving, NoCode
 <2> QED BY <1>1, <2>9, <2>10, <2>11, <2>12, <2>13, <2>14
<1> QED BY <1>2, <1>3 DEF OwnerSends

LEMMA OwnerStepsKeeps == IInv /\ OwnerSteps => IInv'
<1> SUFFICES ASSUME IInv, OwnerSteps PROVE IInv' OBVIOUS
<1> USE DEF IInv, OwnerAlone
<1>1. Typed' /\ owner = "step" /\ "owner" \in Process
      /\ UNCHANGED <<world, follower, moved, held, wire>>
  BY OwnerTyped, Ends DEF OwnerNext, OwnerSteps
<1>2. CASE Throw /\ UNCHANGED <<played, receipt>> BY <1>1, <1>2, ThrowKeeps DEF Leaving
<1>3. CASE /\ played' = Set(played, "owner", NextInput)
           /\ receipt' = Set(receipt, "owner",
                AdvanceReceipt(receipt["owner"], NextInput, CaptureAfter("owner")))
           /\ owner' = "compare" /\ UNCHANGED outcome
 <2>1. /\ played'["follower"] = played["follower"] /\ played'["owner"] = played["owner"] + 1
       /\ Theirs' = Theirs
       /\ Ours' = AdvanceReceipt(Ours, played["owner"] + 1, CaptureAfter("owner"))
   BY <1>3, Ends DEF Typed, Set, Theirs, Ours, NextInput
 <2>2. /\ Ours = ReceiptOf("owner") /\ outcome.code = NoCode /\ follower # "none"
   BY <1>1 DEF Verdicts, Receipts, Ready, Leaving, Hands
 <2>3. Ours' = ReceiptOf("owner")' BY <1>1, <1>3, <2>1, <2>2, NextReceipt DEF Ours, NextInput
 <2>4. ReceiptOf("follower")' = ReceiptOf("follower") BY <1>1, <2>1, SameReceipt, Ends
 <2>5. (FollowerFailed' <=> FollowerFailed) /\ (Booted' <=> Booted) /\ Asked' = Asked
       /\ (Idle' <=> Idle)
   BY <1>1, <2>1, <2>4 DEF FollowerFailed, Booted, Asked, EpochAt, Idle
 <2>6. Receipts' BY <1>1, <1>3, <2>1, <2>3, <2>5 DEF Receipts
 <2>7. Hands' BY <1>1, <1>3, <2>2, <2>5 DEF Hands, Leaving
 <2>8. Requested' BY <1>1, <1>3, <2>5 DEF Requested
 <2>9. Phases' BY <1>1, <1>3, <2>1, <2>5, Sizes DEF Phases, Leaving
 <2>10. Streams'
  <3>1. PICK a \in 0 .. Len(wire["owner"]) : Streamed(a) BY <1>1 DEF Streams, Ready
  <3>2. StreamOf(a)' /\ ~Expecting /\ ~Expecting' BY <1>1, <1>3, <2>1, <3>1 DEF Streamed, StreamOf, Expecting
  <3>3. ~FollowerFailed => Drained(a) /\ Drained(a)' BY <1>1, <1>3, <3>1, <3>2 DEF Streamed, Drained
  <3>4. Streamed(a)' BY <1>1, <1>3, <2>5, <3>2, <3>3 DEF Streamed
  <3> QED BY <1>1, <3>4 DEF Streams
 <2>11. Verdicts' BY <1>1, <1>3, <2>2 DEF Verdicts, Leaving, NoCode
 <2> QED BY <1>1, <2>6, <2>7, <2>8, <2>9, <2>10, <2>11
<1> QED BY <1>2, <1>3 DEF OwnerSteps
----
LEMMA StutterKeeps == IInv /\ UNCHANGED vars => IInv'
<1> SUFFICES ASSUME IInv, UNCHANGED vars PROVE IInv' OBVIOUS
<1> USE DEF IInv, vars
<1>1. Typed' /\ Receipts' /\ Hands'
  BY DEF Typed, Receipts, Hands, Ready, Ours, Booted, Theirs, ReceiptOf, Capture, EpochAt, FollowerFailed
<1>2. Requested' /\ Phases' /\ Verdicts'
  BY DEF Requested, Phases, Verdicts, Idle, Asked, Booted, Theirs, ReceiptOf, Capture, EpochAt,
         FollowerFailed, Agreed, Unequal
<1>3. Streams'
  BY DEF Streams, Streamed, StreamOf, Expecting, Coming, Drained, Sent, Ready, Booted, Theirs,
         ReceiptOf, Capture, EpochAt, FollowerFailed
<1> QED BY <1>1, <1>2, <1>3

\* The inductive invariant: what each process has sent, holds and has
\* found out at every step of the other.
THEOREM Invariance == Spec => []IInv
<1>1. IInv /\ [Next]_vars => IInv'
 <2>1. IInv /\ FollowerNext => IInv'
   BY BootKeeps, SendsKeeps, ReceivesKeeps, ChecksKeeps, StepsKeeps, FailsKeeps, GoneKeeps DEF FollowerNext
 <2>2. IInv /\ (FollowerCrashes \/ OwnerKilled) => IInv' BY GoneKeeps, LeavingKeeps
 <2>3. IInv /\ OwnerNext => IInv'
   BY StartKeeps, BuildsKeeps, OwnerReceivesKeeps, ComparesKeeps, JudgesKeeps, OwnerSendsKeeps,
      OwnerStepsKeeps, LeavingKeeps DEF OwnerNext
 <2>4. IInv /\ (Done \/ UNCHANGED vars) => IInv' BY StutterKeeps DEF Done
 <2> QED BY <2>1, <2>2, <2>3, <2>4 DEF Next
<1> QED BY <1>1, InitIInv, PTL DEF Spec

LEMMA InLockStep == IInv => LockStep
<1> SUFFICES ASSUME IInv PROVE LockStep OBVIOUS
<1> USE DEF IInv
<1>1. CASE owner \in {"start", "fork"} BY <1>1 DEF Receipts, Hands, LockStep
<1>2. CASE owner \in {"build", "initial"} BY <1>2 DEF Receipts, Phases, LockStep
<1>3. CASE owner \in {"compare", "judge", "advance", "report", "reply", "step"} BY <1>3 DEF Phases, LockStep
<1>4. CASE owner \in Leaving BY <1>4 DEF Phases, LockStep, Leaving
<1> QED BY <1>1, <1>2, <1>3, <1>4 DEF Typed, OwnerStep

\* The follower has made the owner's updates, or the one more the owner is
\* about to make, or the one less for which it reported its failure: never
\* an input the owner has not committed to (shadow_follow.cpp).
THEOREM WorldsInStep == Spec => []LockStep
BY Invariance, InLockStep, PTL

LEMMA Honest == IInv => HonestReport
BY DEF IInv, Verdicts, Agreed, HonestReport

\* The exit code is honest: 0 and 4 vouch that the worlds agreed after
\* every update counted, 3 comes from a world that differs or a child that
\* failed, in whatever pieces its receipt or its failure arrived.
THEOREM ReportHonest == Spec => []HonestReport
BY Invariance, Honest, PTL
----
\* The practice entry (PracticeEntry).
EntrySpec == EntryInit /\ [][EntryNext]_entryVars

LogEntry == [at : Seq(Int), op : STRING, arg : Int, drawn : Int, born : Int]
Boards == [1..EventCount -> Int]
Drafts == [open : {TRUE}, time : Int, pc : Int, board : Boards, examined : Int, log : Seq(LogEntry)]
CallFrames == [sub : Int, pc : Int, time : Int, local : Int]
Scripts == [sub : Int, pc : Int, frames : Seq(CallFrames), time : Int, local : Int, shared : Int, executed : Int,
            pending : BOOLEAN, end : {"no", "error", "died", "returned"}]
CallPhases == {"handoff", "timeline", "script"}
Calls == [phase : CallPhases, given : SUBSET {"rng", "player", "effects"},
          observed : [{"boss", "suppressed", "busy", "events"} -> {"unknown", "no", "yes"}], limit : Limits, handoffs : Int]

EntryTypes ==
  /\ timeline \in Timelines
  /\ clock \in [time : Int, pc : Int, pending : BOOLEAN]
  /\ board \in Boards
  /\ draft = NoDraft \/ draft \in Drafts
  /\ actors \in [1..ActorCount -> Int]
  /\ spawn \in 0..ActorCount
  /\ script \in Scripts
  /\ shared \in Int /\ rng \in Int /\ births \in Int
  /\ call = NoCall \/ call \in Calls
  /\ log \in Seq(LogEntry)

\* Who is at work, and where the programs are.
RootSub == IF script.frames = << >> THEN script.sub ELSE script.frames[1].sub
AtWork ==
  /\ clock.pc \in DOMAIN timeline /\ (clock.pending => clock.pc + 1 \in DOMAIN timeline)
  /\ draft.open => call.phase = "timeline" /\ draft.pc \in DOMAIN timeline /\ draft.pc >= clock.pc
  /\ draft.open /\ clock.pending => draft.log = << >>
  /\ call.phase = "timeline" => spawn = 0 /\ (~clock.pending => draft.open)
  /\ call.phase = "script" => spawn # 0
  /\ spawn # 0 => /\ clock.pending /\ actors[spawn] = clock.pc
                  /\ script.sub \in DOMAIN Subs /\ \A k \in DOMAIN script.frames : script.frames[k].sub \in DOMAIN Subs
                  /\ RootSub = timeline[clock.pc].arg
  /\ spawn = 0 => script = NoScript
PendingInCode ==
  script.pending => /\ script.pc \in DOMAIN Subs[script.sub]
                    /\ Subs[script.sub][script.pc].pass /\ Subs[script.sub][script.pc].time = script.time

\* The world, and the draft's, is what the log makes of the first one.
WorldLogged ==
  /\ WorldOf(log) = [rng |-> rng, births |-> births, board |-> board]
  /\ draft.open => WorldOf(log \o draft.log) = [rng |-> rng, births |-> births, board |-> draft.board]

\* Everything logged comes before the place the programs are at.
Place == IF spawn # 0 THEN Here ELSE << clock.pc >>
Ordered(entries) == \A n \in 1..Len(entries) - 1 : Before(entries[n].at, entries[n + 1].at)
Below(entries, at) == \A n \in DOMAIN entries : Before(entries[n].at, at)
LogOrdered == Ordered(log) /\ Below(log, Place)
DraftInOrder ==
  draft.open => /\ Ordered(draft.log) /\ Below(draft.log, << draft.pc >>)
                /\ \A n \in DOMAIN draft.log : \E q \in clock.pc..draft.pc - 1 : draft.log[n].at = << q >>
                /\ \A n \in DOMAIN draft.log : draft.log[n].op \in {"publish", "consume"}

\* What each activation of a script wrote last is what it holds.
WrittenBy(d) ==
  {n \in DOMAIN log : /\ log[n].op \in {"set", "draw"} /\ Len(log[n].at) = d + 2
                      /\ \A k \in 1..d + 1 : log[n].at[k] = Here[k]}
LocalOf(d) == IF d = Len(script.frames) THEN script.local ELSE script.frames[d + 1].local
LastOf(which, n) == n \in which /\ \A m \in which : m <= n
OwnAt(d) == \A n \in DOMAIN log : LastOf(WrittenBy(d), n) => log[n].arg = LocalOf(d)
OwnValues == spawn # 0 => \A d \in 0..Len(script.frames) : OwnAt(d)

\* What the scripts shared last is what they share.
SharesOf(entries) == {i \in DOMAIN entries : entries[i].op = "share"}
SharedLast(entries, v) ==
  /\ SharesOf(entries) = {} => v = 0
  /\ \A n \in DOMAIN entries : LastOf(SharesOf(entries), n) => entries[n].arg = v
SharedValues ==
  /\ spawn # 0 => SharedLast(log, script.shared)
  /\ call.phase # "script" \/ script.pending \/ script.end # "no" => SharedLast(log, shared)

\* What the running script has done of what no spawn of it leaves out.
DoneIn(entries, pc, p) == \E n \in DOMAIN entries : entries[n].at = << pc, p >>
DoneAt(pc, p) == DoneIn(log, pc, p)
RootPc == IF script.frames = << >> THEN script.pc ELSE script.frames[1].pc
AllDone == \A p \in Needed(RootSub) : DoneAt(clock.pc, p)
StraightOn ==
  /\ RootPc >= 1
  /\ \A q \in 1..RootPc - 1 : q \in DOMAIN Subs[RootSub] /\ Subs[RootSub][q].time = 0 /\ ~Stopper(Subs[RootSub][q])
  /\ \A p \in Needed(RootSub) : p < RootPc => DoneAt(clock.pc, p)
  /\ script.time = 0
  /\ script.frames # << >> =>
        /\ Len(script.frames) = 1 /\ script.frames[1].time = 0 /\ Leaf(script.sub)
        /\ RootPc \in DOMAIN Subs[RootSub] /\ Subs[RootSub][RootPc].time = 0 /\ ~Stopper(Subs[RootSub][RootPc])
        /\ Subs[RootSub][RootPc].op = "call"
Progress ==
  /\ spawn # 0 => AllDone \/ StraightOn
  /\ spawn # 0 /\ script.end = "died" => AllDone
Completed ==
  \A n \in DOMAIN log : log[n].op \in Spawns =>
    /\ Len(log[n].at) = 1 /\ log[n].at[1] <= clock.pc
    /\ log[n].at[1] = clock.pc => spawn # 0 /\ log[n].arg = RootSub
    /\ log[n].at[1] < clock.pc => \A p \in Needed(log[n].arg) : DoneAt(log[n].at[1], p)

Owners ==
  /\ \A a \in DOMAIN actors : actors[a] # 0 => actors[a] <= clock.pc /\ (actors[a] = clock.pc => a = spawn)
  /\ \A a, b \in DOMAIN actors : actors[a] # 0 /\ actors[a] = actors[b] => a = b

EntryInv ==
  /\ EntryTypes /\ AtWork /\ PendingInCode /\ WorldLogged /\ DraftInOrder /\ (Loopless => LogOrdered /\ OwnValues)
  /\ SharedValues /\ Progress /\ Completed /\ Owners
----
Below1 == {pair \in Nat \X Nat : pair[1] < pair[2]}

\* A non-empty set of naturals has a least element, and one below a bound
\* has a greatest.
LEMMA LeastElement ==
  ASSUME NEW S, S \subseteq Nat, S # {}
  PROVE  \E n \in S : \A m \in S : n <= m
<1>1. IsWellFoundedOn(Below1, Nat) BY NatLessThanWellFounded, Zenon DEF Below1, OpToRel
<1>2. PICK n \in S : \A m \in S : ~ (<<m, n>> \in Below1) BY <1>1, WFMin
<1>3. ASSUME NEW m \in S PROVE n <= m
 <2>1. m \in Nat /\ n \in Nat /\ <<m, n>> \in Nat \X Nat OBVIOUS
 <2>2. ~ (m < n) BY <1>2, <2>1 DEF Below1
 <2> QED BY <2>1, <2>2
<1> QED BY <1>3

LEMMA GreatestElement ==
  ASSUME NEW n \in Nat, NEW S, S \subseteq 0 .. n, S # {}
  PROVE  \E m \in S : \A k \in S : k <= m
<1> DEFINE T == {n - k : k \in S}
<1>1. T \subseteq Nat /\ T # {} OBVIOUS
<1>2. PICK t \in T : \A u \in T : t <= u BY <1>1, LeastElement
<1>3. PICK m \in S : t = n - m OBVIOUS
<1>4. ASSUME NEW k \in S PROVE k <= m
 <2>1. n - k \in T OBVIOUS
 <2>2. t <= n - k BY <1>2, <2>1
 <2> QED BY <1>3, <2>2
<1> QED BY <1>4

LEMMA MaxOf ==
  ASSUME NEW n \in Nat, NEW S, S \subseteq 0 .. n, S # {}
  PROVE  Max(S) \in S /\ \A k \in S : k <= Max(S)
<1> DEFINE Top(y) == y \in S /\ \A z \in S : y >= z
<1>1. PICK m \in S : \A k \in S : k <= m BY GreatestElement
<1>2. Max(S) = CHOOSE y : Top(y) BY DEF Max
<1>3. Top(CHOOSE y : Top(y))
 <2>1. Top(m) BY <1>1
 <2> HIDE DEF Top
 <2> QED BY <2>1, Zenon
<1>4. Top(Max(S)) BY <1>2, <1>3
<1> QED BY <1>4

\* Counting up to n.
LEMMA CountUp ==
  ASSUME NEW n \in Nat, NEW S, 0 \in S, \A k \in 0 .. n - 1 : k \in S => k + 1 \in S
  PROVE  \A k \in 0 .. n : k \in S
<1> DEFINE Out == {k \in 0 .. n : k \notin S}
<1>1. ASSUME Out # {} PROVE FALSE
 <2>1. PICK k \in Out : \A j \in Out : k <= j
  <3>1. Out \subseteq Nat OBVIOUS
  <3> QED BY <1>1, <3>1, LeastElement
 <2>2. k \in 0 .. n /\ k # 0 /\ k - 1 \in 0 .. n - 1 /\ k - 1 \in 0 .. n /\ (k - 1) + 1 = k BY <2>1
 <2>3. k - 1 \notin Out BY <2>1, <2>2
 <2> QED BY <2>1, <2>2, <2>3
<1> QED BY <1>1
----
\* The world a log makes, step by step.
Unfolds(s, f) == f = [n \in 0 .. Len(s) |-> IF n = 0 THEN FirstWorld ELSE AfterEntry(f[n - 1], s[n])]

LEMMA WorldIs ==
  ASSUME NEW s \in Seq(LogEntry)
  PROVE  \E f : Unfolds(s, f) /\ WorldOf(s) = f[Len(s)]
<1> DEFINE l == Len(s)
           Solves(f) == f = [n \in 0 .. l |-> IF n = 0 THEN FirstWorld ELSE AfterEntry(f[n - 1], s[n])]
<1>1. l \in Nat OBVIOUS
<1>2. \E f : Solves(f)
 <2> DEFINE Agrees(m, f) == f[0] = FirstWorld /\ \A k \in 1 .. m : f[k] = AfterEntry(f[k - 1], s[k])
            S == {m \in 0 .. l : \E f : f = [k \in 0 .. m |-> f[k]] /\ Agrees(m, f)}
 <2> HIDE DEF l
 <2>1. 0 \in S
  <3> DEFINE e == [k \in 0 .. 0 |-> FirstWorld]
  <3>1. Agrees(0, e) /\ e = [k \in 0 .. 0 |-> e[k]] OBVIOUS
  <3> HIDE DEF e, Agrees
  <3> QED BY <1>1, <3>1
 <2>2. ASSUME NEW m \in 0 .. l - 1, m \in S PROVE m + 1 \in S
  <3>1. PICK f : f = [k \in 0 .. m |-> f[k]] /\ Agrees(m, f) BY <2>2
  <3> DEFINE g == [k \in 0 .. m + 1 |-> IF k = m + 1 THEN AfterEntry(f[m], s[m + 1]) ELSE f[k]]
  <3>2. ASSUME NEW k \in 1 .. m + 1 PROVE g[k] = AfterEntry(g[k - 1], s[k])
   <4>1. CASE k = m + 1
    <5>1. k - 1 = m /\ m \in 0 .. m + 1 /\ m # m + 1 /\ m + 1 \in 0 .. m + 1 BY <4>1
    <5>2. g[m] = f[m] /\ g[m + 1] = AfterEntry(f[m], s[m + 1]) BY <5>1
    <5> QED BY <4>1, <5>1, <5>2
   <4>2. CASE k # m + 1
    <5>1. k \in 1 .. m /\ k - 1 # m + 1 /\ k \in 0 .. m + 1 /\ k - 1 \in 0 .. m + 1 BY <4>2
    <5>2. g[k] = f[k] /\ g[k - 1] = f[k - 1] BY <4>2, <5>1
    <5> QED BY <3>1, <5>1, <5>2
   <4> QED BY <4>1, <4>2
  <3>3. g[0] = f[0] /\ g = [k \in 0 .. m + 1 |-> g[k]]
   <4>1. 0 \in 0 .. m + 1 /\ 0 # m + 1 OBVIOUS
   <4> QED BY <4>1
  <3>4. Agrees(m + 1, g) BY <3>1, <3>2, <3>3
  <3>5. m + 1 \in 0 .. l BY <1>1
  <3> HIDE DEF g, Agrees
  <3> QED BY <3>3, <3>4, <3>5
 <2> HIDE DEF S
 <2>3. l \in S
  <3>1. \A m \in 0 .. l : m \in S BY <1>1, <2>1, <2>2, CountUp
  <3> QED BY <1>1, <3>1
 <2>4. PICK f : f = [k \in 0 .. l |-> f[k]] /\ Agrees(l, f) BY <2>3 DEF S
 <2>5. ASSUME NEW k \in 0 .. l PROVE f[k] = IF k = 0 THEN FirstWorld ELSE AfterEntry(f[k - 1], s[k])
  <3>1. CASE k = 0 BY <2>4, <3>1
  <3>2. CASE k # 0
   <4>1. k \in 1 .. l BY <1>1, <3>2
   <4>2. f[k] = AfterEntry(f[k - 1], s[k]) BY <2>4, <4>1
   <4> QED BY <3>2, <4>2, Zenon
  <3> QED BY <3>1, <3>2
 <2>6. Solves(f) BY <2>4, <2>5
 <2> HIDE DEF Solves
 <2> QED BY <2>6
<1> DEFINE g == CHOOSE h : Solves(h)
<1>3. WorldOf(s) = g[l] BY DEF WorldOf
<1>4. \A f : Solves(f) <=> Unfolds(s, f) BY DEF Unfolds
<1> HIDE DEF Solves
<1>5. Solves(g) BY <1>2, Zenon
<1> HIDE DEF g
<1>6. Unfolds(s, g) BY <1>4, <1>5
<1> QED BY <1>3, <1>6 DEF l

LEMMA WorldOfNone == WorldOf(<< >>) = FirstWorld
<1>1. << >> \in Seq(LogEntry) /\ Len(<< >>) = 0 OBVIOUS
<1>2. PICK f : Unfolds(<< >>, f) /\ WorldOf(<< >>) = f[Len(<< >>)] BY <1>1, WorldIs
<1>3. f[0] = FirstWorld BY <1>1, <1>2 DEF Unfolds
<1> QED BY <1>1, <1>2, <1>3

LEMMA WorldOfMore ==
  ASSUME NEW s \in Seq(LogEntry), NEW e \in LogEntry
  PROVE  WorldOf(Append(s, e)) = AfterEntry(WorldOf(s), e)
<1> DEFINE t == Append(s, e)
           n == Len(s)
<1>1. /\ t \in Seq(LogEntry) /\ n \in Nat /\ Len(t) = n + 1 /\ t[n + 1] = e
      /\ \A k \in 1 .. n : t[k] = s[k]
  OBVIOUS
<1> HIDE DEF t
<1>2. PICK f : Unfolds(s, f) /\ WorldOf(s) = f[n] BY WorldIs
<1>3. PICK g : Unfolds(t, g) /\ WorldOf(t) = g[n + 1] BY <1>1, WorldIs
<1> HIDE DEF n
<1>4. f[0] = FirstWorld /\ g[0] = FirstWorld
 <2>1. 0 \in 0 .. n /\ 0 \in 0 .. n + 1 BY <1>1
 <2> QED BY <1>1, <1>2, <1>3, <2>1 DEF Unfolds, n
<1>5. ASSUME NEW k \in 1 .. n PROVE f[k] = AfterEntry(f[k - 1], s[k]) /\ g[k] = AfterEntry(g[k - 1], s[k])
 <2>1. k \in 0 .. n /\ k \in 0 .. n + 1 /\ k # 0 /\ t[k] = s[k] BY <1>1
 <2> QED BY <1>1, <1>2, <1>3, <2>1 DEF Unfolds, n
<1>6. g[n + 1] = AfterEntry(g[n], e)
 <2>1. n + 1 \in 0 .. n + 1 /\ n + 1 # 0 /\ (n + 1) - 1 = n BY <1>1
 <2> QED BY <1>1, <1>3, <2>1 DEF Unfolds
<1> DEFINE S == {k \in 0 .. n : g[k] = f[k]}
<1>7. 0 \in S BY <1>1, <1>4
<1>8. \A k \in 0 .. n - 1 : k \in S => k + 1 \in S
 <2> SUFFICES ASSUME NEW k \in 0 .. n - 1, k \in S PROVE k + 1 \in S OBVIOUS
 <2>1. k + 1 \in 1 .. n /\ (k + 1) - 1 = k /\ k + 1 \in 0 .. n BY <1>1
 <2> QED BY <1>5, <2>1
<1> HIDE DEF S
<1>9. \A k \in 0 .. n : k \in S BY <1>1, <1>7, <1>8, CountUp
<1>10. g[n] = f[n] BY <1>1, <1>9 DEF S
<1> QED BY <1>2, <1>3, <1>6, <1>10 DEF t
----
\* Program order is transitive.
LEMMA BeforeBefore ==
  ASSUME NEW a \in Seq(Int), NEW b \in Seq(Int), NEW c \in Seq(Int), Before(a, b), Before(b, c)
  PROVE  Before(a, c)
<1>1. PICK k \in DOMAIN b : (\A j \in 1..k - 1 : j \in DOMAIN a /\ a[j] = b[j]) /\ (k \in DOMAIN a => a[k] < b[k])
  BY DEF Before
<1>2. PICK m \in DOMAIN c : (\A j \in 1..m - 1 : j \in DOMAIN b /\ b[j] = c[j]) /\ (m \in DOMAIN b => b[m] < c[m])
  BY DEF Before
<1>3. /\ DOMAIN a = 1 .. Len(a) /\ DOMAIN b = 1 .. Len(b) /\ DOMAIN c = 1 .. Len(c)
      /\ Len(a) \in Nat /\ Len(b) \in Nat /\ Len(c) \in Nat
      /\ \A j \in DOMAIN a : a[j] \in Int
      /\ \A j \in DOMAIN b : b[j] \in Int
      /\ \A j \in DOMAIN c : c[j] \in Int
  OBVIOUS
<1>4. k \in Nat /\ m \in Nat /\ k >= 1 /\ m >= 1 BY <1>3
<1>5. CASE k < m
 <2>1. k \in 1 .. m - 1 /\ k \in DOMAIN c BY <1>3, <1>4, <1>5
 <2>2. \A j \in 1 .. k - 1 : j \in DOMAIN a /\ a[j] = c[j]
  <3> TAKE j \in 1 .. k - 1
  <3>1. j \in 1 .. m - 1 BY <1>4, <1>5
  <3>2. j \in DOMAIN a /\ a[j] = b[j] BY <1>1
  <3>3. b[j] = c[j] BY <1>2, <3>1
  <3> QED BY <3>2, <3>3
 <2>3. k \in DOMAIN a => a[k] < c[k] BY <1>1, <1>2, <2>1
 <2> QED BY <2>1, <2>2, <2>3 DEF Before
<1>6. CASE k >= m
 <2>1. \A j \in 1 .. m - 1 : j \in DOMAIN a /\ a[j] = c[j]
  <3> TAKE j \in 1 .. m - 1
  <3>1. j \in 1 .. k - 1 BY <1>4, <1>6
  <3>2. j \in DOMAIN a /\ a[j] = b[j] BY <1>1, <3>1
  <3>3. b[j] = c[j] BY <1>2
  <3> QED BY <3>2, <3>3
 <2>2. m \in DOMAIN b BY <1>3, <1>4, <1>6
 <2>3. m \in DOMAIN a => a[m] < c[m]
  <3>1. CASE m = k BY <1>1, <1>2, <1>3, <2>2, <3>1
  <3>2. CASE m # k
   <4>1. m \in 1 .. k - 1 BY <1>4, <1>6, <3>2
   <4> QED BY <1>1, <1>2, <2>2, <4>1
  <3> QED BY <3>1, <3>2
 <2> QED BY <2>1, <2>3 DEF Before
<1> QED BY <1>4, <1>5, <1>6
----
\* What a decoded timeline and decoded scripts are.
LEMMA Decoded ==
  /\ \A t \in Timelines : /\ t \in Seq(Command) /\ Len(t) \in Nat /\ DOMAIN t = 1 .. Len(t) /\ Len(t) >= 1
                          /\ t[Len(t)].time < 0 /\ \A p \in DOMAIN t : t[p] \in Command
  /\ EventCount \in Nat /\ ActorCount \in Nat /\ PoolRoom \in Nat /\ MaxCalls \in Nat
  /\ Subs \in Seq(Seq(Instruction))
  /\ \A sub \in DOMAIN Subs : /\ Subs[sub] \in Seq(Instruction) /\ DOMAIN Subs[sub] = 1 .. Len(Subs[sub])
                              /\ Len(Subs[sub]) \in Nat
                              /\ \A p \in DOMAIN Subs[sub] : Subs[sub][p] \in Instruction
  /\ DOMAIN Subs \subseteq Nat \ {0}
<1>1. \A t \in Timelines : t \in Seq(Command) /\ t # << >> /\ t[Len(t)].time < 0 BY EntryAssumption
<1>2. \A t \in Timelines : Len(t) \in Nat /\ DOMAIN t = 1 .. Len(t) /\ Len(t) >= 1 /\ \A p \in DOMAIN t : t[p] \in Command
  BY <1>1
<1>3. Subs \in Seq(Seq(Instruction)) BY EntryAssumption
<1>4. DOMAIN Subs \subseteq Nat \ {0} /\ \A sub \in DOMAIN Subs : Subs[sub] \in Seq(Instruction) BY <1>3
<1>5. \A sub \in DOMAIN Subs : /\ DOMAIN Subs[sub] = 1 .. Len(Subs[sub]) /\ Len(Subs[sub]) \in Nat
                               /\ \A p \in DOMAIN Subs[sub] : Subs[sub][p] \in Instruction
  BY <1>4
<1> QED BY EntryAssumption, <1>1, <1>2, <1>3, <1>4, <1>5

\* The place in a script, command by command and call by call.
At(c, s) == << c >> \o [k \in DOMAIN s.frames |-> s.frames[k].pc] \o << s.pc >>

LEMMA AtIs ==
  ASSUME NEW c \in Int, NEW s \in Scripts
  PROVE  /\ At(c, s) \in Seq(Int) /\ Len(At(c, s)) = Len(s.frames) + 2 /\ Len(s.frames) \in Nat
         /\ At(c, s)[1] = c /\ At(c, s)[Len(s.frames) + 2] = s.pc
         /\ \A k \in 1 .. Len(s.frames) : At(c, s)[k + 1] = s.frames[k].pc
<1> DEFINE frames == s.frames
           pcs == [k \in DOMAIN frames |-> frames[k].pc]
           n == Len(frames)
<1>1. frames \in Seq(CallFrames) /\ s.pc \in Int BY DEF Scripts
<1>2. n \in Nat /\ DOMAIN frames = 1 .. n /\ \A k \in 1 .. n : frames[k] \in CallFrames BY <1>1
<1>3. pcs \in Seq(Int) /\ Len(pcs) = n /\ \A k \in 1 .. n : pcs[k] = frames[k].pc
 <2>1. \A k \in 1 .. n : frames[k].pc \in Int BY <1>2 DEF CallFrames
 <2>2. pcs = [k \in 1 .. n |-> frames[k].pc] BY <1>2
 <2>3. pcs \in [1 .. n -> Int] BY <2>1, <2>2
 <2> QED BY <1>2, <2>2, <2>3
<1>4. At(c, s) = << c >> \o pcs \o << s.pc >> BY DEF At
<1> HIDE DEF pcs, n
<1>5. << c >> \o pcs \in Seq(Int) /\ Len(<< c >> \o pcs) = n + 1
      /\ (<< c >> \o pcs)[1] = c /\ \A k \in 1 .. n : (<< c >> \o pcs)[k + 1] = pcs[k]
  BY <1>1, <1>2, <1>3
<1> DEFINE front == << c >> \o pcs
<1> HIDE DEF front
<1>6. /\ front \in Seq(Int) /\ Len(front) = n + 1 /\ front[1] = c /\ \A k \in 1 .. n : front[k + 1] = pcs[k]
      /\ At(c, s) = front \o << s.pc >>
  BY <1>4, <1>5 DEF front
<1>7. At(c, s) \in Seq(Int) /\ Len(At(c, s)) = n + 2 /\ At(c, s)[n + 2] = s.pc /\ \A k \in 1 .. n + 1 : At(c, s)[k] = front[k]
  BY <1>1, <1>2, <1>6
<1>8. At(c, s)[1] = c /\ \A k \in 1 .. n : At(c, s)[k + 1] = front[k + 1] BY <1>2, <1>6, <1>7
<1> QED BY <1>2, <1>3, <1>6, <1>7, <1>8 DEF n

LEMMA HereIs ==
  ASSUME EntryTypes
  PROVE  /\ Here \in Seq(Int) /\ Len(Here) = Len(script.frames) + 2 /\ Len(script.frames) \in Nat
         /\ Here[1] = clock.pc /\ Here[Len(script.frames) + 2] = script.pc
         /\ \A k \in 1 .. Len(script.frames) : Here[k + 1] = script.frames[k].pc
<1>1. clock.pc \in Int /\ script \in Scripts BY DEF EntryTypes
<1>2. Here = At(clock.pc, script) BY DEF Here, At
<1> QED BY <1>1, <1>2, AtIs

LEMMA HereNext ==
  ASSUME EntryTypes'
  PROVE  /\ Here' \in Seq(Int) /\ Len(Here') = Len(script'.frames) + 2 /\ Len(script'.frames) \in Nat
         /\ Here'[1] = clock'.pc /\ Here'[Len(script'.frames) + 2] = script'.pc
         /\ \A k \in 1 .. Len(script'.frames) : Here'[k + 1] = script'.frames[k].pc
<1>1. clock'.pc \in Int /\ script' \in Scripts BY DEF EntryTypes
<1>2. Here' = At(clock'.pc, script') BY DEF Here, At
<1> QED BY <1>1, <1>2, AtIs
----
\* Types, and who is at work, action by action.
Core == EntryTypes /\ AtWork

LEMMA CoreAtFirst == EntryInit => Core
<1> SUFFICES ASSUME EntryInit PROVE Core OBVIOUS
<1>1. EntryTypes
 <2>1. NoScript \in Scripts BY DEF NoScript, Scripts
 <2>2. board \in Boards /\ actors \in [1..ActorCount -> Int] /\ spawn \in 0..ActorCount
   BY Decoded DEF EntryInit, Boards
 <2> QED BY <2>1, <2>2 DEF EntryInit, EntryTypes, NoDraft, NoCall
<1>2. AtWork BY Decoded DEF EntryInit, AtWork, NoDraft, NoCall
<1> QED BY <1>1, <1>2 DEF Core

LEMMA CoreAdvance ==
  ASSUME Core, NEW given \in SUBSET {"rng", "player", "effects"}, NEW limit \in Limits,
         NEW observed \in [{"boss", "suppressed", "busy", "events"} -> {"unknown", "no", "yes"}],
         Advance(given, observed, limit)
  PROVE  Core'
<1>1. call' \in Calls BY DEF Advance, Calls, CallPhases
<1> QED BY <1>1 DEF Core, EntryTypes, AtWork, RootSub, Advance, NoCall, NoDraft

LEMMA CoreHandoff == ASSUME Core, Handoff PROVE Core'
<1>1. call \in Calls BY DEF Core, EntryTypes, Handoff, NoCall
<1>2. draft' = NoDraft \/ draft' \in Drafts
 <2>1. << >> \in Seq(LogEntry) /\ clock.time \in Int /\ clock.pc \in Int /\ board \in Boards
   BY DEF Core, EntryTypes
 <2>2. [open |-> TRUE, time |-> clock.time, pc |-> clock.pc, board |-> board, examined |-> 0, log |-> << >>] \in Drafts
   BY <2>1 DEF Drafts
 <2>3. \/ UNCHANGED draft
       \/ draft' = [open |-> TRUE, time |-> clock.time, pc |-> clock.pc, board |-> board, examined |-> 0, log |-> << >>]
   BY DEF Handoff
 <2> QED BY <2>2, <2>3 DEF Core, EntryTypes
<1>3. call' = NoCall \/ call' \in Calls BY <1>1 DEF Handoff, Calls, CallPhases, Return
<1>4. EntryTypes' BY <1>2, <1>3 DEF Core, EntryTypes, Handoff
<1> QED BY <1>1, <1>4 DEF Core, EntryTypes, AtWork, RootSub, Handoff, NoCall, NoDraft, Return, Calls, CallPhases

\* A timeline's order that is run is not its last one.
LEMMA NotTheLast ==
  ASSUME Core, Running
  PROVE  /\ draft \in Drafts /\ draft.open /\ draft.pc \in DOMAIN timeline /\ draft.pc + 1 \in DOMAIN timeline
         /\ Order \in Command /\ call \in Calls /\ ~clock.pending /\ call.phase = "timeline" /\ spawn = 0
<1>1. call \in Calls /\ call.phase = "timeline" /\ ~clock.pending /\ spawn = 0
  BY DEF Core, EntryTypes, AtWork, Running, InTimeline, NoCall
<1>2. draft.open /\ draft \in Drafts /\ draft.pc \in DOMAIN timeline
  BY <1>1 DEF Core, EntryTypes, AtWork, NoDraft
<1>3. timeline \in Timelines BY DEF Core, EntryTypes
<1>4. Order \in Command /\ ~(Order.time < 0) BY <1>2, <1>3, Decoded DEF Order, Running, AtBoundary
<1>5. draft.pc # Len(timeline) BY <1>3, <1>4, Decoded DEF Order
<1>6. draft.pc + 1 \in DOMAIN timeline BY <1>2, <1>3, <1>5, Decoded
<1> QED BY <1>1, <1>2, <1>4, <1>6

LEMMA CoreForward ==
  ASSUME Core, Running, NEW events \in Boards, NEW entries \in Seq(LogEntry), Forward(events, entries)
  PROVE  Core'
<1>1. /\ draft \in Drafts /\ draft.open /\ draft.pc \in DOMAIN timeline /\ draft.pc + 1 \in DOMAIN timeline
      /\ call \in Calls /\ ~clock.pending /\ call.phase = "timeline" /\ spawn = 0
  BY NotTheLast
<1>2. draft.log \o entries \in Seq(LogEntry) BY <1>1 DEF Drafts
<1>3. draft' \in Drafts /\ draft'.pc = draft.pc + 1
 <2>1. /\ DOMAIN draft = {"open", "time", "pc", "board", "examined", "log"}
       /\ draft.open = TRUE /\ draft.time \in Int /\ draft.pc + 1 \in Int /\ draft.examined + 1 \in Int
   BY <1>1 DEF Drafts
 <2>2. draft' = [draft EXCEPT !.pc = draft.pc + 1, !.examined = draft.examined + 1, !.board = events,
                              !.log = draft.log \o entries]
   BY DEF Forward
 <2>3. draft' = [open |-> TRUE, time |-> draft.time, pc |-> draft.pc + 1, board |-> events,
                 examined |-> draft.examined + 1, log |-> draft.log \o entries]
   BY <1>1, <2>2 DEF Drafts
 <2> QED BY <1>2, <2>1, <2>3 DEF Drafts
<1>4. EntryTypes' BY <1>3 DEF Core, EntryTypes, Forward
<1>5. draft.pc \in Int /\ clock.pc \in Int BY <1>1 DEF Core, EntryTypes, Drafts
<1> QED BY <1>1, <1>3, <1>4, <1>5 DEF Core, EntryTypes, AtWork, RootSub, Forward

LEMMA CoreRefuse == ASSUME Core, Refuse PROVE Core'
BY DEF Core, EntryTypes, AtWork, RootSub, Refuse, Return, NoDraft, NoCall

LEMMA CoreCall ==
  ASSUME Core, call # NoCall
  PROVE  /\ call \in Calls
         /\ [call EXCEPT !.phase = "handoff", !.handoffs = @ + 1] \in Calls
         /\ [call EXCEPT !.phase = "handoff", !.handoffs = @ + 1].phase = "handoff"
         /\ [call EXCEPT !.phase = "timeline"] \in Calls
         /\ [call EXCEPT !.phase = "timeline"].phase = "timeline"
<1>1. call \in Calls BY DEF Core, EntryTypes
<1>2. call.handoffs + 1 \in Int BY <1>1 DEF Calls
<1>3. [call EXCEPT !.phase = "handoff", !.handoffs = @ + 1]
         = [phase |-> "handoff", given |-> call.given, observed |-> call.observed, limit |-> call.limit,
            handoffs |-> call.handoffs + 1]
 <2>1. DOMAIN call = {"phase", "given", "observed", "limit", "handoffs"} BY <1>1 DEF Calls
 <2>2. call = [f \in {"phase", "given", "observed", "limit", "handoffs"} |-> call[f]] BY <1>1 DEF Calls
 <2> DEFINE c == [call EXCEPT !.phase = "handoff", !.handoffs = @ + 1]
            d == [phase |-> "handoff", given |-> call.given, observed |-> call.observed, limit |-> call.limit,
                  handoffs |-> call.handoffs + 1]
 <2>3. c = [f \in DOMAIN c |-> c[f]] /\ d = [f \in DOMAIN d |-> d[f]] BY <2>2
 <2>4. DOMAIN c = DOMAIN d BY <2>1
 <2>5. \A f \in {"phase", "given", "observed", "limit", "handoffs"} : c[f] = d[f]
  <3>1. c["phase"] = d["phase"] /\ c["given"] = d["given"] /\ c["observed"] = d["observed"] /\ c["limit"] = d["limit"]
    BY <2>1
  <3>2. c["handoffs"] = call.handoffs + 1 BY <2>1
  <3>3. d["handoffs"] = call.handoffs + 1 OBVIOUS
  <3> HIDE DEF c, d
  <3> QED BY <3>1, <3>2, <3>3
 <2>6. DOMAIN c = {"phase", "given", "observed", "limit", "handoffs"} BY <2>1
 <2> HIDE DEF c, d
 <2>7. c = d BY <2>3, <2>4, <2>5, <2>6
 <2> QED BY <2>7 DEF c, d
<1>4. [call EXCEPT !.phase = "timeline"]
         = [phase |-> "timeline", given |-> call.given, observed |-> call.observed, limit |-> call.limit,
            handoffs |-> call.handoffs]
  BY <1>1 DEF Calls
<1> QED BY <1>1, <1>2, <1>3, <1>4 DEF Calls, CallPhases

\* The command before the last one is at work, or none.
LEMMA CorePending ==
  ASSUME Core, clock.pending, timeline[clock.pc].op \in Spawns
  PROVE  /\ clock.pc \in DOMAIN timeline /\ timeline[clock.pc] \in Command /\ clock.pc \in Nat /\ clock.pc >= 1
BY Decoded DEF Core, EntryTypes, AtWork

LEMMA FirstFree ==
  ASSUME Core, Begin
  PROVE  \E a \in 1..ActorCount : /\ actors[a] = 0 /\ actors' = [actors EXCEPT ![a] = clock.pc] /\ spawn' = a
                                  /\ spawn = 0 /\ clock.pending
                                  /\ timeline[clock.pc].op \in Spawns /\ timeline[clock.pc].arg \in DOMAIN Subs
BY DEF Core, EntryTypes, AtWork, Begin, Pending

LEMMA BeginIs ==
  ASSUME Core, Begin
  PROVE  \E a \in 1..ActorCount :
           /\ actors[a] = 0 /\ actors' = [actors EXCEPT ![a] = clock.pc] /\ spawn' = a /\ spawn' # 0
           /\ spawn = 0 /\ clock.pending
           /\ timeline[clock.pc].op \in Spawns /\ timeline[clock.pc].arg \in DOMAIN Subs
           /\ clock.pc \in DOMAIN timeline /\ timeline[clock.pc] \in Command /\ clock.pc \in Nat /\ clock.pc >= 1
           /\ call' \in Calls /\ call'.phase = "handoff"
           /\ script' \in Scripts /\ script'.sub = timeline[clock.pc].arg /\ script'.frames = << >> /\ script'.pc = 1
           /\ script'.shared = shared /\ script'.time = 0 /\ script'.end = "no" /\ script'.pending = FALSE
           /\ Entry(<<clock.pc>>, Pending, 0, 0) \in LogEntry
           /\ log' = Append(log, Entry(<<clock.pc>>, Pending, 0, 0)) /\ log' \in Seq(LogEntry)
           /\ actors' \in [1..ActorCount -> Int] /\ actors'[a] = clock.pc
<1>1. PICK a \in 1..ActorCount : /\ actors[a] = 0 /\ actors' = [actors EXCEPT ![a] = clock.pc] /\ spawn' = a
                                 /\ spawn = 0 /\ clock.pending
                                 /\ timeline[clock.pc].op \in Spawns /\ timeline[clock.pc].arg \in DOMAIN Subs
  BY FirstFree
<1>2. /\ clock.pc \in DOMAIN timeline /\ timeline[clock.pc] \in Command /\ clock.pc \in Nat /\ clock.pc >= 1
  BY <1>1, CorePending
<1>3. call # NoCall BY DEF Begin, NoCall
<1>4. call' \in Calls /\ call'.phase = "handoff" BY <1>3, CoreCall DEF Begin, NextHandoff
<1>5. script' = [NoScript EXCEPT !.sub = timeline[clock.pc].arg, !.pc = 1, !.shared = shared]
  BY DEF Begin, Pending
<1>6. /\ script' \in Scripts /\ script'.sub = timeline[clock.pc].arg /\ script'.frames = << >> /\ script'.pc = 1
      /\ script'.shared = shared /\ script'.time = 0 /\ script'.end = "no" /\ script'.pending = FALSE
 <2>1. timeline[clock.pc].arg \in Int /\ shared \in Int /\ << >> \in Seq(CallFrames)
   BY <1>2 DEF Core, EntryTypes, Command
 <2>2. script' = [sub |-> timeline[clock.pc].arg, pc |-> 1, frames |-> << >>, time |-> 0, local |-> 0, shared |-> shared,
                  executed |-> 0, pending |-> FALSE, end |-> "no"]
   BY <1>5 DEF NoScript
 <2> QED BY <2>1, <2>2 DEF Scripts
<1>7. Entry(<<clock.pc>>, Pending, 0, 0) \in LogEntry BY <1>2 DEF Entry, Pending, LogEntry, Command
<1>8. log' \in Seq(LogEntry) /\ log' = Append(log, Entry(<<clock.pc>>, Pending, 0, 0))
  BY <1>7 DEF Core, EntryTypes, Begin
<1>9. actors' \in [1..ActorCount -> Int] /\ actors'[a] = clock.pc BY <1>1, <1>2 DEF Core, EntryTypes
<1>10. spawn' # 0 BY <1>1
<1> HIDE DEF Entry
<1> QED BY <1>1, <1>2, <1>4, <1>6, <1>7, <1>8, <1>9, <1>10

LEMMA CoreBegin == ASSUME Core, Begin PROVE Core'
<1>1. PICK a \in 1..ActorCount :
           /\ actors[a] = 0 /\ actors' = [actors EXCEPT ![a] = clock.pc] /\ spawn' = a /\ spawn' # 0
           /\ spawn = 0 /\ clock.pending
           /\ timeline[clock.pc].op \in Spawns /\ timeline[clock.pc].arg \in DOMAIN Subs
           /\ clock.pc \in DOMAIN timeline /\ timeline[clock.pc] \in Command /\ clock.pc \in Nat /\ clock.pc >= 1
           /\ call' \in Calls /\ call'.phase = "handoff"
           /\ script' \in Scripts /\ script'.sub = timeline[clock.pc].arg /\ script'.frames = << >>
           /\ log' \in Seq(LogEntry)
           /\ actors' \in [1..ActorCount -> Int] /\ actors'[a] = clock.pc
  BY BeginIs
<1>2. draft' = NoDraft /\ UNCHANGED <<timeline, clock, board, shared, rng, births>> BY DEF Begin
<1>3. spawn' \in 0..ActorCount BY <1>1, Decoded
<1>4. EntryTypes' BY <1>1, <1>2, <1>3 DEF Core, EntryTypes
<1> QED BY <1>1, <1>4 DEF Core, AtWork, RootSub, Begin, NoDraft

LEMMA AcknowledgedIs ==
  ASSUME Core
  PROVE  Acknowledged \in [time : Int, pc : Int, pending : BOOLEAN] /\ Acknowledged.pc = clock.pc + 1
         /\ Acknowledged.pending = FALSE
<1>1. clock \in [time : Int, pc : Int, pending : BOOLEAN] BY DEF Core, EntryTypes
<1>2. DOMAIN clock = {"time", "pc", "pending"} /\ clock.time \in Int /\ clock.pc + 1 \in Int BY <1>1
<1>3. DOMAIN Acknowledged = {"time", "pc", "pending"} /\ Acknowledged = [f \in {"time", "pc", "pending"} |-> Acknowledged[f]]
  BY <1>2 DEF Acknowledged
<1>4. Acknowledged.time = clock.time /\ Acknowledged.pending = FALSE BY <1>2 DEF Acknowledged
<1>5. Acknowledged.pc = clock.pc + 1 BY <1>2 DEF Acknowledged
<1> HIDE DEF Acknowledged
<1> QED BY <1>2, <1>3, <1>4, <1>5

LEMMA CorePoolFull == ASSUME Core, PoolFull PROVE Core'
<1>1. /\ call # NoCall /\ call.phase = "timeline" /\ clock.pending /\ spawn = 0
  BY DEF PoolFull, NoCall, Core, AtWork
<1>2. call' \in Calls /\ call'.phase = "handoff" BY <1>1, CoreCall DEF PoolFull, NextHandoff
<1>3. clock' \in [time : Int, pc : Int, pending : BOOLEAN] /\ clock'.pc = clock.pc + 1 /\ clock'.pending = FALSE
  BY AcknowledgedIs DEF PoolFull
<1>4. EntryTypes' BY <1>2, <1>3 DEF Core, EntryTypes, PoolFull
<1> QED BY <1>1, <1>2, <1>3, <1>4 DEF Core, AtWork, RootSub, PoolFull, NoDraft
----
\* The instruction a script is at.
LEMMA AtInstruction ==
  ASSUME Core, call.phase = "script"
  PROVE  /\ spawn # 0 /\ spawn \in 1..ActorCount /\ call \in Calls /\ script \in Scripts /\ clock.pending
         /\ clock.pc \in DOMAIN timeline /\ clock.pc \in Nat /\ clock.pc >= 1
         /\ clock.pc + 1 \in DOMAIN timeline
         /\ actors[spawn] = clock.pc /\ RootSub = timeline[clock.pc].arg
         /\ script.sub \in DOMAIN Subs /\ script.frames \in Seq(CallFrames)
         /\ \A k \in DOMAIN script.frames : script.frames[k].sub \in DOMAIN Subs
         /\ draft = NoDraft /\ ~draft.open
         /\ script.pc \in DOMAIN Code => Op \in Instruction /\ script.pc \in Nat /\ script.pc >= 1
<1>1. call \in Calls BY DEF Core, EntryTypes, NoCall
<1>2. spawn # 0 /\ spawn \in 1..ActorCount /\ script \in Scripts /\ clock.pending /\ clock.pc \in DOMAIN timeline
      /\ clock.pc + 1 \in DOMAIN timeline /\ actors[spawn] = clock.pc /\ RootSub = timeline[clock.pc].arg
      /\ script.sub \in DOMAIN Subs /\ \A k \in DOMAIN script.frames : script.frames[k].sub \in DOMAIN Subs
  BY Decoded DEF Core, EntryTypes, AtWork
<1>3. clock.pc \in Nat /\ clock.pc >= 1 BY <1>2, Decoded DEF Core, EntryTypes
<1>4. draft = NoDraft /\ ~draft.open BY DEF Core, EntryTypes, AtWork, NoDraft, Drafts
<1>5. script.frames \in Seq(CallFrames) BY <1>2 DEF Scripts
<1>6. ASSUME script.pc \in DOMAIN Code PROVE Op \in Instruction /\ script.pc \in Nat /\ script.pc >= 1
  BY <1>2, <1>6, Decoded DEF Code, Op
<1> QED BY <1>1, <1>2, <1>3, <1>4, <1>5, <1>6

LEMMA CoreScript ==
  ASSUME Core, call.phase = "script",
         script' \in Scripts, script'.sub = script.sub, script'.frames = script.frames,
         shared' \in Int, rng' \in Int, births' \in Int, log' \in Seq(LogEntry),
         UNCHANGED <<timeline, clock, board, draft, actors, spawn, call>>
  PROVE  Core'
<1>1. EntryTypes' BY DEF Core, EntryTypes
<1>2. spawn # 0 BY AtInstruction
<1> QED BY <1>1, <1>2 DEF Core, AtWork, RootSub
----
\* A script record, field by field.
ScriptFields == {"sub", "pc", "frames", "time", "local", "shared", "executed", "pending", "end"}
Shaped(s) == s = [f \in ScriptFields |-> s[f]]

LEMMA IsScript ==
  ASSUME NEW s, Shaped(s), s.sub \in Int, s.pc \in Int, s.frames \in Seq(CallFrames), s.time \in Int, s.local \in Int,
         s.shared \in Int, s.executed \in Int, s.pending \in BOOLEAN, s.end \in {"no", "error", "died", "returned"}
  PROVE  s \in Scripts
BY DEF Shaped, ScriptFields, Scripts

LEMMA ScriptIs ==
  ASSUME NEW s \in Scripts
  PROVE  /\ Shaped(s) /\ DOMAIN s = ScriptFields
         /\ s.sub \in Int /\ s.pc \in Int /\ s.frames \in Seq(CallFrames) /\ s.time \in Int /\ s.local \in Int
         /\ s.shared \in Int /\ s.executed \in Int /\ s.pending \in BOOLEAN
         /\ s.end \in {"no", "error", "died", "returned"}
BY DEF Shaped, ScriptFields, Scripts

ScalarWritten(s, pc, local, given, executed) ==
  [[s EXCEPT !.pc = pc, !.local = local, !.shared = given] EXCEPT !.executed = executed]
Jumped(s, pc, time, executed) == [[s EXCEPT !.pc = pc, !.time = time] EXCEPT !.executed = executed]
Yielded(s, executed) == [[s EXCEPT !.pending = TRUE] EXCEPT !.executed = executed]
Called(s, frame, sub, local, executed) ==
  [[s EXCEPT !.frames = Append(@, frame), !.sub = sub, !.pc = 1, !.time = 0, !.local = local]
     EXCEPT !.executed = executed]
Returned(s, frames, frame, executed) ==
  [[s EXCEPT !.frames = frames, !.sub = frame.sub, !.pc = frame.pc + 1, !.time = frame.time, !.local = frame.local]
     EXCEPT !.executed = executed]

LEMMA ScalarWrites ==
  ASSUME NEW s \in Scripts, NEW pc \in Int, NEW local \in Int, NEW given \in Int, NEW executed \in Int,
         NEW t, t = ScalarWritten(s, pc, local, given, executed)
  PROVE  /\ t \in Scripts /\ t.pc = pc /\ t.local = local /\ t.shared = given
         /\ t.sub = s.sub /\ t.frames = s.frames /\ t.time = s.time /\ t.pending = s.pending /\ t.end = s.end
<1>1. DOMAIN s = ScriptFields BY ScriptIs
<1>2. DOMAIN t = ScriptFields /\ t = [f \in DOMAIN t |-> t[f]] BY <1>1 DEF ScalarWritten
<1>3. t.pc = pc /\ t.local = local /\ t.shared = given BY <1>1 DEF ScriptFields, ScalarWritten
<1>4. t.sub = s.sub /\ t.frames = s.frames /\ t.time = s.time BY <1>1 DEF ScriptFields, ScalarWritten
<1>5. t.pending = s.pending /\ t.end = s.end /\ t.executed = executed BY <1>1 DEF ScriptFields, ScalarWritten
<1>6. Shaped(t) BY <1>2 DEF Shaped
<1>7. t \in Scripts BY <1>3, <1>4, <1>5, <1>6, ScriptIs, IsScript
<1> QED BY <1>3, <1>4, <1>5, <1>7

LEMMA JumpWrites ==
  ASSUME NEW s \in Scripts, NEW pc \in Int, NEW time \in Int, NEW executed \in Int,
         NEW t, t = Jumped(s, pc, time, executed)
  PROVE  /\ t \in Scripts /\ t.pc = pc /\ t.time = time /\ t.local = s.local /\ t.shared = s.shared
         /\ t.sub = s.sub /\ t.frames = s.frames /\ t.pending = s.pending /\ t.end = s.end
<1>1. DOMAIN s = ScriptFields BY ScriptIs
<1>2. DOMAIN t = ScriptFields /\ t = [f \in DOMAIN t |-> t[f]] BY <1>1 DEF Jumped
<1>3. t.pc = pc /\ t.time = time /\ t.shared = s.shared BY <1>1 DEF ScriptFields, Jumped
<1>4. t.sub = s.sub /\ t.frames = s.frames /\ t.local = s.local BY <1>1 DEF ScriptFields, Jumped
<1>5. t.pending = s.pending /\ t.end = s.end /\ t.executed = executed BY <1>1 DEF ScriptFields, Jumped
<1>6. Shaped(t) BY <1>2 DEF Shaped
<1>7. t \in Scripts BY <1>3, <1>4, <1>5, <1>6, ScriptIs, IsScript
<1> QED BY <1>3, <1>4, <1>5, <1>7

LEMMA YieldWrites ==
  ASSUME NEW s \in Scripts, NEW executed \in Int, NEW t, t = Yielded(s, executed)
  PROVE  /\ t \in Scripts /\ t.pending = TRUE /\ t.pc = s.pc /\ t.time = s.time /\ t.local = s.local
         /\ t.shared = s.shared /\ t.sub = s.sub /\ t.frames = s.frames /\ t.end = s.end
<1>1. DOMAIN s = ScriptFields BY ScriptIs
<1>2. DOMAIN t = ScriptFields /\ t = [f \in DOMAIN t |-> t[f]] BY <1>1 DEF Yielded
<1>3. t.pc = s.pc /\ t.time = s.time /\ t.shared = s.shared BY <1>1 DEF ScriptFields, Yielded
<1>4. t.sub = s.sub /\ t.frames = s.frames /\ t.local = s.local BY <1>1 DEF ScriptFields, Yielded
<1>5. t.pending = TRUE /\ t.end = s.end /\ t.executed = executed BY <1>1 DEF ScriptFields, Yielded
<1>6. Shaped(t) BY <1>2 DEF Shaped
<1>7. t \in Scripts BY <1>3, <1>4, <1>5, <1>6, ScriptIs, IsScript
<1> QED BY <1>3, <1>4, <1>5, <1>7

LEMMA CallWrites ==
  ASSUME NEW s \in Scripts, NEW frame \in CallFrames, NEW sub \in Int, NEW local \in Int, NEW executed \in Int,
         NEW t, t = Called(s, frame, sub, local, executed)
  PROVE  /\ t \in Scripts /\ t.frames = Append(s.frames, frame) /\ t.sub = sub /\ t.pc = 1 /\ t.time = 0
         /\ t.local = local /\ t.shared = s.shared /\ t.pending = s.pending /\ t.end = s.end
<1>1. DOMAIN s = ScriptFields BY ScriptIs
<1>2. DOMAIN t = ScriptFields /\ t = [f \in DOMAIN t |-> t[f]] BY <1>1 DEF Called
<1>3. t.pc = 1 /\ t.time = 0 BY <1>1 DEF ScriptFields, Called
<1>4. t.sub = sub /\ t.local = local BY <1>1 DEF ScriptFields, Called
<1>5. t.frames = Append(s.frames, frame) BY <1>1 DEF ScriptFields, Called
<1>6. t.pending = s.pending /\ t.end = s.end BY <1>1 DEF ScriptFields, Called
<1>7. t.executed = executed /\ t.shared = s.shared BY <1>1 DEF ScriptFields, Called
<1>8. Shaped(t) BY <1>2 DEF Shaped
<1>9. t.frames \in Seq(CallFrames)
 <2>1. s.frames \in Seq(CallFrames) BY ScriptIs
 <2> HIDE DEF CallFrames
 <2> QED BY <1>5, <2>1
<1>10. t.pc \in Int /\ t.time \in Int /\ t.sub \in Int /\ t.local \in Int BY <1>3, <1>4
<1>11. t.shared \in Int /\ t.pending \in BOOLEAN /\ t.end \in {"no", "error", "died", "returned"} /\ t.executed \in Int
  BY <1>6, <1>7, ScriptIs
<1>12. t \in Scripts BY <1>8, <1>9, <1>10, <1>11, IsScript
<1> QED BY <1>3, <1>4, <1>5, <1>6, <1>7, <1>12

LEMMA ReturnWrites ==
  ASSUME NEW s \in Scripts, NEW frames \in Seq(CallFrames), NEW frame \in CallFrames, NEW executed \in Int,
         NEW t, t = Returned(s, frames, frame, executed)
  PROVE  /\ t \in Scripts /\ t.frames = frames /\ t.sub = frame.sub /\ t.pc = frame.pc + 1 /\ t.time = frame.time
         /\ t.local = frame.local /\ t.shared = s.shared /\ t.pending = s.pending /\ t.end = s.end
<1>1. DOMAIN s = ScriptFields BY ScriptIs
<1>2. DOMAIN t = ScriptFields /\ t = [f \in DOMAIN t |-> t[f]] BY <1>1 DEF Returned
<1>3. t.pc = frame.pc + 1 /\ t.time = frame.time BY <1>1 DEF ScriptFields, Returned
<1>4. t.sub = frame.sub /\ t.local = frame.local BY <1>1 DEF ScriptFields, Returned
<1>5. t.frames = frames BY <1>1 DEF ScriptFields, Returned
<1>6. t.pending = s.pending /\ t.end = s.end BY <1>1 DEF ScriptFields, Returned
<1>7. t.executed = executed /\ t.shared = s.shared BY <1>1 DEF ScriptFields, Returned
<1>8. Shaped(t) BY <1>2 DEF Shaped
<1>9. t.pc \in Int /\ t.time \in Int /\ t.sub \in Int /\ t.local \in Int BY <1>3, <1>4 DEF CallFrames
<1>10. t.shared \in Int /\ t.pending \in BOOLEAN /\ t.end \in {"no", "error", "died", "returned"} /\ t.executed \in Int
  BY <1>6, <1>7, ScriptIs
<1>11. t \in Scripts BY <1>5, <1>8, <1>9, <1>10, IsScript
<1> QED BY <1>3, <1>4, <1>5, <1>6, <1>7, <1>11
----
\* What each step of a script does to it.
LEMMA MaskedIs ==
  ASSUME Core, Masked
  PROVE  /\ call.phase = "script" /\ ~script.pending /\ script.end = "no"
         /\ script.pc \in DOMAIN Code /\ ~Op.pass /\ ~ScriptBoundary
         /\ script' \in Scripts /\ script'.pc = script.pc + 1 /\ script'.local = script.local
         /\ script'.shared = script.shared /\ script'.sub = script.sub /\ script'.frames = script.frames
         /\ script'.time = script.time /\ script'.pending = script.pending /\ script'.end = script.end
         /\ UNCHANGED <<timeline, clock, board, draft, actors, spawn, shared, rng, births, call, log>>
<1>1. /\ call.phase = "script" /\ ~script.pending /\ script.end = "no" /\ script.pc \in DOMAIN Code /\ ~Op.pass
      /\ ~ScriptBoundary
      /\ script' = [script EXCEPT !.pc = script.pc + 1]
      /\ UNCHANGED <<timeline, clock, board, draft, actors, spawn, shared, rng, births, call, log>>
  BY DEF Masked, InScript
<1>2. script \in Scripts BY <1>1, AtInstruction
<1>3. /\ script' \in Scripts /\ script'.pc = script.pc + 1 /\ script'.local = script.local
      /\ script'.shared = script.shared /\ script'.sub = script.sub /\ script'.frames = script.frames
      /\ script'.time = script.time /\ script'.pending = script.pending /\ script'.end = script.end
  BY <1>1, <1>2 DEF Scripts
<1> QED BY <1>1, <1>3

LEMMA CoreMasked == ASSUME Core, Masked PROVE Core'
BY MaskedIs, CoreScript DEF Core, EntryTypes

LEMMA ScalarIs ==
  ASSUME Core, Scalar
  PROVE  /\ call.phase = "script" /\ ~script.pending /\ script.end = "no"
         /\ script.pc \in DOMAIN Code /\ Op \in Instruction /\ Op.op \in {"set", "draw", "share"} /\ ~ScriptBoundary
         /\ Op.pass
         /\ script' \in Scripts /\ script'.pc = script.pc + 1
         /\ script'.local = (IF Op.op = "share" THEN script.local ELSE Op.arg)
         /\ script'.shared = (IF Op.op = "share" THEN Op.arg ELSE script.shared)
         /\ script'.sub = script.sub /\ script'.frames = script.frames
         /\ script'.time = script.time /\ script'.pending = script.pending /\ script'.end = script.end
         /\ \E n \in Nat : /\ rng' = rng + n /\ Entry(Here, Op, n, 0) \in LogEntry
                           /\ log' = Append(log, Entry(Here, Op, n, 0))
         /\ rng' \in Int /\ log' \in Seq(LogEntry)
         /\ UNCHANGED <<timeline, clock, board, draft, actors, spawn, shared, births, call>>
<1> DEFINE given == IF Op.op = "share" THEN Op.arg ELSE script.shared
           locally == IF Op.op = "share" THEN script.local ELSE Op.arg
           n == IF Op.op = "draw" THEN 1 ELSE 0
<1>1. /\ call.phase = "script" /\ ~script.pending /\ script.end = "no" /\ script.pc \in DOMAIN Code
      /\ Op.op \in {"set", "draw", "share"} /\ Op.pass /\ ~ScriptBoundary
      /\ rng' = (IF Op.op = "draw" THEN rng + 1 ELSE rng)
      /\ log' = Append(log, Entry(Here, Op, n, 0))
      /\ UNCHANGED <<timeline, clock, board, draft, actors, spawn, shared, births, call>>
  BY DEF Scalar, Executable, InScript
<1>2. script \in Scripts /\ Op \in Instruction BY <1>1, AtInstruction
<1>3. Op.arg \in Int /\ Op.op \in STRING BY <1>2 DEF Instruction
<1>4. given \in Int /\ locally \in Int /\ script.pc + 1 \in Int /\ script.executed + 1 \in Int /\ n \in Nat
  BY <1>2, <1>3, ScriptIs
<1>5. EntryTypes BY DEF Core
<1>6. Entry(Here, Op, n, 0) \in LogEntry BY <1>3, <1>4, <1>5, HereIs DEF LogEntry, Entry
<1>7. rng' = rng + n /\ rng' \in Int BY <1>1, <1>5 DEF EntryTypes
<1>8. log' \in Seq(LogEntry) BY <1>1, <1>5, <1>6 DEF EntryTypes
<1>9. script' = ScalarWritten(script, script.pc + 1, locally, given, script.executed + 1)
 <2>1. script' = [[script EXCEPT !.pc = script.pc + 1, !.local = locally, !.shared = given]
                     EXCEPT !.executed = @ + 1]
   BY DEF Scalar, Executed
 <2>2. [script EXCEPT !.pc = script.pc + 1, !.local = locally, !.shared = given].executed = script.executed
   BY <1>2, ScriptIs DEF ScriptFields
 <2> HIDE DEF given, locally
 <2> QED BY <2>1, <2>2 DEF ScalarWritten
<1> HIDE DEF given, locally, n, Entry, Here
<1>10. /\ script' \in Scripts /\ script'.pc = script.pc + 1 /\ script'.local = locally /\ script'.shared = given
       /\ script'.sub = script.sub /\ script'.frames = script.frames
       /\ script'.time = script.time /\ script'.pending = script.pending /\ script'.end = script.end
  BY <1>2, <1>4, <1>9, ScalarWrites
<1>11. \E m \in Nat : /\ rng' = rng + m /\ Entry(Here, Op, m, 0) \in LogEntry
                      /\ log' = Append(log, Entry(Here, Op, m, 0))
  BY <1>1, <1>4, <1>6, <1>7
<1> QED BY <1>1, <1>2, <1>7, <1>8, <1>10, <1>11 DEF given, locally

LEMMA CoreScalar == ASSUME Core, Scalar PROVE Core'
BY ScalarIs, CoreScript DEF Core, EntryTypes

LEMMA JumpIs ==
  ASSUME Core, Jump
  PROVE  /\ call.phase = "script" /\ ~script.pending /\ script.end = "no"
         /\ script.pc \in DOMAIN Code /\ Op \in Instruction /\ Op.op = "jump" /\ ~ScriptBoundary
         /\ Op.arg \in DOMAIN Code
         /\ script' \in Scripts /\ script'.pc = Op.arg
         /\ script'.time = Code[Op.arg].time
         /\ script'.local = script.local /\ script'.shared = script.shared
         /\ script'.sub = script.sub /\ script'.frames = script.frames
         /\ script'.pending = script.pending /\ script'.end = script.end
         /\ UNCHANGED <<timeline, clock, board, draft, actors, spawn, shared, rng, births, call, log>>
<1>1. /\ call.phase = "script" /\ ~script.pending /\ script.end = "no" /\ script.pc \in DOMAIN Code
      /\ Op.op = "jump" /\ ~ScriptBoundary
      /\ UNCHANGED <<timeline, clock, board, draft, actors, spawn, shared, rng, births, call, log>>
  BY DEF Jump, Executable, InScript
<1>2. script \in Scripts /\ Op \in Instruction /\ script.sub \in DOMAIN Subs BY <1>1, AtInstruction
<1>3. Op.arg \in DOMAIN Code BY <1>1, <1>2, EntryAssumption DEF Op, Code
<1>4. Op.arg \in Int /\ Code[Op.arg].time \in Int /\ script.executed + 1 \in Int
 <2>1. Code[Op.arg] \in Instruction BY <1>2, <1>3, Decoded DEF Code
 <2> QED BY <1>2, <2>1, ScriptIs DEF Instruction
<1>5. script' = Jumped(script, Op.arg, Code[Op.arg].time, script.executed + 1)
 <2>1. script' = [[script EXCEPT !.pc = Op.arg, !.time = Code[Op.arg].time] EXCEPT !.executed = @ + 1]
   BY DEF Jump, Executed
 <2>2. [script EXCEPT !.pc = Op.arg, !.time = Code[Op.arg].time].executed = script.executed
   BY <1>2, ScriptIs DEF ScriptFields
 <2> QED BY <2>1, <2>2 DEF Jumped
<1>6. /\ script' \in Scripts /\ script'.pc = Op.arg /\ script'.time = Code[Op.arg].time
      /\ script'.local = script.local /\ script'.shared = script.shared
      /\ script'.sub = script.sub /\ script'.frames = script.frames
      /\ script'.pending = script.pending /\ script'.end = script.end
  BY <1>2, <1>4, <1>5, JumpWrites
<1> QED BY <1>1, <1>2, <1>3, <1>6

LEMMA CoreJump == ASSUME Core, Jump PROVE Core'
BY JumpIs, CoreScript DEF Core, EntryTypes

LEMMA YieldIs ==
  ASSUME Core, Yield
  PROVE  /\ call.phase = "script" /\ ~script.pending /\ script.end = "no"
         /\ script.pc \in DOMAIN Code /\ Op.pass /\ ~ScriptBoundary
         /\ script' \in Scripts /\ script'.pending = TRUE /\ script'.pc = script.pc
         /\ script'.time = script.time
         /\ script'.local = script.local /\ script'.shared = script.shared
         /\ script'.sub = script.sub /\ script'.frames = script.frames
         /\ script'.end = script.end
         /\ shared' = script.shared /\ shared' \in Int
         /\ UNCHANGED <<timeline, clock, board, draft, actors, spawn, rng, births, call, log>>
<1>1. /\ call.phase = "script" /\ ~script.pending /\ script.end = "no" /\ script.pc \in DOMAIN Code
      /\ Op.pass /\ ~ScriptBoundary
      /\ UNCHANGED <<timeline, clock, board, draft, actors, spawn, rng, births, call, log>>
      /\ shared' = script'.shared
  BY DEF Yield, Executable, InScript, Publishing
<1>2. script \in Scripts BY <1>1, AtInstruction
<1>3. script.executed + 1 \in Int /\ script.shared \in Int BY <1>2, ScriptIs
<1>4. script' = Yielded(script, script.executed + 1)
 <2>1. script' = [[script EXCEPT !.pending = TRUE] EXCEPT !.executed = @ + 1] BY DEF Yield, Publishing, Executed
 <2>2. [script EXCEPT !.pending = TRUE].executed = script.executed BY <1>2, ScriptIs DEF ScriptFields
 <2> QED BY <2>1, <2>2 DEF Yielded
<1>5. /\ script' \in Scripts /\ script'.pending = TRUE /\ script'.pc = script.pc /\ script'.time = script.time
      /\ script'.local = script.local /\ script'.shared = script.shared
      /\ script'.sub = script.sub /\ script'.frames = script.frames /\ script'.end = script.end
 <2> DEFINE n == script.executed + 1
 <2>1. n \in Int BY <1>3
 <2>2. script' = Yielded(script, n) BY <1>4
 <2> HIDE DEF n
 <2>3. \A t : t = Yielded(script, n) =>
         /\ t \in Scripts /\ t.pending = TRUE /\ t.pc = script.pc /\ t.time = script.time /\ t.local = script.local
         /\ t.shared = script.shared /\ t.sub = script.sub /\ t.frames = script.frames /\ t.end = script.end
   BY <1>2, <2>1, YieldWrites
 <2> QED BY <2>2, <2>3
<1> QED BY <1>1, <1>3, <1>5

LEMMA CoreYield == ASSUME Core, Yield PROVE Core'
BY YieldIs, CoreScript DEF Core, EntryTypes

LEMMA EndIs ==
  ASSUME Core, End
  PROVE  /\ call.phase = "script" /\ ~script.pending /\ script.end = "no"
         /\ ~ScriptBoundary /\ (script.pc \in DOMAIN Code => Op.pass)
         /\ script' \in Scripts /\ script'.end # "no" /\ script'.pc = script.pc
         /\ script'.end = "died" => script.pc \in DOMAIN Code /\ Op.op = "die"
         /\ script'.time = script.time
         /\ script'.local = script.local /\ script'.shared = script.shared
         /\ script'.sub = script.sub /\ script'.frames = script.frames
         /\ script'.pending = script.pending
         /\ shared' = script.shared /\ shared' \in Int
         /\ UNCHANGED <<timeline, clock, board, draft, actors, spawn, rng, births, call, log>>
<1>1. /\ call.phase = "script" /\ ~script.pending /\ script.end = "no"
      /\ ~ScriptBoundary /\ (script.pc \in DOMAIN Code => Op.pass)
      /\ UNCHANGED <<timeline, clock, board, draft, actors, spawn, rng, births, call, log>>
      /\ script' = [script EXCEPT !.end = EndOfScript] /\ EndOfScript # "no"
      /\ shared' = [script EXCEPT !.end = EndOfScript].shared
  BY DEF End, InScript, Publishing
<1>2. script \in Scripts BY <1>1, AtInstruction
<1>3. EndOfScript \in {"no", "error", "died", "returned"} BY DEF EndOfScript
<1>4. EndOfScript = "died" => script.pc \in DOMAIN Code /\ Op.op = "die"
 <2> SUFFICES ASSUME script.pc \in DOMAIN Code, Op.op # "die" PROVE EndOfScript # "died" BY DEF EndOfScript
 <2> DEFINE NoDraw == Op.op = "draw" /\ ~Has("rng")
            NoCallee == Op.op = "call" /\ (Op.arg \notin DOMAIN Subs \/ Len(script.frames) >= MaxCalls)
            NoRoot == Op.op = "return" /\ script.frames = << >>
            Late == script.pc \notin DOMAIN Code \/ script.executed >= call.limit
 <2>1. EndOfScript = IF Late THEN "error"
                     ELSE CASE NoDraw -> "error" [] Op.op = "twice" -> "error" [] NoCallee -> "error"
                            [] Op.op = "die" -> "died" [] NoRoot -> "returned" [] OTHER -> "no"
   BY DEF EndOfScript
 <2> HIDE DEF NoDraw, NoCallee, NoRoot, Late
 <2> QED BY <2>1
<1> HIDE DEF EndOfScript
<1>5. /\ script' \in Scripts /\ script'.end = EndOfScript /\ script'.pc = script.pc /\ script'.time = script.time
      /\ script'.local = script.local /\ script'.shared = script.shared
      /\ script'.sub = script.sub /\ script'.frames = script.frames /\ script'.pending = script.pending
      /\ shared' = script.shared /\ shared' \in Int
  BY <1>1, <1>2, <1>3 DEF Scripts
<1> QED BY <1>1, <1>4, <1>5

LEMMA CoreEnd == ASSUME Core, End PROVE Core'
BY EndIs, CoreScript DEF Core, EntryTypes

LEMMA CallIs ==
  ASSUME Core, CallSub
  PROVE  /\ call.phase = "script" /\ ~script.pending /\ script.end = "no"
         /\ script.pc \in DOMAIN Code /\ Op \in Instruction /\ Op.op = "call" /\ Op.arg \in DOMAIN Subs /\ Op.pass
         /\ ~ScriptBoundary
         /\ \E frame \in CallFrames : /\ frame.sub = script.sub /\ frame.pc = script.pc /\ frame.time = script.time
                                  /\ frame.local = script.local
                                  /\ script'.frames = Append(script.frames, frame)
         /\ script' \in Scripts /\ script'.sub = Op.arg /\ script'.pc = 1 /\ script'.time = 0
         /\ script'.local = script.shared /\ script'.shared = script.shared
         /\ script'.pending = script.pending /\ script'.end = script.end
         /\ UNCHANGED <<timeline, clock, board, draft, actors, spawn, shared, rng, births, call, log>>
<1> DEFINE frame == [sub |-> script.sub, pc |-> script.pc, time |-> script.time, local |-> script.local]
           into == Op.arg
           locally == script.shared
           count == script.executed + 1
<1>1. /\ call.phase = "script" /\ ~script.pending /\ script.end = "no" /\ script.pc \in DOMAIN Code
      /\ Op.op = "call" /\ Op.arg \in DOMAIN Subs /\ Op.pass /\ ~ScriptBoundary
      /\ UNCHANGED <<timeline, clock, board, draft, actors, spawn, shared, rng, births, call, log>>
  BY DEF CallSub, Executable, InScript
<1>2. script \in Scripts /\ Op \in Instruction BY <1>1, AtInstruction
<1>3. frame \in CallFrames /\ into \in Int /\ locally \in Int /\ count \in Int
  BY <1>2, ScriptIs DEF CallFrames, Instruction
<1>4. frame.sub = script.sub /\ frame.pc = script.pc /\ frame.time = script.time /\ frame.local = script.local
  OBVIOUS
<1>5. script' = Called(script, frame, into, locally, count)
 <2>1. script' = [[script EXCEPT !.frames = Append(@, frame), !.sub = into, !.pc = 1, !.time = 0, !.local = locally]
                     EXCEPT !.executed = @ + 1]
   BY DEF CallSub, Executed
 <2>2. [script EXCEPT !.frames = Append(@, frame), !.sub = into, !.pc = 1, !.time = 0, !.local = locally].executed
         = script.executed
  <3> HIDE DEF frame, into, locally
  <3> QED BY <1>2, ScriptIs DEF ScriptFields
 <2> HIDE DEF frame, into, locally
 <2> QED BY <2>1, <2>2 DEF Called
<1> HIDE DEF frame, into, locally, count
<1>6. /\ script' \in Scripts /\ script'.frames = Append(script.frames, frame) /\ script'.sub = into /\ script'.pc = 1
      /\ script'.time = 0 /\ script'.local = locally /\ script'.shared = script.shared
      /\ script'.pending = script.pending /\ script'.end = script.end
 <2>1. script \in Scripts BY <1>2
 <2> DEFINE next == Called(script, frame, into, locally, count)
 <2>2. /\ next \in Scripts /\ next.frames = Append(script.frames, frame) /\ next.sub = into /\ next.pc = 1
       /\ next.time = 0 /\ next.local = locally /\ next.shared = script.shared
       /\ next.pending = script.pending /\ next.end = script.end
   BY <1>3, <2>1, CallWrites
 <2> HIDE DEF next
 <2>3. script' = next BY <1>5 DEF next
 <2> QED BY <2>2, <2>3
<1>7. \E f \in CallFrames : /\ f.sub = script.sub /\ f.pc = script.pc /\ f.time = script.time /\ f.local = script.local
                        /\ script'.frames = Append(script.frames, f)
  BY <1>3, <1>4, <1>6
<1> QED BY <1>1, <1>2, <1>6, <1>7 DEF into, locally

LEMMA ReturnIs ==
  ASSUME Core, ReturnSub
  PROVE  /\ call.phase = "script" /\ ~script.pending /\ script.end = "no"
         /\ script.pc \in DOMAIN Code /\ Op.op = "return" /\ ~ScriptBoundary
         /\ \E n \in Nat \ {0}, frame \in CallFrames :
              /\ Len(script.frames) = n /\ frame = script.frames[n]
              /\ script'.frames \in Seq(CallFrames) /\ Len(script'.frames) = n - 1
              /\ \A k \in 1..n - 1 : script'.frames[k] = script.frames[k]
              /\ script'.sub = frame.sub /\ script'.pc = frame.pc + 1 /\ script'.time = frame.time
              /\ script'.local = frame.local
         /\ script' \in Scripts /\ script'.shared = script.shared
         /\ script'.pending = script.pending /\ script'.end = script.end
         /\ UNCHANGED <<timeline, clock, board, draft, actors, spawn, shared, rng, births, call, log>>
<1> DEFINE n == Len(script.frames)
           frames == Front(script.frames)
           frame == Last(script.frames)
           count == script.executed + 1
<1>1. /\ call.phase = "script" /\ ~script.pending /\ script.end = "no" /\ script.pc \in DOMAIN Code
      /\ Op.op = "return" /\ script.frames # << >> /\ ~ScriptBoundary
      /\ UNCHANGED <<timeline, clock, board, draft, actors, spawn, shared, rng, births, call, log>>
  BY DEF ReturnSub, Executable, InScript
<1>2. script \in Scripts /\ script.frames \in Seq(CallFrames) BY <1>1, AtInstruction
<1>3. count \in Int BY <1>2, ScriptIs
<1>4. n \in Nat \ {0} /\ frame = script.frames[n] /\ frame \in CallFrames BY <1>1, <1>2 DEF Last
<1>5. frames \in Seq(CallFrames) /\ Len(frames) = n - 1 /\ \A k \in 1..n - 1 : frames[k] = script.frames[k]
 <2>1. frames = SubSeq(script.frames, 1, n - 1) BY DEF Front
 <2> HIDE DEF CallFrames
 <2> QED BY <1>2, <1>4, <2>1
<1>6. script' = Returned(script, frames, frame, count)
 <2>1. script' = [[script EXCEPT !.frames = frames, !.sub = frame.sub, !.pc = frame.pc + 1, !.time = frame.time,
                                 !.local = frame.local] EXCEPT !.executed = @ + 1]
   BY DEF ReturnSub, Executed
 <2>2. [script EXCEPT !.frames = frames, !.sub = frame.sub, !.pc = frame.pc + 1, !.time = frame.time,
                      !.local = frame.local].executed = script.executed
  <3> HIDE DEF frame, frames
  <3> QED BY <1>2, ScriptIs DEF ScriptFields
 <2> HIDE DEF frame, frames
 <2> QED BY <2>1, <2>2 DEF Returned
<1> HIDE DEF frame, frames, count, n
<1>7. /\ script' \in Scripts /\ script'.frames = frames /\ script'.sub = frame.sub /\ script'.pc = frame.pc + 1
      /\ script'.time = frame.time /\ script'.local = frame.local /\ script'.shared = script.shared
      /\ script'.pending = script.pending /\ script'.end = script.end
 <2>1. script \in Scripts /\ frames \in Seq(CallFrames) /\ frame \in CallFrames /\ count \in Int
   BY <1>2, <1>3, <1>4, <1>5
 <2> QED BY <1>6, <2>1, ReturnWrites
<1>8. \E m \in Nat \ {0}, f \in CallFrames :
              /\ Len(script.frames) = m /\ f = script.frames[m]
              /\ script'.frames \in Seq(CallFrames) /\ Len(script'.frames) = m - 1
              /\ \A k \in 1..m - 1 : script'.frames[k] = script.frames[k]
              /\ script'.sub = f.sub /\ script'.pc = f.pc + 1 /\ script'.time = f.time
              /\ script'.local = f.local
 <2>1. Len(script.frames) = n BY DEF n
 <2>2. /\ script'.frames \in Seq(CallFrames) /\ Len(script'.frames) = n - 1
       /\ \A k \in 1..n - 1 : script'.frames[k] = script.frames[k]
   BY <1>5, <1>7
 <2>3. /\ n \in Nat \ {0} /\ frame \in CallFrames /\ Len(script.frames) = n /\ frame = script.frames[n]
       /\ script'.frames \in Seq(CallFrames) /\ Len(script'.frames) = n - 1
       /\ \A k \in 1..n - 1 : script'.frames[k] = script.frames[k]
       /\ script'.sub = frame.sub /\ script'.pc = frame.pc + 1 /\ script'.time = frame.time
       /\ script'.local = frame.local
   BY <1>4, <1>7, <2>1, <2>2
 <2> HIDE <1>7
 <2> QED BY <2>3
<1> QED BY <1>1, <1>7, <1>8

LEMMA CoreCallSub == ASSUME Core, CallSub PROVE Core'
<1> USE CallIs
<1>1. PICK frame \in CallFrames : /\ frame.sub = script.sub /\ frame.pc = script.pc /\ frame.time = script.time
                              /\ frame.local = script.local
                              /\ script'.frames = Append(script.frames, frame)
  OBVIOUS
<1>2. EntryTypes' BY DEF Core, EntryTypes
<1>3. /\ spawn # 0 /\ script.sub \in DOMAIN Subs /\ script.frames \in Seq(CallFrames)
      /\ \A k \in DOMAIN script.frames : script.frames[k].sub \in DOMAIN Subs
      /\ RootSub = timeline[clock.pc].arg
  BY AtInstruction
<1>4. \A k \in DOMAIN script'.frames : script'.frames[k].sub \in DOMAIN Subs BY <1>1, <1>3
<1>5. RootSub' = RootSub BY <1>1, <1>3 DEF RootSub
<1>6. script'.sub \in DOMAIN Subs OBVIOUS
<1> QED BY <1>2, <1>3, <1>4, <1>5, <1>6 DEF Core, AtWork

LEMMA CoreReturnSub == ASSUME Core, ReturnSub PROVE Core'
<1>1. PICK n \in Nat \ {0}, frame \in CallFrames :
              /\ Len(script.frames) = n /\ frame = script.frames[n]
              /\ script'.frames \in Seq(CallFrames) /\ Len(script'.frames) = n - 1
              /\ \A k \in 1..n - 1 : script'.frames[k] = script.frames[k]
              /\ script'.sub = frame.sub
  BY ReturnIs
<1>2. EntryTypes' BY ReturnIs DEF Core, EntryTypes
<1>3. /\ spawn # 0 /\ script.frames \in Seq(CallFrames)
      /\ \A k \in DOMAIN script.frames : script.frames[k].sub \in DOMAIN Subs
      /\ RootSub = timeline[clock.pc].arg
  BY ReturnIs, AtInstruction
<1>4. n \in 1..n /\ DOMAIN script.frames = 1..n /\ DOMAIN script'.frames = 1..n - 1 BY <1>1, <1>3
<1>5. \A k \in DOMAIN script'.frames : script'.frames[k].sub \in DOMAIN Subs BY <1>1, <1>3, <1>4
<1>6. script'.sub \in DOMAIN Subs BY <1>1, <1>3, <1>4
<1>7. RootSub' = RootSub
 <2>1. script.frames # << >> BY <1>1, <1>3
 <2>2. CASE n = 1
  <3>1. script'.frames = << >> BY <1>1, <2>2
  <3> QED BY <1>1, <2>1, <2>2, <3>1 DEF RootSub
 <2>3. CASE n # 1
  <3>1. 1 \in 1..n - 1 BY <2>3
  <3>2. script'.frames # << >> BY <1>1, <3>1
  <3>3. script'.frames[1] = script.frames[1] BY <1>1, <3>1
  <3> QED BY <2>1, <3>2, <3>3 DEF RootSub
 <2> QED BY <2>2, <2>3
<1> QED BY <1>2, <1>3, <1>5, <1>6, <1>7, ReturnIs DEF Core, AtWork

LEMMA BornIs == ASSUME Core, call.phase = "script", script.pc \in DOMAIN Code PROVE Born \in Int
<1>1. Op.arg \in Int /\ births \in Int /\ PoolRoom \in Nat
  BY AtInstruction, Decoded DEF Core, EntryTypes, Instruction
<1> DEFINE S == {Op.arg, PoolRoom - births}
           Least(y) == y \in S /\ \A z \in S : y <= z
<1>2. Min(S) = CHOOSE y : Least(y) BY DEF Min
<1>3. \E y : Least(y) BY <1>1
<1>4. Min(S) \in S
 <2> HIDE DEF Least
 <2>1. Least(CHOOSE y : Least(y)) BY <1>3, Zenon
 <2> QED BY <1>2, <2>1 DEF Least
<1> QED BY <1>1, <1>4 DEF Born

Resumed(s, pc) == [s EXCEPT !.pending = FALSE, !.pc = pc]
LEMMA ResumeWrites ==
  ASSUME NEW s \in Scripts, NEW pc \in Int, NEW t, t = Resumed(s, pc)
  PROVE  /\ t \in Scripts /\ t.pending = FALSE /\ t.pc = pc /\ t.time = s.time /\ t.local = s.local
         /\ t.shared = s.shared /\ t.sub = s.sub /\ t.frames = s.frames /\ t.end = s.end
<1>1. DOMAIN s = ScriptFields BY ScriptIs
<1>2. DOMAIN t = ScriptFields /\ t = [f \in DOMAIN t |-> t[f]] BY <1>1 DEF Resumed
<1>3. t.pc = pc /\ t.time = s.time /\ t.shared = s.shared BY <1>1 DEF ScriptFields, Resumed
<1>4. t.sub = s.sub /\ t.frames = s.frames /\ t.local = s.local BY <1>1 DEF ScriptFields, Resumed
<1>5. t.pending = FALSE /\ t.end = s.end /\ t.executed = s.executed BY <1>1 DEF ScriptFields, Resumed
<1>6. Shaped(t) BY <1>2 DEF Shaped
<1>7. t \in Scripts BY <1>3, <1>4, <1>5, <1>6, ScriptIs, IsScript
<1> QED BY <1>3, <1>4, <1>5, <1>7

LEMMA ResumedIs ==
  ASSUME script \in Scripts, script' = [script EXCEPT !.pending = FALSE, !.pc = script.pc + 1]
  PROVE  /\ script' \in Scripts /\ script'.pending = FALSE /\ script'.pc = script.pc + 1
         /\ script'.time = script.time /\ script'.local = script.local /\ script'.shared = script.shared
         /\ script'.sub = script.sub /\ script'.frames = script.frames /\ script'.end = script.end
<1>1. script' = Resumed(script, script.pc + 1) /\ script.pc + 1 \in Int BY ScriptIs DEF Resumed
<1>2. script' \in Scripts BY <1>1, ResumeWrites
<1>3. script'.time = script.time /\ script'.local = script.local /\ script'.shared = script.shared
  BY <1>1, ResumeWrites
<1>4. script'.sub = script.sub /\ script'.frames = script.frames /\ script'.end = script.end
  BY <1>1, ResumeWrites
<1>5. script'.pending = FALSE /\ script'.pc = script.pc + 1 BY <1>1, ResumeWrites
<1> QED BY <1>2, <1>3, <1>4, <1>5

LEMMA AppliedIs ==
  ASSUME Core, PendingInCode, NEW op, Offered(op), Applicable, NEW born \in Int, Applied(born)
  PROVE  /\ call.phase = "script" /\ script.pending /\ script.pc \in DOMAIN Code /\ Op \in Instruction /\ Op.op = op
         /\ script' \in Scripts /\ script'.pending = FALSE /\ script'.pc = script.pc + 1
         /\ script'.time = script.time
         /\ script'.local = script.local /\ script'.shared = script.shared
         /\ script'.sub = script.sub /\ script'.frames = script.frames
         /\ script'.end = script.end
         /\ \E n \in Int : /\ rng' = rng + n /\ births' = births + born /\ Entry(Here, Op, n, born) \in LogEntry
                           /\ log' = Append(log, Entry(Here, Op, n, born))
         /\ rng' \in Int /\ births' \in Int /\ log' \in Seq(LogEntry)
         /\ UNCHANGED <<timeline, clock, board, draft, actors, spawn, shared, call>>
<1> DEFINE n == Op.draws + born
<1>1. /\ call.phase = "script" /\ script.pending /\ Op.op = op
      /\ script' = [script EXCEPT !.pending = FALSE, !.pc = script.pc + 1]
      /\ births' = births + born
      /\ log' = Append(log, Entry(Here, Op, n, born))
      /\ UNCHANGED <<timeline, clock, board, draft, actors, spawn, shared, call>>
  BY DEF Offered, Applied
<1>2. script.pc \in DOMAIN Code BY <1>1 DEF PendingInCode, Code
<1>3. script \in Scripts /\ Op \in Instruction BY <1>1, <1>2, AtInstruction
<1>4. Op.arg \in Int /\ Op.op \in STRING /\ Op.draws \in Nat BY <1>3 DEF Instruction
<1>5. n \in Int BY <1>4
<1>6. EntryTypes BY DEF Core
<1>7. rng' = rng + n BY <1>4, <1>6 DEF Applied, EntryTypes
<1> HIDE DEF n
<1>8. Entry(Here, Op, n, born) \in LogEntry BY <1>4, <1>5, <1>6, HereIs DEF LogEntry, Entry
<1> HIDE DEF Entry, Here
<1>9. rng' \in Int /\ births' \in Int /\ log' \in Seq(LogEntry) BY <1>1, <1>5, <1>6, <1>7, <1>8 DEF EntryTypes
<1>10. /\ script' \in Scripts /\ script'.pending = FALSE /\ script'.pc = script.pc + 1 /\ script'.time = script.time
       /\ script'.local = script.local /\ script'.shared = script.shared
       /\ script'.sub = script.sub /\ script'.frames = script.frames /\ script'.end = script.end
  BY <1>1, <1>3, ResumedIs
<1>11. \E m \in Int : /\ rng' = rng + m /\ births' = births + born /\ Entry(Here, Op, m, born) \in LogEntry
                      /\ log' = Append(log, Entry(Here, Op, m, born))
  BY <1>1, <1>5, <1>7, <1>8
<1> QED BY <1>1, <1>2, <1>3, <1>9, <1>10, <1>11

LEMMA CoreApplied ==
  ASSUME Core, PendingInCode, NEW op, Offered(op), Applicable, NEW born \in Int, Applied(born)
  PROVE  Core'
BY AppliedIs, CoreScript DEF Core, EntryTypes

\* A call that returns from a script leaves everything as it is.
LEMMA CoreQuits ==
  ASSUME Core, call.phase = "script", Return,
         UNCHANGED <<timeline, clock, board, draft, actors, spawn, script, shared, rng, births, log>>
  PROVE  Core'
<1>1. spawn # 0 /\ ~draft.open BY AtInstruction
<1>2. call'.phase = "idle" /\ call' = NoCall BY DEF Return, NoCall
<1> QED BY <1>1, <1>2 DEF Core, EntryTypes, AtWork, RootSub

LEMMA SpawnOverIs ==
  ASSUME Core, call.phase = "script", SpawnOver
  PROVE  /\ clock' \in [time : Int, pc : Int, pending : BOOLEAN] /\ clock'.pc = clock.pc + 1 /\ clock'.pending = FALSE
         /\ clock'.pc \in DOMAIN timeline
         /\ spawn' = 0 /\ script' = NoScript /\ call' \in Calls /\ call'.phase = "timeline"
         /\ draft' \in Drafts /\ draft'.open = TRUE /\ draft'.pc = clock.pc + 1 /\ draft'.log = << >>
         /\ draft'.board = board
         /\ UNCHANGED <<timeline, board, rng, births, log>>
<1>1. call # NoCall BY DEF NoCall
<1>2. call' \in Calls /\ call'.phase = "timeline" BY <1>1, CoreCall DEF SpawnOver
<1>3. clock' \in [time : Int, pc : Int, pending : BOOLEAN] /\ clock'.pc = clock.pc + 1 /\ clock'.pending = FALSE
  BY AcknowledgedIs DEF SpawnOver
<1>4. clock.pc + 1 \in DOMAIN timeline BY AtInstruction
<1>5. clock.time \in Int /\ clock.pc + 1 \in Int /\ board \in Boards /\ << >> \in Seq(LogEntry)
  BY DEF Core, EntryTypes
<1>6. draft' = [open |-> TRUE, time |-> clock.time, pc |-> clock.pc + 1, board |-> board, examined |-> 0, log |-> << >>]
  BY DEF SpawnOver
<1>7. /\ draft' \in Drafts /\ draft'.open = TRUE /\ draft'.pc = clock.pc + 1 /\ draft'.log = << >>
      /\ draft'.board = board
  BY <1>5, <1>6 DEF Drafts
<1> QED BY <1>2, <1>3, <1>4, <1>7 DEF SpawnOver

LEMMA CoreSpawnOver ==
  ASSUME Core, call.phase = "script", SpawnOver, shared' \in Int, actors' \in [1..ActorCount -> Int]
  PROVE  Core'
<1>1. NoScript \in Scripts BY DEF NoScript, Scripts
<1>2. /\ clock' \in [time : Int, pc : Int, pending : BOOLEAN] /\ clock'.pc = clock.pc + 1 /\ ~clock'.pending
      /\ clock'.pc \in DOMAIN timeline /\ clock'.pc \in Int
      /\ spawn' = 0 /\ script' = NoScript /\ call' \in Calls /\ call'.phase = "timeline"
      /\ draft' \in Drafts /\ draft'.open = TRUE /\ draft'.pc = clock'.pc
      /\ UNCHANGED <<timeline, board, rng, births, log>>
  BY SpawnOverIs
<1> HIDE DEF SpawnOver
<1>3. spawn' \in 0..ActorCount BY <1>2, Decoded
<1>4. EntryTypes' BY <1>1, <1>2, <1>3 DEF Core, EntryTypes
<1>5. AtWork'
 <2>1. clock'.pc \in DOMAIN timeline' /\ (clock'.pending => clock'.pc + 1 \in DOMAIN timeline') BY <1>2
 <2>2. draft'.pc >= clock'.pc BY <1>2
 <2> QED BY <1>2, <2>1, <2>2 DEF AtWork
<1> QED BY <1>4, <1>5 DEF Core

LEMMA CoreSpawned == ASSUME Core, Spawned PROVE Core'
<1>1. call.phase = "script" /\ SpawnOver /\ UNCHANGED actors /\ shared' = script.shared BY DEF Spawned, InScript
<1>2. shared' \in Int BY <1>1, AtInstruction, ScriptIs
<1> QED BY <1>1, <1>2, CoreSpawnOver DEF Core, EntryTypes

LEMMA CoreDied == ASSUME Core, Died PROVE Core'
<1>1. call.phase = "script" /\ SpawnOver /\ actors' = [actors EXCEPT ![spawn] = 0] /\ shared' = shared
  BY DEF Died
<1>2. actors' \in [1..ActorCount -> Int]
 <2>1. actors \in [1..ActorCount -> Int] BY DEF Core, EntryTypes
 <2> HIDE DEF SpawnOver
 <2>2. actors' = [actors EXCEPT ![spawn] = 0] BY <1>1
 <2>3. \A v \in Int : [actors EXCEPT ![spawn] = v] \in [1..ActorCount -> Int] BY <2>1
 <2> QED BY <2>2, <2>3
<1> QED BY <1>1, <1>2, CoreSpawnOver DEF Core, EntryTypes
----
\* The kinds of steps of the stage timeline: give the draft up, go on with
\* it, make it the state.
GivesUp ==
  /\ draft' = NoDraft /\ Return
  /\ UNCHANGED <<timeline, clock, board, actors, spawn, script, shared, rng, births, log>>
EventEntry(e) ==
  /\ e \in LogEntry /\ e.at = << draft.pc >> /\ e.op \in {"publish", "consume"} /\ e.drawn = 0 /\ e.born = 0
GoesOn ==
  \/ Forward(draft.board, << >>)
  \/ \E e \in LogEntry : EventEntry(e) /\ Forward(Replayed(draft.board, e), << e >>)
FrameDone ==
  \E time \in Int, pending \in BOOLEAN :
    /\ Commit(time, draft.pc, pending, draft.board, << >>)
    /\ IF pending THEN draft.pc + 1 \in DOMAIN timeline /\ UNCHANGED call ELSE Return
    /\ UNCHANGED <<timeline, actors, spawn, script, shared, rng, births>>

LEMMA EventIs ==
  ASSUME Core, Running, Order.op \in {"publish", "consume"}
  PROVE  LET e == Entry(<<draft.pc>>, Order, 0, 0)
         IN  /\ EventEntry(e)
             /\ Order.op = "consume" =>
                  Replayed(draft.board, e) = [k \in DOMAIN board |-> IF draft.board[k] = Order.arg THEN 0 ELSE draft.board[k]]
             /\ Order.op = "publish" =>
                  Replayed(draft.board, e) = [k \in DOMAIN board |-> IF draft.board[k] = 0 THEN Order.arg ELSE draft.board[k]]
<1> DEFINE e == Entry(<<draft.pc>>, Order, 0, 0)
<1>1. draft \in Drafts /\ Order \in Command BY NotTheLast
<1>2. draft.pc \in Int /\ Order.arg \in Int /\ Order.op \in STRING BY <1>1 DEF Drafts, Command
<1>3. e = [at |-> << draft.pc >>, op |-> Order.op, arg |-> Order.arg, drawn |-> 0, born |-> 0] BY DEF Entry
<1>4. e \in LogEntry /\ e.at = << draft.pc >> /\ e.op = Order.op /\ e.arg = Order.arg /\ e.drawn = 0 /\ e.born = 0
 <2>1. << draft.pc >> \in Seq(Int) BY <1>2
 <2> DEFINE at == << draft.pc >>
 <2> HIDE DEF at
 <2>2. at \in Seq(Int) /\ e = [at |-> at, op |-> Order.op, arg |-> Order.arg, drawn |-> 0, born |-> 0]
   BY <1>3, <2>1 DEF at
 <2>3. e \in LogEntry /\ e.at = at /\ e.op = Order.op /\ e.arg = Order.arg /\ e.drawn = 0 /\ e.born = 0
   BY <1>2, <2>2 DEF LogEntry
 <2> QED BY <2>3 DEF at
<1>5. DOMAIN board = DOMAIN draft.board BY <1>1 DEF Core, EntryTypes, Drafts, Boards
<1> HIDE DEF e
<1>6. EventEntry(e) BY <1>4 DEF EventEntry
<1>7. ASSUME Order.op = "consume"
      PROVE  Replayed(draft.board, e) = [k \in DOMAIN board |-> IF draft.board[k] = Order.arg THEN 0 ELSE draft.board[k]]
  BY <1>4, <1>5, <1>7 DEF Replayed
<1>8. ASSUME Order.op = "publish"
      PROVE  Replayed(draft.board, e) = [k \in DOMAIN board |-> IF draft.board[k] = 0 THEN Order.arg ELSE draft.board[k]]
  BY <1>4, <1>5, <1>8 DEF Replayed
<1> QED BY <1>6, <1>7, <1>8 DEF e

LEMMA TimelineStep ==
  ASSUME Core, TimelineNext
  PROVE  /\ call.phase = "timeline" /\ ~clock.pending /\ spawn = 0 /\ draft \in Drafts /\ draft.open /\ call \in Calls
         /\ draft.pc \in DOMAIN timeline
         /\ GivesUp \/ (Running /\ GoesOn) \/ FrameDone
<1>1. call.phase = "timeline" /\ ~clock.pending
  BY DEF TimelineNext, Frame, OutOfBudget, PassOver, GateUnknown, GateClosed, Offer, Wait, Consume, Publish, Running,
         InTimeline
<1>2. spawn = 0 /\ draft \in Drafts /\ draft.open /\ call \in Calls /\ draft.pc \in DOMAIN timeline
 <2>1. call \in Calls BY <1>1 DEF Core, EntryTypes, NoCall
 <2> QED BY <1>1, <2>1 DEF Core, EntryTypes, AtWork, NoDraft
<1>3. draft.time \in Int /\ draft.time + 1 \in Int BY <1>2 DEF Drafts
<1>4. CASE Frame
 <2>1. Commit(draft.time + 1, draft.pc, FALSE, draft.board, << >>) /\ Return
       /\ UNCHANGED <<timeline, actors, spawn, script, shared, rng, births>>
   BY <1>4 DEF Frame
 <2> DEFINE time == draft.time + 1
 <2>2. time \in Int /\ FALSE \in BOOLEAN BY <1>3
 <2> HIDE DEF time
 <2>3. FrameDone BY <2>1, <2>2 DEF FrameDone, time
 <2> QED BY <1>1, <1>2, <2>3
<1>5. CASE OutOfBudget BY <1>1, <1>2, <1>5 DEF OutOfBudget, Abandon, GivesUp
<1>6. CASE PassOver BY <1>1, <1>2, <1>6 DEF PassOver, GoesOn
<1>7. CASE GateUnknown BY <1>1, <1>2, <1>7 DEF GateUnknown, Abandon, GivesUp
<1>8. CASE GateClosed BY <1>1, <1>2, <1>8 DEF GateClosed, GoesOn
<1>9. CASE Offer
 <2>1. Running /\ Commit(draft.time, draft.pc, TRUE, draft.board, << >>)
       /\ UNCHANGED <<timeline, actors, spawn, script, shared, rng, births, call>>
   BY <1>9 DEF Offer
 <2>2. draft.pc + 1 \in DOMAIN timeline BY <2>1, NotTheLast
 <2>3. FrameDone BY <1>3, <2>1, <2>2 DEF FrameDone
 <2> QED BY <1>1, <1>2, <2>3
<1>10. ASSUME Stay PROVE FrameDone BY <1>3, <1>10 DEF Stay, FrameDone
<1>11. ASSUME Abandon PROVE GivesUp BY <1>11 DEF Abandon, GivesUp
<1>12. CASE Wait
 <2>1. Sees("busy") \in {"unknown", "no", "yes"} BY <1>2 DEF Sees, Calls
 <2>2. Running /\ (Abandon \/ Stay \/ Forward(draft.board, << >>)) BY <1>12, <2>1 DEF Wait
 <2> QED BY <1>1, <1>2, <1>10, <1>11, <2>2 DEF GoesOn
<1>13. CASE Consume
 <2> DEFINE e == Entry(<<draft.pc>>, Order, 0, 0)
 <2>1. Running /\ Order.op = "consume" BY <1>13 DEF Consume
 <2>2. EventEntry(e) /\ Replayed(draft.board, e)
          = [k \in DOMAIN board |-> IF draft.board[k] = Order.arg THEN 0 ELSE draft.board[k]]
   BY <2>1, EventIs
 <2>3. \/ Abandon \/ Stay
       \/ Forward([k \in DOMAIN board |-> IF draft.board[k] = Order.arg THEN 0 ELSE draft.board[k]], << e >>)
   BY <1>13 DEF Consume
 <2> HIDE DEF e
 <2>4. Abandon \/ Stay \/ Forward(Replayed(draft.board, e), << e >>) BY <2>2, <2>3
 <2>5. e \in LogEntry BY <2>2 DEF EventEntry
 <2> QED BY <1>1, <1>2, <1>10, <1>11, <2>1, <2>2, <2>4, <2>5 DEF GoesOn
<1>14. CASE Publish
 <2> DEFINE e == Entry(<<draft.pc>>, Order, 0, 0)
 <2>1. Running /\ Order.op = "publish" BY <1>14 DEF Publish
 <2>2. EventEntry(e) /\ Replayed(draft.board, e)
          = [k \in DOMAIN board |-> IF draft.board[k] = 0 THEN Order.arg ELSE draft.board[k]]
   BY <2>1, EventIs
 <2>3. \/ Abandon
       \/ Forward([k \in DOMAIN board |-> IF draft.board[k] = 0 THEN Order.arg ELSE draft.board[k]], << e >>)
   BY <1>14 DEF Publish
 <2> HIDE DEF e
 <2>4. Abandon \/ Forward(Replayed(draft.board, e), << e >>) BY <2>2, <2>3
 <2>5. e \in LogEntry BY <2>2 DEF EventEntry
 <2> QED BY <1>1, <1>2, <1>11, <2>1, <2>2, <2>4, <2>5 DEF GoesOn
<1> QED BY <1>4, <1>5, <1>6, <1>7, <1>8, <1>9, <1>12, <1>13, <1>14 DEF TimelineNext

LEMMA ReplayedBoard == ASSUME NEW events \in Boards, NEW e \in LogEntry PROVE Replayed(events, e) \in Boards
<1>1. e.arg \in Int BY DEF LogEntry
<1>2. DOMAIN events = 1..EventCount /\ \A k \in 1..EventCount : events[k] \in Int BY DEF Boards
<1>3. CASE e.op = "publish"
 <2> DEFINE f == [k \in DOMAIN events |-> IF events[k] = 0 THEN e.arg ELSE events[k]]
 <2>1. Replayed(events, e) = f BY <1>3 DEF Replayed
 <2>2. \A k \in 1..EventCount : (IF events[k] = 0 THEN e.arg ELSE events[k]) \in Int BY <1>1, <1>2
 <2>3. f \in [1..EventCount -> Int] BY <1>2, <2>2
 <2> QED BY <2>1, <2>3 DEF Boards
<1>4. CASE e.op = "consume"
 <2> DEFINE f == [k \in DOMAIN events |-> IF events[k] = e.arg THEN 0 ELSE events[k]]
 <2>1. Replayed(events, e) = f BY <1>4 DEF Replayed
 <2>2. \A k \in 1..EventCount : (IF events[k] = e.arg THEN 0 ELSE events[k]) \in Int BY <1>1, <1>2
 <2>3. f \in [1..EventCount -> Int] BY <1>2, <2>2
 <2> QED BY <2>1, <2>3 DEF Boards
<1>5. CASE e.op # "publish" /\ e.op # "consume" BY <1>5 DEF Replayed
<1> QED BY <1>3, <1>4, <1>5

LEMMA CoreTimeline == ASSUME Core, TimelineNext PROVE Core'
<1>1. /\ call.phase = "timeline" /\ ~clock.pending /\ spawn = 0 /\ draft \in Drafts /\ draft.open /\ call \in Calls
      /\ draft.pc \in DOMAIN timeline
      /\ GivesUp \/ (Running /\ GoesOn) \/ FrameDone
  BY TimelineStep
<1>2. CASE GivesUp BY <1>1, <1>2 DEF Core, EntryTypes, AtWork, RootSub, GivesUp, Return, NoDraft, NoCall
<1>3. CASE Running /\ GoesOn
 <2>1. draft.board \in Boards /\ << >> \in Seq(LogEntry) BY <1>1 DEF Drafts
 <2>2. CASE Forward(draft.board, << >>) BY <1>3, <2>1, <2>2, CoreForward
 <2>3. CASE \E e \in LogEntry : EventEntry(e) /\ Forward(Replayed(draft.board, e), << e >>)
  <3>1. PICK e \in LogEntry : Forward(Replayed(draft.board, e), << e >>) BY <2>3
  <3>2. Replayed(draft.board, e) \in Boards /\ << e >> \in Seq(LogEntry) BY <2>1, ReplayedBoard
  <3> QED BY <1>3, <3>1, <3>2, CoreForward
 <2> QED BY <1>3, <2>2, <2>3 DEF GoesOn
<1>4. CASE FrameDone
 <2>1. PICK time \in Int, pending \in BOOLEAN :
         /\ Commit(time, draft.pc, pending, draft.board, << >>)
         /\ IF pending THEN draft.pc + 1 \in DOMAIN timeline /\ UNCHANGED call ELSE Return
         /\ UNCHANGED <<timeline, actors, spawn, script, shared, rng, births>>
   BY <1>4 DEF FrameDone
 <2>2. draft.pc \in Int /\ draft.board \in Boards /\ draft.log \in Seq(LogEntry) BY <1>1 DEF Drafts
 <2>3. /\ clock' = [time |-> time, pc |-> draft.pc, pending |-> pending] /\ board' = draft.board /\ draft' = NoDraft
       /\ log' = log \o draft.log \o << >>
   BY <2>1 DEF Commit
 <2>4. log' \in Seq(LogEntry) BY <2>2, <2>3 DEF Core, EntryTypes
 <2>5. clock' \in [time : Int, pc : Int, pending : BOOLEAN] /\ clock'.pc = draft.pc /\ clock'.pending = pending
   BY <2>2, <2>3
 <2>6. call' = NoCall \/ (pending /\ call' = call) BY <2>1 DEF Return
 <2>7. EntryTypes' BY <1>1, <2>1, <2>2, <2>3, <2>4, <2>5, <2>6 DEF Core, EntryTypes
 <2>8. ~draft'.open BY <2>3 DEF NoDraft
 <2>9. call' = NoCall => call'.phase = "idle" BY DEF NoCall
 <2> QED BY <1>1, <2>1, <2>5, <2>6, <2>7, <2>8, <2>9 DEF Core, AtWork
<1> QED BY <1>1, <1>2, <1>3, <1>4
----
\* The kinds of steps of a script that are no end of it: what is given up
\* or what stays.
LEMMA QuitsIs ==
  ASSUME Core, Finished \/ Blocked
  PROVE  /\ call.phase = "script" /\ Return
         /\ UNCHANGED <<timeline, clock, board, draft, actors, spawn, script, shared, rng, births, log>>
BY DEF Finished, Blocked

LEMMA CoreScriptNext == ASSUME Core, PendingInCode, ScriptNext PROVE Core'
<1>1. CASE Masked BY <1>1, CoreMasked
<1>2. CASE Scalar BY <1>2, CoreScalar
<1>3. CASE CallSub BY <1>3, CoreCallSub
<1>4. CASE ReturnSub BY <1>4, CoreReturnSub
<1>5. CASE Jump BY <1>5, CoreJump
<1>6. CASE Yield BY <1>6, CoreYield
<1>7. CASE End BY <1>7, CoreEnd
<1>8. CASE Finished \/ Blocked BY <1>8, QuitsIs, CoreQuits
<1>9. CASE ApplyMotion
 <2>1. Offered("move") /\ Applicable /\ Applied(0) /\ 0 \in Int BY <1>9 DEF ApplyMotion
 <2> QED BY <2>1, CoreApplied
<1>10. CASE ApplyField
 <2>1. Offered("field") /\ Applicable /\ Applied(0) /\ 0 \in Int BY <1>10 DEF ApplyField
 <2> QED BY <2>1, CoreApplied
<1>11. CASE ApplyBurst
 <2>1. Offered("burst") /\ Applicable /\ Applied(Born) /\ call.phase = "script" /\ script.pc \in DOMAIN Code
   BY <1>11 DEF ApplyBurst, Offered, PendingInCode, Code
 <2>2. Born \in Int BY <2>1, BornIs
 <2> QED BY <2>1, <2>2, CoreApplied
<1>12. CASE Spawned BY <1>12, CoreSpawned
<1>13. CASE Died BY <1>13, CoreDied
<1> QED BY <1>1, <1>2, <1>3, <1>4, <1>5, <1>6, <1>7, <1>8, <1>9, <1>10, <1>11, <1>12, <1>13 DEF ScriptNext

LEMMA PendingScriptNext == ASSUME Core, PendingInCode, ScriptNext PROVE PendingInCode'
<1>1. CASE Masked BY <1>1, MaskedIs DEF PendingInCode
<1>2. CASE Scalar BY <1>2, ScalarIs DEF PendingInCode
<1>3. CASE CallSub BY <1>3, CallIs DEF PendingInCode
<1>4. CASE ReturnSub BY <1>4, ReturnIs DEF PendingInCode
<1>5. CASE Jump BY <1>5, JumpIs DEF PendingInCode
<1>6. CASE Yield BY <1>6, YieldIs DEF PendingInCode, Code, Op, ScriptBoundary
<1>7. CASE End BY <1>7, EndIs DEF PendingInCode
<1>8. CASE Finished \/ Blocked BY <1>8, QuitsIs DEF PendingInCode
<1>9. CASE ApplyMotion \/ ApplyField \/ ApplyBurst
 <2>1. script.pending /\ script' = [script EXCEPT !.pending = FALSE, !.pc = script.pc + 1] /\ call.phase = "script"
   BY <1>9 DEF ApplyMotion, ApplyField, ApplyBurst, Offered, Applied
 <2>2. script \in Scripts BY <2>1, AtInstruction
 <2>3. script'.pending = FALSE BY <2>1, <2>2, ResumedIs
 <2> QED BY <2>3 DEF PendingInCode
<1>10. CASE Spawned \/ Died
 <2>1. script' = NoScript BY <1>10 DEF Spawned, Died, SpawnOver
 <2> QED BY <2>1 DEF PendingInCode, NoScript
<1> QED BY <1>1, <1>2, <1>3, <1>4, <1>5, <1>6, <1>7, <1>8, <1>9, <1>10 DEF ScriptNext

LEMMA CoreStep == ASSUME Core, PendingInCode, [EntryNext]_entryVars PROVE Core' /\ PendingInCode'
<1>1. CASE UNCHANGED entryVars BY <1>1 DEF Core, EntryTypes, AtWork, RootSub, PendingInCode, entryVars
<1>2. ASSUME NEW given \in SUBSET {"rng", "player", "effects"}, NEW limit \in Limits,
             NEW observed \in [{"boss", "suppressed", "busy", "events"} -> {"unknown", "no", "yes"}],
             Advance(given, observed, limit)
      PROVE  Core' /\ PendingInCode'
  BY <1>2, CoreAdvance DEF Advance, PendingInCode
<1>3. CASE Handoff BY <1>3, CoreHandoff DEF Handoff, PendingInCode
<1>4. CASE TimelineNext
 <2>1. UNCHANGED script BY <1>4, TimelineStep DEF GivesUp, GoesOn, Forward, FrameDone
 <2> QED BY <1>4, <2>1, CoreTimeline DEF PendingInCode
<1>5. CASE Refuse BY <1>5, CoreRefuse DEF Refuse, PendingInCode
<1>6. CASE Begin BY <1>6, CoreBegin, BeginIs DEF PendingInCode
<1>7. CASE PoolFull BY <1>7, CorePoolFull DEF PoolFull, PendingInCode
<1>8. CASE ScriptNext BY <1>8, CoreScriptNext, PendingScriptNext
<1> QED BY <1>1, <1>2, <1>3, <1>4, <1>5, <1>6, <1>7, <1>8 DEF EntryNext
----
\* The kinds of steps, for what else they keep.  A step that leaves the
\* world alone.
Idles ==
  /\ UNCHANGED <<timeline, clock, board, actors, spawn, script, shared, rng, births, log>>
  /\ \/ draft' = NoDraft
     \/ draft' = draft
     \/ draft' \in Drafts /\ draft'.open = TRUE /\ draft'.log = << >> /\ draft'.board = board /\ draft'.pc = clock.pc
  /\ call.phase = "script" /\ call'.phase # "script" => script.pending \/ script.end # "no"

\* A step that commits one entry of a script.
Logs(e) ==
  /\ call.phase = "script" /\ script.pc \in DOMAIN Code /\ Op.pass /\ Op.time = script.time
  /\ e \in LogEntry /\ e.at = Here /\ e.op = Op.op /\ e.arg = Op.arg /\ e.op \in Logged
  /\ log' = Append(log, e) /\ rng' = rng + e.drawn /\ births' = births + e.born
  /\ script' \in Scripts /\ script'.pc = script.pc + 1 /\ script'.sub = script.sub /\ script'.frames = script.frames
  /\ script'.time = script.time /\ script'.pending = FALSE /\ script'.end = script.end
  /\ script'.local = (IF e.op \in {"set", "draw"} THEN e.arg ELSE script.local)
  /\ script'.shared = (IF e.op = "share" THEN e.arg ELSE script.shared)
  /\ e.op \in {"set", "draw", "share"} => ~script.pending /\ script.end = "no"
  /\ e.op \notin {"set", "draw", "share"} => script.pending
  /\ UNCHANGED <<timeline, clock, board, draft, actors, spawn, shared, call>>

LEMMA AppliedLogs ==
  ASSUME Core, PendingInCode, NEW op \in {"move", "field", "burst"}, Offered(op), Applicable, NEW born \in Int, Applied(born)
  PROVE  \E e \in LogEntry : Logs(e)
<1>1. PICK n \in Int : /\ rng' = rng + n /\ births' = births + born /\ Entry(Here, Op, n, born) \in LogEntry
                       /\ log' = Append(log, Entry(Here, Op, n, born))
  BY AppliedIs
<1> DEFINE e == Entry(Here, Op, n, born)
<1>2. e.at = Here /\ e.op = Op.op /\ e.arg = Op.arg /\ e.drawn = n /\ e.born = born BY DEF Entry
<1> HIDE DEF e
<1>3. /\ call.phase = "script" /\ script.pending /\ script.pc \in DOMAIN Code /\ Op.op = op
      /\ script' \in Scripts /\ script'.pending = FALSE /\ script'.pc = script.pc + 1
      /\ script'.time = script.time
      /\ script'.local = script.local /\ script'.shared = script.shared
      /\ script'.sub = script.sub /\ script'.frames = script.frames /\ script'.end = script.end
      /\ UNCHANGED <<timeline, clock, board, draft, actors, spawn, shared, call>>
  BY AppliedIs
<1>4. Op.pass /\ Op.time = script.time BY <1>3 DEF PendingInCode, Op, Code
<1>5. e \in LogEntry /\ log' = Append(log, e) /\ rng' = rng + e.drawn /\ births' = births + e.born
  BY <1>1, <1>2 DEF e
<1>6. e.op \in Logged /\ e.op \notin {"set", "draw", "share"} BY <1>2, <1>3 DEF Logged
<1>7. Logs(e) BY <1>2, <1>3, <1>4, <1>5, <1>6 DEF Logs
<1> QED BY <1>5, <1>7

LEMMA ScalarLogs == ASSUME Core, Scalar PROVE \E e \in LogEntry : Logs(e)
<1>1. PICK n \in Nat : /\ rng' = rng + n /\ Entry(Here, Op, n, 0) \in LogEntry
                       /\ log' = Append(log, Entry(Here, Op, n, 0))
  BY ScalarIs
<1> DEFINE e == Entry(Here, Op, n, 0)
<1>2. e.at = Here /\ e.op = Op.op /\ e.arg = Op.arg /\ e.drawn = n /\ e.born = 0 BY DEF Entry
<1> HIDE DEF e
<1>3. /\ call.phase = "script" /\ ~script.pending /\ script.end = "no"
      /\ script.pc \in DOMAIN Code /\ Op.op \in {"set", "draw", "share"} /\ ~ScriptBoundary
      /\ Op.pass
      /\ script' \in Scripts /\ script'.pc = script.pc + 1
      /\ script'.local = (IF Op.op = "share" THEN script.local ELSE Op.arg)
      /\ script'.shared = (IF Op.op = "share" THEN Op.arg ELSE script.shared)
      /\ script'.sub = script.sub /\ script'.frames = script.frames
      /\ script'.time = script.time /\ script'.pending = script.pending /\ script'.end = script.end
      /\ UNCHANGED <<timeline, clock, board, draft, actors, spawn, shared, births, call>>
  BY ScalarIs
<1>4. Op.time = script.time BY <1>3 DEF ScriptBoundary, Op
<1>5. births \in Int BY DEF Core, EntryTypes
<1>6. e \in LogEntry /\ log' = Append(log, e) /\ rng' = rng + e.drawn /\ births' = births + e.born
  BY <1>1, <1>2, <1>3, <1>5 DEF e
<1>7. e.op \in Logged /\ (e.op = "share" <=> e.op \notin {"set", "draw"}) BY <1>2, <1>3 DEF Logged
<1>8. script'.pending = FALSE BY <1>3, ScriptIs
<1>9. Logs(e) BY <1>2, <1>3, <1>4, <1>6, <1>7, <1>8 DEF Logs
<1> QED BY <1>6, <1>9

LEMMA KindsOfScriptStep ==
  ASSUME Core, PendingInCode, ScriptNext
  PROVE  \/ Idles
         \/ \E e \in LogEntry : Logs(e)
         \/ Masked \/ CallSub \/ ReturnSub \/ Jump \/ Yield \/ End
         \/ Spawned \/ Died
<1>1. CASE Finished \/ Blocked BY <1>1 DEF Finished, Blocked, Idles
<1>2. CASE Scalar BY <1>2, ScalarLogs
<1>3. CASE ApplyMotion
 <2>1. Offered("move") /\ Applicable /\ Applied(0) /\ 0 \in Int BY <1>3 DEF ApplyMotion
 <2> QED BY <2>1, AppliedLogs
<1>4. CASE ApplyField
 <2>1. Offered("field") /\ Applicable /\ Applied(0) /\ 0 \in Int BY <1>4 DEF ApplyField
 <2> QED BY <2>1, AppliedLogs
<1>5. CASE ApplyBurst
 <2>1. Offered("burst") /\ Applicable /\ Applied(Born) /\ call.phase = "script" /\ script.pc \in DOMAIN Code
   BY <1>5 DEF ApplyBurst, Offered, PendingInCode, Code
 <2>2. Born \in Int BY <2>1, BornIs
 <2> QED BY <2>1, <2>2, AppliedLogs
<1> QED BY <1>1, <1>2, <1>3, <1>4, <1>5 DEF ScriptNext

LEMMA KindsOfStep ==
  ASSUME Core, PendingInCode, [EntryNext]_entryVars
  PROVE  \/ Idles
         \/ Running /\ GoesOn
         \/ FrameDone /\ TimelineNext
         \/ Begin \/ PoolFull
         \/ \E e \in LogEntry : Logs(e)
         \/ Masked \/ CallSub \/ ReturnSub \/ Jump \/ Yield \/ End
         \/ Spawned \/ Died
<1>1. CASE UNCHANGED entryVars BY <1>1 DEF entryVars, Idles
<1>2. ASSUME NEW given \in SUBSET {"rng", "player", "effects"}, NEW limit \in Limits,
             NEW observed \in [{"boss", "suppressed", "busy", "events"} -> {"unknown", "no", "yes"}],
             Advance(given, observed, limit)
      PROVE  Idles
 <2>1. call.phase = "idle" BY <1>2 DEF Advance, NoCall
 <2> QED BY <1>2, <2>1 DEF Advance, Idles
<1>3. CASE Handoff
 <2> DEFINE fresh == [open |-> TRUE, time |-> clock.time, pc |-> clock.pc, board |-> board, examined |-> 0, log |-> << >>]
 <2>1. draft' = draft \/ draft' = fresh BY <1>3 DEF Handoff
 <2>2. fresh \in Drafts /\ fresh.open = TRUE /\ fresh.log = << >> /\ fresh.board = board /\ fresh.pc = clock.pc
  <3>1. << >> \in Seq(LogEntry) /\ clock.time \in Int /\ clock.pc \in Int /\ board \in Boards
    BY DEF Core, EntryTypes
  <3> QED BY <3>1 DEF Drafts
 <2> HIDE DEF fresh
 <2> QED BY <1>3, <2>1, <2>2 DEF Handoff, Idles
<1>4. CASE TimelineNext
 <2>1. GivesUp \/ (Running /\ GoesOn) \/ FrameDone BY <1>4, TimelineStep
 <2>2. CASE GivesUp
  <3>1. call.phase = "timeline" BY <1>4, TimelineStep
  <3> QED BY <2>2, <3>1 DEF GivesUp, Idles
 <2> QED BY <1>4, <2>1, <2>2
<1>5. CASE Refuse BY <1>5 DEF Refuse, Idles
<1>6. CASE ScriptNext BY <1>6, KindsOfScriptStep
<1> QED BY <1>1, <1>2, <1>3, <1>4, <1>5, <1>6 DEF EntryNext
----
\* The world is what the log makes of the first one, step by step.
LEMMA EntryLogged ==
  ASSUME NEW entries \in Seq(LogEntry), NEW e \in LogEntry, NEW r \in Int, NEW b \in Int, NEW events,
         WorldOf(entries) = [rng |-> r, births |-> b, board |-> events]
  PROVE  WorldOf(Append(entries, e)) = [rng |-> r + e.drawn, births |-> b + e.born, board |-> Replayed(events, e)]
<1>1. WorldOf(Append(entries, e)) = AfterEntry([rng |-> r, births |-> b, board |-> events], e) BY WorldOfMore
<1> QED BY <1>1 DEF AfterEntry

LEMMA WorldFirst == ASSUME EntryInit PROVE WorldLogged
<1>1. WorldOf(log) = FirstWorld BY WorldOfNone DEF EntryInit
<1> QED BY <1>1 DEF EntryInit, WorldLogged, FirstWorld, NoDraft

LEMMA WorldStep ==
  ASSUME Core, PendingInCode, WorldLogged, [EntryNext]_entryVars
  PROVE  WorldLogged'
<1>1. log \in Seq(LogEntry) /\ rng \in Int /\ births \in Int BY DEF Core, EntryTypes
<1>2. log \o << >> = log BY <1>1
<1>3. CASE Idles
 <2>1. WorldOf(log)' = [rng |-> rng, births |-> births, board |-> board]' BY <1>3 DEF WorldLogged, Idles
 <2>2. ASSUME draft'.open PROVE WorldOf(log \o draft.log)' = [rng |-> rng, births |-> births, board |-> draft.board]'
  <3>1. CASE draft' = NoDraft BY <2>2, <3>1 DEF NoDraft
  <3>2. CASE draft' = draft BY <1>3, <2>2, <3>2 DEF WorldLogged, Idles
  <3>3. CASE draft'.log = << >> /\ draft'.board = board BY <1>2, <1>3, <3>3 DEF WorldLogged, Idles
  <3> QED BY <1>3, <3>1, <3>2, <3>3 DEF Idles
 <2> QED BY <2>1, <2>2 DEF WorldLogged
<1>4. CASE Running /\ GoesOn
 <2>1. draft \in Drafts /\ draft.open /\ draft.log \in Seq(LogEntry) BY <1>4, NotTheLast DEF Drafts
 <2>2. WorldOf(log \o draft.log) = [rng |-> rng, births |-> births, board |-> draft.board]
   BY <2>1 DEF WorldLogged
 <2>3. ASSUME NEW events, NEW entries, Forward(events, entries)
       PROVE  /\ draft'.board = events /\ draft'.log = draft.log \o entries
              /\ log' = log /\ rng' = rng /\ births' = births /\ board' = board
   BY <2>1, <2>3 DEF Forward, Drafts
 <2>4. CASE Forward(draft.board, << >>)
  <3>1. /\ draft'.board = draft.board /\ draft'.log = draft.log \o << >>
        /\ log' = log /\ rng' = rng /\ births' = births /\ board' = board
    BY <2>3, <2>4
  <3>2. draft'.log = draft.log BY <2>1, <3>1
  <3> QED BY <2>2, <3>1, <3>2 DEF WorldLogged
 <2>5. CASE \E e \in LogEntry : EventEntry(e) /\ Forward(Replayed(draft.board, e), << e >>)
  <3>1. PICK e \in LogEntry : EventEntry(e) /\ Forward(Replayed(draft.board, e), << e >>) BY <2>5
  <3>2. /\ draft'.board = Replayed(draft.board, e) /\ draft'.log = draft.log \o << e >>
        /\ log' = log /\ rng' = rng /\ births' = births /\ board' = board
    BY <2>3, <3>1
  <3>3. log \o (draft.log \o << e >>) = Append(log \o draft.log, e) /\ log \o draft.log \in Seq(LogEntry)
    BY <1>1, <2>1
  <3>4. WorldOf(Append(log \o draft.log, e))
          = [rng |-> rng + e.drawn, births |-> births + e.born, board |-> Replayed(draft.board, e)]
   <4> DEFINE L == log \o draft.log
   <4>1. L \in Seq(LogEntry) /\ WorldOf(L) = [rng |-> rng, births |-> births, board |-> draft.board]
     BY <2>2, <3>3
   <4>e. e \in LogEntry /\ rng \in Int /\ births \in Int BY <1>1, <3>1
   <4> HIDE DEF L
   <4>2. WorldOf(Append(L, e))
           = [rng |-> rng + e.drawn, births |-> births + e.born, board |-> Replayed(draft.board, e)]
     BY <4>1, <4>e, EntryLogged, Zenon
   <4> QED BY <4>2 DEF L
  <3>5. e.drawn = 0 /\ e.born = 0 /\ rng + 0 = rng /\ births + 0 = births BY <1>1, <3>1 DEF EventEntry
  <3>6. WorldOf(log \o draft.log)' = [rng |-> rng, births |-> births, board |-> draft.board]'
    BY <3>2, <3>3, <3>4, <3>5
  <3>7. WorldOf(log)' = [rng |-> rng, births |-> births, board |-> board]' BY <3>2 DEF WorldLogged
  <3> QED BY <3>6, <3>7 DEF WorldLogged
 <2> QED BY <1>4, <2>4, <2>5 DEF GoesOn
<1>5. CASE FrameDone /\ TimelineNext
 <2>1. draft \in Drafts /\ draft.open /\ draft.log \in Seq(LogEntry) BY <1>5, TimelineStep DEF Drafts
 <2>2. WorldOf(log \o draft.log) = [rng |-> rng, births |-> births, board |-> draft.board]
   BY <2>1 DEF WorldLogged
 <2>3. /\ log' = log \o draft.log \o << >> /\ board' = draft.board /\ draft' = NoDraft /\ rng' = rng /\ births' = births
   BY <1>5 DEF FrameDone, Commit
 <2>4. log' = log \o draft.log BY <1>1, <2>1, <2>3
 <2> QED BY <2>2, <2>3, <2>4 DEF WorldLogged, NoDraft
<1>6. ASSUME NEW e \in LogEntry, log' = Append(log, e), rng' = rng + e.drawn, births' = births + e.born, board' = board,
             e.op \notin {"publish", "consume"}, ~draft'.open
      PROVE  WorldLogged'
 <2>1. WorldOf(log) = [rng |-> rng, births |-> births, board |-> board] BY DEF WorldLogged
 <2>2. WorldOf(Append(log, e)) = [rng |-> rng + e.drawn, births |-> births + e.born, board |-> Replayed(board, e)]
   BY <1>1, <2>1, EntryLogged
 <2>3. Replayed(board, e) = board BY <1>6 DEF Replayed
 <2> QED BY <1>6, <2>2, <2>3 DEF WorldLogged
<1>7. CASE Begin
 <2> DEFINE e == Entry(<<clock.pc>>, Pending, 0, 0)
 <2>1. e \in LogEntry /\ log' = Append(log, e) /\ timeline[clock.pc].op \in Spawns BY <1>7, BeginIs
 <2>2. e.op = timeline[clock.pc].op /\ e.drawn = 0 /\ e.born = 0 BY DEF Entry, Pending
 <2> HIDE DEF e
 <2>3. e.op \notin {"publish", "consume"} BY <2>1, <2>2 DEF Spawns
 <2>4. rng' = rng + e.drawn /\ births' = births + e.born /\ board' = board /\ ~draft'.open
   BY <1>1, <1>7, <2>2 DEF Begin, NoDraft
 <2> QED BY <1>6, <2>1, <2>3, <2>4
<1>8. CASE PoolFull BY <1>8 DEF PoolFull, WorldLogged, NoDraft
<1>9. CASE \E e \in LogEntry : Logs(e)
 <2>1. PICK e \in LogEntry : Logs(e) BY <1>9
 <2>2. call.phase = "script" /\ log' = Append(log, e) /\ rng' = rng + e.drawn /\ births' = births + e.born /\ board' = board
       /\ e.op \in Logged /\ draft' = draft
   BY <2>1 DEF Logs
 <2>3. ~draft'.open BY <2>2, AtInstruction
 <2>4. e.op \notin {"publish", "consume"} BY <2>2 DEF Logged
 <2> QED BY <1>6, <2>2, <2>3, <2>4
<1>10. ASSUME UNCHANGED <<board, draft, rng, births, log>> PROVE WorldLogged' BY <1>10 DEF WorldLogged
<1>11. CASE Masked \/ CallSub \/ ReturnSub \/ Jump \/ Yield \/ End
  BY <1>10, <1>11 DEF Masked, CallSub, ReturnSub, Jump, Yield, End
<1>12. CASE Spawned \/ Died
 <2>1. call.phase = "script" /\ SpawnOver BY <1>12 DEF Spawned, Died, InScript
 <2>2. draft'.log = << >> /\ draft'.board = board /\ UNCHANGED <<board, rng, births, log>> BY <2>1, SpawnOverIs
 <2> QED BY <1>2, <2>2 DEF WorldLogged
<1> QED BY <1>3, <1>4, <1>5, <1>7, <1>8, <1>9, <1>11, <1>12, KindsOfStep
----
\* Program order along a log.
LEMMA OrderedAppend ==
  ASSUME NEW s \in Seq(LogEntry), NEW e \in LogEntry, Ordered(s), Below(s, e.at)
  PROVE  Ordered(Append(s, e))
<1> DEFINE t == Append(s, e)
           n == Len(s)
<1>1. n \in Nat /\ Len(t) = n + 1 /\ t[n + 1] = e /\ \A k \in 1..n : t[k] = s[k] OBVIOUS
<1> HIDE DEF t
<1>2. ASSUME NEW k \in 1..n PROVE Before(t[k].at, t[k + 1].at)
 <2>1. CASE k = n
  <3>1. k \in DOMAIN s OBVIOUS
  <3> QED BY <1>1, <2>1, <3>1 DEF Below
 <2>2. CASE k # n
  <3>1. k \in 1..n - 1 /\ k + 1 \in 1..n BY <1>1, <2>2
  <3> QED BY <1>1, <3>1 DEF Ordered
 <2> QED BY <2>1, <2>2
<1>3. Len(t) - 1 = n BY <1>1
<1> HIDE DEF n
<1> QED BY <1>2, <1>3 DEF Ordered, t

LEMMA BelowAppend ==
  ASSUME NEW s \in Seq(LogEntry), NEW e \in LogEntry, NEW at, Below(s, at), Before(e.at, at)
  PROVE  Below(Append(s, e), at)
<1> DEFINE t == Append(s, e)
           n == Len(s)
<1>1. n \in Nat /\ DOMAIN t = 1..n + 1 /\ t[n + 1] = e /\ \A k \in 1..n : t[k] = s[k] OBVIOUS
<1>2. DOMAIN s = 1..n OBVIOUS
<1> HIDE DEF t
<1>3. ASSUME NEW k \in DOMAIN t PROVE Before(t[k].at, at)
 <2>1. CASE k = n + 1 BY <1>1, <2>1
 <2>2. CASE k # n + 1
  <3>1. k \in 1..n BY <1>1, <2>2
  <3> QED BY <1>1, <1>2, <3>1 DEF Below
 <2> QED BY <2>1, <2>2
<1> QED BY <1>3 DEF Below, t

LEMMA BelowMore ==
  ASSUME NEW s \in Seq(LogEntry), NEW a \in Seq(Int), NEW b \in Seq(Int), Below(s, a), Before(a, b)
  PROVE  Below(s, b)
<1>1. ASSUME NEW k \in DOMAIN s PROVE Before(s[k].at, b)
 <2>1. s[k].at \in Seq(Int)
  <3>1. s[k] \in LogEntry OBVIOUS
  <3> QED BY <3>1 DEF LogEntry
 <2>2. Before(s[k].at, a) BY DEF Below
 <2> QED BY <2>1, <2>2, BeforeBefore
<1> QED BY <1>1 DEF Below

LEMMA Concatenated ==
  ASSUME NEW s \in Seq(LogEntry), NEW t \in Seq(LogEntry)
  PROVE  /\ s \o t \in Seq(LogEntry) /\ Len(s \o t) = Len(s) + Len(t)
         /\ \A k \in 1..Len(s) : k \in DOMAIN (s \o t) /\ (s \o t)[k] = s[k]
         /\ \A k \in 1..Len(t) : Len(s) + k \in DOMAIN (s \o t) /\ (s \o t)[Len(s) + k] = t[k]
         /\ \A k \in DOMAIN (s \o t) : k \in 1..Len(s) \/ (k - Len(s) \in 1..Len(t) /\ (s \o t)[k] = t[k - Len(s)])
OBVIOUS

LEMMA OrderedConcat ==
  ASSUME NEW s \in Seq(LogEntry), NEW t \in Seq(LogEntry), Ordered(s), Ordered(t),
         \A i \in DOMAIN t : Below(s, t[i].at)
  PROVE  Ordered(s \o t)
<1> DEFINE u == s \o t
           n == Len(s)
           m == Len(t)
<1>1. n \in Nat /\ m \in Nat /\ Len(u) = n + m /\ DOMAIN s = 1..n /\ DOMAIN t = 1..m OBVIOUS
<1>2. /\ \A k \in 1..n : u[k] = s[k]
      /\ \A k \in 1..m : u[n + k] = t[k]
  BY Concatenated
<1> HIDE DEF u, n, m
<1>3. ASSUME NEW k \in 1..n + m - 1 PROVE Before(u[k].at, u[k + 1].at)
 <2>1. CASE k < n
  <3>1. k \in 1..n - 1 /\ k \in 1..n /\ k + 1 \in 1..n BY <1>1, <2>1
  <3>2. Before(s[k].at, s[k + 1].at) BY <3>1 DEF Ordered, n
  <3> QED BY <1>2, <3>1, <3>2
 <2>2. CASE k = n
  <3>1. k \in 1..n /\ 1 \in 1..m BY <1>1, <2>2
  <3>2. u[k] = s[k] /\ u[k + 1] = t[1] BY <1>2, <2>2, <3>1
  <3>3. Before(s[k].at, t[1].at) BY <1>1, <3>1 DEF Below
  <3> QED BY <3>2, <3>3
 <2>3. CASE k > n
  <3> DEFINE j == k - n
  <3>1. j \in 1..m - 1 /\ j \in 1..m /\ j + 1 \in 1..m /\ n + j = k /\ n + (j + 1) = k + 1 BY <1>1, <2>3
  <3> HIDE DEF j
  <3>2. Before(t[j].at, t[j + 1].at) BY <3>1 DEF Ordered, m
  <3>3. u[n + j] = t[j] /\ u[n + (j + 1)] = t[j + 1] BY <1>2, <3>1
  <3> QED BY <3>1, <3>2, <3>3
 <2> QED BY <1>1, <2>1, <2>2, <2>3
<1> QED BY <1>1, <1>3 DEF Ordered, u

LEMMA BelowConcat ==
  ASSUME NEW s \in Seq(LogEntry), NEW t \in Seq(LogEntry), NEW at, Below(s, at), Below(t, at)
  PROVE  Below(s \o t, at)
<1> DEFINE u == s \o t
           n == Len(s)
<1>1. n \in Nat /\ DOMAIN s = 1..n /\ DOMAIN t = 1..Len(t) OBVIOUS
<1>2. /\ \A k \in 1..n : u[k] = s[k]
      /\ \A k \in DOMAIN u : k \in 1..n \/ (k - n \in 1..Len(t) /\ u[k] = t[k - n])
  BY Concatenated
<1> HIDE DEF u, n
<1>3. ASSUME NEW k \in DOMAIN u PROVE Before(u[k].at, at)
 <2>1. CASE k \in 1..n BY <1>1, <1>2, <2>1 DEF Below
 <2>2. CASE k - n \in 1..Len(t) /\ u[k] = t[k - n]
  <3> DEFINE j == k - n
  <3>1. j \in DOMAIN t /\ u[k] = t[j] BY <1>1, <2>2
  <3> HIDE DEF j
  <3> QED BY <3>1 DEF Below
 <2> QED BY <1>2, <2>1, <2>2
<1> QED BY <1>3 DEF Below, u

LEMMA LaterAt ==
  ASSUME NEW a \in Seq(Int), NEW b \in Seq(Int), NEW k \in 1..Len(b),
         \A j \in 1..k - 1 : j \in DOMAIN a /\ a[j] = b[j], k \in DOMAIN a => a[k] < b[k]
  PROVE  Before(a, b)
<1>1. k \in DOMAIN b OBVIOUS
<1> QED BY <1>1 DEF Before

\* Every step of the programs goes to a later place.
LEMMA OnInSub ==
  ASSUME EntryTypes, EntryTypes', clock' = clock, script'.frames = script.frames, script'.pc > script.pc
  PROVE  Before(Here, Here')
<1> DEFINE n == Len(script.frames)
           a == Here
           b == Here'
<1>1. n \in Nat /\ a \in Seq(Int) /\ b \in Seq(Int) /\ Len(a) = n + 2 /\ Len(b) = n + 2 BY HereIs, HereNext
<1>2. a[1] = clock.pc /\ b[1] = clock.pc /\ \A k \in 1..n : a[k + 1] = b[k + 1] BY HereIs, HereNext
<1>3. a[n + 2] < b[n + 2]
 <2>1. a[n + 2] = script.pc /\ b[n + 2] = script'.pc BY HereIs, HereNext
 <2>2. script.pc \in Int /\ script'.pc \in Int BY ScriptIs DEF EntryTypes
 <2> QED BY <2>1, <2>2
<1> HIDE DEF a, b, n
<1>4. ASSUME NEW j \in 1..n + 1 PROVE j \in DOMAIN a /\ a[j] = b[j]
 <2>1. j \in DOMAIN a BY <1>1
 <2>2. CASE j = 1 BY <1>2, <2>1, <2>2
 <2>3. CASE j # 1
  <3>1. j - 1 \in 1..n /\ (j - 1) + 1 = j BY <1>1, <2>3
  <3> QED BY <1>2, <2>1, <3>1
 <2> QED BY <2>2, <2>3
<1> DEFINE m == n + 2
<1>5. m \in 1..Len(b) /\ m - 1 = n + 1 /\ a[m] < b[m] BY <1>1, <1>3
<1> HIDE DEF m
<1>6. Before(a, b) BY <1>1, <1>4, <1>5, LaterAt
<1> QED BY <1>6 DEF a, b

LEMMA IntoSub ==
  ASSUME EntryTypes, EntryTypes', clock' = clock, NEW frame \in CallFrames, frame.pc = script.pc,
         script'.frames = Append(script.frames, frame)
  PROVE  /\ Before(Here, Here')
         /\ Len(Here') = Len(Here) + 1 /\ Len(Here) \in Nat /\ \A j \in 1..Len(Here) : Here'[j] = Here[j]
<1> DEFINE n == Len(script.frames)
           a == Here
           b == Here'
<1>1. script.frames \in Seq(CallFrames) BY ScriptIs DEF EntryTypes
<1>2. /\ n \in Nat /\ Len(script'.frames) = n + 1 /\ script'.frames[n + 1] = frame
      /\ \A k \in 1..n : script'.frames[k] = script.frames[k]
  BY <1>1
<1>3. /\ a \in Seq(Int) /\ b \in Seq(Int) /\ Len(a) = n + 2 /\ Len(b) = n + 3
      /\ a[1] = clock.pc /\ b[1] = clock.pc
      /\ a[n + 2] = frame.pc /\ \A k \in 1..n : a[k + 1] = script.frames[k].pc
      /\ \A k \in 1..n + 1 : b[k + 1] = script'.frames[k].pc
 <2>1. Len(b) = (n + 1) + 2 /\ \A k \in 1..n + 1 : b[k + 1] = script'.frames[k].pc BY <1>2, HereNext
 <2>2. (n + 1) + 2 = n + 3 BY <1>2
 <2>3. /\ a \in Seq(Int) /\ Len(a) = n + 2 /\ a[1] = clock.pc
       /\ a[n + 2] = frame.pc /\ \A k \in 1..n : a[k + 1] = script.frames[k].pc
   BY HereIs
 <2>4. b \in Seq(Int) /\ b[1] = clock.pc BY HereNext
 <2> HIDE DEF a, b, n
 <2> QED BY <2>1, <2>2, <2>3, <2>4
<1> HIDE DEF a, b, n
<1>4. ASSUME NEW j \in 1..n + 2 PROVE j \in DOMAIN a /\ a[j] = b[j]
 <2>1. j \in DOMAIN a BY <1>2, <1>3
 <2>2. CASE j = 1 BY <1>3, <2>1, <2>2
 <2>3. CASE j = n + 2
  <3>1. n + 1 \in 1..n + 1 /\ (n + 1) + 1 = n + 2 BY <1>2
  <3> QED BY <1>2, <1>3, <2>1, <2>3, <3>1
 <2>4. CASE j # 1 /\ j # n + 2
  <3>1. j - 1 \in 1..n /\ j - 1 \in 1..n + 1 /\ (j - 1) + 1 = j BY <1>2, <2>4
  <3> QED BY <1>2, <1>3, <2>1, <3>1
 <2> QED BY <2>2, <2>3, <2>4
<1> DEFINE m == n + 3
<1>5. m \in 1..Len(b) /\ m - 1 = n + 2 /\ m \notin DOMAIN a BY <1>2, <1>3
<1> HIDE DEF m
<1>6. Before(a, b) BY <1>3, <1>4, <1>5, LaterAt
<1>7. Len(b) = Len(a) + 1 /\ Len(a) \in Nat /\ \A j \in 1..Len(a) : b[j] = a[j]
 <2>1. Len(a) = n + 2 /\ n + 2 \in Nat /\ Len(b) = (n + 2) + 1 BY <1>2, <1>3
 <2>2. \A j \in 1..n + 2 : b[j] = a[j] BY <1>4
 <2> QED BY <2>1, <2>2
<1> QED BY <1>6, <1>7 DEF a, b

LEMMA OutOfSub ==
  ASSUME EntryTypes, EntryTypes', clock' = clock, NEW n \in Nat \ {0}, Len(script.frames) = n,
         Len(script'.frames) = n - 1, \A k \in 1..n - 1 : script'.frames[k] = script.frames[k],
         script'.pc = script.frames[n].pc + 1
  PROVE  /\ Before(Here, Here')
         /\ \A j \in 1..n : Here'[j] = Here[j]
<1> DEFINE a == Here
           b == Here'
<1>1. /\ a \in Seq(Int) /\ Len(a) = n + 2 /\ a[1] = clock.pc /\ \A k \in 1..n : a[k + 1] = script.frames[k].pc
  BY HereIs
<1>2. /\ b \in Seq(Int) /\ Len(b) = n + 1 /\ b[1] = clock.pc /\ b[n + 1] = script'.pc
      /\ \A k \in 1..n - 1 : b[k + 1] = script'.frames[k].pc
 <2>1. Len(b) = (n - 1) + 2 /\ b[(n - 1) + 2] = script'.pc BY HereNext
 <2>2. (n - 1) + 2 = n + 1 OBVIOUS
 <2> QED BY <2>1, <2>2, HereNext
<1> HIDE DEF a, b
<1>3. ASSUME NEW j \in 1..n PROVE j \in DOMAIN a /\ a[j] = b[j]
 <2>1. j \in DOMAIN a BY <1>1
 <2>2. CASE j = 1 BY <1>1, <1>2, <2>1, <2>2
 <2>3. CASE j # 1
  <3>1. j - 1 \in 1..n - 1 /\ j - 1 \in 1..n /\ (j - 1) + 1 = j BY <2>3
  <3>2. a[(j - 1) + 1] = script.frames[j - 1].pc BY <1>1, <3>1
  <3>3. b[(j - 1) + 1] = script'.frames[j - 1].pc /\ script'.frames[j - 1] = script.frames[j - 1] BY <1>2, <3>1
  <3> QED BY <2>1, <3>1, <3>2, <3>3
 <2> QED BY <2>2, <2>3
<1>4. a[n + 1] < b[n + 1]
 <2>1. n \in 1..n /\ n + 1 \in 1..n + 2 OBVIOUS
 <2>2. a[n + 1] = script.frames[n].pc /\ a[n + 1] \in Int BY <1>1, <2>1
 <2> QED BY <1>2, <2>2
<1> DEFINE m == n + 1
<1>5. m \in 1..Len(b) /\ m - 1 = n /\ a[m] < b[m] BY <1>2, <1>4
<1> HIDE DEF m
<1>6. Before(a, b) BY <1>1, <1>2, <1>3, <1>5, LaterAt
<1> QED BY <1>3, <1>6 DEF a, b

LEMMA OnInTimeline ==
  ASSUME NEW a \in Seq(Int), NEW p \in Int, NEW q \in Int, a[1] = p, p < q
  PROVE  Before(a, << q >>)
<1> DEFINE b == << q >>
<1>1. b \in Seq(Int) /\ 1 \in 1..Len(b) /\ b[1] = q /\ 1 \in DOMAIN b OBVIOUS
<1> HIDE DEF b
<1>2. \A j \in 1..1 - 1 : j \in DOMAIN a /\ a[j] = b[j] OBVIOUS
<1> QED BY <1>1, <1>2 DEF Before, b

LEMMA IntoScript ==
  ASSUME NEW b \in Seq(Int), NEW p \in Int, Len(b) >= 2, b[1] = p
  PROVE  Before(<< p >>, b)
<1> DEFINE a == << p >>
<1>1. a \in Seq(Int) /\ a[1] = p /\ DOMAIN a = {1} /\ 2 \in DOMAIN b OBVIOUS
<1> HIDE DEF a
<1>2. \A j \in 1..2 - 1 : j \in DOMAIN a /\ a[j] = b[j] BY <1>1
<1>3. 2 \notin DOMAIN a BY <1>1
<1> QED BY <1>1, <1>2, <1>3 DEF Before, a
----
\* Where the programs are only moves on, action by action.
LEMMA DecodedLoopless ==
  ASSUME Core, Loopless, Jump
  PROVE  script'.pc > script.pc
<1>1. Op.op = "jump" /\ script.pc \in DOMAIN Code /\ script'.pc = Op.arg /\ script.sub \in DOMAIN Subs
  BY JumpIs, AtInstruction
<1> QED BY <1>1 DEF Loopless, Op, Code

LEMMA ScriptGoesOn ==
  ASSUME Core, Core', Loopless, Masked \/ CallSub \/ ReturnSub \/ Jump \/ Yield \/ End \/ \E e \in LogEntry : Logs(e)
  PROVE  Here' = Here \/ Before(Here, Here')
<1>1. EntryTypes /\ EntryTypes' BY DEF Core
<1>2. script.pc \in Int /\ script.pc + 1 > script.pc BY <1>1, ScriptIs DEF EntryTypes
<1>3. CASE Masked BY <1>1, <1>2, <1>3, MaskedIs, OnInSub
<1>4. CASE \E e \in LogEntry : Logs(e)
 <2>1. clock' = clock /\ script'.frames = script.frames /\ script'.pc = script.pc + 1 BY <1>4 DEF Logs
 <2> QED BY <1>1, <1>2, <2>1, OnInSub
<1>5. CASE CallSub
 <2>1. PICK frame \in CallFrames : frame.pc = script.pc /\ script'.frames = Append(script.frames, frame)
   BY <1>5, CallIs
 <2>2. clock' = clock BY <1>5, CallIs
 <2> QED BY <1>1, <2>1, <2>2, IntoSub
<1>6. CASE ReturnSub
 <2>1. PICK n \in Nat \ {0}, frame \in CallFrames :
             /\ Len(script.frames) = n /\ frame = script.frames[n] /\ Len(script'.frames) = n - 1
             /\ \A k \in 1..n - 1 : script'.frames[k] = script.frames[k]
             /\ script'.pc = frame.pc + 1
   BY <1>6, ReturnIs
 <2>2. clock' = clock BY <1>6, ReturnIs
 <2> QED BY <1>1, <2>1, <2>2, OutOfSub
<1>7. CASE Jump BY <1>1, <1>7, JumpIs, DecodedLoopless, OnInSub
<1>8. ASSUME clock' = clock, script'.frames = script.frames, script'.pc = script.pc PROVE Here' = Here
  BY <1>8 DEF Here
<1>9. CASE Yield BY <1>8, <1>9, YieldIs
<1>10. CASE End BY <1>8, <1>10, EndIs
<1> QED BY <1>3, <1>4, <1>5, <1>6, <1>7, <1>9, <1>10

LEMMA PlaceIs ==
  ASSUME Core
  PROVE  Place \in Seq(Int) /\ Len(Place) >= 1 /\ Place[1] = clock.pc /\ clock.pc \in Int
<1>1. EntryTypes /\ clock.pc \in Int BY DEF Core, EntryTypes
<1>2. Here \in Seq(Int) /\ Len(Here) >= 1 /\ Here[1] = clock.pc BY <1>1, HereIs
<1>3. << clock.pc >> \in Seq(Int) /\ Len(<< clock.pc >>) >= 1 /\ << clock.pc >>[1] = clock.pc BY <1>1
<1> QED BY <1>1, <1>2, <1>3 DEF Place

LEMMA PlaceNext ==
  ASSUME Core'
  PROVE  Place' \in Seq(Int) /\ Len(Place') >= 1 /\ Place'[1] = clock'.pc /\ clock'.pc \in Int
<1>1. EntryTypes' /\ clock'.pc \in Int BY DEF Core, EntryTypes
<1>2. Here' \in Seq(Int) /\ Len(Here') >= 1 /\ Here'[1] = clock'.pc BY <1>1, HereNext
<1>3. << clock'.pc >> \in Seq(Int) /\ Len(<< clock'.pc >>) >= 1 /\ << clock'.pc >>[1] = clock'.pc BY <1>1
<1> QED BY <1>1, <1>2, <1>3 DEF Place

LEMMA PlaceMoves ==
  ASSUME Core, Core', LogOrdered, log' = log, Place' = Place \/ Before(Place, Place')
  PROVE  LogOrdered'
<1>1. log \in Seq(LogEntry) /\ Place \in Seq(Int) /\ Place' \in Seq(Int)
  BY PlaceIs, PlaceNext DEF Core, EntryTypes
<1>2. Below(log, Place) /\ Ordered(log) BY DEF LogOrdered
<1>3. Below(log, Place') BY <1>1, <1>2, BelowMore
<1> QED BY <1>2, <1>3 DEF LogOrdered

LEMMA LogMoves ==
  ASSUME Core, Core', LogOrdered, NEW e \in LogEntry, log' = Append(log, e), e.at = Place, Before(Place, Place')
  PROVE  LogOrdered'
<1>1. log \in Seq(LogEntry) /\ Place \in Seq(Int) /\ Place' \in Seq(Int)
  BY PlaceIs, PlaceNext DEF Core, EntryTypes
<1>2. Below(log, e.at) /\ Ordered(log) BY DEF LogOrdered
<1>3. Ordered(log') BY <1>1, <1>2, OrderedAppend
<1>4. Below(log, Place') BY <1>1, <1>2, BelowMore
<1>5. Below(log', Place') BY <1>1, <1>4, BelowAppend
<1> QED BY <1>3, <1>5 DEF LogOrdered
----
\* The draft's log is in order.
LEMMA BelowFrom ==
  ASSUME NEW s \in Seq(LogEntry), NEW p \in Int, NEW q \in Int, p <= q, Below(s, << p >>)
  PROVE  Below(s, << q >>)
<1>1. CASE p = q BY <1>1
<1>2. CASE p < q
 <2> DEFINE a == << p >>
            b == << q >>
 <2>1. a \in Seq(Int) /\ b \in Seq(Int) /\ a[1] = p OBVIOUS
 <2>2. Before(a, b) BY <1>2, <2>1, OnInTimeline
 <2> HIDE DEF a, b
 <2>3. Below(s, a) BY DEF a
 <2>4. Below(s, b) BY <2>1, <2>2, <2>3, BelowMore
 <2> QED BY <2>4 DEF b
<1> QED BY <1>1, <1>2

LEMMA DraftFirst == ASSUME EntryInit PROVE DraftInOrder
BY DEF EntryInit, NoDraft, DraftInOrder

LEMMA DraftEmpty == ASSUME ~draft'.open \/ draft'.log = << >> PROVE DraftInOrder'
<1>1. DOMAIN << >> = {} /\ Len(<< >>) = 0 /\ 1..0 - 1 = {} OBVIOUS
<1> QED BY <1>1 DEF DraftInOrder, Ordered, Below

LEMMA DraftStep ==
  ASSUME Core, PendingInCode, DraftInOrder, [EntryNext]_entryVars
  PROVE  DraftInOrder'
<1>1. CASE Idles
 <2>1. CASE draft' = NoDraft BY <2>1, DraftEmpty DEF NoDraft
 <2>2. CASE draft' = draft BY <1>1, <2>2 DEF Idles, DraftInOrder
 <2>3. CASE draft'.log = << >> BY <2>3, DraftEmpty
 <2> QED BY <1>1, <2>1, <2>2, <2>3 DEF Idles
<1>2. CASE Running /\ GoesOn
 <2>1. draft \in Drafts /\ draft.open /\ draft.log \in Seq(LogEntry) /\ draft.pc \in Int
   BY <1>2, NotTheLast DEF Drafts
 <2>2. clock.pc \in Int /\ draft.pc >= clock.pc BY <2>1 DEF Core, EntryTypes, AtWork
 <2>3. /\ Ordered(draft.log) /\ Below(draft.log, << draft.pc >>)
       /\ \A n \in DOMAIN draft.log : \E q \in clock.pc..draft.pc - 1 : draft.log[n].at = << q >>
       /\ \A n \in DOMAIN draft.log : draft.log[n].op \in {"publish", "consume"}
   BY <2>1 DEF DraftInOrder
 <2>4. ASSUME NEW events, NEW entries, Forward(events, entries)
       PROVE  draft'.pc = draft.pc + 1 /\ draft'.log = draft.log \o entries /\ clock' = clock
   BY <2>1, <2>4 DEF Forward, Drafts
 <2>5. Below(draft.log, << draft.pc + 1 >>) BY <2>1, <2>3, BelowFrom
 <2>6. ASSUME NEW q \in clock.pc..draft.pc - 1 PROVE q \in clock.pc..(draft.pc + 1) - 1 BY <2>1, <2>2
 <2>7. CASE Forward(draft.board, << >>)
  <3>1. draft'.pc = draft.pc + 1 /\ draft'.log = draft.log \o << >> /\ clock' = clock BY <2>4, <2>7
  <3>2. draft'.log = draft.log BY <2>1, <3>1
  <3> QED BY <2>3, <2>5, <2>6, <3>1, <3>2 DEF DraftInOrder
 <2>8. CASE \E e \in LogEntry : EventEntry(e) /\ Forward(Replayed(draft.board, e), << e >>)
  <3>1. PICK e \in LogEntry : EventEntry(e) /\ Forward(Replayed(draft.board, e), << e >>) BY <2>8
  <3>2. draft'.pc = draft.pc + 1 /\ draft'.log = draft.log \o << e >> /\ clock' = clock BY <2>4, <3>1
  <3> DEFINE t == Append(draft.log, e)
             l == draft.log
  <3>3. draft'.log = t BY <2>1, <3>2
  <3>4. e.at = << draft.pc >> /\ e.op \in {"publish", "consume"} BY <3>1 DEF EventEntry
  <3>5. Ordered(t) BY <2>1, <2>3, <3>4, OrderedAppend
  <3>6. Before(e.at, << draft.pc + 1 >>)
   <4>1. << draft.pc >> \in Seq(Int) /\ << draft.pc >>[1] = draft.pc /\ draft.pc < draft.pc + 1 /\ draft.pc + 1 \in Int
     BY <2>1
   <4> QED BY <2>1, <3>4, <4>1, OnInTimeline
  <3>7. Below(t, << draft.pc + 1 >>) BY <2>1, <2>5, <3>6, BelowAppend
  <3>8. DOMAIN t = 1..Len(l) + 1 /\ t[Len(l) + 1] = e /\ \A k \in 1..Len(l) : t[k] = l[k] /\ k \in DOMAIN l
    BY <2>1
  <3> HIDE DEF t
  <3>9. ASSUME NEW k \in DOMAIN t
        PROVE  (\E q \in clock.pc..(draft.pc + 1) - 1 : t[k].at = << q >>) /\ t[k].op \in {"publish", "consume"}
   <4>1. CASE k \in 1..Len(l)
    <5>1. t[k] = l[k] /\ k \in DOMAIN l BY <3>8, <4>1
    <5>2. PICK q \in clock.pc..draft.pc - 1 : l[k].at = << q >> BY <2>3, <5>1
    <5> QED BY <2>3, <2>6, <5>1, <5>2
   <4>2. CASE k = Len(l) + 1
    <5>1. draft.pc \in clock.pc..(draft.pc + 1) - 1 BY <2>1, <2>2
    <5> QED BY <3>4, <3>8, <4>2, <5>1
   <4>3. Len(l) \in Nat BY <2>1
   <4> QED BY <3>8, <4>1, <4>2, <4>3
  <3> QED BY <3>2, <3>3, <3>5, <3>7, <3>9 DEF DraftInOrder
 <2> QED BY <1>2, <2>7, <2>8 DEF GoesOn
<1>3. CASE FrameDone /\ TimelineNext BY <1>3, DraftEmpty DEF FrameDone, Commit, NoDraft
<1>4. CASE Begin \/ PoolFull BY <1>4, DraftEmpty DEF Begin, PoolFull, NoDraft
<1>5. CASE Masked \/ CallSub \/ ReturnSub \/ Jump \/ Yield \/ End \/ \E e \in LogEntry : Logs(e)
 <2>1. call.phase = "script" /\ draft' = draft
   BY <1>5, MaskedIs, CallIs, ReturnIs, JumpIs, YieldIs, EndIs DEF Logs
 <2> QED BY <2>1, AtInstruction, DraftEmpty
<1>6. CASE Spawned \/ Died
 <2>1. call.phase = "script" /\ SpawnOver BY <1>6 DEF Spawned, Died, InScript
 <2> QED BY <2>1, SpawnOverIs, DraftEmpty
<1> QED BY <1>1, <1>2, <1>3, <1>4, <1>5, <1>6, KindsOfStep
----
\* What is committed is committed in program order.
LEMMA OrderFirst == ASSUME EntryInit PROVE LogOrdered
<1>1. DOMAIN << >> = {} /\ Len(<< >>) = 0 /\ 1..0 - 1 = {} OBVIOUS
<1> QED BY <1>1 DEF EntryInit, LogOrdered, Ordered, Below

LEMMA OrderStep ==
  ASSUME Core, Core', PendingInCode, DraftInOrder, Loopless, LogOrdered, [EntryNext]_entryVars
  PROVE  LogOrdered'
<1>1. EntryTypes /\ EntryTypes' /\ clock.pc \in Int BY DEF Core, EntryTypes
<1>2. CASE Idles BY <1>2, PlaceMoves DEF Idles, Place, Here
<1>3. CASE Running /\ GoesOn BY <1>3, PlaceMoves DEF GoesOn, Forward, Place, Here
<1>4. CASE FrameDone /\ TimelineNext
 <2>1. draft \in Drafts /\ draft.open /\ draft.log \in Seq(LogEntry) /\ spawn = 0 /\ draft.pc \in Int
   BY <1>4, TimelineStep DEF Drafts
 <2>2. log \in Seq(LogEntry) /\ draft.pc >= clock.pc BY <2>1 DEF Core, EntryTypes, AtWork
 <2>3. log' = log \o draft.log \o << >> /\ clock'.pc = draft.pc /\ spawn' = 0
   BY <1>4, <2>1 DEF FrameDone, Commit
 <2>4. log' = log \o draft.log BY <2>1, <2>2, <2>3
 <2>5. Place = << clock.pc >> /\ Place' = << draft.pc >> BY <2>1, <2>3 DEF Place
 <2>6. Ordered(log) /\ Below(log, << clock.pc >>) /\ Ordered(draft.log) /\ Below(draft.log, << draft.pc >>)
   BY <2>1, <2>5 DEF LogOrdered, DraftInOrder
 <2>7. ASSUME NEW k \in DOMAIN draft.log PROVE Below(log, draft.log[k].at)
  <3>1. PICK q \in clock.pc..draft.pc - 1 : draft.log[k].at = << q >> BY <2>1 DEF DraftInOrder
  <3>2. q \in Int /\ clock.pc <= q BY <1>1, <2>1
  <3> QED BY <1>1, <2>2, <2>6, <3>1, <3>2, BelowFrom
 <2>8. Ordered(log') BY <2>1, <2>2, <2>4, <2>6, <2>7, OrderedConcat
 <2>9. Below(log, << draft.pc >>) BY <1>1, <2>1, <2>2, <2>6, BelowFrom
 <2>10. Below(log', << draft.pc >>) BY <2>1, <2>2, <2>4, <2>6, <2>9, BelowConcat
 <2> QED BY <2>5, <2>8, <2>10 DEF LogOrdered
<1>5. CASE Begin
 <2>1. spawn = 0 /\ spawn' # 0 /\ clock' = clock BY <1>5, BeginIs DEF Begin
 <2> DEFINE e == Entry(<<clock.pc>>, Pending, 0, 0)
 <2>2. e \in LogEntry /\ log' = Append(log, e) BY <1>5, BeginIs
 <2>3. e.at = << clock.pc >> BY DEF Entry
 <2> HIDE DEF e
 <2>4. Place = << clock.pc >> /\ Place' = Here' BY <2>1 DEF Place
 <2>5. Here' \in Seq(Int) /\ Len(Here') >= 2 /\ Here'[1] = clock.pc BY <1>1, <2>1, HereNext
 <2>6. Before(<< clock.pc >>, Here') BY <1>1, <2>5, IntoScript
 <2> QED BY <2>2, <2>3, <2>4, <2>6, LogMoves
<1>6. ASSUME log' = log, clock'.pc = clock.pc + 1, spawn' = 0 PROVE LogOrdered'
 <2>1. Place' = << clock.pc + 1 >> BY <1>6 DEF Place
 <2>2. Before(Place, << clock.pc + 1 >>) BY <1>1, PlaceIs, OnInTimeline
 <2> QED BY <1>6, <2>1, <2>2, PlaceMoves
<1>7. CASE PoolFull
 <2>1. clock'.pc = clock.pc + 1 /\ log' = log /\ spawn' = spawn BY <1>7, AcknowledgedIs DEF PoolFull
 <2>2. spawn = 0 BY <1>7 DEF PoolFull, Core, AtWork
 <2> QED BY <1>6, <2>1, <2>2
<1>8. CASE \E e \in LogEntry : Logs(e)
 <2>1. PICK e \in LogEntry : Logs(e) BY <1>8
 <2>2. call.phase = "script" /\ e.at = Here /\ log' = Append(log, e) /\ spawn' = spawn
       /\ clock' = clock /\ script'.frames = script.frames /\ script'.pc = script.pc + 1
   BY <2>1 DEF Logs
 <2>3. spawn # 0 BY <2>2, AtInstruction
 <2>4. Place = Here /\ Place' = Here' BY <2>2, <2>3 DEF Place
 <2>5. script.pc \in Int /\ script.pc + 1 > script.pc BY <1>1, ScriptIs DEF EntryTypes
 <2>6. Before(Here, Here') BY <1>1, <2>2, <2>5, OnInSub
 <2> QED BY <2>2, <2>4, <2>6, LogMoves
<1>9. CASE Masked \/ CallSub \/ ReturnSub \/ Jump \/ Yield \/ End
 <2>1. call.phase = "script" /\ log' = log /\ spawn' = spawn
   BY <1>9, MaskedIs, CallIs, ReturnIs, JumpIs, YieldIs, EndIs
 <2>2. spawn # 0 BY <2>1, AtInstruction
 <2>3. Place = Here /\ Place' = Here' BY <2>1, <2>2 DEF Place
 <2>4. Here' = Here \/ Before(Here, Here') BY <1>9, ScriptGoesOn
 <2> QED BY <2>1, <2>3, <2>4, PlaceMoves
<1>10. CASE Spawned \/ Died
 <2>1. call.phase = "script" /\ SpawnOver BY <1>10 DEF Spawned, Died, InScript
 <2>2. clock'.pc = clock.pc + 1 /\ spawn' = 0 /\ log' = log BY <2>1, SpawnOverIs
 <2> QED BY <1>6, <2>2
<1> QED BY <1>2, <1>3, <1>4, <1>5, <1>7, <1>8, <1>9, <1>10, KindsOfStep
----
\* What an activation wrote last is what it holds.
LEMMA SameUpTo ==
  ASSUME EntryTypes, EntryTypes', clock' = clock, script'.frames = script.frames
  PROVE  Len(script.frames) \in Nat /\ \A k \in 1..Len(script.frames) + 1 : Here'[k] = Here[k]
<1> DEFINE n == Len(script.frames)
           a == Here
           b == Here'
<1>1. n \in Nat /\ a[1] = clock.pc /\ b[1] = clock.pc /\ \A k \in 1..n : a[k + 1] = b[k + 1] BY HereIs, HereNext
<1> HIDE DEF a, b, n
<1>2. ASSUME NEW k \in 1..n + 1 PROVE b[k] = a[k]
 <2>1. CASE k = 1 BY <1>1, <2>1
 <2>2. CASE k # 1
  <3>1. k - 1 \in 1..n /\ (k - 1) + 1 = k BY <1>1, <2>2
  <3> QED BY <1>1, <3>1
 <2> QED BY <2>1, <2>2
<1> QED BY <1>1, <1>2 DEF a, b, n

LEMMA WrittenKeeps ==
  ASSUME NEW d \in Nat, log' = log, \A k \in 1..d + 1 : Here'[k] = Here[k]
  PROVE  WrittenBy(d)' = WrittenBy(d)
<1> DEFINE a == Here
           b == Here'
<1> HIDE DEF a, b
<1>1. \A k \in 1..d + 1 : b[k] = a[k] BY DEF a, b
<1>2. WrittenBy(d) = {n \in DOMAIN log : /\ log[n].op \in {"set", "draw"} /\ Len(log[n].at) = d + 2
                                         /\ \A k \in 1..d + 1 : log[n].at[k] = a[k]}
  BY DEF WrittenBy, a
<1>3. WrittenBy(d)' = {n \in DOMAIN log' : /\ log'[n].op \in {"set", "draw"} /\ Len(log'[n].at) = d + 2
                                           /\ \A k \in 1..d + 1 : log'[n].at[k] = b[k]}
  BY DEF WrittenBy, b
<1> QED BY <1>1, <1>2, <1>3

LEMMA OwnKeeps ==
  ASSUME NEW d \in Nat, log' = log, \A k \in 1..d + 1 : Here'[k] = Here[k], LocalOf(d)' = LocalOf(d), OwnAt(d)
  PROVE  OwnAt(d)'
<1>1. WrittenBy(d)' = WrittenBy(d) BY WrittenKeeps
<1> QED BY <1>1 DEF OwnAt, LastOf

LEMMA NoneWritten ==
  ASSUME NEW d \in Nat, \A n \in DOMAIN log' : ~(/\ log'[n].op \in {"set", "draw"} /\ Len(log'[n].at) = d + 2
                                                  /\ \A k \in 1..d + 1 : log'[n].at[k] = Here'[k])
  PROVE  OwnAt(d)'
<1> DEFINE b == Here'
<1> HIDE DEF b
<1>1. \A n \in DOMAIN log' : ~(/\ log'[n].op \in {"set", "draw"} /\ Len(log'[n].at) = d + 2
                                /\ \A k \in 1..d + 1 : log'[n].at[k] = b[k])
  BY DEF b
<1>2. WrittenBy(d)' = {n \in DOMAIN log' : /\ log'[n].op \in {"set", "draw"} /\ Len(log'[n].at) = d + 2
                                           /\ \A k \in 1..d + 1 : log'[n].at[k] = b[k]}
  BY DEF WrittenBy, b
<1>3. WrittenBy(d)' = {} BY <1>1, <1>2
<1> QED BY <1>3 DEF OwnAt, LastOf

LEMMA OwnFirst == ASSUME EntryInit PROVE OwnValues
BY DEF EntryInit, OwnValues

\* Nothing is logged yet of an activation that begins.
LEMMA OwnBegin == ASSUME Core, Core', LogOrdered, Begin PROVE OwnValues'
<1>1. EntryTypes /\ EntryTypes' /\ clock.pc \in Int /\ log \in Seq(LogEntry) BY DEF Core, EntryTypes
<1>2. spawn = 0 /\ spawn' # 0 /\ clock' = clock /\ script'.frames = << >> /\ timeline[clock.pc].op \in Spawns
  BY BeginIs DEF Begin
<1> DEFINE e == Entry(<<clock.pc>>, Pending, 0, 0)
           m == Len(log)
<1>3. e \in LogEntry /\ log' = Append(log, e) BY BeginIs
<1>4. e.op \notin {"set", "draw"}
 <2>1. e.op = timeline[clock.pc].op BY DEF Entry, Pending
 <2> QED BY <1>2, <2>1 DEF Spawns
<1> HIDE DEF e
<1>5. DOMAIN log' = 1..m + 1 /\ log'[m + 1] = e /\ m \in Nat /\ \A n \in 1..m : n \in DOMAIN log /\ log'[n] = log[n]
  BY <1>1, <1>3
<1>6. Here'[1] = clock.pc BY <1>1, <1>2, HereNext
<1> DEFINE b == Here'
<1> HIDE DEF b, m
<1>7. ASSUME NEW n \in 1..m, Len(log[n].at) = 2, log[n].at[1] = b[1] PROVE FALSE
 <2> DEFINE at == log[n].at
            p == << clock.pc >>
 <2>1. n \in DOMAIN log /\ log[n] \in LogEntry BY <1>1, <1>5
 <2>2. Before(at, p) BY <1>2, <2>1 DEF LogOrdered, Below, Place
 <2>3. at \in Seq(Int) /\ Len(at) = 2 /\ 1 \in DOMAIN at /\ at[1] = clock.pc BY <1>6, <1>7, <2>1 DEF LogEntry, b
 <2>4. DOMAIN p = {1} /\ p[1] = clock.pc OBVIOUS
 <2> HIDE DEF at, p
 <2>5. PICK k \in DOMAIN p : k \in DOMAIN at => at[k] < p[k] BY <2>2 DEF Before
 <2>6. k = 1 BY <2>4, <2>5
 <2> QED BY <1>1, <2>3, <2>4, <2>5, <2>6
<1>8. ASSUME NEW n \in DOMAIN log',
             log'[n].op \in {"set", "draw"}, Len(log'[n].at) = 0 + 2, \A k \in 1..0 + 1 : log'[n].at[k] = b[k]
      PROVE  FALSE
 <2>1. n # m + 1 BY <1>4, <1>5, <1>8
 <2>2. n \in 1..m BY <1>5, <2>1
 <2>3. 1 \in 1..0 + 1 /\ 0 + 2 = 2 OBVIOUS
 <2> QED BY <1>5, <1>7, <1>8, <2>2, <2>3
<1>9. OwnAt(0)' BY <1>8, NoneWritten DEF b
<1>10. 0..Len(script'.frames) = {0} BY <1>2
<1> QED BY <1>9, <1>10 DEF OwnValues

\* A call starts without values of its own, and keeps the caller's.
LEMMA OwnCall == ASSUME Core, Core', LogOrdered, OwnValues, CallSub PROVE OwnValues'
<1>1. EntryTypes /\ EntryTypes' /\ log \in Seq(LogEntry) BY DEF Core, EntryTypes
<1>2. call.phase = "script" /\ clock' = clock /\ log' = log /\ spawn' = spawn BY CallIs
<1>3. spawn # 0 /\ script.frames \in Seq(CallFrames) BY <1>2, AtInstruction
<1>4. PICK frame \in CallFrames : /\ frame.pc = script.pc /\ script'.frames = Append(script.frames, frame)
                              /\ frame.local = script.local
  BY CallIs
<1> DEFINE n == Len(script.frames)
           a == Here
           b == Here'
<1>5. /\ Len(Here') = Len(Here) + 1 /\ Len(Here) \in Nat /\ \A j \in 1..Len(Here) : Here'[j] = Here[j]
  BY <1>1, <1>2, <1>4, IntoSub
<1>6. n \in Nat /\ Len(a) = n + 2 /\ Len(script'.frames) = n + 1 /\ script'.frames[n + 1] = frame
      /\ \A k \in 1..n : script'.frames[k] = script.frames[k]
  BY <1>1, <1>3, <1>4, HereIs
<1>7. a \in Seq(Int) BY <1>1, HereIs
<1> HIDE DEF n
<1>8. ASSUME NEW d \in 0..n PROVE OwnAt(d)'
 <2>1. d \in Nat /\ \A k \in 1..d + 1 : k \in 1..Len(Here) BY <1>6
 <2>2. \A k \in 1..d + 1 : Here'[k] = Here[k] BY <1>5, <2>1
 <2>3. OwnAt(d) BY <1>3 DEF OwnValues, n
 <2>4. LocalOf(d)' = LocalOf(d)
  <3>1. CASE d = n
   <4>1. d # Len(script'.frames) /\ script'.frames[d + 1].local = script.local BY <1>4, <1>6, <3>1
   <4> QED BY <3>1, <4>1 DEF LocalOf, n
  <3>2. CASE d # n
   <4>1. d + 1 \in 1..n /\ d # n + 1 BY <1>6, <3>2
   <4>2. script'.frames[d + 1] = script.frames[d + 1] /\ d # Len(script'.frames) /\ d # Len(script.frames)
     BY <1>6, <3>2, <4>1 DEF n
   <4> QED BY <4>2 DEF LocalOf
  <3> QED BY <3>1, <3>2
 <2> QED BY <1>2, <2>1, <2>2, <2>3, <2>4, OwnKeeps
<1>9. ASSUME NEW d \in Nat, d = n + 1 PROVE OwnAt(d)'
 <2>1. d \in Nat /\ d + 1 = n + 2 /\ d + 2 = n + 3 BY <1>6, <1>9
 <2>2. \A k \in 1..n + 2 : b[k] = a[k] BY <1>5, <1>6
 <2> HIDE DEF a, b
 <2>3. ASSUME NEW m \in DOMAIN log, Len(log[m].at) = n + 3, \A k \in 1..n + 2 : log[m].at[k] = b[k]
       PROVE  FALSE
  <3> DEFINE at == log[m].at
  <3>1. log[m] \in LogEntry BY <1>1
  <3>2. Before(at, a) BY <1>3 DEF LogOrdered, Below, Place, a
  <3>3. at \in Seq(Int) /\ DOMAIN at = 1..n + 3 /\ DOMAIN a = 1..n + 2 BY <1>6, <1>7, <2>3, <3>1 DEF LogEntry
  <3>4. \A k \in 1..n + 2 : at[k] = a[k] /\ k \in DOMAIN at
   <4>1. \A k \in 1..n + 2 : k \in 1..n + 3 BY <1>6
   <4> QED BY <2>2, <2>3, <3>3, <4>1
  <3> HIDE DEF at
  <3>5. PICK k \in DOMAIN a : k \in DOMAIN at => at[k] < a[k] BY <3>2 DEF Before
  <3>6. a[k] \in Int BY <1>7, <3>5
  <3> QED BY <3>3, <3>4, <3>5, <3>6
 <2>4. \A m \in DOMAIN log' : ~(/\ log'[m].op \in {"set", "draw"} /\ Len(log'[m].at) = d + 2
                                /\ \A k \in 1..d + 1 : log'[m].at[k] = Here'[k])
   BY <1>2, <2>1, <2>3 DEF b
 <2> QED BY <2>1, <2>4, NoneWritten
<1>10. ASSUME NEW d \in 0..Len(script'.frames) PROVE OwnAt(d)'
 <2>1. d \in Nat /\ (d \in 0..n \/ d = n + 1) BY <1>6
 <2> QED BY <1>8, <1>9, <2>1
<1> QED BY <1>10 DEF OwnValues

LEMMA OwnReturn == ASSUME Core, Core', OwnValues, ReturnSub PROVE OwnValues'
<1>1. EntryTypes /\ EntryTypes' BY DEF Core
<1>2. call.phase = "script" /\ clock' = clock /\ log' = log /\ spawn' = spawn BY ReturnIs
<1>3. spawn # 0 BY <1>2, AtInstruction
<1>4. PICK n \in Nat \ {0}, frame \in CallFrames :
              /\ Len(script.frames) = n /\ frame = script.frames[n] /\ Len(script'.frames) = n - 1
              /\ \A k \in 1..n - 1 : script'.frames[k] = script.frames[k]
              /\ script'.pc = frame.pc + 1 /\ script'.local = frame.local
  BY ReturnIs
<1>5. \A j \in 1..n : Here'[j] = Here[j] BY <1>1, <1>2, <1>4, OutOfSub
<1>6. ASSUME NEW d \in 0..n - 1 PROVE OwnAt(d)'
 <2>1. d \in Nat /\ d \in 0..n /\ d # n /\ \A k \in 1..d + 1 : k \in 1..n OBVIOUS
 <2>2. \A k \in 1..d + 1 : Here'[k] = Here[k] BY <1>5, <2>1
 <2>3. OwnAt(d) BY <1>3, <1>4, <2>1 DEF OwnValues
 <2>4. LocalOf(d) = script.frames[d + 1].local BY <1>4, <2>1 DEF LocalOf
 <2>5. LocalOf(d)' = LocalOf(d)
  <3>1. CASE d = n - 1
   <4>1. d + 1 = n /\ d = Len(script'.frames) BY <1>4, <3>1
   <4> QED BY <1>4, <2>4, <4>1 DEF LocalOf
  <3>2. CASE d # n - 1
   <4>1. d + 1 \in 1..n - 1 /\ d # Len(script'.frames) BY <1>4, <3>2
   <4> QED BY <1>4, <2>4, <4>1 DEF LocalOf
  <3> QED BY <3>1, <3>2
 <2> QED BY <1>2, <2>1, <2>2, <2>3, <2>5, OwnKeeps
<1> QED BY <1>4, <1>6 DEF OwnValues

\* Nor does any other step of a script lose a value.
LEMMA OwnStays ==
  ASSUME Core, Core', OwnValues, clock' = clock, log' = log, spawn' = spawn,
         script'.frames = script.frames, script'.local = script.local
  PROVE  OwnValues'
<1>1. EntryTypes /\ EntryTypes' BY DEF Core
<1> DEFINE n == Len(script.frames)
<1>2. n \in Nat /\ \A k \in 1..n + 1 : Here'[k] = Here[k] BY <1>1, SameUpTo
<1>3. ASSUME spawn # 0, NEW d \in 0..n PROVE OwnAt(d)'
 <2>1. d \in Nat /\ \A k \in 1..d + 1 : k \in 1..n + 1 BY <1>2
 <2>2. \A k \in 1..d + 1 : Here'[k] = Here[k] BY <1>2, <2>1
 <2>3. OwnAt(d) BY <1>3 DEF OwnValues
 <2>4. LocalOf(d)' = LocalOf(d) BY DEF LocalOf
 <2> QED BY <2>1, <2>2, <2>3, <2>4, OwnKeeps
<1> QED BY <1>3 DEF OwnValues

\* What is written is what is held.
LEMMA OwnWrites == ASSUME Core, Core', OwnValues, NEW e \in LogEntry, Logs(e) PROVE OwnValues'
<1>1. EntryTypes /\ EntryTypes' /\ log \in Seq(LogEntry) BY DEF Core, EntryTypes
<1>2. /\ call.phase = "script" /\ clock' = clock /\ log' = Append(log, e) /\ spawn' = spawn /\ e.at = Here
      /\ script'.frames = script.frames
      /\ script'.local = (IF e.op \in {"set", "draw"} THEN e.arg ELSE script.local)
  BY DEF Logs
<1>3. spawn # 0 BY <1>2, AtInstruction
<1> DEFINE n == Len(script.frames)
           m == Len(log)
           a == Here
           b == Here'
<1>4. n \in Nat /\ Len(a) = n + 2 /\ \A k \in 1..n + 1 : b[k] = a[k] BY <1>1, <1>2, HereIs, SameUpTo
<1>5. /\ DOMAIN log' = 1..m + 1 /\ log'[m + 1] = e /\ m \in Nat /\ DOMAIN log = 1..m
      /\ \A i \in 1..m : log'[i] = log[i]
  BY <1>1, <1>2
<1> HIDE DEF n, m, a, b
<1>6. ASSUME NEW d \in 0..n, NEW i \in DOMAIN log', LastOf(WrittenBy(d), i)' PROVE log'[i].arg = LocalOf(d)'
 <2> DEFINE W == WrittenBy(d)
            V == WrittenBy(d)'
 <2>1. d \in Nat /\ \A k \in 1..d + 1 : k \in 1..n + 1 /\ b[k] = a[k] BY <1>4
 <2>2. W = {j \in DOMAIN log : /\ log[j].op \in {"set", "draw"} /\ Len(log[j].at) = d + 2
                               /\ \A k \in 1..d + 1 : log[j].at[k] = a[k]}
   BY DEF WrittenBy, a
 <2>3. V = {j \in DOMAIN log' : /\ log'[j].op \in {"set", "draw"} /\ Len(log'[j].at) = d + 2
                                /\ \A k \in 1..d + 1 : log'[j].at[k] = b[k]}
   BY DEF WrittenBy, b
 <2>4. i \in V /\ \A j \in V : j <= i BY <1>6 DEF LastOf
 <2>5. OwnAt(d) BY <1>3 DEF OwnValues, n
 <2>6. LocalOf(d) = (IF d = n THEN script.local ELSE script.frames[d + 1].local)
       /\ LocalOf(d)' = (IF d = n THEN script'.local ELSE script.frames[d + 1].local)
   BY <1>2 DEF LocalOf, n
 <2> HIDE DEF W, V
 <2>7. ASSUME NEW j \in 1..m PROVE j \in W <=> j \in V
  <3>1. j \in DOMAIN log /\ j \in DOMAIN log' /\ log'[j] = log[j] BY <1>5
  <3>2. (\A k \in 1..d + 1 : log[j].at[k] = a[k]) <=> (\A k \in 1..d + 1 : log[j].at[k] = b[k]) BY <2>1
  <3> QED BY <2>2, <2>3, <3>1, <3>2
 <2>8. m + 1 \in V <=> (e.op \in {"set", "draw"} /\ d = n)
  <3>1. Len(e.at) = n + 2 /\ \A k \in 1..d + 1 : e.at[k] = b[k] BY <1>2, <1>4, <2>1 DEF a
  <3>2. n + 2 = d + 2 <=> d = n BY <1>4
  <3>3. m + 1 \in DOMAIN log' BY <1>5
  <3> QED BY <1>5, <2>3, <3>1, <3>2, <3>3
 <2>9. CASE m + 1 \in V
  <3>1. i = m + 1
   <4>1. i \in 1..m + 1 /\ m + 1 <= i BY <1>5, <2>3, <2>4, <2>9
   <4> QED BY <1>5, <4>1
  <3>2. log'[i].arg = e.arg BY <1>5, <3>1
  <3> QED BY <1>2, <2>6, <2>8, <2>9, <3>2
 <2>10. CASE m + 1 \notin V
  <3>1. i \in 1..m
   <4>1. i \in 1..m + 1 /\ i # m + 1 BY <1>5, <2>3, <2>4, <2>10
   <4> QED BY <1>5, <4>1
  <3>2. i \in W /\ \A j \in W : j <= i
   <4>1. W \subseteq 1..m BY <1>5, <2>2
   <4> QED BY <2>4, <2>7, <3>1, <4>1
  <3>3. log[i].arg = LocalOf(d) BY <1>5, <2>5, <3>1, <3>2 DEF OwnAt, LastOf, W
  <3>4. LocalOf(d)' = LocalOf(d) BY <1>2, <2>6, <2>8, <2>10
  <3> QED BY <1>5, <3>1, <3>3, <3>4
 <2> QED BY <2>9, <2>10
<1>7. \A d \in 0..n : OwnAt(d)' BY <1>6 DEF OwnAt
<1>8. Len(script'.frames) = n BY <1>2 DEF n
<1> QED BY <1>7, <1>8 DEF OwnValues

LEMMA OwnStep ==
  ASSUME Core, Core', PendingInCode, LogOrdered, OwnValues, [EntryNext]_entryVars
  PROVE  OwnValues'
<1>1. ASSUME spawn' = 0 PROVE OwnValues' BY <1>1 DEF OwnValues
<1>2. CASE Idles BY <1>2, OwnStays DEF Idles
<1>3. CASE Running /\ GoesOn BY <1>3, OwnStays DEF GoesOn, Forward
<1>4. CASE FrameDone /\ TimelineNext
 <2>1. spawn = 0 /\ spawn' = spawn BY <1>4, TimelineStep DEF FrameDone
 <2> QED BY <1>1, <2>1
<1>5. CASE Begin BY <1>5, OwnBegin
<1>6. CASE PoolFull
 <2>1. spawn = 0 /\ spawn' = spawn BY <1>6 DEF PoolFull, Core, AtWork
 <2> QED BY <1>1, <2>1
<1>7. CASE \E e \in LogEntry : Logs(e) BY <1>7, OwnWrites
<1>8. CASE CallSub BY <1>8, OwnCall
<1>9. CASE ReturnSub BY <1>9, OwnReturn
<1>10. CASE Masked \/ Jump \/ Yield \/ End BY <1>10, MaskedIs, JumpIs, YieldIs, EndIs, OwnStays
<1>11. CASE Spawned \/ Died
 <2>1. call.phase = "script" /\ SpawnOver BY <1>11 DEF Spawned, Died, InScript
 <2> QED BY <1>1, <2>1, SpawnOverIs
<1> QED BY <1>2, <1>3, <1>4, <1>5, <1>6, <1>7, <1>8, <1>9, <1>10, <1>11, KindsOfStep
----
\* What is shared is what was shared last.
LEMMA SharedAppend ==
  ASSUME NEW s \in Seq(LogEntry), NEW e \in LogEntry, NEW v, SharedLast(s, v)
  PROVE  SharedLast(Append(s, e), IF e.op = "share" THEN e.arg ELSE v)
<1> DEFINE t == Append(s, e)
           m == Len(s)
           w == IF e.op = "share" THEN e.arg ELSE v
           S == SharesOf(s)
           T == SharesOf(t)
<1>1. /\ DOMAIN t = 1..m + 1 /\ t[m + 1] = e /\ m \in Nat /\ DOMAIN s = 1..m /\ \A i \in 1..m : t[i] = s[i]
  OBVIOUS
<1> HIDE DEF t, m
<1>2. S \subseteq 1..m /\ T \subseteq 1..m + 1 /\ \A i \in 1..m : i \in S <=> i \in T BY <1>1 DEF SharesOf
<1>3. m + 1 \in T <=> e.op = "share" BY <1>1 DEF SharesOf
<1>4. (S = {} => v = 0) /\ \A n \in DOMAIN s : LastOf(S, n) => s[n].arg = v BY DEF SharedLast
<1> HIDE DEF S, T
<1>5. CASE e.op = "share"
 <2>1. T # {} /\ w = e.arg BY <1>3, <1>5
 <2>2. ASSUME NEW n \in DOMAIN t, LastOf(T, n) PROVE t[n].arg = w
  <3>1. n \in 1..m + 1 /\ m + 1 <= n BY <1>1, <1>3, <1>5, <2>2 DEF LastOf
  <3>2. n = m + 1 BY <1>1, <3>1
  <3> QED BY <1>1, <2>1, <3>2
 <2> HIDE DEF w
 <2> QED BY <2>1, <2>2 DEF SharedLast, T, t, w
<1>6. CASE e.op # "share"
 <2>1. w = v /\ m + 1 \notin T BY <1>3, <1>6
 <2>2. T = S
  <3>1. \A i \in T : i \in 1..m
   <4>1. \A i \in 1..m + 1 : i = m + 1 \/ i \in 1..m BY <1>1
   <4> QED BY <1>2, <2>1, <4>1
  <3> QED BY <1>2, <3>1
 <2>3. ASSUME NEW n \in DOMAIN t, LastOf(T, n) PROVE t[n].arg = w
  <3>1. n \in 1..m BY <1>2, <2>2, <2>3 DEF LastOf
  <3> QED BY <1>1, <1>4, <2>1, <2>2, <2>3, <3>1
 <2>4. T = {} => w = 0 BY <1>4, <2>1, <2>2
 <2> HIDE DEF w
 <2> QED BY <2>3, <2>4 DEF SharedLast, T, t, w
<1> QED BY <1>5, <1>6

LEMMA SharedConcat ==
  ASSUME NEW s \in Seq(LogEntry), NEW t \in Seq(LogEntry), NEW v, SharedLast(s, v),
         \A n \in DOMAIN t : t[n].op # "share"
  PROVE  SharedLast(s \o t, v)
<1> DEFINE u == s \o t
           m == Len(s)
           S == SharesOf(s)
           T == SharesOf(u)
<1>1. m \in Nat /\ DOMAIN s = 1..m /\ DOMAIN t = 1..Len(t) OBVIOUS
<1>2. /\ \A k \in 1..m : k \in DOMAIN u /\ u[k] = s[k]
      /\ \A k \in DOMAIN u : k \in 1..m \/ (k - m \in 1..Len(t) /\ u[k] = t[k - m])
  BY Concatenated
<1> HIDE DEF u, m
<1>3. (S = {} => v = 0) /\ \A n \in DOMAIN s : LastOf(S, n) => s[n].arg = v BY DEF SharedLast
<1>4. \A k \in DOMAIN u : u[k].op = "share" => k \in 1..m BY <1>1, <1>2
<1>5. T = S BY <1>1, <1>2, <1>4 DEF SharesOf
<1>6. S \subseteq 1..m BY <1>1 DEF SharesOf
<1> HIDE DEF S, T
<1>7. ASSUME NEW n \in DOMAIN u, LastOf(T, n) PROVE u[n].arg = v
 <2>1. n \in 1..m BY <1>5, <1>6, <1>7 DEF LastOf
 <2> QED BY <1>1, <1>2, <1>3, <1>5, <1>7, <2>1
<1> QED BY <1>3, <1>5, <1>7 DEF SharedLast, T, u

LEMMA SharedFirst == ASSUME EntryInit PROVE SharedValues
<1>1. SharedLast(<< >>, 0) BY DEF SharedLast, SharesOf
<1> QED BY <1>1 DEF EntryInit, SharedValues

LEMMA SharedStep ==
  ASSUME Core, PendingInCode, DraftInOrder, SharedValues, [EntryNext]_entryVars
  PROVE  SharedValues'
<1>1. log \in Seq(LogEntry) BY DEF Core, EntryTypes
<1>2. CASE Idles BY <1>2 DEF Idles, SharedValues
<1>3. CASE Running /\ GoesOn BY <1>3 DEF GoesOn, Forward, SharedValues
<1>4. CASE FrameDone /\ TimelineNext
 <2>1. draft \in Drafts /\ draft.open /\ draft.log \in Seq(LogEntry) /\ spawn = 0 /\ call.phase = "timeline"
   BY <1>4, TimelineStep DEF Drafts
 <2>2. log' = log \o draft.log \o << >> /\ spawn' = spawn /\ shared' = shared BY <1>4 DEF FrameDone, Commit
 <2>3. log' = log \o draft.log BY <1>1, <2>1, <2>2
 <2>4. \A n \in DOMAIN draft.log : draft.log[n].op # "share" BY <2>1 DEF DraftInOrder
 <2>5. SharedLast(log, shared) BY <2>1 DEF SharedValues
 <2>6. SharedLast(log', shared') BY <1>1, <2>1, <2>2, <2>3, <2>4, <2>5, SharedConcat
 <2> QED BY <2>1, <2>2, <2>6 DEF SharedValues
<1>5. CASE Begin
 <2> DEFINE e == Entry(<<clock.pc>>, Pending, 0, 0)
 <2>1. e \in LogEntry /\ log' = Append(log, e) /\ timeline[clock.pc].op \in Spawns /\ script'.shared = shared
   BY <1>5, BeginIs
 <2>2. e.op = timeline[clock.pc].op BY DEF Entry, Pending
 <2> HIDE DEF e
 <2>3. e.op # "share" BY <2>1, <2>2 DEF Spawns
 <2>4. call.phase = "timeline" /\ shared' = shared BY <1>5 DEF Begin
 <2>5. SharedLast(log, shared) BY <2>4 DEF SharedValues
 <2>6. SharedLast(log', IF e.op = "share" THEN e.arg ELSE shared) BY <1>1, <2>1, <2>5, SharedAppend
 <2>7. SharedLast(log', shared) BY <2>3, <2>6
 <2> QED BY <2>1, <2>4, <2>7 DEF SharedValues
<1>6. CASE PoolFull
 <2>1. spawn = 0 BY <1>6 DEF PoolFull, Core, AtWork
 <2> QED BY <1>6, <2>1 DEF PoolFull, SharedValues
<1>7. CASE \E e \in LogEntry : Logs(e)
 <2>1. PICK e \in LogEntry : Logs(e) BY <1>7
 <2>2. /\ call.phase = "script" /\ log' = Append(log, e) /\ spawn' = spawn /\ shared' = shared /\ call' = call
       /\ script'.shared = (IF e.op = "share" THEN e.arg ELSE script.shared)
       /\ script'.pending = FALSE /\ script'.end = script.end
       /\ e.op \in {"set", "draw", "share"} => ~script.pending /\ script.end = "no"
       /\ e.op \notin {"set", "draw", "share"} => script.pending
   BY <2>1 DEF Logs
 <2>3. spawn # 0 BY <2>2, AtInstruction
 <2>4. SharedLast(log', script'.shared)
  <3>1. SharedLast(log, script.shared) BY <2>3 DEF SharedValues
  <3> QED BY <1>1, <2>2, <3>1, SharedAppend
 <2>5. ASSUME script'.end # "no" PROVE SharedLast(log', shared)
  <3>1. script.pending /\ e.op # "share" BY <2>2, <2>5
  <3>2. SharedLast(log, shared) BY <3>1 DEF SharedValues
  <3>3. SharedLast(log', IF e.op = "share" THEN e.arg ELSE shared) BY <1>1, <2>2, <3>2, SharedAppend
  <3> QED BY <3>1, <3>3
 <2> QED BY <2>2, <2>4, <2>5 DEF SharedValues
<1>8. CASE Masked \/ CallSub \/ ReturnSub \/ Jump
 <2>1. /\ call.phase = "script" /\ ~script.pending /\ script.end = "no" /\ script'.pending = script.pending
       /\ script'.end = script.end /\ script'.shared = script.shared
       /\ UNCHANGED <<spawn, log, call>>
   BY <1>8, MaskedIs, CallIs, ReturnIs, JumpIs
 <2> QED BY <2>1 DEF SharedValues
<1>9. CASE Yield \/ End
 <2>1. /\ call.phase = "script" /\ script'.shared = script.shared /\ shared' = script.shared
       /\ UNCHANGED <<spawn, log, call>>
   BY <1>9, YieldIs, EndIs
 <2>2. spawn # 0 BY <2>1, AtInstruction
 <2> QED BY <2>1, <2>2 DEF SharedValues
<1>10. CASE Spawned \/ Died
 <2>1. call.phase = "script" /\ SpawnOver /\ (shared' = script.shared \/ (script.end = "died" /\ shared' = shared))
   BY <1>10 DEF Spawned, Died, InScript
 <2>2. spawn # 0 /\ spawn' = 0 /\ log' = log BY <2>1, AtInstruction, SpawnOverIs
 <2> QED BY <2>1, <2>2 DEF SharedValues
<1> QED BY <1>2, <1>3, <1>4, <1>5, <1>6, <1>7, <1>8, <1>9, <1>10, KindsOfStep
----
\* The log only grows.
Grows == \A n \in DOMAIN log : n \in DOMAIN log' /\ log'[n] = log[n]

LEMMA LogGrows == ASSUME Core, PendingInCode, [EntryNext]_entryVars PROVE Grows
<1>1. log \in Seq(LogEntry) BY DEF Core, EntryTypes
<1>2. ASSUME log' = log PROVE Grows BY <1>2 DEF Grows
<1>3. ASSUME NEW e \in LogEntry, log' = Append(log, e) PROVE Grows BY <1>1, <1>3 DEF Grows
<1>4. CASE FrameDone /\ TimelineNext
 <2>1. draft \in Drafts /\ draft.log \in Seq(LogEntry) BY <1>4, TimelineStep DEF Drafts
 <2>2. log' = log \o draft.log \o << >> BY <1>4 DEF FrameDone, Commit
 <2>3. log' = log \o draft.log BY <1>1, <2>1, <2>2
 <2>4. DOMAIN log = 1..Len(log) BY <1>1
 <2> QED BY <1>1, <2>1, <2>3, <2>4, Concatenated DEF Grows
<1>5. CASE Begin
 <2>1. \E e \in LogEntry : log' = Append(log, e) BY <1>5, BeginIs
 <2> QED BY <1>3, <2>1
<1>6. CASE \E e \in LogEntry : Logs(e) BY <1>3, <1>6 DEF Logs
<1>7. CASE Idles \/ (Running /\ GoesOn) \/ PoolFull \/ Masked \/ CallSub \/ ReturnSub \/ Jump \/ Yield \/ End
  BY <1>2, <1>7 DEF Idles, GoesOn, Forward, PoolFull, Masked, CallSub, ReturnSub, Jump, Yield, End
<1>8. CASE Spawned \/ Died BY <1>2, <1>8 DEF Spawned, Died, SpawnOver
<1> QED BY <1>4, <1>5, <1>6, <1>7, <1>8, KindsOfStep

LEMMA DoneGrows == ASSUME Grows, NEW pc, NEW p, DoneIn(log, pc, p) PROVE DoneIn(log', pc, p)
BY DEF Grows, DoneIn

\* The script that was begun.
LEMMA RootIs ==
  ASSUME Core, spawn # 0
  PROVE  /\ RootPc \in Int /\ RootSub \in DOMAIN Subs /\ RootSub = timeline[clock.pc].arg
         /\ DOMAIN Subs[RootSub] = 1..Len(Subs[RootSub]) /\ Len(Subs[RootSub]) \in Nat
         /\ script \in Scripts /\ script.frames \in Seq(CallFrames)
         /\ script.sub \in DOMAIN Subs
<1>1. /\ script \in Scripts /\ script.sub \in DOMAIN Subs
      /\ \A k \in DOMAIN script.frames : script.frames[k].sub \in DOMAIN Subs
      /\ RootSub = timeline[clock.pc].arg
  BY DEF Core, EntryTypes, AtWork
<1>2. script.frames \in Seq(CallFrames) /\ script.pc \in Int BY <1>1, ScriptIs
<1>3. RootPc \in Int /\ RootSub \in DOMAIN Subs
 <2>1. CASE script.frames = << >> BY <1>1, <1>2, <2>1 DEF RootPc, RootSub
 <2>2. CASE script.frames # << >>
  <3>1. 1 \in DOMAIN script.frames /\ script.frames[1] \in CallFrames BY <1>2, <2>2
  <3> QED BY <1>1, <2>2, <3>1 DEF RootPc, RootSub, CallFrames
 <2> QED BY <2>1, <2>2
<1> QED BY <1>1, <1>2, <1>3, Decoded

LEMMA StopsHere ==
  ASSUME Core, spawn # 0, StraightOn,
         \/ RootPc \notin DOMAIN Subs[RootSub]
         \/ Subs[RootSub][RootPc].time # 0
         \/ Stopper(Subs[RootSub][RootPc])
  PROVE  AllDone
<1>1. ASSUME NEW p \in Needed(RootSub) PROVE DoneAt(clock.pc, p)
 <2>1. p \in DOMAIN Subs[RootSub] /\ \A q \in 1..p : Subs[RootSub][q].time = 0 /\ ~Stopper(Subs[RootSub][q])
   BY DEF Needed
 <2>2. RootPc \in Int /\ RootPc >= 1 /\ DOMAIN Subs[RootSub] = 1..Len(Subs[RootSub]) /\ Len(Subs[RootSub]) \in Nat
   BY RootIs DEF StraightOn
 <2>3. CASE p < RootPc BY <2>3 DEF StraightOn
 <2>4. CASE ~(p < RootPc)
  <3>1. RootPc \in 1..p /\ RootPc \in DOMAIN Subs[RootSub] BY <2>1, <2>2, <2>4
  <3> QED BY <2>1, <3>1
 <2> QED BY <2>3, <2>4
<1> QED BY <1>1 DEF AllDone

LEMMA StraightStays ==
  ASSUME StraightOn, Grows, clock' = clock, RootPc' = RootPc, RootSub' = RootSub, script'.frames = script.frames,
         script'.sub = script.sub, script'.time = 0
  PROVE  StraightOn'
<1> DEFINE pc == clock.pc
           root == RootSub
           to == RootPc
<1>1. /\ to >= 1
      /\ \A q \in 1..to - 1 : q \in DOMAIN Subs[root] /\ Subs[root][q].time = 0 /\ ~Stopper(Subs[root][q])
      /\ \A p \in Needed(root) : p < to => DoneIn(log, pc, p)
      /\ script.frames # << >> =>
            /\ Len(script.frames) = 1 /\ script.frames[1].time = 0 /\ Leaf(script.sub)
            /\ to \in DOMAIN Subs[root] /\ Subs[root][to].time = 0 /\ ~Stopper(Subs[root][to])
            /\ Subs[root][to].op = "call"
  BY DEF StraightOn, DoneAt
<1>2. clock'.pc = pc /\ RootSub' = root /\ RootPc' = to OBVIOUS
<1> HIDE DEF pc, root, to
<1>3. \A p \in Needed(root) : p < to => DoneIn(log', pc, p) BY <1>1, DoneGrows
<1> QED BY <1>1, <1>2, <1>3 DEF StraightOn, DoneAt

LEMMA StraightOneOn ==
  ASSUME Core, spawn # 0, StraightOn, Grows, clock' = clock, script'.frames = << >>, script'.time = 0,
         RootSub' = RootSub, RootPc' = RootPc + 1,
         RootPc \in DOMAIN Subs[RootSub], Subs[RootSub][RootPc].time = 0, ~Stopper(Subs[RootSub][RootPc]),
         RootPc \in Needed(RootSub) => DoneIn(log', clock.pc, RootPc)
  PROVE  StraightOn'
<1> DEFINE pc == clock.pc
           root == RootSub
           to == RootPc
<1>1. /\ to >= 1 /\ to \in Int
      /\ \A q \in 1..to - 1 : q \in DOMAIN Subs[root] /\ Subs[root][q].time = 0 /\ ~Stopper(Subs[root][q])
      /\ \A p \in Needed(root) : p < to => DoneIn(log, pc, p)
  BY RootIs DEF StraightOn, DoneAt
<1>2. clock'.pc = pc /\ RootSub' = root /\ RootPc' = to + 1 OBVIOUS
<1>3. /\ to \in DOMAIN Subs[root] /\ Subs[root][to].time = 0 /\ ~Stopper(Subs[root][to])
      /\ to \in Needed(root) => DoneIn(log', pc, to)
      /\ Needed(root) \subseteq Nat
  BY RootIs DEF Needed
<1> HIDE DEF pc, root, to
<1>4. \A q \in 1..(to + 1) - 1 : q \in 1..to - 1 \/ q = to BY <1>1
<1>5. \A p \in Needed(root) : p < to + 1 => DoneIn(log', pc, p)
 <2>1. ASSUME NEW p \in Needed(root), p < to + 1 PROVE DoneIn(log', pc, p)
  <3>1. p < to \/ p = to BY <1>1, <1>3, <2>1
  <3> QED BY <1>1, <1>3, <3>1, DoneGrows
 <2> QED BY <2>1
<1>6. to + 1 >= 1 BY <1>1
<1>7. \A q \in 1..(to + 1) - 1 : q \in DOMAIN Subs[root] /\ Subs[root][q].time = 0 /\ ~Stopper(Subs[root][q])
  BY <1>1, <1>3, <1>4
<1> QED BY <1>2, <1>5, <1>6, <1>7 DEF StraightOn, DoneAt
----
\* A script that has gone straight on goes on, or has done all it must.
InRoot == script.frames = << >>

LEMMA RootAt ==
  ASSUME InRoot
  PROVE  RootPc = script.pc /\ RootSub = script.sub /\ Code = Subs[RootSub] /\ Op = Subs[RootSub][RootPc]
BY DEF InRoot, RootPc, RootSub, Code, Op

LEMMA CalleeIs ==
  ASSUME Core, spawn # 0, StraightOn, ~InRoot, script.pc \in DOMAIN Code
  PROVE  Op.time = 0 /\ Op.op \notin {"die", "pause", "call"} /\ Leaf(script.sub) /\ script.time = 0
BY DEF StraightOn, InRoot, Leaf, Op, Code

LEMMA SameRoot ==
  ASSUME Core, Core', spawn # 0, spawn' = spawn, clock' = clock, timeline' = timeline
  PROVE  RootSub' = RootSub
BY DEF Core, AtWork

LEMMA StaysInCallee ==
  ASSUME StraightOn, Grows, ~InRoot, clock' = clock, RootSub' = RootSub, script'.frames = script.frames,
         script'.sub = script.sub, script'.time = 0
  PROVE  StraightOn'
<1>1. RootPc' = RootPc BY DEF InRoot, RootPc
<1> QED BY <1>1, StraightStays

LEMMA StraightMasked == ASSUME Core, Core', Grows, StraightOn, Masked PROVE AllDone \/ StraightOn'
<1>1. /\ call.phase = "script" /\ spawn # 0 /\ spawn' = spawn /\ clock' = clock /\ timeline' = timeline
      /\ script'.frames = script.frames /\ script'.sub = script.sub /\ script'.time = script.time /\ ~Op.pass
  BY MaskedIs, AtInstruction
<1>2. CASE InRoot
 <2>1. Stopper(Op) BY <1>1 DEF Stopper
 <2> QED BY <1>1, <1>2, <2>1, RootAt, StopsHere
<1>3. CASE ~InRoot
 <2>1. script'.time = 0 /\ RootSub' = RootSub BY <1>1, SameRoot DEF StraightOn
 <2> QED BY <1>1, <1>3, <2>1, StaysInCallee
<1> QED BY <1>2, <1>3

LEMMA StraightJump == ASSUME Core, Core', Grows, StraightOn, Jump PROVE AllDone \/ StraightOn'
<1>1. /\ call.phase = "script" /\ spawn # 0 /\ spawn' = spawn /\ clock' = clock /\ timeline' = timeline
      /\ script'.frames = script.frames /\ script'.sub = script.sub /\ script'.time = Code[Op.arg].time
      /\ Op.op = "jump" /\ Op.arg \in DOMAIN Code
  BY JumpIs, AtInstruction
<1>2. CASE InRoot
 <2>1. Stopper(Op) BY <1>1 DEF Stopper
 <2> QED BY <1>1, <1>2, <2>1, RootAt, StopsHere
<1>3. CASE ~InRoot
 <2>1. RootSub' = RootSub BY <1>1, SameRoot
 <2>2. Leaf(script.sub) BY <1>3 DEF StraightOn, InRoot
 <2>3. script'.time = 0 BY <1>1, <2>2 DEF Leaf, Code
 <2> QED BY <1>1, <1>3, <2>1, <2>3, StaysInCallee
<1> QED BY <1>2, <1>3

LEMMA StraightYield == ASSUME Core, Core', Grows, StraightOn, Yield \/ End PROVE StraightOn'
<1>1. /\ call.phase = "script" /\ spawn # 0 /\ spawn' = spawn /\ clock' = clock /\ timeline' = timeline
      /\ script'.frames = script.frames /\ script'.sub = script.sub /\ script'.time = script.time
      /\ script'.pc = script.pc
  BY YieldIs, EndIs, AtInstruction
<1>2. script'.time = 0 /\ RootSub' = RootSub BY <1>1, SameRoot DEF StraightOn
<1>3. RootPc' = RootPc BY <1>1 DEF RootPc
<1> QED BY <1>1, <1>2, <1>3, StraightStays

LEMMA PairIs == ASSUME NEW s \in Seq(Int), Len(s) = 2 PROVE s = << s[1], s[2] >>
<1>1. DOMAIN s = 1..2 OBVIOUS
<1>2. s = [k \in 1..2 |-> s[k]] BY <1>1
<1>3. << s[1], s[2] >> = [k \in 1..2 |-> << s[1], s[2] >>[k]] OBVIOUS
<1>4. \A k \in 1..2 : << s[1], s[2] >>[k] = s[k]
 <2>1. \A k \in 1..2 : k = 1 \/ k = 2 OBVIOUS
 <2> QED BY <2>1
<1> QED BY <1>2, <1>3, <1>4

LEMMA StraightLogs ==
  ASSUME Core, Core', Grows, StraightOn, NEW e \in LogEntry, Logs(e)
  PROVE  StraightOn'
<1>1. /\ call.phase = "script" /\ spawn # 0 /\ spawn' = spawn /\ clock' = clock /\ timeline' = timeline
      /\ script'.frames = script.frames /\ script'.sub = script.sub /\ script'.time = script.time
      /\ script'.pc = script.pc + 1 /\ Op.pass /\ Op.time = script.time /\ script.pc \in DOMAIN Code
      /\ e.at = Here /\ log' = Append(log, e) /\ Op.op \in Logged
  BY AtInstruction DEF Logs
<1>2. script.time = 0 /\ script'.time = 0 /\ RootSub' = RootSub BY <1>1, SameRoot DEF StraightOn
<1>3. CASE InRoot
 <2>1. ~Stopper(Op) BY <1>1 DEF Stopper, Logged
 <2>2. RootPc' = RootPc + 1 /\ script'.frames = << >> BY <1>1, <1>3 DEF RootPc, InRoot
 <2>3. e.at = << clock.pc, RootPc >>
  <3>1. EntryTypes /\ Len(script.frames) = 0 BY <1>3 DEF Core, InRoot
  <3>2. Here \in Seq(Int) /\ Len(Here) = 2 /\ Here[1] = clock.pc /\ Here[2] = script.pc BY <3>1, HereIs
  <3> QED BY <1>1, <1>3, <3>2, PairIs, RootAt
 <2>4. DoneIn(log', clock.pc, RootPc)
  <3>1. log \in Seq(LogEntry) BY DEF Core, EntryTypes
  <3>2. Len(log) + 1 \in DOMAIN log' /\ log'[Len(log) + 1] = e BY <1>1, <3>1
  <3> QED BY <2>3, <3>2 DEF DoneIn
 <2> QED BY <1>1, <1>2, <1>3, <2>1, <2>2, <2>4, RootAt, StraightOneOn
<1>4. CASE ~InRoot BY <1>1, <1>2, <1>4, StaysInCallee
<1> QED BY <1>3, <1>4

LEMMA StraightCall == ASSUME Core, Core', Grows, StraightOn, CallSub PROVE AllDone \/ StraightOn'
<1>1. /\ call.phase = "script" /\ spawn # 0 /\ spawn' = spawn /\ clock' = clock /\ timeline' = timeline
      /\ script.pc \in DOMAIN Code /\ Op.op = "call" /\ Op.arg \in DOMAIN Subs /\ Op.pass /\ ~ScriptBoundary
      /\ script'.sub = Op.arg /\ script'.time = 0
  BY CallIs, AtInstruction
<1>2. InRoot BY <1>1, CalleeIs
<1>3. PICK frame \in CallFrames : /\ frame.sub = script.sub /\ frame.pc = script.pc /\ frame.time = script.time
                              /\ script'.frames = Append(script.frames, frame)
  BY CallIs
<1>4. script'.frames = << frame >> /\ Len(script'.frames) = 1 /\ script'.frames[1] = frame /\ script'.frames # << >>
  BY <1>2, <1>3 DEF InRoot
<1>5. Op.time = 0 /\ script.time = 0 BY <1>1 DEF StraightOn, ScriptBoundary, Op
<1>6. CASE ~Leaf(Op.arg)
 <2>1. Stopper(Op) BY <1>1, <1>6 DEF Stopper
 <2> QED BY <1>1, <1>2, <2>1, RootAt, StopsHere
<1>7. CASE Leaf(Op.arg)
 <2>1. ~Stopper(Op) BY <1>1, <1>7 DEF Stopper
 <2>2. RootSub' = RootSub BY <1>1, SameRoot
 <2>3. RootPc' = RootPc BY <1>2, <1>3, <1>4 DEF RootPc, InRoot
 <2> DEFINE root == RootSub
            to == RootPc
            pc == clock.pc
 <2>4. /\ to \in DOMAIN Subs[root] /\ Subs[root][to].time = 0 /\ ~Stopper(Subs[root][to]) /\ Subs[root][to].op = "call"
   BY <1>1, <1>2, <1>5, <2>1, RootAt
 <2>5. /\ to >= 1
       /\ \A q \in 1..to - 1 : q \in DOMAIN Subs[root] /\ Subs[root][q].time = 0 /\ ~Stopper(Subs[root][q])
       /\ \A p \in Needed(root) : p < to => DoneIn(log, pc, p)
   BY DEF StraightOn, DoneAt
 <2>6. clock'.pc = pc /\ RootSub' = root /\ RootPc' = to BY <1>1, <2>2, <2>3
 <2>7. Leaf(script'.sub) /\ script'.frames[1].time = 0 BY <1>1, <1>3, <1>4, <1>5, <1>7
 <2> HIDE DEF root, to, pc
 <2>8. \A p \in Needed(root) : p < to => DoneIn(log', pc, p) BY <2>5, DoneGrows
 <2> QED BY <1>1, <1>4, <2>4, <2>5, <2>6, <2>7, <2>8 DEF StraightOn, DoneAt
<1> QED BY <1>6, <1>7

LEMMA StraightReturn == ASSUME Core, Core', Grows, StraightOn, ReturnSub PROVE StraightOn'
<1>1. /\ call.phase = "script" /\ spawn # 0 /\ spawn' = spawn /\ clock' = clock /\ timeline' = timeline
  BY ReturnIs, AtInstruction
<1>2. PICK n \in Nat \ {0}, frame \in CallFrames :
              /\ Len(script.frames) = n /\ frame = script.frames[n] /\ script'.frames \in Seq(CallFrames)
              /\ Len(script'.frames) = n - 1
              /\ script'.pc = frame.pc + 1 /\ script'.time = frame.time
  BY ReturnIs
<1>3. script.frames # << >> BY <1>2
<1>4. n = 1 /\ script.frames[1].time = 0
      /\ RootPc \in DOMAIN Subs[RootSub] /\ Subs[RootSub][RootPc].time = 0 /\ ~Stopper(Subs[RootSub][RootPc])
      /\ Subs[RootSub][RootPc].op = "call"
  BY <1>2, <1>3 DEF StraightOn
<1>5. script'.frames = << >> /\ script'.time = 0 /\ script'.pc = RootPc + 1 BY <1>2, <1>3, <1>4 DEF RootPc
<1>6. RootSub' = RootSub /\ RootPc' = RootPc + 1 BY <1>1, <1>5, SameRoot DEF RootPc
<1>7. RootPc \notin Needed(RootSub) BY <1>4 DEF Needed, Logged
<1> QED BY <1>1, <1>4, <1>5, <1>6, <1>7, StraightOneOn
----
\* A running script has done all it must, or has gone straight on.
LEMMA AllDoneStays ==
  ASSUME AllDone, Grows, clock' = clock, RootSub' = RootSub
  PROVE  AllDone'
<1> DEFINE pc == clock.pc
           root == RootSub
<1>1. \A p \in Needed(root) : DoneIn(log, pc, p) BY DEF AllDone, DoneAt
<1>2. clock'.pc = pc /\ RootSub' = root OBVIOUS
<1> HIDE DEF pc, root
<1>3. \A p \in Needed(root) : DoneIn(log', pc, p) BY <1>1, DoneGrows
<1> QED BY <1>2, <1>3 DEF AllDone, DoneAt

LEMMA ProgressFirst == ASSUME EntryInit PROVE Progress
BY DEF EntryInit, Progress

LEMMA ProgressBegin == ASSUME Core, Core', Begin PROVE Progress'
<1>1. /\ spawn' # 0 /\ script'.sub = timeline[clock.pc].arg /\ script'.frames = << >> /\ script'.pc = 1
      /\ script'.time = 0 /\ script'.end = "no"
  BY BeginIs
<1>2. RootPc' = 1 BY <1>1 DEF RootPc
<1>3. RootSub' \in DOMAIN Subs BY <1>1 DEF Core, AtWork, RootSub
<1> DEFINE root == RootSub'
<1>4. \A p \in Needed(root) : p \in Nat /\ p >= 1 BY <1>3, Decoded DEF Needed
<1>5. 1..1 - 1 = {} OBVIOUS
<1> HIDE DEF root
<1>6. \A p \in Needed(root) : ~(p < 1) BY <1>4
<1>7. StraightOn' BY <1>1, <1>2, <1>5, <1>6 DEF StraightOn, root
<1> QED BY <1>1, <1>7 DEF Progress

LEMMA ProgressStep ==
  ASSUME Core, Core', PendingInCode, Progress, [EntryNext]_entryVars
  PROVE  Progress'
<1>1. Grows BY LogGrows
<1>2. ASSUME spawn' = 0 PROVE Progress' BY <1>2 DEF Progress
<1>3. ASSUME call.phase = "script", spawn' = spawn, clock' = clock, timeline' = timeline,
             StraightOn => AllDone \/ StraightOn', script'.end = "died" => AllDone
      PROVE  Progress'
 <2>1. spawn # 0 BY <1>3, AtInstruction
 <2>2. RootSub' = RootSub BY <1>3, <2>1, SameRoot
 <2>3. AllDone => AllDone' BY <1>1, <1>3, <2>2, AllDoneStays
 <2>4. AllDone \/ StraightOn BY <2>1 DEF Progress
 <2> QED BY <1>3, <2>3, <2>4 DEF Progress
<1>4. ASSUME call.phase = "script", script'.end = script.end, script'.end = "died" PROVE AllDone
  BY <1>4, AtInstruction DEF Progress
<1>5. CASE Idles BY <1>5 DEF Idles, Progress, AllDone, StraightOn, RootSub, RootPc, DoneAt
<1>6. CASE Running /\ GoesOn
 <2>1. spawn = 0 /\ spawn' = spawn BY <1>6, NotTheLast DEF GoesOn, Forward
 <2> QED BY <1>2, <2>1
<1>7. CASE FrameDone /\ TimelineNext
 <2>1. spawn = 0 /\ spawn' = spawn BY <1>7, TimelineStep DEF FrameDone
 <2> QED BY <1>2, <2>1
<1>8. CASE Begin BY <1>8, ProgressBegin
<1>9. CASE PoolFull
 <2>1. spawn = 0 /\ spawn' = spawn BY <1>9 DEF PoolFull, Core, AtWork
 <2> QED BY <1>2, <2>1
<1>10. CASE \E e \in LogEntry : Logs(e)
 <2>1. PICK e \in LogEntry : Logs(e) BY <1>10
 <2>2. call.phase = "script" /\ spawn' = spawn /\ clock' = clock /\ timeline' = timeline /\ script'.end = script.end
   BY <2>1 DEF Logs
 <2>3. StraightOn => StraightOn' BY <1>1, <2>1, StraightLogs
 <2> QED BY <1>3, <1>4, <2>2, <2>3
<1>11. CASE Masked
 <2>1. call.phase = "script" /\ spawn' = spawn /\ clock' = clock /\ timeline' = timeline /\ script'.end = script.end
   BY <1>11, MaskedIs
 <2> QED BY <1>1, <1>3, <1>4, <1>11, <2>1, StraightMasked
<1>12. CASE CallSub
 <2>1. call.phase = "script" /\ spawn' = spawn /\ clock' = clock /\ timeline' = timeline /\ script'.end = script.end
   BY <1>12, CallIs
 <2> QED BY <1>1, <1>3, <1>4, <1>12, <2>1, StraightCall
<1>13. CASE ReturnSub
 <2>1. call.phase = "script" /\ spawn' = spawn /\ clock' = clock /\ timeline' = timeline /\ script'.end = script.end
   BY <1>13, ReturnIs
 <2> QED BY <1>1, <1>3, <1>4, <1>13, <2>1, StraightReturn
<1>14. CASE Jump
 <2>1. call.phase = "script" /\ spawn' = spawn /\ clock' = clock /\ timeline' = timeline /\ script'.end = script.end
   BY <1>14, JumpIs
 <2> QED BY <1>1, <1>3, <1>4, <1>14, <2>1, StraightJump
<1>15. CASE Yield
 <2>1. call.phase = "script" /\ spawn' = spawn /\ clock' = clock /\ timeline' = timeline /\ script'.end = script.end
   BY <1>15, YieldIs
 <2> QED BY <1>1, <1>3, <1>4, <1>15, <2>1, StraightYield
<1>16. CASE End
 <2>1. call.phase = "script" /\ spawn' = spawn /\ clock' = clock /\ timeline' = timeline BY <1>16, EndIs
 <2>2. ASSUME script'.end = "died" PROVE AllDone
  <3>1. script.pc \in DOMAIN Code /\ Op.op = "die" /\ spawn # 0 BY <1>16, <2>1, <2>2, EndIs, AtInstruction
  <3>2. CASE AllDone BY <3>2
  <3>3. CASE StraightOn
   <4>1. InRoot BY <3>1, <3>3, CalleeIs
   <4>2. Stopper(Op) BY <3>1 DEF Stopper
   <4> QED BY <3>1, <3>3, <4>1, <4>2, RootAt, StopsHere
  <3> QED BY <3>1, <3>2, <3>3 DEF Progress
 <2> QED BY <1>1, <1>3, <1>16, <2>1, <2>2, StraightYield
<1>17. CASE Spawned \/ Died
 <2>1. call.phase = "script" /\ SpawnOver BY <1>17 DEF Spawned, Died, InScript
 <2> QED BY <1>2, <2>1, SpawnOverIs
<1> QED BY <1>5, <1>6, <1>7, <1>8, <1>9, <1>10, <1>11, <1>12, <1>13, <1>14, <1>15, <1>16, <1>17, KindsOfStep

\* A spawn that is over has done all it must.
LEMMA OverDone == ASSUME Core, Progress, Spawned \/ Died PROVE AllDone
<1>1. call.phase = "script" /\ spawn # 0
 <2>1. call.phase = "script" BY DEF Spawned, Died, InScript
 <2> QED BY <2>1, AtInstruction
<1>2. CASE Died BY <1>1, <1>2 DEF Died, Progress
<1>3. CASE Spawned /\ ~AllDone
 <2>1. StraightOn BY <1>1, <1>3 DEF Progress
 <2>2. script.pc \in DOMAIN Code /\ (Op.time # script.time \/ Op.op = "pause")
   BY <1>3 DEF Spawned, ScriptBoundary, Executable, Op
 <2>3. script.time = 0 BY <2>1 DEF StraightOn
 <2>4. InRoot BY <1>1, <2>1, <2>2, <2>3, CalleeIs
 <2>5. Op.time # 0 \/ Stopper(Op) BY <2>2, <2>3 DEF Stopper
 <2> QED BY <1>1, <2>1, <2>4, <2>5, RootAt, StopsHere
<1> QED BY <1>2, <1>3
----
\* What a completed spawn had to do is in the log.
EntryCompleted(entries, n, pc, actor, sub) ==
  /\ Len(entries[n].at) = 1 /\ entries[n].at[1] <= pc
  /\ entries[n].at[1] = pc => actor # 0 /\ entries[n].arg = sub
  /\ entries[n].at[1] < pc => \A p \in Needed(entries[n].arg) : DoneIn(entries, entries[n].at[1], p)
CompletedIn(entries, pc, actor, sub) ==
  \A n \in DOMAIN entries : entries[n].op \in Spawns => EntryCompleted(entries, n, pc, actor, sub)

LEMMA CompletedIs ==
  /\ Completed <=> CompletedIn(log, clock.pc, spawn, RootSub)
  /\ Completed' <=> CompletedIn(log', clock'.pc, spawn', RootSub')
BY DEF Completed, CompletedIn, EntryCompleted, DoneAt

LEMMA CompletedOld ==
  ASSUME NEW s \in Seq(LogEntry), NEW t \in Seq(LogEntry), \A n \in DOMAIN s : n \in DOMAIN t /\ t[n] = s[n],
         NEW pc \in Int, NEW qc \in Int, pc <= qc, NEW actor, NEW after, NEW sub, NEW next,
         CompletedIn(s, pc, actor, sub),
         pc = qc /\ actor # 0 => after # 0 /\ next = sub,
         pc < qc /\ actor # 0 => \A p \in Needed(sub) : DoneIn(s, pc, p),
         NEW n \in DOMAIN s, s[n].op \in Spawns
  PROVE  EntryCompleted(t, n, qc, after, next)
<1> DEFINE at == s[n].at[1]
<1>1. /\ Len(s[n].at) = 1 /\ at <= pc
      /\ at = pc => actor # 0 /\ s[n].arg = sub
      /\ at < pc => \A p \in Needed(s[n].arg) : DoneIn(s, at, p)
  BY DEF CompletedIn, EntryCompleted
<1>2. at \in Int
 <2>1. s[n] \in LogEntry OBVIOUS
 <2> QED BY <1>1, <2>1 DEF LogEntry
<1>3. t[n] = s[n] OBVIOUS
<1> HIDE DEF at
<1>4. at <= qc BY <1>1, <1>2
<1>5. at = qc => after # 0 /\ s[n].arg = next BY <1>1, <1>2
<1>6. ASSUME at < qc, NEW p \in Needed(s[n].arg) PROVE DoneIn(t, at, p)
 <2>1. DoneIn(s, at, p)
  <3>1. CASE at < pc BY <1>1, <1>6, <3>1
  <3>2. CASE at = pc BY <1>1, <1>6, <3>2
  <3> QED BY <1>1, <1>2, <3>1, <3>2
 <2> QED BY <2>1 DEF DoneIn
<1> QED BY <1>1, <1>3, <1>4, <1>5, <1>6 DEF at, EntryCompleted

LEMMA CompletedMore ==
  ASSUME NEW s \in Seq(LogEntry), NEW t \in Seq(LogEntry), \A n \in DOMAIN s : n \in DOMAIN t /\ t[n] = s[n],
         \A n \in DOMAIN t : n \in DOMAIN s \/ t[n].op \notin Spawns,
         NEW pc \in Int, NEW qc \in Int, pc <= qc, NEW actor, NEW after, NEW sub, NEW next,
         CompletedIn(s, pc, actor, sub),
         pc = qc /\ actor # 0 => after # 0 /\ next = sub,
         pc < qc /\ actor # 0 => \A p \in Needed(sub) : DoneIn(s, pc, p)
  PROVE  CompletedIn(t, qc, after, next)
<1>1. ASSUME NEW n \in DOMAIN t, t[n].op \in Spawns
      PROVE  EntryCompleted(t, n, qc, after, next)
 <2>1. n \in DOMAIN s /\ s[n].op \in Spawns BY <1>1
 <2> QED BY <2>1, CompletedOld
<1> QED BY <1>1 DEF CompletedIn

LEMMA CompletedBegin ==
  ASSUME NEW s \in Seq(LogEntry), NEW e \in LogEntry, NEW pc \in Int, NEW sub, NEW next, NEW a, a # 0, e.at = << pc >>, e.arg = next,
         CompletedIn(s, pc, 0, sub)
  PROVE  CompletedIn(Append(s, e), pc, a, next)
<1> DEFINE t == Append(s, e)
           m == Len(s)
<1>1. /\ t \in Seq(LogEntry) /\ DOMAIN t = 1..m + 1 /\ t[m + 1] = e /\ m \in Nat /\ DOMAIN s = 1..m
      /\ \A n \in DOMAIN s : n \in DOMAIN t /\ t[n] = s[n]
  OBVIOUS
<1> HIDE DEF t, m
<1>2. ASSUME NEW n \in DOMAIN t, t[n].op \in Spawns
      PROVE  EntryCompleted(t, n, pc, a, next)
 <2>1. CASE n = m + 1
  <3> DEFINE at == << pc >>
  <3>1. Len(at) = 1 /\ at[1] = pc OBVIOUS
  <3> HIDE DEF at
  <3>2. t[n].at = at /\ t[n].arg = next BY <1>1, <2>1 DEF at
  <3>3. ~(pc < pc) /\ pc <= pc OBVIOUS
  <3> QED BY <3>1, <3>2, <3>3 DEF EntryCompleted
 <2>2. CASE n # m + 1
  <3>1. n \in DOMAIN s /\ s[n].op \in Spawns BY <1>1, <1>2, <2>2
  <3>2. pc <= pc /\ ~(pc < pc) OBVIOUS
  <3>3. EntryCompleted(t, n, pc, a, next) BY <1>1, <3>1, <3>2, CompletedOld
  <3> QED BY <3>3
 <2> QED BY <2>1, <2>2
<1>3. CompletedIn(t, pc, a, next) BY <1>2 DEF CompletedIn
<1> QED BY <1>3 DEF t

LEMMA CompletedFirst == ASSUME EntryInit PROVE Completed
BY DEF EntryInit, Completed

LEMMA CompletedStep ==
  ASSUME Core, Core', PendingInCode, DraftInOrder, Progress, Completed, [EntryNext]_entryVars
  PROVE  Completed'
<1>1. Grows /\ log \in Seq(LogEntry) /\ log' \in Seq(LogEntry) /\ clock.pc \in Int /\ clock'.pc \in Int
  BY LogGrows DEF Core, EntryTypes
<1>2. CompletedIn(log, clock.pc, spawn, RootSub) BY CompletedIs
<1>3. ASSUME \A n \in DOMAIN log' : n \in DOMAIN log \/ log'[n].op \notin Spawns, clock.pc <= clock'.pc,
             clock.pc = clock'.pc /\ spawn # 0 => spawn' # 0 /\ RootSub' = RootSub,
             clock.pc < clock'.pc /\ spawn # 0 => AllDone
      PROVE  Completed'
 <2>1. \A n \in DOMAIN log : n \in DOMAIN log' /\ log'[n] = log[n] BY <1>1 DEF Grows
 <2>2. clock.pc < clock'.pc /\ spawn # 0 => \A p \in Needed(RootSub) : DoneIn(log, clock.pc, p)
   BY <1>3 DEF AllDone, DoneAt
 <2> DEFINE s == log
            t == log'
            pc == clock.pc
            qc == clock'.pc
            actor == spawn
            after == spawn'
            sub == RootSub
            next == RootSub'
 <2>3. /\ s \in Seq(LogEntry) /\ t \in Seq(LogEntry) /\ \A n \in DOMAIN s : n \in DOMAIN t /\ t[n] = s[n]
       /\ \A n \in DOMAIN t : n \in DOMAIN s \/ t[n].op \notin Spawns
       /\ pc \in Int /\ qc \in Int /\ pc <= qc /\ CompletedIn(s, pc, actor, sub)
       /\ pc = qc /\ actor # 0 => after # 0 /\ next = sub
       /\ pc < qc /\ actor # 0 => \A p \in Needed(sub) : DoneIn(s, pc, p)
   BY <1>1, <1>2, <1>3, <2>1, <2>2
 <2> HIDE DEF s, t, pc, qc, actor, after, sub, next
 <2>4. CompletedIn(t, qc, after, next) BY <2>3, CompletedMore
 <2>5. t = log' /\ qc = clock'.pc /\ after = spawn' /\ next = RootSub' BY Zenon DEF t, qc, after, next
 <2>6. CompletedIn(log', clock'.pc, spawn', RootSub') BY <2>4, <2>5, Zenon
 <2> QED BY <2>6, CompletedIs, Zenon
<1>4. ASSUME log' = log, clock' = clock, spawn # 0 => spawn' # 0 /\ RootSub' = RootSub PROVE Completed'
 <2>1. clock.pc <= clock'.pc /\ ~(clock.pc < clock'.pc) BY <1>1, <1>4
 <2> QED BY <1>3, <1>4, <2>1
<1>5. CASE Idles BY <1>4, <1>5 DEF Idles, RootSub
<1>6. CASE Running /\ GoesOn BY <1>4, <1>6 DEF GoesOn, Forward, RootSub
<1>7. CASE FrameDone /\ TimelineNext
 <2>1. draft \in Drafts /\ draft.open /\ draft.log \in Seq(LogEntry) /\ spawn = 0 /\ draft.pc \in Int
   BY <1>7, TimelineStep DEF Drafts
 <2>2. log' = log \o draft.log \o << >> /\ clock'.pc = draft.pc BY <1>7 DEF FrameDone, Commit
 <2>3. log' = log \o draft.log BY <1>1, <2>1, <2>2
 <2>4. clock.pc <= draft.pc BY <1>1, <2>1 DEF Core, AtWork
 <2>5. ASSUME NEW n \in DOMAIN log' PROVE n \in DOMAIN log \/ log'[n].op \notin Spawns
  <3>1. DOMAIN log = 1..Len(log) /\ DOMAIN draft.log = 1..Len(draft.log) BY <1>1, <2>1
  <3>2. n \in 1..Len(log) \/ (n - Len(log) \in 1..Len(draft.log) /\ log'[n] = draft.log[n - Len(log)])
    BY <1>1, <2>1, <2>3, Concatenated
  <3> DEFINE k == n - Len(log)
  <3>3. k \in DOMAIN draft.log => draft.log[k].op \in {"publish", "consume"} BY <2>1 DEF DraftInOrder
  <3> QED BY <3>1, <3>2, <3>3 DEF Spawns
 <2> QED BY <1>3, <2>1, <2>2, <2>4, <2>5
<1>8. CASE Begin
 <2>1. spawn = 0 /\ spawn' # 0 /\ clock' = clock /\ script'.sub = timeline[clock.pc].arg /\ script'.frames = << >>
   BY <1>8, BeginIs DEF Begin
 <2> DEFINE e == Entry(<<clock.pc>>, Pending, 0, 0)
 <2>2. e \in LogEntry /\ log' = Append(log, e) BY <1>8, BeginIs
 <2>3. e.at = << clock.pc >> /\ e.arg = timeline[clock.pc].arg BY DEF Entry, Pending
 <2> HIDE DEF e
 <2>4. RootSub' = e.arg BY <2>1, <2>3 DEF RootSub
 <2>5. CompletedIn(log, clock.pc, 0, RootSub)
  <3>1. spawn = 0 BY <2>1
  <3> QED BY <1>2, <3>1
 <2>6. CompletedIn(Append(log, e), clock.pc, spawn', RootSub')
  <3> DEFINE s == log
             pc == clock.pc
             sub == RootSub
             next == RootSub'
             a == spawn'
  <3>1. /\ s \in Seq(LogEntry) /\ pc \in Int /\ a # 0 /\ e.at = << pc >> /\ e.arg = next
        /\ CompletedIn(s, pc, 0, sub)
    BY <1>1, <2>1, <2>3, <2>4, <2>5
  <3> HIDE DEF s, pc, sub, next, a
  <3>2. CompletedIn(Append(s, e), pc, a, next) BY <2>2, <3>1, CompletedBegin
  <3> QED BY <3>2 DEF s, pc, next, a
 <2>7. clock'.pc = clock.pc BY <2>1
 <2> QED BY <2>2, <2>6, <2>7, CompletedIs
<1>9. CASE PoolFull
 <2>1. spawn = 0 /\ clock'.pc = clock.pc + 1 /\ log' = log BY <1>9, AcknowledgedIs DEF PoolFull, Core, AtWork
 <2>2. clock.pc <= clock'.pc BY <1>1, <2>1
 <2> QED BY <1>3, <2>1, <2>2
<1>10. CASE \E e \in LogEntry : Logs(e)
 <2>1. PICK e \in LogEntry : Logs(e) BY <1>10
 <2>2. call.phase = "script" /\ spawn' = spawn /\ clock' = clock /\ timeline' = timeline
       /\ log' = Append(log, e) /\ e.op \in Logged
   BY <2>1 DEF Logs
 <2>3. spawn # 0 BY <2>2, AtInstruction
 <2>4. RootSub' = RootSub BY <2>2, <2>3, SameRoot
 <2>5. e.op \notin Spawns BY <2>2 DEF Logged, Spawns
 <2>6. \A n \in DOMAIN log' : n \in DOMAIN log \/ log'[n].op \notin Spawns
  <3>1. \A n \in DOMAIN log' : n \in DOMAIN log \/ log'[n] = e BY <1>1, <2>2
  <3> QED BY <2>5, <3>1
 <2>7. clock.pc <= clock'.pc /\ ~(clock.pc < clock'.pc) BY <1>1, <2>2
 <2> QED BY <1>3, <2>2, <2>3, <2>4, <2>6, <2>7
<1>11. CASE Masked \/ CallSub \/ ReturnSub \/ Jump \/ Yield \/ End
 <2>1. call.phase = "script" /\ spawn' = spawn /\ clock' = clock /\ timeline' = timeline /\ log' = log
   BY <1>11, MaskedIs, CallIs, ReturnIs, JumpIs, YieldIs, EndIs
 <2>2. spawn # 0 BY <2>1, AtInstruction
 <2>3. RootSub' = RootSub BY <2>1, <2>2, SameRoot
 <2> QED BY <1>4, <2>1, <2>2, <2>3
<1>12. CASE Spawned \/ Died
 <2>1. call.phase = "script" /\ SpawnOver BY <1>12 DEF Spawned, Died, InScript
 <2>2. clock'.pc = clock.pc + 1 /\ log' = log BY <2>1, SpawnOverIs
 <2>3. AllDone BY <1>12, OverDone
 <2>4. clock.pc <= clock'.pc /\ clock.pc # clock'.pc BY <1>1, <2>2
 <2> QED BY <1>3, <2>2, <2>3, <2>4
<1> QED BY <1>5, <1>6, <1>7, <1>8, <1>9, <1>10, <1>11, <1>12, KindsOfStep
----
\* Each actor belongs to one command, the spawn at work to the present one.
OwnersIn(owned, pc, actor) ==
  /\ \A a \in 1..ActorCount : owned[a] # 0 => owned[a] <= pc /\ (owned[a] = pc => a = actor)
  /\ \A a, b \in 1..ActorCount : owned[a] # 0 /\ owned[a] = owned[b] => a = b

LEMMA OwnersIs ==
  ASSUME Core, Core'
  PROVE  (Owners <=> OwnersIn(actors, clock.pc, spawn)) /\ (Owners' <=> OwnersIn(actors', clock'.pc, spawn'))
BY DEF Core, EntryTypes, Owners, OwnersIn

LEMMA OwnersOn ==
  ASSUME NEW owned \in [1..ActorCount -> Int], NEW pc \in Int, NEW qc \in Int, pc <= qc, NEW actor, NEW next,
         OwnersIn(owned, pc, actor), pc < qc \/ actor = 0 \/ next = actor
  PROVE  OwnersIn(owned, qc, next)
<1>1. ASSUME NEW a \in 1..ActorCount, owned[a] # 0 PROVE owned[a] <= qc /\ (owned[a] = qc => a = next)
 <2>1. owned[a] \in Int /\ owned[a] <= pc /\ (owned[a] = pc => a = actor) BY <1>1 DEF OwnersIn
 <2>2. owned[a] = qc => pc = qc BY <2>1
 <2>3. a # 0 OBVIOUS
 <2> QED BY <2>1, <2>2, <2>3
<1> QED BY <1>1 DEF OwnersIn

LEMMA OwnersBegin ==
  ASSUME NEW owned \in [1..ActorCount -> Int], NEW pc \in Int, NEW n \in 1..ActorCount, NEW next,
         next = [owned EXCEPT ![n] = pc], OwnersIn(owned, pc, 0)
  PROVE  OwnersIn(next, pc, n)
<1>1. next[n] = pc /\ \A a \in 1..ActorCount : a # n => next[a] = owned[a] OBVIOUS
<1>2. \A a \in 1..ActorCount : owned[a] # 0 => owned[a] <= pc /\ owned[a] # pc BY DEF OwnersIn
<1>3. ASSUME NEW a \in 1..ActorCount, next[a] # 0 PROVE next[a] <= pc /\ (next[a] = pc => a = n)
  BY <1>1, <1>2, <1>3
<1>4. ASSUME NEW a \in 1..ActorCount, NEW b \in 1..ActorCount, next[a] # 0, next[a] = next[b] PROVE a = b
 <2>1. CASE a # n /\ b # n BY <1>1, <1>4, <2>1 DEF OwnersIn
 <2>2. CASE a = n \/ b = n BY <1>1, <1>3, <1>4, <2>2
 <2> QED BY <2>1, <2>2
<1> QED BY <1>3, <1>4 DEF OwnersIn

LEMMA OwnersFreed ==
  ASSUME NEW owned \in [1..ActorCount -> Int], NEW pc \in Int, NEW actor \in 1..ActorCount, NEW next,
         next = [owned EXCEPT ![actor] = 0], OwnersIn(owned, pc, actor)
  PROVE  OwnersIn(next, pc, actor)
<1>1. next[actor] = 0 /\ \A a \in 1..ActorCount : a # actor => next[a] = owned[a] OBVIOUS
<1> QED BY <1>1 DEF OwnersIn

LEMMA OwnersFirst == ASSUME EntryInit PROVE Owners
BY DEF EntryInit, Owners

LEMMA OwnersStep ==
  ASSUME Core, Core', PendingInCode, Owners, [EntryNext]_entryVars
  PROVE  Owners'
<1>1. /\ actors \in [1..ActorCount -> Int] /\ clock.pc \in Int /\ clock'.pc \in Int
      /\ actors' \in [1..ActorCount -> Int]
      /\ OwnersIn(actors, clock.pc, spawn)
  BY OwnersIs DEF Core, EntryTypes
<1>2. ASSUME actors' = actors, clock.pc <= clock'.pc, clock.pc < clock'.pc \/ spawn = 0 \/ spawn' = spawn
      PROVE  Owners'
 <2> DEFINE owned == actors
            pc == clock.pc
            qc == clock'.pc
            actor == spawn
            next == spawn'
 <2>1. /\ owned \in [1..ActorCount -> Int] /\ pc \in Int /\ qc \in Int /\ pc <= qc /\ OwnersIn(owned, pc, actor)
       /\ pc < qc \/ actor = 0 \/ next = actor
   BY <1>1, <1>2
 <2> HIDE DEF owned, pc, qc, actor, next
 <2>2. OwnersIn(owned, qc, next) BY <2>1, OwnersOn
 <2>3. OwnersIn(actors', clock'.pc, spawn') BY <1>2, <2>2 DEF owned, qc, next
 <2> QED BY <2>3, OwnersIs
<1>3. CASE UNCHANGED <<actors, clock, spawn>>
 <2>1. clock.pc <= clock'.pc BY <1>1, <1>3
 <2> QED BY <1>2, <1>3, <2>1
<1>4. CASE Idles BY <1>3, <1>4 DEF Idles
<1>5. CASE Running /\ GoesOn BY <1>3, <1>5 DEF GoesOn, Forward
<1>6. CASE FrameDone /\ TimelineNext
 <2>1. draft \in Drafts /\ draft.open /\ spawn = 0 /\ draft.pc \in Int BY <1>6, TimelineStep DEF Drafts
 <2>2. clock'.pc = draft.pc /\ actors' = actors BY <1>6 DEF FrameDone, Commit
 <2>3. clock.pc <= draft.pc BY <1>1, <2>1 DEF Core, AtWork
 <2> QED BY <1>2, <2>1, <2>2, <2>3
<1>7. CASE Begin
 <2>1. PICK a \in 1..ActorCount : /\ actors' = [actors EXCEPT ![a] = clock.pc] /\ spawn' = a /\ spawn = 0
   BY <1>7, BeginIs
 <2>2. clock' = clock BY <1>7 DEF Begin
 <2> DEFINE owned == actors
            pc == clock.pc
            next == actors'
 <2>3. owned \in [1..ActorCount -> Int] /\ pc \in Int /\ next = [owned EXCEPT ![a] = pc] /\ OwnersIn(owned, pc, 0)
   BY <1>1, <2>1
 <2> HIDE DEF owned, pc, next
 <2>4. OwnersIn(next, pc, a) BY <2>3, OwnersBegin
 <2>5. OwnersIn(actors', clock'.pc, spawn') BY <2>1, <2>2, <2>4 DEF next, pc
 <2> QED BY <2>5, OwnersIs
<1>8. CASE PoolFull
 <2>1. spawn = 0 /\ clock'.pc = clock.pc + 1 /\ actors' = actors
   BY <1>8, AcknowledgedIs DEF PoolFull, Core, AtWork
 <2>2. clock.pc <= clock'.pc BY <1>1, <2>1
 <2> QED BY <1>2, <2>1, <2>2
<1>9. CASE \E e \in LogEntry : Logs(e) BY <1>3, <1>9 DEF Logs
<1>10. CASE Masked \/ CallSub \/ ReturnSub \/ Jump \/ Yield \/ End
 <2>1. UNCHANGED <<actors, clock, spawn>> BY <1>10 DEF Masked, CallSub, ReturnSub, Jump, Yield, End
 <2> QED BY <1>3, <2>1
<1>11. CASE Spawned \/ Died
 <2>1. call.phase = "script" /\ SpawnOver BY <1>11 DEF Spawned, Died, InScript
 <2>2. clock'.pc = clock.pc + 1 BY <2>1, SpawnOverIs
 <2>3. clock.pc <= clock'.pc /\ clock.pc < clock'.pc BY <1>1, <2>2
 <2>4. CASE Spawned BY <1>2, <2>3, <2>4 DEF Spawned
 <2>5. CASE Died
  <3>1. actors' = [actors EXCEPT ![spawn] = 0] /\ spawn \in 1..ActorCount BY <2>1, <2>5, AtInstruction DEF Died
  <3> DEFINE owned == actors
             pc == clock.pc
             qc == clock'.pc
             next == actors'
             actor == spawn
             then == spawn'
  <3>2. /\ owned \in [1..ActorCount -> Int] /\ next \in [1..ActorCount -> Int]
        /\ pc \in Int /\ qc \in Int /\ pc <= qc /\ pc < qc /\ actor \in 1..ActorCount
        /\ next = [owned EXCEPT ![actor] = 0] /\ OwnersIn(owned, pc, actor)
    BY <1>1, <2>3, <3>1
  <3> HIDE DEF owned, pc, qc, next, actor, then
  <3>3. OwnersIn(next, pc, actor) BY <3>2, OwnersFreed
  <3>4. OwnersIn(next, qc, then) BY <3>2, <3>3, OwnersOn
  <3> QED BY <3>4, OwnersIs DEF next, qc, then
 <2> QED BY <1>11, <2>4, <2>5
<1> QED BY <1>4, <1>5, <1>6, <1>7, <1>8, <1>9, <1>10, <1>11, KindsOfStep
----
\* What is committed lies within one activation exactly when all but the
\* last component of the places agree.
LEMMA FrontIs ==
  ASSUME NEW s \in Seq(Int), Len(s) >= 1
  PROVE  /\ Front(s) \in Seq(Int) /\ Len(Front(s)) = Len(s) - 1
         /\ \A k \in 1..Len(s) - 1 : Front(s)[k] = s[k]
<1> DEFINE n == Len(s) - 1
<1>1. n \in Nat /\ \A k \in 1..n : s[k] \in Int OBVIOUS
<1>2. Front(s) = SubSeq(s, 1, n) BY DEF Front
<1> HIDE DEF n
<1>3. /\ SubSeq(s, 1, n) \in Seq(Int) /\ Len(SubSeq(s, 1, n)) = IF 1 <= n THEN n - 1 + 1 ELSE 0
      /\ \A k \in 1..n - 1 + 1 : SubSeq(s, 1, n)[k] = s[1 + k - 1]
  BY <1>1, SubSeqProperties
<1>4. Len(SubSeq(s, 1, n)) = n BY <1>1, <1>3
<1>5. ASSUME NEW k \in 1..n PROVE SubSeq(s, 1, n)[k] = s[k]
 <2>1. k \in 1..n - 1 + 1 /\ 1 + k - 1 = k BY <1>1
 <2> QED BY <1>3, <2>1
<1> QED BY <1>2, <1>3, <1>4, <1>5 DEF n

LEMMA FrontsAgree ==
  ASSUME NEW a \in Seq(Int), NEW b \in Seq(Int), Len(b) >= 2
  PROVE  Front(a) = Front(b) <=> Len(a) = Len(b) /\ \A k \in 1..Len(b) - 1 : a[k] = b[k]
<1> DEFINE f == Front(a)
           g == Front(b)
<1>1. g \in Seq(Int) /\ Len(g) = Len(b) - 1 /\ \A k \in 1..Len(b) - 1 : g[k] = b[k] BY FrontIs
<1>2. CASE Len(a) = 0
 <2>1. f = << >>
  <3>1. Len(a) - 1 < 1 /\ Len(a) - 1 \in Int BY <1>2
  <3> QED BY <3>1, SubSeqEmpty DEF Front
 <2>2. Len(f) = 0 BY <2>1
 <2> HIDE DEF f, g
 <2>3. f # g BY <1>1, <2>2
 <2> QED BY <1>2, <2>3 DEF f, g
<1>3. CASE Len(a) >= 1
 <2>1. f \in Seq(Int) /\ Len(f) = Len(a) - 1 /\ \A k \in 1..Len(a) - 1 : f[k] = a[k] BY <1>3, FrontIs
 <2> HIDE DEF f, g
 <2>2. ASSUME f = g PROVE Len(a) = Len(b) /\ \A k \in 1..Len(b) - 1 : a[k] = b[k] BY <1>1, <2>1, <2>2
 <2>3. ASSUME Len(a) = Len(b), \A k \in 1..Len(b) - 1 : a[k] = b[k] PROVE f = g
  <3>1. Len(f) = Len(g) /\ \A k \in 1..Len(f) : f[k] = g[k] BY <1>1, <2>1, <2>3
  <3>2. DOMAIN f = 1..Len(f) /\ DOMAIN g = 1..Len(g) /\ f = [k \in DOMAIN f |-> f[k]] /\ g = [k \in DOMAIN g |-> g[k]]
    BY <1>1, <2>1
  <3>3. DOMAIN f = DOMAIN g /\ \A k \in DOMAIN f : f[k] = g[k] BY <3>1, <3>2
  <3> QED BY <3>2, <3>3
 <2> QED BY <2>2, <2>3 DEF f, g
<1> QED BY <1>2, <1>3

LEMMA WrittenIs == ASSUME EntryTypes PROVE Written = WrittenBy(Len(script.frames))
<1> DEFINE d == Len(script.frames)
           h == Here
<1>1. h \in Seq(Int) /\ Len(h) = d + 2 /\ d \in Nat BY HereIs
<1> HIDE DEF d, h
<1>2. ASSUME NEW n \in DOMAIN log
      PROVE  Front(log[n].at) = Front(h) <=> Len(log[n].at) = d + 2 /\ \A k \in 1..d + 1 : log[n].at[k] = h[k]
 <2>1. log[n].at \in Seq(Int)
  <3>1. log \in Seq(LogEntry) BY DEF EntryTypes
  <3>2. log[n] \in LogEntry BY <3>1
  <3> QED BY <3>2 DEF LogEntry
 <2>2. Len(h) >= 2 /\ Len(h) - 1 = d + 1 BY <1>1
 <2> DEFINE a == log[n].at
 <2>3. a \in Seq(Int) BY <2>1
 <2> HIDE DEF a
 <2>4. Front(a) = Front(h) <=> Len(a) = Len(h) /\ \A k \in 1..Len(h) - 1 : a[k] = h[k]
   BY <1>1, <2>2, <2>3, FrontsAgree
 <2> QED BY <1>1, <2>2, <2>4 DEF a
<1>3. Written = {n \in DOMAIN log : log[n].op \in {"set", "draw"} /\ Front(log[n].at) = Front(h)}
  BY DEF Written, h
<1>4. WrittenBy(d) = {n \in DOMAIN log : /\ log[n].op \in {"set", "draw"} /\ Len(log[n].at) = d + 2
                                          /\ \A k \in 1..d + 1 : log[n].at[k] = h[k]}
  BY DEF WrittenBy, h
<1>5. Written = WrittenBy(d) BY <1>2, <1>3, <1>4
<1> QED BY <1>5 DEF d

\* The last entry of a set of them.
LEMMA LastArgIs ==
  ASSUME log \in Seq(LogEntry), NEW which, which \subseteq DOMAIN log, NEW v, NEW none,
         which = {} => v = none,
         \A n \in DOMAIN log : LastOf(which, n) => log[n].arg = v
  PROVE  v = LastArg(which, none)
<1>1. CASE which = {} BY <1>1 DEF LastArg
<1>2. CASE which # {}
 <2> DEFINE m == Len(log)
 <2>1. m \in Nat /\ which \subseteq 0..m OBVIOUS
 <2> HIDE DEF m
 <2>2. Max(which) \in which /\ \A k \in which : k <= Max(which) BY <1>2, <2>1, MaxOf
 <2>3. log[Max(which)].arg = v BY <2>2 DEF LastOf
 <2> QED BY <1>2, <2>3 DEF LastArg
<1> QED BY <1>1, <1>2
----
LEMMA InvariantFirst == ASSUME EntryInit PROVE EntryInv
<1>1. EntryTypes /\ AtWork BY CoreAtFirst DEF Core
<1>2. PendingInCode BY DEF EntryInit, NoScript, PendingInCode
<1> QED BY <1>1, <1>2, WorldFirst, DraftFirst, OrderFirst, OwnFirst, SharedFirst, ProgressFirst, CompletedFirst,
           OwnersFirst DEF EntryInv

LEMMA InvariantStep == ASSUME EntryInv, [EntryNext]_entryVars PROVE EntryInv'
<1>1. Core /\ PendingInCode /\ WorldLogged /\ DraftInOrder /\ SharedValues /\ Progress /\ Completed /\ Owners
  BY DEF EntryInv, Core
<1>2. Core' /\ PendingInCode' BY <1>1, CoreStep
<1>3. WorldLogged' /\ DraftInOrder' /\ SharedValues' BY <1>1, WorldStep, DraftStep, SharedStep
<1>4. Progress' /\ Completed' /\ Owners' BY <1>1, <1>2, ProgressStep, CompletedStep, OwnersStep
<1>5. ASSUME Loopless PROVE LogOrdered' /\ OwnValues'
 <2>1. LogOrdered /\ OwnValues BY <1>5 DEF EntryInv
 <2> QED BY <1>1, <1>2, <1>5, <2>1, OrderStep, OwnStep
<1> QED BY <1>2, <1>3, <1>4, <1>5 DEF EntryInv, Core, Loopless

LEMMA InvariantImplies == ASSUME EntryInv PROVE WorldIsItsLog
<1>1. /\ EntryTypes /\ AtWork /\ WorldLogged /\ SharedValues /\ Completed /\ Owners
      /\ log \in Seq(LogEntry)
  BY DEF EntryInv, EntryTypes
<1>2. LogInOrder
 <2>1. Loopless => \A n \in 1..Len(log) - 1 : Before(log[n].at, log[n + 1].at)
   BY DEF EntryInv, LogOrdered, Ordered
 <2>2. ASSUME NEW n \in DOMAIN log, log[n].op \in Spawns, log[n].at[1] < clock.pc, NEW p \in Needed(log[n].arg)
       PROVE  \E m \in DOMAIN log : log[m].at = << log[n].at[1], p >>
   BY <1>1, <2>2 DEF Completed, DoneAt, DoneIn
 <2>3. \A a, b \in DOMAIN actors : actors[a] # 0 /\ actors[a] = actors[b] => a = b BY <1>1 DEF Owners
 <2> QED BY <2>1, <2>2, <2>3 DEF LogInOrder
<1>3. WorldOf(log) = [rng |-> rng, births |-> births, board |-> board] BY <1>1 DEF WorldLogged
<1>4. ASSUME call = NoCall PROVE shared = LastArg(Shares, 0)
 <2>1. call.phase # "script" BY <1>4 DEF NoCall
 <2>2. SharedLast(log, shared) BY <1>1, <2>1 DEF SharedValues
 <2>3. Shares = SharesOf(log) /\ Shares \subseteq DOMAIN log BY DEF Shares, SharesOf
 <2>4. (Shares = {} => shared = 0) /\ \A n \in DOMAIN log : LastOf(Shares, n) => log[n].arg = shared
   BY <2>2, <2>3 DEF SharedLast
 <2> QED BY <1>1, <2>3, <2>4, LastArgIs
<1>5. ASSUME Loopless, spawn # 0 PROVE script.local = LastArg(Written, script.local)
 <2> DEFINE d == Len(script.frames)
 <2>1. d \in Nat /\ d \in 0..d BY <1>1, HereIs
 <2>2. OwnAt(d) BY <1>5, <2>1 DEF EntryInv, OwnValues
 <2>3. LocalOf(d) = script.local BY DEF LocalOf
 <2>4. Written = WrittenBy(d) BY <1>1, WrittenIs
 <2>5. Written \subseteq DOMAIN log BY DEF Written
 <2> HIDE DEF d
 <2>6. \A n \in DOMAIN log : LastOf(Written, n) => log[n].arg = script.local BY <2>2, <2>3, <2>4 DEF OwnAt
 <2> QED BY <1>1, <2>5, <2>6, LastArgIs
<1> QED BY <1>2, <1>3, <1>4, <1>5 DEF WorldIsItsLog

\* The invariant of the entry: who is at work and where (AtWork), what the
\* log so far makes of the world (WorldLogged), where everything logged
\* lies (LogOrdered), what each activation and the scripts together wrote
\* last (OwnValues, SharedValues), and what of a script is done already
\* (Progress, Completed): practice_entry.cpp, spawn.cpp, emitter.cpp.
THEOREM EntryInvariance == EntrySpec => []EntryInv
<1>1. EntryInit => EntryInv BY InvariantFirst
<1>2. EntryInv /\ [EntryNext]_entryVars => EntryInv' BY InvariantStep
<1> QED BY <1>1, <1>2, PTL DEF EntrySpec

\* For every stage timeline, every set of scripts, every number of actors,
\* event slots, effect slots and call frames, and whatever each call of
\* Entry::advance supplies: the world is the log replayed, the log is in
\* program order, nothing in it is there twice and no completed spawn left
\* anything out.
THEOREM WorldLoggedAlways == EntrySpec => []WorldIsItsLog
<1>1. EntryInv => WorldIsItsLog BY InvariantImplies
<1> QED BY <1>1, EntryInvariance, PTL
====
