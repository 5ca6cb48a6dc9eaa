---- MODULE PracticeEntry ----
(* The entry of a practice stage: the stage timeline is run up to a frame  *)
(* boundary (th08::timeline::advance); a spawn it orders takes an actor    *)
(* (practice::SpawnPool::begin) whose script is run at once                *)
(* (emitter::advance), handing every effect on the world to its owner      *)
(* (apply_effect), before the timeline's command is acknowledged.  A call  *)
(* of Entry::advance stops wherever the caller has not supplied something: *)
(* the RNG, the player, the effect inputs, an observation, enough          *)
(* instructions.  The caller calls again, and what was done must not be    *)
(* done twice nor lost.  A step is one instruction of either interpreter.  *)
EXTENDS Integers, Sequences, FiniteSets, SequencesExt, FiniteSetsExt

CONSTANTS
    Timelines,  \* stage timelines: sequences of records of op, time, pass, arg
    Subs,       \* the scripts: sequences of records of op, time, pass, ...
    ActorCount, \* enemy_capacity, 480 in the code
    EventCount, \* event slots on the timeline's board, 4 in the code
    PoolRoom,   \* free slots of the effect pool when the stage begins
    MaxCalls,   \* call frames of a script, 15 in the code
    Limits,     \* instruction limits callers pass
    MaxTime     \* bound: the timeline's clock

Command == [op : STRING, time : Int, pass : BOOLEAN, arg : Int]
Instruction == [op : STRING, time : Int, pass : BOOLEAN, arg : Int, draws : Nat, aimed : BOOLEAN]

(* A decoded timeline includes the negative-time sentinel, and a decoded   *)
(* jump leads to an instruction of its script.                             *)
ASSUME EntryAssumption ==
    /\ ActorCount \in Nat \ {0} /\ EventCount \in Nat \ {0}
    /\ PoolRoom \in Nat /\ MaxCalls \in Nat /\ MaxTime \in Nat
    /\ \A t \in Timelines : t \in Seq(Command) /\ t # << >> /\ t[Len(t)].time < 0
    /\ Subs \in Seq(Seq(Instruction))
    /\ \A sub \in DOMAIN Subs : \A p \in DOMAIN Subs[sub] :
          Subs[sub][p].op = "jump" => Subs[sub][p].arg \in DOMAIN Subs[sub]

VARIABLES
    timeline,   \* the program chosen; constant
    clock,      \* of the timeline: time, pc, whether an effect is pending
    board,      \* the events published and not consumed; 0 in a free slot
    draft,      \* the copy timeline::advance works on
    actors,     \* for each actor the timeline pc it was spawned for, or 0
    spawn,      \* the actor whose script is not done, or 0 (pending_)
    script,     \* its Execution and Workspace
    shared,     \* the call parameters all scripts share
    rng,        \* draws the shared RNG has served
    births,     \* effects born in the effect pool
    call,       \* the call of Entry::advance in progress
    log         \* history: what was committed, in order

entryVars == <<timeline, clock, board, draft, actors, spawn, script, shared, rng, births, call, log>>

NoDraft == [open |-> FALSE]
NoCall == [phase |-> "idle"]
NoScript == [sub |-> 0, pc |-> 0, frames |-> << >>, time |-> 0, local |-> 0, shared |-> 0,
             executed |-> 0, pending |-> FALSE, end |-> "no"]

EntryInit ==
    /\ timeline \in Timelines
    /\ clock = [time |-> 0, pc |-> 1, pending |-> FALSE]
    /\ board = [e \in 1..EventCount |-> 0]
    /\ draft = NoDraft
    /\ actors = [a \in 1..ActorCount |-> 0]
    /\ spawn = 0
    /\ script = NoScript
    /\ shared = 0
    /\ rng = 0 /\ births = 0
    /\ call = NoCall
    /\ log = << >>

Entry(at, op, drawn, born) == [at |-> at, op |-> op.op, arg |-> op.arg, drawn |-> drawn, born |-> born]

----
(* Entry::advance: what the caller supplies and what it can observe.       *)
Advance(given, observed, limit) ==
    /\ call = NoCall
    /\ clock.time < MaxTime
    /\ call' = [phase |-> "handoff", given |-> given, observed |-> observed, limit |-> limit,
                handoffs |-> 0]
    /\ UNCHANGED <<timeline, clock, board, draft, actors, spawn, script, shared, rng, births, log>>

Has(what) == what \in call.given
Sees(what) == call.observed[what]
Return == call' = NoCall

(* The loop head: the budget bounds the handoffs of one call, too. *)
Handoff ==
    /\ call.phase = "handoff"
    /\ IF call.handoffs = call.limit THEN Return /\ UNCHANGED draft
       ELSE IF spawn # 0 THEN call' = [call EXCEPT !.phase = "script"] /\ UNCHANGED draft
       ELSE /\ call' = [call EXCEPT !.phase = "timeline"]
            /\ draft' = [open |-> TRUE, time |-> clock.time, pc |-> clock.pc, board |-> board,
                         examined |-> 0, log |-> << >>]
    /\ UNCHANGED <<timeline, clock, board, actors, spawn, script, shared, rng, births, log>>

----
(* timeline::advance.  Every instruction works on the draft.  A "spawn" is *)
(* gated by what the GUI shows, a "summon" (opcode 15) is not.             *)
Spawns == {"spawn", "summon"}
InTimeline == call.phase = "timeline" /\ ~clock.pending
Order == timeline[draft.pc]
AtBoundary == Order.time < 0 \/ draft.time < Order.time
Due == draft.time = Order.time /\ Order.pass

(* The draft becomes the state; "extra" is what else was committed. *)
Commit(time, pc, pending, events, extra) ==
    /\ clock' = [time |-> time, pc |-> pc, pending |-> pending]
    /\ board' = events
    /\ log' = log \o draft.log \o extra
    /\ draft' = NoDraft

Frame ==
    /\ InTimeline /\ AtBoundary
    /\ Commit(draft.time + 1, draft.pc, FALSE, draft.board, << >>)
    /\ Return
    /\ UNCHANGED <<timeline, actors, spawn, script, shared, rng, births>>

Running == InTimeline /\ ~AtBoundary /\ draft.examined < call.limit

Forward(events, entries) ==
    /\ draft' = [draft EXCEPT !.pc = @ + 1, !.examined = @ + 1, !.board = events, !.log = @ \o entries]
    /\ UNCHANGED <<timeline, clock, board, actors, spawn, script, shared, rng, births, call, log>>

(* A wait takes the tick of this frame back: the clock stays, the frame    *)
(* ends.                                                                   *)
Stay ==
    /\ Commit(draft.time, draft.pc, FALSE, draft.board, << >>)
    /\ Return
    /\ UNCHANGED <<timeline, actors, spawn, script, shared, rng, births>>

(* A draft whose board is kept although the call is blocked. *)
AbandonKeepingBoard ==
    /\ board' = draft.board
    /\ draft' = NoDraft
    /\ Return
    /\ UNCHANGED <<timeline, clock, actors, spawn, script, shared, rng, births, log>>
Abandon ==
    /\ draft' = NoDraft
    /\ Return
    /\ UNCHANGED <<timeline, clock, board, actors, spawn, script, shared, rng, births, log>>

OutOfBudget == InTimeline /\ ~AtBoundary /\ draft.examined = call.limit /\ Abandon

PassOver == Running /\ ~Due /\ Forward(draft.board, << >>)

(* Spawns ask for the boss first; only without one for the suppression.    *)
Gates == IF Sees("boss") = "no" THEN {"boss", "suppressed"} ELSE {"boss"}
GateUnknown ==
    /\ Running /\ Due /\ Order.op = "spawn"
    /\ \E gate \in Gates : Sees(gate) = "unknown"
    /\ Abandon
GateClosed ==
    /\ Running /\ Due /\ Order.op = "spawn"
    /\ \A gate \in Gates : Sees(gate) # "unknown"
    /\ \E gate \in Gates : Sees(gate) = "yes"
    /\ Forward(draft.board, << >>)
GateOpen ==
    Order.op = "spawn" => \A gate \in {"boss", "suppressed"} : Sees(gate) = "no"

(* An effect on the world: committed as pending, and offered to Entry.     *)
Offer ==
    /\ Running /\ Due
    /\ Order.op \in Spawns \cup {"power"}
    /\ GateOpen
    /\ Commit(draft.time, draft.pc, TRUE, draft.board, << >>)
    /\ UNCHANGED <<timeline, actors, spawn, script, shared, rng, births, call>>

(* Waiting for a message box or a boss, or for an event to be published.   *)
Wait ==
    /\ Running /\ Due /\ Order.op = "wait"
    /\ CASE Sees("busy") = "unknown" -> Abandon
         [] Sees("busy") = "yes"     -> Stay
         [] Sees("busy") = "no"      -> Forward(draft.board, << >>)

Consume ==
    /\ Running /\ Due /\ Order.op = "consume"
    /\ IF Sees("events") = "unknown" THEN Abandon
       ELSE IF \A e \in DOMAIN board : draft.board[e] # Order.arg THEN Stay
       ELSE Forward([e \in DOMAIN board |-> IF draft.board[e] = Order.arg THEN 0 ELSE draft.board[e]],
                    <<Entry(<<draft.pc>>, Order, 0, 0)>>)

(* Published into every free slot, not into the first. *)
Publish ==
    /\ Running /\ Due /\ Order.op = "publish"
    /\ IF Sees("events") = "unknown" THEN Abandon
       ELSE Forward([e \in DOMAIN board |-> IF draft.board[e] = 0 THEN Order.arg ELSE draft.board[e]],
                    <<Entry(<<draft.pc>>, Order, 0, 0)>>)

TimelineNext ==
    \/ Frame \/ OutOfBudget \/ PassOver \/ GateUnknown \/ GateClosed \/ Offer
    \/ Wait \/ Consume \/ Publish

----
(* The pending effect: only spawns are handled; anything else is offered   *)
(* again in every later call.                                              *)
Pending == timeline[clock.pc]
Acknowledged == [clock EXCEPT !.pc = @ + 1, !.pending = FALSE]

Refuse ==
    /\ call.phase = "timeline" /\ clock.pending
    /\ Pending.op \notin Spawns \/ (Pending.arg \notin DOMAIN Subs /\ \E a \in DOMAIN actors : actors[a] = 0)
    /\ draft' = NoDraft
    /\ Return
    /\ UNCHANGED <<timeline, clock, board, actors, spawn, script, shared, rng, births, log>>

NextHandoff == call' = [call EXCEPT !.phase = "handoff", !.handoffs = @ + 1]

(* begin(): the first free actor; its script starts with the shared values *)
(* of this moment.                                                         *)
Begin ==
    /\ call.phase = "timeline" /\ clock.pending /\ Pending.op \in Spawns
    /\ Pending.arg \in DOMAIN Subs
    /\ \E a \in DOMAIN actors :
        /\ actors[a] = 0 /\ \A b \in 1..a - 1 : actors[b] # 0
        /\ actors' = [actors EXCEPT ![a] = clock.pc]
        /\ spawn' = a
    /\ script' = [NoScript EXCEPT !.sub = Pending.arg, !.pc = 1, !.shared = shared]
    /\ log' = Append(log, Entry(<<clock.pc>>, Pending, 0, 0))
    /\ draft' = NoDraft
    /\ NextHandoff
    /\ UNCHANGED <<timeline, clock, board, shared, rng, births>>

(* No actor free: the source's spawn fails, the command is done.           *)
PoolFull ==
    /\ call.phase = "timeline" /\ clock.pending /\ Pending.op \in Spawns
    /\ \A a \in DOMAIN actors : actors[a] # 0
    /\ clock' = Acknowledged
    /\ draft' = NoDraft
    /\ NextHandoff
    /\ UNCHANGED <<timeline, board, actors, spawn, script, shared, rng, births, log>>

----
(* emitter::advance on the pending actor's script.                         *)
InScript == call.phase = "script" /\ ~script.pending /\ script.end = "no"
Code == Subs[script.sub]
Here == <<clock.pc>> \o [k \in DOMAIN script.frames |-> script.frames[k].pc] \o <<script.pc>>
ScriptBoundary == script.pc \in DOMAIN Code /\ Code[script.pc].time # script.time
Op == Code[script.pc]
Executable == InScript /\ script.pc \in DOMAIN Code /\ ~ScriptBoundary /\ Op.pass
                       /\ script.executed < call.limit

Masked ==
    /\ InScript /\ script.pc \in DOMAIN Code /\ ~ScriptBoundary /\ ~Op.pass
    /\ script' = [script EXCEPT !.pc = @ + 1]
    /\ UNCHANGED <<timeline, clock, board, draft, actors, spawn, shared, rng, births, call, log>>

Executed(next) == [next EXCEPT !.executed = @ + 1]

(* A scalar instruction, with at most one random expression.               *)
Scalar ==
    /\ Executable
    /\ Op.op \in {"set", "draw", "share"}
    /\ Op.op = "draw" => Has("rng")
    /\ script' = Executed([script EXCEPT !.pc = @ + 1,
                              !.local = IF Op.op = "share" THEN @ ELSE Op.arg,
                              !.shared = IF Op.op = "share" THEN Op.arg ELSE @])
    /\ rng' = IF Op.op = "draw" THEN rng + 1 ELSE rng
    /\ log' = Append(log, Entry(Here, Op, IF Op.op = "draw" THEN 1 ELSE 0, 0))
    /\ UNCHANGED <<timeline, clock, board, draft, actors, spawn, shared, births, call>>

(* A call saves the context and hands the shared values over; the return   *)
(* restores the context, and the shared values survive.                    *)
CallSub ==
    /\ Executable /\ Op.op = "call" /\ Op.arg \in DOMAIN Subs /\ Len(script.frames) < MaxCalls
    /\ script' = Executed([script EXCEPT
                     !.frames = Append(@, [sub |-> script.sub, pc |-> script.pc,
                                           time |-> script.time, local |-> script.local]),
                     !.sub = Op.arg, !.pc = 1, !.time = 0, !.local = script.shared])
    /\ UNCHANGED <<timeline, clock, board, draft, actors, spawn, shared, rng, births, call, log>>
ReturnSub ==
    /\ Executable /\ Op.op = "return" /\ script.frames # << >>
    /\ LET frame == Last(script.frames)
       IN  script' = Executed([script EXCEPT !.frames = Front(@), !.sub = frame.sub,
                                  !.pc = frame.pc + 1, !.time = frame.time, !.local = frame.local])
    /\ UNCHANGED <<timeline, clock, board, draft, actors, spawn, shared, rng, births, call, log>>

(* A jump sets the script's clock as well. *)
Jump ==
    /\ Executable /\ Op.op = "jump"
    /\ script' = Executed([script EXCEPT !.pc = Op.arg, !.time = Code[Op.arg].time])
    /\ UNCHANGED <<timeline, clock, board, draft, actors, spawn, shared, rng, births, call, log>>

(* Whenever emitter::advance returns, the script's shared values become    *)
(* the pool's; also when it returns for good.                              *)
Publishing(next) == script' = next /\ shared' = next.shared

Yield ==
    /\ Executable /\ Op.op \in {"move", "field", "burst", "shot"}
    /\ Publishing(Executed([script EXCEPT !.pending = TRUE]))
    /\ UNCHANGED <<timeline, clock, board, draft, actors, spawn, rng, births, call, log>>

(* Opcode 1 ends the source's spawn; a return from the root is not         *)
(* supported; errors are final.  An instruction that fails gives its draws *)
(* back: a second random expression, or a random one without the RNG.      *)
EndOfScript ==
    IF script.pc \notin DOMAIN Code \/ script.executed >= call.limit THEN "error"
    ELSE CASE Op.op = "draw" /\ ~Has("rng")              -> "error"
           [] Op.op = "twice"                            -> "error"
           [] Op.op = "call" /\ (Op.arg \notin DOMAIN Subs \/ Len(script.frames) >= MaxCalls) -> "error"
           [] Op.op = "die"                              -> "died"
           [] Op.op = "return" /\ script.frames = << >>  -> "returned"
           [] OTHER                                      -> "no"
End ==
    /\ InScript /\ ~ScriptBoundary
    /\ script.pc \in DOMAIN Code => Op.pass
    /\ EndOfScript # "no"
    /\ Publishing([script EXCEPT !.end = EndOfScript])
    /\ UNCHANGED <<timeline, clock, board, draft, actors, spawn, rng, births, call, log>>

(* A finished script only returns its stored result: the call fails again. *)
Finished ==
    /\ call.phase = "script" /\ ~script.pending /\ script.end \in {"error", "returned"}
    /\ Return
    /\ UNCHANGED <<timeline, clock, board, draft, actors, spawn, script, shared, rng, births, log>>

----
(* SpawnPool::apply_effect: what the pending operation does to the world,  *)
(* or why it cannot be done now.  Operands are decoded on a copy of the    *)
(* RNG, which is kept only when the operation is.                          *)
Operands == Op.draws > 0 => Has("rng")
Full == births = PoolRoom
Born == IF Op.arg <= 0 THEN PoolRoom - births ELSE Min({Op.arg, PoolRoom - births})
Applicable ==
    /\ Op.op # "shot"
    /\ Operands
    /\ Op.op = "move" /\ Op.aimed => Has("player")
    /\ Op.op = "burst" /\ ~Full => Has("effects") /\ Has("rng")
Offered(op) == call.phase = "script" /\ script.pending /\ Op.op = op

Applied(born) ==
    /\ rng' = rng + Op.draws + born
    /\ births' = births + born
    /\ log' = Append(log, Entry(Here, Op, Op.draws + born, born))
    /\ script' = [script EXCEPT !.pending = FALSE, !.pc = @ + 1]
    /\ UNCHANGED <<timeline, clock, board, draft, actors, spawn, shared, call>>

ApplyMotion == Offered("move") /\ Applicable /\ Applied(0)
ApplyField == Offered("field") /\ Applicable /\ Applied(0)
ApplyBurst == Offered("burst") /\ Applicable /\ Applied(Born)

Blocked ==
    /\ call.phase = "script" /\ script.pending
    /\ ~Applicable
    /\ Return
    /\ UNCHANGED <<timeline, clock, board, draft, actors, spawn, script, shared, rng, births, log>>

(* The end of resume(): a frame boundary (the next instruction is of       *)
(* another time, or a pause was just executed) completes the spawn, opcode 1     *)
(* frees the actor again.  Both acknowledge the timeline's command, and    *)
(* the same handoff goes on with the timeline.                             *)
SpawnOver ==
    /\ clock' = Acknowledged
    /\ spawn' = 0
    /\ script' = NoScript
    /\ call' = [call EXCEPT !.phase = "timeline"]
    /\ draft' = [open |-> TRUE, time |-> clock.time, pc |-> clock.pc + 1, board |-> board,
                 examined |-> 0, log |-> << >>]
    /\ UNCHANGED <<timeline, board, rng, births, log>>
Spawned ==
    /\ InScript
    /\ ScriptBoundary \/ (Executable /\ Op.op = "pause")
    /\ shared' = script.shared
    /\ UNCHANGED actors
    /\ SpawnOver
Died ==
    /\ call.phase = "script" /\ script.end = "died"
    /\ actors' = [actors EXCEPT ![spawn] = 0]
    /\ SpawnOver
    /\ UNCHANGED shared

ScriptNext ==
    \/ Masked \/ Scalar \/ CallSub \/ ReturnSub \/ Jump \/ Yield \/ End \/ Finished
    \/ ApplyMotion \/ ApplyField \/ ApplyBurst \/ Blocked \/ Spawned \/ Died

EntryNext ==
    \/ \E given \in SUBSET {"rng", "player", "effects"}, limit \in Limits,
          observed \in [{"boss", "suppressed", "busy", "events"} -> {"unknown", "no", "yes"}] :
            Advance(given, observed, limit)
    \/ Handoff \/ TimelineNext \/ Refuse \/ Begin \/ PoolFull \/ ScriptNext

----
(* Program order: by timeline command, then along the calls of its script. *)
Before(a, b) ==
    \E k \in DOMAIN b :
        /\ \A j \in 1..k - 1 : j \in DOMAIN a /\ a[j] = b[j]
        /\ k \in DOMAIN a => a[k] < b[k]

Logged == {"set", "draw", "share", "move", "field", "burst"}
(* A sub that ends no frame and no spawn, and calls no other.              *)
Leaf(sub) == \A p \in DOMAIN Subs[sub] : Subs[sub][p].time = 0 /\ Subs[sub][p].op \notin {"die", "pause", "call"}
Stopper(op) ==
    ~op.pass \/ op.op \in {"die", "pause", "jump", "return"}
             \/ (op.op = "call" /\ (op.arg \notin DOMAIN Subs \/ ~Leaf(op.arg)))
(* The instructions of a script no spawn of it can have left out. *)
Needed(sub) ==
    {p \in DOMAIN Subs[sub] :
        /\ Subs[sub][p].op \in Logged
        /\ \A q \in 1..p : Subs[sub][q].time = 0 /\ ~Stopper(Subs[sub][q])}
(* Scripts may loop; without loops a place in a script is reached once.    *)
Loopless == \A sub \in DOMAIN Subs : \A p \in DOMAIN Subs[sub] : Subs[sub][p].op = "jump" => Subs[sub][p].arg > p

(* However often calls are blocked and repeated, and whatever each of them *)
(* supplies: what is committed is committed in program order, each command *)
(* and instruction at most once, none of a completed spawn left out, and   *)
(* no command owns two actors.                                             *)
LogInOrder ==
    /\ Loopless => \A i \in 1..Len(log) - 1 : Before(log[i].at, log[i + 1].at)
    /\ \A i \in DOMAIN log :
        log[i].op \in Spawns /\ log[i].at[1] < clock.pc =>
            \A p \in Needed(log[i].arg) : \E j \in DOMAIN log : log[j].at = <<log[i].at[1], p>>
    /\ \A a, b \in DOMAIN actors : actors[a] # 0 /\ actors[a] = actors[b] => a = b

(* The world a log makes of the first one, entry after entry.              *)
Replayed(events, e) ==
    CASE e.op = "publish" -> [k \in DOMAIN events |-> IF events[k] = 0 THEN e.arg ELSE events[k]]
      [] e.op = "consume" -> [k \in DOMAIN events |-> IF events[k] = e.arg THEN 0 ELSE events[k]]
      [] OTHER            -> events
FirstWorld == [rng |-> 0, births |-> 0, board |-> [e \in 1..EventCount |-> 0]]
AfterEntry(was, e) ==
    [rng |-> was.rng + e.drawn, births |-> was.births + e.born, board |-> Replayed(was.board, e)]
WorldOf(entries) ==
    LET world[n \in 0 .. Len(entries)] == IF n = 0 THEN FirstWorld ELSE AfterEntry(world[n - 1], entries[n])
    IN  world[Len(entries)]

Shares == {i \in DOMAIN log : log[i].op = "share"}
Written == {i \in DOMAIN log : log[i].op \in {"set", "draw"} /\ Front(log[i].at) = Front(Here)}
LastArg(which, none) == IF which = {} THEN none ELSE log[Max(which)].arg

(* Between two calls the world the caller holds is the log replayed: the   *)
(* RNG stands where the committed draws put it, the effects born are those *)
(* committed, the board shows the events committed and the shared call     *)
(* parameters the last value any script gave them, also one that failed    *)
(* later.  A context value is the one its own activation wrote last.       *)
WorldIsItsLog ==
    /\ LogInOrder
    /\ WorldOf(log) = [rng |-> rng, births |-> births, board |-> board]
    /\ call = NoCall => shared = LastArg(Shares, 0)
    /\ Loopless /\ spawn # 0 => script.local = LastArg(Written, script.local)
====
