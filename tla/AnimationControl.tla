---- MODULE AnimationControl ----
(* The interpreter of an animation script (animation::control::advance),   *)
(* one step per instruction, beside the two forecasts made of a script: the *)
(* certificate of its whole text (certify_timing) and the count of the     *)
(* calls left once its cursor is at its end (remaining_terminal_calls).    *)
(* A call works on a draft of the state and commits it at its end.         *)
EXTENDS Integers, Sequences, FiniteSets

CONSTANTS
    Scripts,    \* texts an archive may hold, those that do not load included
    Labels,     \* interrupts a caller may raise
    IntMax,     \* width: integers are -IntMax - 1 .. IntMax, 32 bits in the code
    FloatMax,   \* floats are finite up to here
    MaxSprite,  \* 32767 in the code
    Budgets,    \* instruction limits of a call
    MaxCalls    \* bound: calls that are not refused

ASSUME AnimationAssumption ==
    /\ IntMax \in Nat /\ FloatMax \in Nat /\ IntMax < FloatMax /\ MaxSprite \in Nat
    /\ Budgets \subseteq Nat /\ MaxCalls \in Nat /\ Labels \subseteq Int \ {0}
    /\ \A text \in Scripts : /\ Len(text) \in Nat /\ DOMAIN text = 1 .. Len(text)
                            /\ \A i \in DOMAIN text : text[i].time \in Int /\ text[i].words \in Seq(Int)

IntVar == 90      \* selectors of the three kinds of variable
FloatVar == 91
CounterVar == 92
Nan == 99         \* a word whose bits are no finite float
Unit == 2         \* a clock counts half frames: rates are one or a half
None == 0         \* no such instruction

VARIABLES
    script,     \* the program
    vm,         \* the committed state
    call,       \* the call in progress, and its draft
    drawn,      \* draws the caller's RNG has made
    verdict,    \* status of the last call
    calls,      \* history: calls that advanced or completed
    kept,       \* history: drawn after the last of them
    pure,       \* history: every call so far had unit rate, no interrupt, no freeze
    promised    \* history: calls the cursor promised to be left, 0 if it promised none

animationVars == <<script, vm, call, drawn, verdict, calls, kept, pure, promised>>

NoCall == [step |-> "none"]
Whole(clock) == clock \div Unit
At(frame) == frame * Unit
Born == [pc |-> 1, returnPc |-> 1, time |-> 0, wait |-> 0, returnTime |-> 0, sprite |-> -1, pending |-> 0,
         active |-> TRUE, visible |-> FALSE, stopped |-> FALSE, frozen |-> FALSE, hasReturn |-> FALSE, hit |-> 0,
         vars |-> [v \in {IntVar, FloatVar, CounterVar} |-> 0]]

(* The text's end is its sentinel, and jumps land on instructions. *)
JumpWord == [jump |-> 1, loop |-> 2, branch |-> 3]
Target(ins) == ins.words[JumpWord[ins.op]]
Loads(text) ==
    /\ Len(text) > 0 /\ text[Len(text)].op = "end"
    /\ \A i \in DOMAIN text : text[i].op \in DOMAIN JumpWord => Target(text[i]) \in DOMAIN text

Least(s) == CHOOSE i \in s : \A j \in s : i <= j
Most(s) == CHOOSE i \in s : \A j \in s : i >= j
LabelsOf(text, value) == {i \in DOMAIN text : text[i].op = "label" /\ text[i].words = << value >>}
(* The first label of that value; the last of the value -1 if there is none. *)
HandlerOf(text, value) ==
    IF LabelsOf(text, value) # {} THEN Least(LabelsOf(text, value)) + 1
    ELSE IF LabelsOf(text, -1) # {} THEN Most(LabelsOf(text, -1)) + 1 ELSE None

----
(* Operands.  A masked word that selects a variable stands for its value.  *)
Selects(ins, k) == ins.masked /\ ins.words[k] \in DOMAIN vm.vars
Read(state, ins, k) == IF Selects(ins, k) THEN state.vars[ins.words[k]] ELSE ins.words[k]
IsInt(n) == -IntMax - 1 <= n /\ n <= IntMax
IsFinite(n) == -FloatMax <= n /\ n <= FloatMax
Readable(state, ins, k) ==
    IF ins.float THEN ins.words[k] # Nan
    ELSE (Selects(ins, k) /\ ins.words[k] = FloatVar) => IsInt(state.vars[FloatVar])
Writable(ins) ==
    Selects(ins, 1) /\ (ins.words[1] = FloatVar) = ins.float
Fits(ins, n) == IF ins.float THEN IsFinite(n) ELSE IsInt(n)

Sign(n) == IF n < 0 THEN -1 ELSE 1
Quotient(n, d) == Sign(n) * Sign(d) * ((n * Sign(n)) \div (d * Sign(d)))
Operated(f, l, r) ==
    CASE f = "add" -> l + r
      [] f = "subtract" -> l - r
      [] f = "multiply" -> l * r
      [] f = "divide" -> Quotient(l, r)
      [] f = "modulo" -> l - r * Quotient(l, r)
Operable(ins, l, r) ==
    /\ ins.f \in {"divide", "modulo"} => r # 0 /\ (ins.float \/ ~(l = -IntMax - 1 /\ r = -1))
    /\ Fits(ins, Operated(ins.f, l, r))
Holds(f, l, r) ==
    CASE f = "equal" -> l = r
      [] f = "differs" -> l # r
      [] f = "less" -> l < r
      [] f = "most" -> l <= r

(* What an instruction computes from, and the place of its right operand.  *)
RightOf == [update |-> 2, compute |-> 3]
LeftValue(state, ins) == IF ins.op = "update" THEN state.vars[ins.words[1]] ELSE Read(state, ins, 2)
RightValue(state, ins) == Read(state, ins, RightOf[ins.op])

Arity == [hide |-> 0, keep |-> 0, sprite |-> 1, jump |-> 2, loop |-> 3, stop |-> 0, stopHidden |-> 0, label |-> 1,
          show |-> 1, wait |-> 1, hit |-> 1, return |-> 0, assign |-> 2, update |-> 2, compute |-> 3, draw |-> 2,
          math |-> 2, branch |-> 4, visual |-> 1, pose |-> 1]

(* The first requirement an instruction does not meet, in the code's order. *)
Refusal(state, ins, rng) ==
    IF ins.op = "end" THEN "none"
    ELSE IF ins.op \notin DOMAIN Arity THEN "unsupported"
    ELSE IF Len(ins.words) # Arity[ins.op] THEN "invalid"
    ELSE CASE ins.op = "sprite" ->
                IF ~Readable(state, ins, 1) THEN "invalid"
                ELSE IF Read(state, ins, 1) \notin 0 .. MaxSprite THEN "unsupported" ELSE "none"
           [] ins.op = "loop" ->
                IF ~Writable(ins) THEN "unsupported"
                ELSE IF ~IsInt(Read(state, ins, 1) - 1) THEN "invalid" ELSE "none"
           [] ins.op = "wait" ->
                IF state.wait \div Unit # 0 \/ Readable(state, ins, 1) THEN "none" ELSE "invalid"
           [] ins.op = "return" -> IF state.hasReturn THEN "none" ELSE "invalid"
           [] ins.op = "assign" ->
                IF ~Writable(ins) THEN "unsupported" ELSE IF ~Readable(state, ins, 2) THEN "invalid" ELSE "none"
           [] ins.op \in {"update", "compute"} ->
                IF ~Writable(ins) THEN "unsupported"
                ELSE IF (ins.op = "compute" /\ ~Readable(state, ins, 2)) \/ ~Readable(state, ins, RightOf[ins.op])
                        \/ ~Operable(ins, LeftValue(state, ins), RightValue(state, ins)) THEN "invalid" ELSE "none"
           [] ins.op = "draw" ->
                IF ~Writable(ins) THEN "unsupported"
                ELSE IF ~Readable(state, ins, 2) THEN "invalid"
                ELSE IF ~rng THEN "requires_context" ELSE "none"
           [] ins.op = "math" ->
                IF ~Writable(ins) THEN "unsupported"
                ELSE IF ~Readable(state, ins, 2) \/ (ins.f = "acos" /\ Read(state, ins, 2) \notin -1 .. 1)
                     THEN "invalid" ELSE "none"
           [] ins.op = "branch" -> IF Readable(state, ins, 1) /\ Readable(state, ins, 2) THEN "none" ELSE "invalid"
           [] ins.op \in {"visual", "pose"} -> IF Readable(state, ins, 1) THEN "none" ELSE "invalid"
           [] OTHER -> "none"

----
(* A clock turned back by one update, so that the tick at the update's end *)
(* leaves it where it was; an extra step first drops the fraction.         *)
Decremented(clock, rate, extra) == (IF extra THEN At(Whole(clock) - 1) ELSE clock) - rate

(* The two forecasts.  A certificate reads the text up to its first        *)
(* terminal instruction, through visual ones and one sprite at time zero.  *)
OwnTime(text, i) == text[i].time
LastTime(text, i) == Most({0} \union {text[j].time : j \in 1 .. i})
Terminal(ins) == ins.op \in {"end", "hide", "keep"}
Passed(text, i) ==
    /\ ~text[i].masked /\ text[i].op \in {"sprite", "visual"} /\ Len(text[i].words) = 1
    /\ text[i].op = "sprite" => /\ LastTime(text, i) = 0 /\ text[i].words[1] >= 0
                                /\ \A j \in 1 .. i - 1 : text[j].op # "sprite"
StopsAt(text) == Least({i \in DOMAIN text : ~Passed(text, i)})
Certified(text) ==
    LET last == text[StopsAt(text)]
    IN  Terminal(last) /\ ~last.masked /\ (last.op # "end" => last.words = << >>)
SpritesOf(text) == {text[i].words[1] : i \in {j \in 1 .. StopsAt(text) - 1 : text[j].op = "sprite"}}
Timing(text) ==
    LET time == LastTime(text, StopsAt(text))
    IN  [completion |-> time, hides |-> text[StopsAt(text)].op # "keep",
         sprite |-> Most({-1} \union SpritesOf(text)), callsAfterTemplate |-> Most({time, 1})]

(* Zero says nothing: the cursor is not at an end, or something holds it.  *)
RemainingCalls(text, state) ==
    LET ins == text[state.pc]
    IN  IF ~state.active THEN 1
        ELSE IF state.frozen \/ state.stopped \/ state.pending # 0 \/ state.time < 0 \/ state.time % Unit # 0
                \/ ~Terminal(ins) \/ ins.masked \/ ins.words # << >> THEN 0
        ELSE Most({1, ins.time - Whole(state.time) + 1})

----
AnimationInit ==
    /\ script \in {s \in Scripts : Loads(s)}
    /\ vm = Born /\ call = NoCall /\ drawn = 0 /\ verdict = "none"
    /\ calls = 0 /\ kept = 0 /\ pure = TRUE /\ promised = 0

(* What the caller does between two calls. *)
RaiseInterrupt(value) ==
    /\ call = NoCall /\ vm.pending = 0
    /\ vm' = [vm EXCEPT !.pending = value]
    /\ pure' = FALSE /\ promised' = 0
    /\ UNCHANGED <<script, call, drawn, verdict, calls, kept>>
ToggleFreeze ==
    /\ call = NoCall
    /\ vm' = [vm EXCEPT !.frozen = ~@]
    /\ pure' = FALSE /\ promised' = 0
    /\ UNCHANGED <<script, call, drawn, verdict, calls, kept>>

(* A call ends with its draft, and with the draws it made ... *)
Undisturbed(rate) == rate = Unit /\ vm.pending = 0 /\ ~vm.frozen
Answered(status, state, rate) ==
    /\ vm' = state /\ verdict' = status /\ call' = NoCall
    /\ calls' = calls + 1 /\ kept' = drawn
    /\ pure' = (pure /\ Undisturbed(rate))
    /\ promised' = IF Undisturbed(rate) /\ promised > 1 THEN promised - 1 ELSE RemainingCalls(script, state)
    /\ UNCHANGED <<script, drawn>>
(* ... or it is refused: the state it was given stays, and the RNG is put back. *)
Refused(status, entry) ==
    /\ drawn' = entry
    /\ verdict' = status /\ call' = NoCall
    /\ UNCHANGED <<script, vm, calls, kept, pure, promised>>

(* The null instruction is looked at before the freeze, and both before    *)
(* the arguments.                                                          *)
CallOnNull(rate) ==
    /\ call = NoCall /\ calls < MaxCalls /\ ~vm.active
    /\ Answered("completed", vm, rate)
CallOnFrozen(rate) ==
    /\ call = NoCall /\ calls < MaxCalls /\ vm.active /\ vm.frozen
    /\ Answered("advanced", vm, rate)
Callable == call = NoCall /\ calls < MaxCalls /\ vm.active /\ ~vm.frozen
CallWithoutBudget ==
    /\ Callable
    /\ Refused("invalid", drawn)
CallAdvance(rate, extra, limit, rng) ==
    /\ Callable /\ limit > 0
    /\ call' = [step |-> IF vm.pending # 0 THEN "interrupted" ELSE "running", rate |-> rate, extra |-> extra,
                limit |-> limit, rng |-> rng, executed |-> 0, entry |-> drawn, next |-> vm]
    /\ UNCHANGED <<script, vm, drawn, verdict, calls, kept, pure, promised>>

Going(step, state) ==
    /\ call' = [call EXCEPT !.step = step, !.executed = @ + 1, !.next = state]
    /\ UNCHANGED <<script, vm, verdict, calls, kept, pure, promised>>
StandStill(state) == [state EXCEPT !.time = Decremented(@, call.rate, call.extra)]

(* An interrupt wakes the script; without a handler it does nothing else.  *)
Dispatch ==
    /\ call.step = "interrupted"
    /\ LET handler == HandlerOf(script, call.next.pending)
           woken == [call.next EXCEPT !.pending = 0, !.stopped = FALSE]
       IN  IF handler = None THEN Going("tail", StandStill(woken))
           ELSE Going("running", [woken EXCEPT !.returnTime = woken.time, !.returnPc = woken.pc, !.hasReturn = TRUE,
                                               !.pc = handler, !.time = At(script[handler].time), !.visible = TRUE])
    /\ UNCHANGED drawn

----
(* The instruction at the cursor, once its time has come. *)
Cursor == script[call.next.pc]
InstructionDue == call.step = "running" /\ Cursor.time <= Whole(call.next.time)
NotDue ==
    /\ call.step = "running" /\ Cursor.time > Whole(call.next.time)
    /\ call' = [call EXCEPT !.step = "tail"]
    /\ UNCHANGED <<script, vm, drawn, verdict, calls, kept, pure, promised>>
OutOfBudget ==
    /\ InstructionDue /\ call.executed = call.limit
    /\ Refused("instruction_limit", call.entry)
InstructionRefused ==
    /\ InstructionDue /\ call.executed < call.limit
    /\ Refusal(call.next, Cursor, call.rng) # "none"
    /\ Refused(Refusal(call.next, Cursor, call.rng), call.entry)
Executes(ops) ==
    /\ InstructionDue /\ call.executed < call.limit
    /\ Cursor.op \in ops
    /\ Refusal(call.next, Cursor, call.rng) = "none"

NextPc(state) == [state EXCEPT !.pc = @ + 1]
Jumped(state, to, frame) == [state EXCEPT !.pc = to, !.time = At(frame)]
Written(state, value) == NextPc([state EXCEPT !.vars[Cursor.words[1]] = value])

EndScript ==
    /\ Executes({"end", "hide", "keep"})
    /\ Answered("completed", [call.next EXCEPT !.active = FALSE, !.visible = @ /\ Cursor.op = "keep"], call.rate)
SetSprite ==
    /\ Executes({"sprite"})
    /\ Going("running", NextPc([call.next EXCEPT !.sprite = Read(call.next, Cursor, 1), !.visible = TRUE]))
    /\ UNCHANGED drawn
Jump ==
    /\ Executes({"jump"})
    /\ Going("running", Jumped(call.next, Target(Cursor), Cursor.words[2]))
    /\ UNCHANGED drawn
Loop ==
    /\ Executes({"loop"})
    /\ LET left == Read(call.next, Cursor, 1) - 1
           counted == [call.next EXCEPT !.vars[Cursor.words[1]] = left]
       IN  Going("running", IF left > 0 THEN Jumped(counted, Target(Cursor), Cursor.words[3]) ELSE NextPc(counted))
    /\ UNCHANGED drawn
StopScript ==
    /\ Executes({"stop", "stopHidden"})
    /\ Going("tail", StandStill([call.next EXCEPT !.stopped = TRUE, !.visible = @ /\ Cursor.op = "stop"]))
    /\ UNCHANGED drawn
Mark ==
    /\ Executes({"label", "show", "hit", "visual", "pose"})
    /\ Going("running", NextPc(CASE Cursor.op = "show" -> [call.next EXCEPT !.visible = Cursor.words[1] % 2 = 1]
                                 [] Cursor.op = "hit" -> [call.next EXCEPT !.hit = Cursor.words[1]]
                                 [] OTHER -> call.next))
    /\ UNCHANGED drawn
Wait ==
    /\ Executes({"wait"})
    /\ LET left == IF Whole(call.next.wait) = 0 THEN At(Read(call.next, Cursor, 1))
                   ELSE Decremented(call.next.wait, call.rate, call.extra)
       IN  IF Whole(left) <= 0 THEN Going("running", NextPc([call.next EXCEPT !.wait = 0]))
           ELSE Going("tail", StandStill([call.next EXCEPT !.wait = left]))
    /\ UNCHANGED drawn
Return ==
    /\ Executes({"return"})
    /\ Going("running", [call.next EXCEPT !.time = call.next.returnTime, !.pc = call.next.returnPc])
    /\ UNCHANGED drawn
Compute ==
    /\ Executes({"assign", "update", "compute", "math"})
    /\ Going("running", Written(call.next,
            CASE Cursor.op = "assign" -> Read(call.next, Cursor, 2)
              [] Cursor.op = "math" -> (Read(call.next, Cursor, 2) % 3) - 1
              [] OTHER -> Operated(Cursor.f, LeftValue(call.next, Cursor), RightValue(call.next, Cursor))))
    /\ UNCHANGED drawn
(* An empty range draws nothing for an integer, but does for a float. *)
DrawNumber ==
    /\ Executes({"draw"})
    /\ LET range == Read(call.next, Cursor, 2)
       IN  /\ Going("running", Written(call.next, IF range = 0 THEN 0 ELSE (2 * drawn + 1) % range))
           /\ drawn' = IF range = 0 /\ ~Cursor.float THEN drawn ELSE drawn + 1
Branch ==
    /\ Executes({"branch"})
    /\ Going("running", IF Holds(Cursor.f, Read(call.next, Cursor, 1), Read(call.next, Cursor, 2))
                        THEN Jumped(call.next, Target(Cursor), Cursor.words[4]) ELSE NextPc(call.next))
    /\ UNCHANGED drawn
FrameTail ==
    /\ call.step = "tail"
    /\ Answered("advanced", [call.next EXCEPT !.time = @ + call.rate], call.rate)

AnimationNext ==
    \/ \E value \in Labels : RaiseInterrupt(value)
    \/ ToggleFreeze
    \/ \E rate \in {Unit, Unit \div 2} : CallOnNull(rate) \/ CallOnFrozen(rate)
    \/ CallWithoutBudget
    \/ \E rate \in {Unit, Unit \div 2}, extra \in BOOLEAN, limit \in Budgets, rng \in BOOLEAN :
            CallAdvance(rate, extra, limit, rng)
    \/ Dispatch \/ NotDue \/ OutOfBudget \/ InstructionRefused
    \/ EndScript \/ SetSprite \/ Jump \/ Loop \/ StopScript \/ Mark \/ Wait \/ Return \/ Compute \/ DrawNumber \/ Branch
    \/ FrameTail

----
(* A certified script that is called once an update completes on exactly   *)
(* the call its certificate names, with the sprite and visibility it names. *)
CertificateKept ==
    (calls > 0 /\ pure /\ Certified(script)) =>
        LET timing == Timing(script)
        IN  /\ vm.active <=> calls <= timing.completion
            /\ calls > 1 /\ verdict \in {"advanced", "completed"} =>
                   (verdict = "completed" <=> calls - 1 >= timing.callsAfterTemplate)
            /\ ~vm.active => vm.sprite = timing.sprite /\ vm.visible = (~timing.hides /\ vm.sprite # -1)

(* The calls counted at the cursor are the calls that are left: no forecast *)
(* made later contradicts an earlier one, and the last one completes.      *)
CursorKept ==
    promised > 0 => /\ promised = RemainingCalls(script, vm)
                    /\ promised > 1 => vm.active

----
(* What is foreseen of an animation is what its interpreter does, whatever *)
(* calls are refused on the way: the certificate of its text holds on every *)
(* undisturbed call, and a count of calls made at a terminal instruction   *)
(* runs down to the call that completes.                                   *)
HonestTiming ==
    /\ CertificateKept' /\ CursorKept'
    /\ (promised > 0 /\ calls' > calls /\ Undisturbed(IF call = NoCall THEN Unit ELSE call.rate)) =>
           (verdict' = "completed" <=> promised = 1)

(* A call that is refused, at its budget or in the middle of its frame,    *)
(* leaves no draw in the shared RNG, and none executes more than its budget. *)
RefusedWithoutTrace ==
    /\ call = NoCall => drawn = kept
    /\ call # NoCall => call.executed <= call.limit

(* Without an interrupt a stopped script stays at the instruction that     *)
(* stopped it, and its clock stands still there at any rate.  An extra step *)
(* winds the clock back before that instruction; it then runs up to it.    *)
StoppedScriptStands ==
    (call # NoCall /\ call' = NoCall /\ vm.stopped /\ vm.pending = 0) =>
        /\ vm'.stopped /\ vm'.pc = vm.pc
        /\ (~call.extra /\ Whole(vm.time) >= script[vm.pc].time) => vm'.time = vm.time

(* Together: an animation can be counted on, by those who foresee it, by   *)
(* those who share its RNG, and by those who stopped it.                   *)
HonestAnimation == [][HonestTiming /\ RefusedWithoutTrace' /\ StoppedScriptStands]_animationVars
====
