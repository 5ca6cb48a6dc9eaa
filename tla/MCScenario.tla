---- MODULE MCScenario ----
(* Plans asked of their own, and runs through three scenarios, on a field  *)
(* of four columns and two rows; and animations, whose interpreter the     *)
(* scenarios do without.  part says which one a behaviour is about.        *)
EXTENDS Scenario, AnimationControl

VARIABLE part

Phase(end, pattern) == [end |-> end, pattern |-> pattern]
MCDefinitions ==
    { [phases |-> << Phase(3, "curtain"), Phase(6, "rings"), Phase(9, "lane_shift") >>, visual |-> 2],
      [phases |-> << Phase(3, "lane_shift"), Phase(6, "curtain"), Phase(9, "rings") >>, visual |-> 0],
      [phases |-> << Phase(4, "quiet"), Phase(7, "closing_gate"), Phase(9, "rings") >>, visual |-> 1] }
MCRuns ==
    { [strategy |-> s, horizon |-> 1, commit |-> 1, beam |-> 1, limit |-> 9, goal |-> <<3, 1>>, recover |-> FALSE]
        : s \in {"stationary", "greedy"} }
    \union
    { [strategy |-> "rolling_beam", horizon |-> 4, commit |-> c, beam |-> b, limit |-> l, goal |-> g, recover |-> r]
        : c \in {1, 3}, b \in {1, 2, 8}, l \in {60, 99, 144}, g \in {<<1, 2>>, <<4, 1>>}, r \in BOOLEAN }

(* Frames of every kind a plan can meet: open, walls with one door, closed. *)
Walls == {{}, Positions} \union {Positions \ {p} : p \in Positions}
         \union {{p \in Positions : p[1] # x} : x \in 1 .. Columns}
Asked(frames, beam, limit, terminal) ==
    [supported |-> TRUE, epoch |-> 3, expected |-> 3, frames |-> frames, start |-> <<2, 2>>, goal |-> <<4, 1>>,
     terminal |-> terminal, beam |-> beam, limit |-> limit]
MCRequests ==
    {Asked(f, b, l, t) : f \in [1 .. 3 -> {{}} \union {Positions \ {<<x, 1>>} : x \in 1 .. Columns}]
                              \union [1 .. 2 -> Walls],
                        b \in {1, 8}, l \in {9, 17, 400}, t \in {Positions, {<<4, 1>>}}}
    \union {[Asked(<< {}, {} >>, 1, 400, Positions) EXCEPT !.supported = s, !.epoch = e, !.start = p]
               : s \in BOOLEAN, e \in {2, 3}, p \in {<<0, 1>>, <<1, 1>>}}

(* Scripts of up to eight instructions: straight ones with and without a   *)
(* certificate, loops, labels and fallbacks, waits, draws, instructions    *)
(* refused in the middle of a frame, and texts that do not load.  Integers *)
(* are -4 .. 3, floats within 7, budgets of nothing, one and six.          *)
Ins(op, time, words) == [op |-> op, time |-> time, masked |-> FALSE, float |-> FALSE, f |-> "", words |-> words]
On(op, time, f, words) == [Ins(op, time, words) EXCEPT !.masked = TRUE, !.f = f]
OnFloat(op, time, f, words) == [On(op, time, f, words) EXCEPT !.float = TRUE]
EndAt(time) == Ins("end", time, << >>)

MCScripts == {
    << Ins("sprite", 0, << 5 >>), Ins("visual", 1, << 0 >>), EndAt(3) >>,
    << Ins("visual", 0, << 0 >>), Ins("keep", 2, << >>), EndAt(2) >>,
    << Ins("sprite", 0, << 5 >>), Ins("hide", 0, << >>), EndAt(0) >>,
    << Ins("sprite", 0, << 2 >>), Ins("visual", 2, << 0 >>), Ins("keep", 1, << >>), EndAt(0) >>,
    << Ins("sprite", 0, << 9 >>), Ins("keep", 2, << >>), EndAt(2) >>,
    << Ins("sprite", 0, << 1 >>), Ins("sprite", 1, << 2 >>), Ins("wait", 1, << 2 >>), Ins("hide", 2, << >>), EndAt(2) >>,
    << On("assign", 0, "", << IntVar, 2 >>), Ins("pose", 0, << 0 >>), On("loop", 1, "", << IntVar, 2, 0 >>),
       Ins("stop", 1, << >>), Ins("label", 1, << 1 >>), Ins("show", 1, << 0 >>), Ins("return", 2, << >>), EndAt(2) >>,
    << Ins("stopHidden", 0, << >>), Ins("label", 1, << -1 >>), Ins("hit", 1, << 3 >>), Ins("label", 2, << -1 >>),
       Ins("keep", 3, << >>), EndAt(3) >>,
    << On("draw", 0, "", << IntVar, 3 >>), OnFloat("draw", 0, "", << FloatVar, 0 >>),
       On("branch", 1, "equal", << IntVar, 0, 4, 0 >>), Ins("jump", 1, << 1, 1 >>), EndAt(1) >>,
    << On("draw", 0, "", << CounterVar, 2 >>), OnFloat("assign", 1, "", << FloatVar, Nan >>), EndAt(1) >>,
    << OnFloat("draw", 0, "", << FloatVar, 4 >>), On("compute", 1, "divide", << IntVar, 3, FloatVar >>),
       On("update", 1, "subtract", << IntVar, 3 >>), On("update", 2, "modulo", << IntVar, 0 >>), EndAt(2) >>,
    << On("assign", 0, "", << IntVar, -4 >>), On("update", 1, "divide", << IntVar, -1 >>), EndAt(1) >>,
    << OnFloat("compute", 0, "multiply", << FloatVar, 3, 2 >>), On("sprite", 0, "", << FloatVar >>), EndAt(0) >>,
    << OnFloat("math", 0, "sin", << FloatVar, 1 >>), OnFloat("math", 0, "acos", << FloatVar, 3 >>), EndAt(0) >>,
    << Ins("wait", 0, << -1 >>), Ins("wait", 0, << 1 >>), On("keep", 2, "", << >>), EndAt(3) >>,
    << Ins("jump", 0, << 1, 0 >>), EndAt(0) >>,
    << Ins("jump", 0, << 3, 2 >>), Ins("unknown", 0, << >>), Ins("hide", 1, << >>), EndAt(3) >>,
    << Ins("draw", 0, << IntVar, 3 >>), EndAt(0) >>, << Ins("unknown", 1, << >>), EndAt(1) >>,
    << Ins("jump", 0, << 5, 0 >>), EndAt(0) >>, << Ins("visual", 0, << 0 >>) >>,
    << Ins("return", 1, << >>), EndAt(1) >>, << Ins("show", 0, << >>), EndAt(0) >>}
(* A label with a handler, one without, and the fallback by its own name. *)
MCLabels == {1, 2, -1}

OneOf(set) == CHOOSE e \in set : TRUE

NoPlan == request = OneOf(Requests) /\ result = Unanswered
NoRun == ScenarioFrom(OneOf(Definitions), OneOf(Seeds), 0, OneOf(Runs))
NoAnimation ==
    /\ script = OneOf(Scripts) /\ vm = Born /\ call = NoCall /\ drawn = 0 /\ verdict = "none"
    /\ calls = 0 /\ kept = 0 /\ pure = TRUE /\ promised = 0

Init ==
    \/ part = "plan" /\ BeamInit /\ NoRun /\ NoAnimation
    \/ part = "run" /\ ScenarioInit /\ NoPlan /\ NoAnimation
    \/ part = "animation" /\ AnimationInit /\ NoPlan /\ NoRun

Next ==
    \/ part = "plan" /\ Answer /\ UNCHANGED <<scenarioVars, animationVars, part>>
    \/ part = "run" /\ ScenarioNext /\ UNCHANGED <<planVars, animationVars, part>>
    \/ part = "animation" /\ AnimationNext /\ UNCHANGED <<planVars, scenarioVars, part>>

Spec == Init /\ [][Next]_<<scenarioVars, planVars, animationVars, part>>
====
