---- MODULE AttackPacing ----
(* When the online policy stops shooting at a boss to farm instead         *)
(* (update_attack_pacing and update_flow_goal, online.cpp).  It measures   *)
(* the damage it does, samples what holding fire earns, and keeps farming  *)
(* only while that pays and enough time is left to capture the spell.      *)
(* Observations come from the game; durations are parameters.              *)
EXTENDS Integers, Sequences, FiniteSets, FiniteSetsExt

CONSTANTS
    Window,       \* updates of damage remembered
    Settled,      \* updates of damage needed before it is used
    Reserve,      \* updates kept in reserve for the capture
    Ahead,        \* updates beyond the reserve needed to begin a sample
    SampleLimit,  \* updates a sample may take
    IncomeWindow, \* updates over which income is measured
    GoalAge,      \* updates a goal of the flow is kept
    FullHp, FullTime, \* a spell's hit points and updates
    Shot,         \* hit points an update of fire may take
    Signs,        \* what else an observation may show together
    Pacings,      \* [timeout, charge]: the two options of the pacing
    MaxObserved   \* bounds the observations

ASSUME AttackPacingAssumption ==
    /\ {Window, Settled, SampleLimit, IncomeWindow, GoalAge, FullHp, FullTime} \subseteq Nat \ {0}
    /\ {Reserve, Ahead, Shot, MaxObserved} \subseteq Nat /\ Settled <= Window

VARIABLES
    pacing, \* the options
    seen,   \* the last observation
    attack, \* what the pacing keeps
    flow    \* the goal kept: [due, spell, rich]

pacingVars == <<pacing, seen, attack, flow>>

(* An observation: update; spell, 0 for none; open, whether forms can be   *)
(* switched and a boss is there; exposed, whether it can be damaged; hp;   *)
(* time left; reduced, whether a reduction still runs; extreme; orbs;      *)
(* dense, slow bullets near; rich, contacts at the best place of the flow. *)
Unpaced == [phase |-> "probe", spell |-> -1, initial |-> 0, hp |-> 0, samples |-> 0, recent |-> [i \in 0 .. Window - 1 |-> 0],
            sampled |-> 0, income |-> 0, orbs |-> 0, farming |-> FALSE, charging |-> FALSE]

Damage(a) == LET sum[i \in 0 .. Window] == IF i = 0 THEN 0 ELSE sum[i - 1] + a.recent[i - 1] IN sum[Window]
Measured(a) == Min({a.samples, Window})

(* Whether the time left is more than the reserve and some updates, the    *)
(* reserve being what the capture needs at the damage measured.            *)
Beyond(a, o, more) == o.time * Damage(a) > o.hp * Measured(a) + (Reserve + more) * Damage(a)

Begun(a, o) == IF a.spell = o.spell /\ a.initial # 0 THEN a
               ELSE [Unpaced EXCEPT !.spell = o.spell, !.initial = o.hp, !.hp = o.hp,
                                    !.sampled = a.sampled, !.income = a.income, !.orbs = a.orbs]

Probed(a, o) ==
    LET lost == Max({0, a.hp - o.hp})
    IN  IF a.phase = "probe" /\ ~o.reduced
        THEN [a EXCEPT !.recent[a.samples % Window] = lost, !.samples = @ + 1, !.hp = o.hp]
        ELSE [a EXCEPT !.hp = o.hp]

(* A version that looks at the reserve only while it samples.              *)
BudgetedWhileSampling(a, o, f) ==
    IF a.samples < Settled \/ Damage(a) = 0 THEN a
    ELSE IF /\ ~(pacing.timeout /\ a.phase = "farm")
            /\ (a.phase = "sample" /\ ~Beyond(a, o, 0)) \/ o.hp < a.initial \div 5
    THEN [a EXCEPT !.phase = "capture"]
    ELSE IF a.phase = "probe" /\ Beyond(a, o, Ahead) /\ o.dense /\ f.rich
    THEN [a EXCEPT !.phase = "sample", !.sampled = o.update, !.income = 0]
    ELSE a

Budgeted(a, o, f) ==
    IF a.samples < Settled \/ Damage(a) = 0 THEN a
    ELSE IF /\ ~(pacing.timeout /\ a.phase = "farm")
            /\ (a.phase # "probe" /\ ~Beyond(a, o, 0)) \/ o.hp < a.initial \div 5
    THEN [a EXCEPT !.phase = "capture"]
    ELSE IF a.phase = "probe" /\ Beyond(a, o, Ahead) /\ o.dense /\ f.rich
    THEN [a EXCEPT !.phase = "sample", !.sampled = o.update, !.income = 0]
    ELSE a

(* Income is measured from the first extreme observation of a sample.      *)
Pays(a, o) == Max({0, o.orbs - a.orbs}) * 2 > o.update - a.income
Earned(a, o) ==
    LET began == IF a.income = 0 /\ o.extreme THEN [a EXCEPT !.income = o.update, !.orbs = o.orbs] ELSE a
    IN  IF ~(a.phase = "sample" \/ (pacing.timeout /\ a.phase = "farm")) THEN a
        ELSE IF began.income # 0 /\ o.update - began.income >= IncomeWindow
        THEN IF ~Pays(began, o) THEN [began EXCEPT !.phase = "capture"]
             ELSE IF pacing.timeout THEN [began EXCEPT !.phase = "farm", !.income = o.update, !.orbs = o.orbs]
             ELSE [began EXCEPT !.phase = "farm"]
        ELSE IF began.phase = "sample" /\ o.update - began.sampled >= SampleLimit THEN [began EXCEPT !.phase = "capture"]
        ELSE began

Fired(a) == [a EXCEPT !.farming = a.phase \in {"sample", "farm"},
                      !.charging = pacing.charge /\ a.phase = "sample" /\ a.income = 0]

Paused(a) == [a EXCEPT !.farming = FALSE, !.charging = FALSE]

(* update_flow_goal: the goal is kept for a while; a new spell renews it.  *)
Flowing(f, o) == IF f.spell = o.spell /\ o.update < f.due THEN f
                 ELSE [due |-> o.update + GoalAge, spell |-> o.spell, rich |-> o.rich]

(* update_attack_pacing *)
Pace(o) ==
    IF ~o.open \/ o.spell = 0
    THEN attack' = [Paused(attack) EXCEPT !.spell = -1] /\ UNCHANGED flow
    ELSE /\ flow' = Flowing(flow, o)
         /\ attack' = IF o.exposed /\ o.hp > 0 /\ o.time > 0
                      THEN Fired(Earned(Budgeted(Probed(Begun(attack, o), o), o, flow'), o))
                      ELSE Paused(attack)

(* The game between two observations: a spell goes on, or another one      *)
(* begins.                                                                 *)
GoesOn == {<<seen.spell, hp, Max({0, seen.time - 1})>> : hp \in {seen.hp, Max({0, seen.hp - Shot})}}
Begins == {<<IF seen.spell = 1 THEN 2 ELSE 1, FullHp, FullTime>>}

Observe ==
    /\ seen.update < MaxObserved
    /\ \E spell \in GoesOn \union Begins, form \in {"closed", "open", "exposed"}, signs \in Signs :
          LET o == [update |-> seen.update + 1, spell |-> spell[1], open |-> form # "closed", exposed |-> form = "exposed",
                    hp |-> spell[2], time |-> spell[3], orbs |-> seen.orbs + (IF "orb" \in signs THEN 1 ELSE 0),
                    reduced |-> "reduced" \in signs, extreme |-> "extreme" \in signs,
                    dense |-> "dense" \in signs, rich |-> "rich" \in signs]
          IN  seen' = [k \in DOMAIN seen |-> o[k]] /\ Pace(o)
    /\ UNCHANGED pacing

PacingInit ==
    /\ pacing \in Pacings
    /\ seen = [update |-> 0, spell |-> 0, exposed |-> FALSE, hp |-> 0, time |-> 0, orbs |-> 0]
    /\ attack = Unpaced /\ flow = [due |-> 0, spell |-> -1, rich |-> FALSE]

----
(* wants_fire: the policy shoots unless it farms without charging.         *)
WantsFire == ~attack.farming \/ attack.charging

(* Fire is held only while it can be afforded: the boss can be damaged and *)
(* is not nearly down, more time is left than the capture needs at the     *)
(* damage measured, and every sample and every stretch of farming past     *)
(* that reserve ends in bounded time unless it was found to pay.  However  *)
(* the game interrupts the spell or begins another.                        *)
PacedFire == ~WantsFire =>
    /\ seen.spell = attack.spell /\ seen.exposed /\ seen.hp > 0
    /\ attack.phase = "sample" => seen.update - attack.sampled < SampleLimit
    /\ IF pacing.timeout /\ attack.phase = "farm"
       THEN attack.income > 0 /\ seen.update - attack.income < IncomeWindow
       ELSE seen.hp >= attack.initial \div 5 /\ Beyond(attack, seen, 0)
====
