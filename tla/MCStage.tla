---- MODULE MCStage ----
(* The parts of a native practice stage, each on its own: the bullet slots *)
(* (three words of two bits, spawns nested two deep), the effect pool      *)
(* (three slots), the entry (eight timelines over eight scripts), a bullet *)
(* with its program and a laser beside what is foreseen of them, and one   *)
(* decision of the reactive policy.  One run explores each of them; part   *)
(* says which one a behaviour is about.                                    *)
EXTENDS BulletSlots, EffectPool, PracticeEntry, BulletProjection, HazardChoice

VARIABLE part

MCCounts == {0, 1, 2}

Order1(op, time, pass, arg) == [op |-> op, time |-> time, pass |-> pass, arg |-> arg]
End1 == Order1("end", -1, TRUE, 0)
MCTimelines == {
    << Order1("spawn", 0, TRUE, 1), Order1("publish", 0, TRUE, 7), Order1("consume", 0, TRUE, 7),
       Order1("spawn", 1, TRUE, 2), End1 >>,
    << Order1("spawn", 0, TRUE, 6), Order1("publish", 0, TRUE, 7), Order1("publish", 0, TRUE, 8),
       Order1("wait", 0, TRUE, 0), Order1("consume", 0, TRUE, 7), Order1("consume", 0, TRUE, 7), End1 >>,
    << Order1("spawn", 0, FALSE, 1), Order1("spawn", 0, TRUE, 5), End1 >>,
    << Order1("spawn", 0, TRUE, 4), Order1("publish", 1, TRUE, 7), End1 >>,
    << Order1("summon", 0, TRUE, 8), End1 >>,
    << Order1("summon", 0, TRUE, 3), Order1("power", 1, TRUE, 0), End1 >>,
    << Order1("spawn", 0, TRUE, 7), Order1("spawn", 0, TRUE, 9), Order1("spawn", 0, TRUE, 7),
       Order1("power", 1, TRUE, 0), End1 >>,
    << Order1("spawn", 0, TRUE, 7), Order1("spawn", 0, TRUE, 1), Order1("summon", 0, TRUE, 1),
       Order1("power", 1, TRUE, 0), End1 >> }

Ecl(op, arg, draws) ==
    [op |-> op, time |-> 0, pass |-> TRUE, arg |-> arg, draws |-> draws, aimed |-> FALSE]
Later == [Ecl("set", 0, 0) EXCEPT !.time = 1]
MCSubs == <<
    << Ecl("set", 4, 0), Ecl("share", 2, 0), Ecl("burst", 1, 1), Later >>,
    << Ecl("set", 6, 0), Ecl("call", 3, 0), [Ecl("move", 0, 1) EXCEPT !.aimed = TRUE], Ecl("die", 0, 0) >>,
    << Ecl("set", 5, 0), Ecl("draw", 9, 0), Ecl("share", 3, 0), Ecl("return", 0, 0) >>,
    << Ecl("share", 8, 0), Ecl("twice", 0, 0), Later >>,
    << Ecl("draw", 1, 0), Ecl("shot", 0, 0), Later >>,
    << [Ecl("set", 1, 0) EXCEPT !.pass = FALSE], Ecl("field", 0, 1), Ecl("burst", 0, 0),
       Ecl("pause", 0, 0), Ecl("set", 2, 0), Later >>,
    << Ecl("burst", 2, 0), Ecl("jump", 4, 0), Ecl("set", 3, 0), Ecl("set", 8, 0), Later >>,
    << Ecl("share", 4, 0), Ecl("call", 2, 0), Ecl("set", 3, 0), Later >> >>

----
(* Bullets as they are spawned: programs of up to three records, one of    *)
(* them disabled or none.                                                  *)
Record1(kind, a, b, n, m, allow) == [kind |-> kind, a |-> a, b |-> b, n |-> n, m |-> m, allow |-> allow]
MCWaits == {Record1("wait", 0, 0, 0, 0, FALSE), Record1("wait", 0, 0, 2, 0, FALSE)}
MCRecords == MCWaits \union
    { Record1("wait", 0, 0, 1, 0, TRUE), Record1("vector", 2, Keep, 2, 0, FALSE), Record1("vector", 2, 1, 1, 0, TRUE),
      Record1("polar", 2, 1, 2, 0, FALSE), Record1("relative", 1, 4, 2, 2, FALSE), Record1("relative", 2, Keep, 0, 2, TRUE),
      Record1("aimed", 0, Keep, 2, 1, FALSE), Record1("absolute", 1, 2, 1, 1, TRUE), Record1("bounce", -1, 0, 2, 0, FALSE),
      Record1("bounceBut", 2, 0, 0, 0, FALSE), Record1("wrapX", 0, 0, 2, 0, FALSE), Record1("wrapY", 0, 0, 1, 0, TRUE),
      Record1("cull", 0, 0, 2, 0, FALSE), Record1("sound", 0, 0, 0, 0, TRUE), Record1("despawn", 0, 0, 0, 0, FALSE),
      Record1("decelerate", 0, 0, 0, 0, FALSE) }
MCKinds == {r.kind : r \in MCRecords}
MCPrograms == {<< >>} \union {<< r >> : r \in MCRecords} \union (MCRecords \X MCRecords)
              \union (MCWaits \X MCRecords \X MCRecords)
MCBirths ==
    {[program |-> p, enabled |-> IF off > Len(p) THEN MCKinds ELSE MCKinds \ {p[off].kind},
      x |-> at, y |-> 2, angle |-> a, speed |-> 2, calls |-> 0] :
         p \in MCPrograms, off \in {2, 9}, at \in {1, 4}, a \in {0, 3}}
    \union {[program |-> p, enabled |-> MCKinds, x |-> 2, y |-> 2, angle |-> 1, speed |-> 2, calls |-> 2] :
                p \in {<< >>} \union {<< r >> : r \in MCRecords}}

(* Lasers as they are first seen, at the start or while they are active.   *)
MCLasers ==
    {b \in [phase : {0, 1}, start : {0, 4}, end : {4, 10}, length : {10}, width : {8, 24}, speed : {0, 10}, timer : {0},
            startTime : {0, 1, 3}, duration : {0, 1, 2}, fade : {0, 2}, hitStart : {0, 2, 5}, hitEnd : {0, 1, 3},
            fadeAlpha : BOOLEAN, inUse : {TRUE}] :
        b.start < b.end /\ (b.phase = 0 => b.startTime > 0) /\ ~(b.fadeAlpha /\ b.startTime = 0 /\ b.fade > 0)}

(* Decisions: bullets and lasers in view, enemies on their way, and what   *)
(* one of the three adapters finds in the scripts.                         *)
Shot1(x, y, vx, vy, half, state, certain) ==
    [x |-> x, y |-> y, vx |-> vx, vy |-> vy, half |-> half, state |-> state, certain |-> certain]
MCVolleys == {
    << >>, << Shot1(4, 0, 0, 2, 1, "fired", TRUE) >>,
    << Shot1(0, 4, 3, 0, 0, "fired", TRUE), Shot1(8, 8, -1, -1, 1, "spawning", TRUE) >>,
    << Shot1(4, 2, 0, 1, 3, "fired", TRUE), Shot1(2, 8, 0, -2, 1, "fired", FALSE) >>,
    << Shot1(7, 4, -1, 0, 2, "fading", TRUE), Shot1(4, 7, 0, -1, 0, "fired", TRUE), Shot1(1, 1, 1, 1, 1, "fired", TRUE) >> }
Beam1(phase, startTime, duration, fade, hitStart, hitEnd) ==
    [phase |-> phase, start |-> 0, end |-> 6, length |-> 12, width |-> 8, speed |-> 6, timer |-> 0, startTime |-> startTime,
     duration |-> duration, fade |-> fade, hitStart |-> hitStart, hitEnd |-> hitEnd, fadeAlpha |-> FALSE, inUse |-> TRUE]
MCBeams == [l : {Beam1(0, 2, 1, 2, 1, 1), Beam1(1, 0, 3, 0, 0, 0), Beam1(1, 0, 0, 2, 0, 3)},
            at : {[x |-> 0, y |-> 4], [x |-> 5, y |-> 8], [x |-> 8, y |-> 1]}, angle : 0 .. 3]
MCPlaces == {[x |-> 4, y |-> 4], [x |-> 1, y |-> 7], [x |-> 8, y |-> 0]}
MCBodies == {{}, {[x0 |-> 3, x1 |-> 8, y0 |-> 2, y1 |-> 5, update |-> 2], [x0 |-> 0, x1 |-> 9, y0 |-> 5, y1 |-> 9, update |-> 3]}}
Plain == [at |-> [x |-> 4, y |-> 4], pending |-> Idle, bullets |-> << >>, lasers |-> << >>, bodies |-> {}, first |-> 0,
          tree |-> FALSE, due |-> {}, contexts |-> {}, spawns |-> {}]
Context1 == [op : {"call", "repeat", "other"}, raw : {-1, 9, 11}, perFrame : {-1, 9, 25}, wait : {-1, 0, 2, 4},
             enabled : BOOLEAN, variable : BOOLEAN, stable : BOOLEAN, at : {[x |-> 0, y |-> 6]}, angle : {0}]
Due1(v, q) == [l |-> v.l, at |-> v.at, angle |-> v.angle, suppressed |-> q = 1, supported |-> q # 2]
Spawn1(update, linear, q) ==
    [update |-> update, linear |-> linear, x |-> 4, y |-> 1, vx |-> 0, vy |-> 2, half |-> 1, suppressed |-> q = 1, supported |-> q # 2]
MCSituations ==
    {[Plain EXCEPT !.at = p, !.pending = d, !.bullets = b, !.lasers = l] :
        p \in MCPlaces, d \in {0, 7}, b \in MCVolleys, l \in {<< >>} \union {<< v >> : v \in MCBeams}}
    \union {[Plain EXCEPT !.at = p, !.bullets = b, !.lasers = l, !.bodies = e, !.first = 1] :
               p \in MCPlaces, b \in MCVolleys, e \in MCBodies, l \in {<< >>, << CHOOSE v \in MCBeams : v.angle = 1 >>}}
    \union {[Plain EXCEPT !.contexts = {c}, !.pending = 1] : c \in Context1}
    \union {[Plain EXCEPT !.at = p, !.due = {Due1(v, q)}] : p \in MCPlaces, v \in MCBeams, q \in 0 .. 2}
    \union {[Plain EXCEPT !.at = p, !.spawns = {Spawn1(u, n, q), Spawn1(1, 1, 0)}, !.bullets = b] :
               p \in MCPlaces, u \in {1, 3}, n \in {0, 2}, q \in 0 .. 2, b \in MCVolleys}
    \union {[Plain EXCEPT !.at = p, !.pending = d, !.bullets = b, !.tree = TRUE] : p \in MCPlaces, d \in {0, 4}, b \in MCVolleys}
    \union {[Plain EXCEPT !.tree = TRUE, !.bodies = b] : b \in MCBodies}
----
(* What a part is while another one runs. *)
OnlySlots == part = "slots" /\ SlotsInit
NoSlots ==
    /\ part # "slots"
    /\ freeBits = [w \in Word |-> Bit] /\ available = Capacity /\ slotCursor = 0 /\ spawning = << >>
OnlyEffects == part = "effects" /\ EffectInit
NoEffects ==
    /\ part # "effects"
    /\ effects = [i \in Effect |-> Vacant] /\ activeCount = 0 /\ effectCursor = 0
    /\ spawnEvent = FALSE /\ sentinelGroup = FALSE /\ served = 0 /\ job = NoJob
OnlyEntry == part = "entry" /\ EntryInit
NoEntry ==
    /\ part # "entry" /\ EntryInit /\ timeline = CHOOSE t \in Timelines : TRUE

OnlyBullet == part = "bullet" /\ ProgramInit
NoBullet ==
    /\ part # "bullet" /\ age = 0
    /\ bullet = [BornBullet([program |-> << >>, enabled |-> {}, x |-> 1, y |-> 1, angle |-> 0, speed |-> 0, calls |-> 0])
                    EXCEPT !.phase = "unused"]
OnlyLaser == part = "laser" /\ LaserInit
NoLaser ==
    /\ part # "laser" /\ hit = NoHit
    /\ laser = Beam1(1, 0, 3, 0, 0, 0) /\ foreseen = laser /\ mirrored = laser
OnlyChoice == part = "choice" /\ ChoiceInit
NoChoices ==
    /\ part # "choice" /\ situation = Plain /\ allowed = Direction /\ chosen = NoChoice /\ kept = << >> /\ step = "observed"

Init ==
    /\ part \in {"slots", "effects", "entry", "bullet", "laser", "choice"}
    /\ OnlySlots \/ NoSlots
    /\ OnlyEffects \/ NoEffects
    /\ OnlyEntry \/ NoEntry
    /\ OnlyBullet \/ NoBullet
    /\ OnlyLaser \/ NoLaser
    /\ OnlyChoice \/ NoChoices

Next ==
    /\ UNCHANGED part
    /\ \/ part = "slots" /\ SlotsNext /\ UNCHANGED <<effectVars, entryVars, programVars, laserVars, choiceVars>>
       \/ part = "effects" /\ EffectNext /\ UNCHANGED <<slotVars, entryVars, programVars, laserVars, choiceVars>>
       \/ part = "entry" /\ EntryNext /\ UNCHANGED <<slotVars, effectVars, programVars, laserVars, choiceVars>>
       \/ part = "bullet" /\ ProgramNext /\ UNCHANGED <<slotVars, effectVars, entryVars, laserVars, choiceVars>>
       \/ part = "laser" /\ LaserNext /\ UNCHANGED <<slotVars, effectVars, entryVars, programVars, choiceVars>>
       \/ part = "choice" /\ ChoiceNext /\ UNCHANGED <<slotVars, effectVars, entryVars, programVars, laserVars>>

Spec == Init /\ [][Next]_<<slotVars, effectVars, entryVars, programVars, laserVars, choiceVars, part>>
====
