---- MODULE EffectPool ----
(* The primary pool of visual effects (th08::effect::PrimaryPool).  Spawns *)
(* of effect 51 and of background effect 62 share one circular cursor; a   *)
(* spawn may claim many slots and any of its initialisations may fail; one *)
(* update phase walks every slot and may be blocked at any of them.  Every *)
(* call works on a draft (scratch_ and a copy of the RNG) and commits it   *)
(* at its end, or drops it.  A step is one slot of the scan.               *)
EXTENDS CircularPool

CONSTANTS
    PoolSize,   \* primary_capacity, 512 in the code
    EndTime,    \* the time of the script's static completion, 30000 in the code
    Counts,     \* the counts callers ask for; none and negative ones included
    MaxDraws    \* bound: initialisations drawn from the RNG

ASSUME EffectAssumption ==
    PoolSize \in Nat \ {0} /\ EndTime \in Nat \ {0} /\ Counts \subseteq Int /\ MaxDraws \in Nat

Effect == 0..PoolSize - 1

VARIABLES
    effects,        \* what each slot holds, and how far its script is
    effectCursor,
    activeCount,
    spawnEvent,     \* a spawn was committed
    sentinelGroup,  \* the draw group of slot 653 was written
    served,          \* initialisations the shared RNG has served
    job             \* the call in progress, and its draft

effectVars == <<effects, effectCursor, activeCount, spawnEvent, sentinelGroup, served, job>>

Vacant == [kind |-> "none", time |-> 0]
Unknown == [kind |-> "unknown", time |-> 0]
Fresh(kind) == [kind |-> kind, time |-> 1]
Occupied(i) == effects[i].kind # "none"
FreeEffects == {i \in Effect : ~Occupied(i)}
NoJob == [call |-> "none"]
EmptyDraft == [i \in {} |-> Vacant]
Put(draft, i, slot) == [j \in DOMAIN draft \cup {i} |-> IF j = i THEN slot ELSE draft[j]]
Overlay(draft) == [i \in Effect |-> IF i \in DOMAIN draft THEN draft[i] ELSE effects[i]]

(* Construction from a known occupancy: nothing else is known of the slots. *)
EffectInit ==
    \E occupied \in SUBSET Effect :
        /\ effects = [i \in Effect |-> IF i \in occupied THEN Unknown ELSE Vacant]
        /\ activeCount = Cardinality(occupied)
        /\ effectCursor \in Effect
        /\ spawnEvent = FALSE /\ sentinelGroup = FALSE
        /\ served = 0
        /\ job = NoJob

(* A spawn of count effects.  Its inputs are complete, missing or outside  *)
(* the finite domain; "fails" is the initialisation that overflows, 0 if   *)
(* none does.  Only effect 51 has an initialiser, so only it draws.        *)
Call(kind, count, inputs, fails) ==
    job' = [call |-> "spawn", kind |-> kind, count |-> count, inputs |-> inputs, fails |-> fails,
            at |-> effectCursor, scanned |-> 0, left |-> count, draft |-> EmptyDraft]

CallSpawn(kind, count, inputs, fails) ==
    /\ job = NoJob
    /\ activeCount < PoolSize
    /\ served + PoolSize <= MaxDraws
    /\ kind = "background62" => count = 1 /\ fails = 0
    /\ Call(kind, count, inputs, fails)
    /\ UNCHANGED <<effects, effectCursor, activeCount, spawnEvent, sentinelGroup, served>>

(* A full pool: done before anything of the request is read. *)
SpawnOnFull(kind) ==
    /\ job = NoJob
    /\ activeCount = PoolSize
    /\ spawnEvent' = TRUE
    /\ sentinelGroup' = (sentinelGroup \/ kind = "background62")
    /\ UNCHANGED <<effects, effectCursor, activeCount, served, job>>

Filled == job.left = 0 /\ DOMAIN job.draft # {}
Scanning == job.call = "spawn" /\ ~Filled /\ job.scanned < PoolSize
Initialised == Cardinality(DOMAIN job.draft)
(* The next initialisation leaves the finite domain (or has no camera). *)
InitFails == job.fails = Initialised + 1

SkipOccupied ==
    /\ Scanning
    /\ Occupied(job.at)
    /\ job' = [job EXCEPT !.at = (@ + 1) % PoolSize, !.scanned = @ + 1]
    /\ UNCHANGED <<effects, effectCursor, activeCount, spawnEvent, sentinelGroup, served>>

ClaimSlot ==
    /\ Scanning
    /\ ~Occupied(job.at)
    /\ job.inputs = "complete"
    /\ ~InitFails
    /\ job' = [job EXCEPT !.at = (@ + 1) % PoolSize, !.scanned = @ + 1, !.left = @ - 1,
                          !.draft = Put(@, job.at, Fresh(job.kind))]
    /\ UNCHANGED <<effects, effectCursor, activeCount, spawnEvent, sentinelGroup, served>>

(* The inputs are asked for at the first free slot; a later initialisation *)
(* may still fail.  The call returns and nothing of it stays.              *)
SpawnBlocked ==
    /\ Scanning
    /\ ~Occupied(job.at)
    /\ job.inputs # "complete" \/ InitFails
    /\ job' = NoJob
    /\ UNCHANGED <<effects, effectCursor, activeCount, spawnEvent, sentinelGroup, served>>

CommitSpawn ==
    /\ job.call = "spawn" /\ ~Scanning
    /\ effects' = Overlay(job.draft)
    /\ activeCount' = activeCount + Initialised
    /\ effectCursor' = job.at
    /\ spawnEvent' = TRUE
    /\ served' = IF job.kind = "effect51" THEN served + Initialised ELSE served
    /\ sentinelGroup' = (sentinelGroup \/ (job.kind = "background62" /\ ~Filled))
    /\ job' = NoJob

----
(* One update phase, slot by slot in ascending order.  An unknown deathbomb *)
(* freeze blocks it before it begins.                                      *)
CallUpdate(frozen) ==
    /\ job = NoJob
    /\ job' = [call |-> "update", frozen |-> frozen, at |-> 0, draft |-> EmptyDraft]
    /\ UNCHANGED <<effects, effectCursor, activeCount, spawnEvent, sentinelGroup, served>>

Updating == job.call = "update" /\ job.at < PoolSize
Known == effects[job.at].kind \in {"effect51", "background62"}

PassBy ==
    /\ Updating
    /\ ~Occupied(job.at) \/ (Known /\ job.frozen)
    /\ job' = [job EXCEPT !.at = @ + 1]
    /\ UNCHANGED <<effects, effectCursor, activeCount, spawnEvent, sentinelGroup, served>>

(* Effect 51 first runs its callback, which may cull it out of the view;   *)
(* then the script runs, and ends statically at its end time.              *)
AfterCallback(slot, culled) == IF culled THEN Vacant ELSE slot
AfterScript(slot) ==
    IF slot = Vacant \/ slot.time >= EndTime THEN Vacant ELSE [slot EXCEPT !.time = @ + 1]
UpdateSlot(culled) ==
    /\ Updating /\ Known /\ ~job.frozen
    /\ culled => effects[job.at].kind = "effect51"
    /\ job' = [job EXCEPT !.at = @ + 1,
                 !.draft = Put(@, job.at, AfterScript(AfterCallback(effects[job.at], culled)))]
    /\ UNCHANGED <<effects, effectCursor, activeCount, spawnEvent, sentinelGroup, served>>

(* A phase that keeps what it did before the slot that blocked it. *)
UpdateBlockedHalfway ==
    /\ Updating /\ Occupied(job.at)
    /\ ~Known \/ ~job.frozen
    /\ effects' = Overlay(job.draft)
    /\ activeCount' = Cardinality({i \in Effect : effects'[i].kind # "none"})
    /\ job' = NoJob
    /\ UNCHANGED <<effectCursor, spawnEvent, sentinelGroup, served>>
(* A slot nobody knows blocks even a frozen phase.  A known one blocks if  *)
(* its callback misses the camera, bosses or tint, or a state is invalid.  *)
UpdateBlocked ==
    /\ Updating /\ Occupied(job.at)
    /\ ~Known \/ ~job.frozen
    /\ job' = NoJob
    /\ UNCHANGED <<effects, effectCursor, activeCount, spawnEvent, sentinelGroup, served>>

Retired == {i \in DOMAIN job.draft : job.draft[i] = Vacant}
CommitUpdate ==
    /\ job.call = "update" /\ ~Updating
    /\ effects' = Overlay(job.draft)
    /\ activeCount' = activeCount - Cardinality(Retired)
    /\ job' = NoJob
    /\ UNCHANGED <<effectCursor, spawnEvent, sentinelGroup, served>>

EffectNext ==
    \/ \E kind \in {"effect51", "background62"}, count \in Counts,
          inputs \in {"complete", "missing", "invalid"}, fails \in 0..PoolSize :
            CallSpawn(kind, count, inputs, fails)
    \/ \E kind \in {"effect51", "background62"} : SpawnOnFull(kind)
    \/ SkipOccupied \/ ClaimSlot \/ SpawnBlocked \/ CommitSpawn
    \/ \E frozen \in BOOLEAN : CallUpdate(frozen)
    \/ PassBy \/ (\E culled \in BOOLEAN : UpdateSlot(culled)) \/ UpdateBlocked \/ CommitUpdate

----
(* A committed spawn claims exactly the slots one lap from the old cursor  *)
(* promises, leaves the cursor behind the last of them (or where it was)   *)
(* and takes one initialisation from the RNG per effect 51.  The count the *)
(* full-pool shortcut trusts is the number of occupied slots after it.     *)
CountsOccupied(count, slots) == count = Cardinality({i \in Effect : slots[i].kind # "none"})

SpawnKept ==
    LET claimed == Claimed(PoolSize, FreeEffects, effectCursor, job.count)
    IN  /\ effects' = [i \in Effect |-> IF i \in claimed THEN Fresh(job.kind) ELSE effects[i]]
        /\ effectCursor' = CursorAfter(PoolSize, FreeEffects, effectCursor, job.count)
        /\ CountsOccupied(activeCount', effects')
        /\ served' = served + (IF job.kind = "effect51" THEN Cardinality(claimed) ELSE 0)

(* A committed phase moved every occupied slot on by exactly one frame, or *)
(* retired it, and moved none at all during a freeze.                      *)
PhaseKept ==
    /\ \A i \in Effect :
        \/ ~Occupied(i) /\ effects'[i] = effects[i]
        \/ Occupied(i) /\ ~job.frozen
           /\ effects'[i] \in {Vacant, [effects[i] EXCEPT !.time = @ + 1]}
    /\ CountsOccupied(activeCount', effects')
    /\ effectCursor' = effectCursor /\ served' = served

(* Whatever call changes the pool or the RNG changes it as a whole: a call *)
(* blocked at its last slot has left no trace at its first.                *)
WholeCallOrNothing ==
    [][(<<effects, effectCursor, activeCount, served>>' # <<effects, effectCursor, activeCount, served>>) =>
        \/ job.call = "spawn" /\ SpawnKept
        \/ job.call = "update" /\ PhaseKept]_effectVars
====
