-------------------------- MODULE ChangeDetection --------------------------
(***************************************************************************)
(* Changed<T> in apex: the change ticks of apex-core (component.rs,        *)
(* archetype.rs, world.rs, query.rs) and the windows apex-scheduler        *)
(* compares them with (executor.rs, registration.rs).                      *)
(*                                                                         *)
(* A write stamps a row with the world's current tick, a u32 that wraps    *)
(* around; a system sees a row as changed when the stamp is newer, modulo  *)
(* 2^32, than the tick at which the system last ran.  Old stamps are       *)
(* pulled up from time to time so that they do not become new by wrapping. *)
(* Here `now` is the true time, the code's ticks are taken modulo TickMod, *)
(* and `unseen` is the truth the comparison is to tell.                    *)
(*                                                                         *)
(* A stage runs its enabled systems in any order (the plan puts systems    *)
(* with conflicting accesses in different stages), then applies the        *)
(* commands they deferred, then moves the windows of those that ran.       *)
(***************************************************************************)
EXTENDS Integers, FiniteSets

CONSTANTS
  Rows,           \* rows of the column of T in one archetype
  NStages,        \* stages of the plan
  Systems,        \* systems
  StageOf(_),     \* the stage of a system
  Readers,        \* systems that query Changed<T>
  Writers,        \* systems that write T
  Commanders,     \* systems that insert T by Commands
  TickMod,        \* 2^32 in the code
  MaxChangeAge,   \* Tick::MAX_CHANGE_AGE, 2^30 in the code
  CheckInterval,  \* TICK_CHECK_INTERVAL, 2^26 in the code
  MaxPause,       \* bound: the longest time a system's conditions keep it out
  LastRecompile,  \* bound: the last time the plan is compiled again
  MaxNow          \* bound: the last true time

ASSUME ChangeAssumption ==
  /\ NStages \in Nat \ {0} /\ MaxNow \in Nat /\ MaxPause \in Nat
  /\ \A s \in Systems : StageOf(s) \in 1 .. NStages
  /\ Readers \subseteq Systems /\ Writers \subseteq Systems
  /\ Commanders \subseteq Systems /\ LastRecompile \in Nat
  /\ TickMod \in Nat \ {0} /\ TickMod % 2 = 0
  /\ MaxChangeAge \in 1 .. TickMod - 1
  /\ CheckInterval \in 1 .. TickMod - 1 /\ TickMod % CheckInterval = 0
  \* MAX_CHANGE_AGE and the interval together stay below half the range.
  /\ MaxChangeAge + CheckInterval < TickMod \div 2
  \* Conflicting systems are in different stages.
  /\ \A w \in Writers, s \in Readers \cup Writers :
       w # s => StageOf(w) # StageOf(s)

VARIABLES
  now,       \* the true time; world.current_tick is now modulo TickMod
  stamp,     \* change_ticks of the column
  aggregate, \* max_change_tick of the column
  window,    \* system_last_run, 0 (Tick::ZERO) where there is no entry
  stage,     \* stages finished in this frame; 0 between frames
  enabled,   \* the systems enabled in the stage that is running
  left,      \* those of them that have not run yet
  deferred,  \* rows the commands of the stage will write
  ranAt,     \* history: the true time each system last ran
  unseen,    \* history: rows written since each system last ran
  missed,    \* history: systems that have overlooked a change
  invented   \* history: systems that have seen a change that was none

stampVars == <<stamp, aggregate>>
stageVars == <<stage, enabled, left, deferred>>
truthVars == <<ranAt, unseen, missed, invented>>
vars == <<now, stampVars, window, stageVars, truthVars>>

Tick(t) == t % TickMod

\* is_newer_than: wrapping_sub as a signed number is positive.
IsNewer(t, base) ==
  LET d == (t - base) % TickMod IN 0 < d /\ d < TickMod \div 2

\* Wrong on purpose: an old stamp is made current.
ClampedToNow(t, current) ==
  IF (current - t) % TickMod > MaxChangeAge THEN current ELSE t

\* Tick::check_against.
Clamped(t, current) ==
  IF (current - t) % TickMod > MaxChangeAge
  THEN (current - MaxChangeAge) % TickMod ELSE t

\* World::tick and advance_change_tick: the next tick, and from time to time
\* check_change_ticks.
Advance ==
  LET current == Tick(now + 1) IN
  /\ now' = now + 1
  /\ IF current % CheckInterval = 0
     THEN /\ stamp' = [r \in Rows |-> Clamped(stamp[r], current)]
          /\ aggregate' = Clamped(aggregate, current)
     ELSE UNCHANGED stampVars

\* Writing rows stamps them and raises the aggregate.
Stamp(rows) ==
  /\ stamp' = [r \in Rows |-> IF r \in rows THEN Tick(now) ELSE stamp[r]]
  /\ aggregate' = IF rows # {} /\ IsNewer(Tick(now), aggregate) THEN Tick(now)
                  ELSE aggregate

\* What Changed<T> yields: nothing when the aggregate is not newer.
Changed(base) ==
  IF IsNewer(aggregate, base) THEN {r \in Rows : IsNewer(stamp[r], base)} ELSE {}

-----------------------------------------------------------------------------
InStage(n) == {s \in Systems : StageOf(s) = n}

BetweenStages == enabled = {}

\* The systems that would be left out for longer than MaxPause if they were
\* left out now: the stage comes again at most NStages + 1 ticks later.
Impatient(n) ==
  {s \in InStage(n) : (now + 1) + (NStages + 1) - ranAt[s] > MaxPause}

\* All conditions false: the stage is skipped and its tick does not come.
SkipStage ==
  /\ BetweenStages /\ stage < NStages
  /\ Impatient(stage + 1) = {}
  /\ stage' = stage + 1
  /\ UNCHANGED <<now, stampVars, window, enabled, left, deferred, truthVars>>

\* open_stage_change_window.
OpenStage(on) ==
  /\ BetweenStages /\ stage < NStages /\ now < MaxNow
  /\ on # {} /\ on \subseteq InStage(stage + 1)
  /\ Impatient(stage + 1) \subseteq on
  /\ Advance
  /\ stage' = stage + 1 /\ enabled' = on /\ left' = on
  /\ UNCHANGED <<window, deferred, truthVars>>

\* A system reads Changed<T> against its window, writes rows or defers writes.
RunSystem(s, writes, defers) ==
  /\ s \in left
  /\ writes # {} => s \in Writers
  /\ defers # {} => s \in Commanders
  /\ left' = left \ {s}
  /\ missed' = IF s \in Readers /\ ~(unseen[s] \subseteq Changed(window[s]))
               THEN missed \cup {s} ELSE missed
  /\ invented' = IF s \in Readers /\ ~(Changed(window[s]) \subseteq unseen[s])
                 THEN invented \cup {s} ELSE invented
  /\ Stamp(writes)
  /\ unseen' = [q \in Systems |-> IF q = s THEN {} ELSE unseen[q] \cup writes]
  /\ ranAt' = [ranAt EXCEPT ![s] = now]
  /\ deferred' = deferred \cup defers
  /\ UNCHANGED <<now, window, stage, enabled>>

\* Wrong on purpose: the windows of the whole stage move, as before D6.
CloseStageForAll ==
  /\ enabled # {} /\ left = {}
  /\ Stamp(deferred)
  /\ unseen' = [s \in Systems |-> unseen[s] \cup deferred]
  /\ window' = [s \in Systems |-> IF StageOf(s) = stage THEN Tick(now) ELSE window[s]]
  /\ enabled' = {} /\ deferred' = {}
  /\ UNCHANGED <<now, stage, left, ranAt, missed, invented>>

\* The commands of the stage are applied, at the tick the stage ran at; then
\* advance_system_windows moves the windows of those that ran to that tick.
CloseStage ==
  /\ enabled # {} /\ left = {}
  /\ Stamp(deferred)
  /\ unseen' = [s \in Systems |-> unseen[s] \cup deferred]
  /\ window' = [s \in Systems |-> IF s \in enabled THEN Tick(now) ELSE window[s]]
  /\ enabled' = {} /\ deferred' = {}
  /\ UNCHANGED <<now, stage, left, ranAt, missed, invented>>

EndFrame ==
  /\ BetweenStages /\ stage = NStages /\ now < MaxNow
  /\ Advance
  /\ stage' = 0
  /\ UNCHANGED <<window, enabled, left, deferred, truthVars>>

\* The program writes a row between two frames.
WriteOutside(r) ==
  /\ BetweenStages /\ stage = 0
  /\ \A s \in Systems : r \notin unseen[s]
  /\ Stamp({r})
  /\ unseen' = [s \in Systems |-> unseen[s] \cup {r}]
  /\ UNCHANGED <<now, window, stageVars, ranAt, missed, invented>>

\* compile: the windows are forgotten; every system is to see every row again.
Recompile ==
  /\ now <= LastRecompile /\ BetweenStages /\ stage = 0
  /\ window' = [s \in Systems |-> 0]
  /\ unseen' = [s \in Systems |-> Rows]
  /\ UNCHANGED <<now, stampVars, stageVars, ranAt, missed, invented>>

\* A new world is at tick 1; its rows have just been written.
Init ==
  /\ now = 1
  /\ stamp = [r \in Rows |-> 1] /\ aggregate = 1
  /\ window = [s \in Systems |-> 0]
  /\ stage = 0 /\ enabled = {} /\ left = {} /\ deferred = {}
  /\ ranAt = [s \in Systems |-> 0]
  /\ unseen = [s \in Systems |-> Rows]
  /\ missed = {} /\ invented = {}

Next ==
  \/ SkipStage
  \/ \E on \in SUBSET Systems : OpenStage(on)
  \/ \E s \in Systems, writes, defers \in SUBSET Rows : RunSystem(s, writes, defers)
  \/ CloseStage
  \/ EndFrame
  \/ \E r \in Rows : WriteOutside(r)
  \/ Recompile

Spec == Init /\ [][Next]_vars

-----------------------------------------------------------------------------
(* Properties. *)

\* A system that runs sees every row written since it last ran, however long
\* its run condition kept it out, whoever wrote and in whatever stage.
NothingMissed == missed = {}

\* ... and no other row: not even one untouched for so long that the tick
\* counter has wrapped around.
NothingInvented == invented = {}

=============================================================================
