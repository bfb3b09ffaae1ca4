-------------------------------- MODULE Frame --------------------------------
(***************************************************************************)
(* What a frame looks like to the program: the application state and the   *)
(* flags of its transitions, the fixed time step, and a run condition that  *)
(* counts (apex-scheduler/src/states.rs, fixed.rs, conditions.rs).         *)
(*                                                                         *)
(* Schedule has the order of stages.  Here a frame is Startup (once), the   *)
(* systems of First that are not exclusive, the transition, which is, the   *)
(* FixedUpdate steps, and Update, which stands for all later stages.  Any   *)
(* of them may ask for another state.                                      *)
(***************************************************************************)
EXTENDS Integers

CONSTANTS
    States,
    Initial,
    None,
    Gated,      \* the state in which the counted system may run
    Limit,      \* and how often: run_until
    Dt,         \* FixedTime: one step, in units of time
    MaxStepsPerFrame,
    MaxTime,    \* bound: units of time between two frames
    MaxFrames   \* bound: frames

ASSUME FrameAssumption ==
    /\ Initial \in States /\ Gated \in States /\ None \notin States
    /\ Limit \in Nat /\ Dt \in Nat \ {0} /\ MaxStepsPerFrame \in Nat
    /\ MaxTime \in Nat /\ MaxFrames \in Nat

VARIABLES
    state, next,         \* State, NextState
    entered, exited, firstApply, \* StateTransitions
    accumulator,         \* FixedTime
    counter,             \* of run_until
    at,                  \* the stage that is due, or "idle"
    steps,               \* FixedUpdate steps due in this frame
    frame,               \* history: frames begun
    past,                \* history: state of the last two frames, newest first
    clock,               \* history: time given to FixedTime
    stepped,             \* history: steps that were run
    lost,                \* history: time beyond the steps that frames may run
    runs, chances        \* history: runs of the counted system, frames in Gated

flags    == <<entered, exited, firstApply>>
machine  == <<state, flags>>
timing   == <<accumulator, clock, lost>>
counting == <<counter, runs, chances>>
vars == <<machine, next, timing, counting, at, steps, frame, past, stepped>>

\* init_state
Init ==
    /\ state = Initial /\ next = None
    /\ entered = Initial /\ exited = None /\ firstApply = TRUE
    /\ accumulator = 0 /\ counter = 0
    /\ at = "idle" /\ steps = 0 /\ frame = 0
    /\ past = <<None, None>>
    /\ clock = 0 /\ stepped = 0 /\ lost = 0
    /\ runs = 0 /\ chances = 0

-----------------------------------------------------------------------------
(* Fixed time.                                                             *)

\* Wrong on purpose: a frame that may not run all steps keeps the rest of time.
DrainKeepsExcess(acc) ==
    IF acc \div Dt > MaxStepsPerFrame
    THEN [steps |-> MaxStepsPerFrame, left |-> acc - MaxStepsPerFrame * Dt]
    ELSE [steps |-> acc \div Dt, left |-> acc % Dt]

\* drain_steps: what cannot be caught up with is discarded.
Drain(acc) ==
    IF acc \div Dt > MaxStepsPerFrame
    THEN [steps |-> MaxStepsPerFrame, left |-> 0]
    ELSE [steps |-> acc \div Dt, left |-> acc % Dt]

\* What a frame has to catch up with, told from its history: all the time that
\* was given, but for what was stepped or lost before; and the part of it that
\* no frame can catch up with, if that takes more steps than it may run.
Owed(dt) == clock + dt - (Dt * stepped + lost)
Excess(owed) == IF owed >= Dt * (MaxStepsPerFrame + 1)
                THEN owed - Dt * MaxStepsPerFrame ELSE 0

\* accumulate, then run: the steps are counted before the first stage.
BeginFrame(dt) ==
    LET drained == Drain(accumulator + dt)
    IN  /\ at = "idle" /\ frame < MaxFrames
        /\ steps' = drained.steps
        /\ accumulator' = drained.left
        /\ clock' = clock + dt
        /\ lost' = lost + Excess(Owed(dt))
        /\ frame' = frame + 1
        /\ at' = IF frame = 0 THEN "startup" ELSE "first"
        /\ UNCHANGED <<machine, next, counting, past, stepped>>

-----------------------------------------------------------------------------
(* States.                                                                 *)

\* NextState::set, by systems of the stage that runs: the last one wins.
MaySet == \E wish \in States : next' = wish

\* Startup, and the systems of First before the transition.
EarlyStage ==
    /\ at \in {"startup", "first"}
    /\ at' = IF at = "startup" THEN "first" ELSE "apply"
    /\ MaySet \/ UNCHANGED next
    /\ UNCHANGED <<machine, timing, counting, steps, frame, past, stepped>>

\* Wrong on purpose: flags are cleared in the first frame as in any other.
ApplyClearsFirst ==
    LET moves == next # None /\ next # state
    IN  /\ at = "apply" /\ at' = "fixed"
        /\ firstApply' = FALSE
        /\ entered' = IF moves THEN next ELSE None
        /\ exited' = IF moves THEN state ELSE None
        /\ state' = IF moves THEN next ELSE state
        /\ next' = None
        /\ past' = <<IF moves THEN next ELSE state, past[1]>>
        /\ UNCHANGED <<timing, counting, steps, frame, stepped>>

\* apply_state_transition.  The first time, the flag of the initial state is
\* left standing.
Apply ==
    LET moves == next # None /\ next # state
    IN  /\ at = "apply" /\ at' = "fixed"
        /\ firstApply' = FALSE
        /\ entered' = IF moves THEN next ELSE IF firstApply THEN entered ELSE None
        /\ exited' = IF moves THEN state ELSE IF firstApply THEN exited ELSE None
        /\ state' = IF moves THEN next ELSE state
        /\ next' = None
        /\ past' = <<state', past[1]>>
        /\ UNCHANGED <<timing, counting, steps, frame, stepped>>

FixedStep ==
    /\ at = "fixed" /\ steps > 0
    /\ steps' = steps - 1
    /\ stepped' = stepped + 1
    /\ MaySet \/ UNCHANGED next
    /\ UNCHANGED <<machine, timing, counting, at, frame, past>>

FixedDone ==
    /\ at = "fixed" /\ steps = 0
    /\ at' = "update"
    /\ UNCHANGED <<machine, next, timing, counting, steps, frame, past, stepped>>

\* Wrong on purpose: every condition is evaluated whatever the others say.
EvaluateAll ==
    /\ counter' = counter + 1
    /\ runs' = IF state = Gated /\ counter < Limit THEN runs + 1 ELSE runs

\* ConditionTree::And of in_state and run_until: the second is asked, and
\* counts, only if the first holds.
Evaluate ==
    IF state = Gated
    THEN /\ counter' = counter + 1
         /\ runs' = IF counter < Limit THEN runs + 1 ELSE runs
    ELSE UNCHANGED <<counter, runs>>

LateStage ==
    /\ at = "update" /\ at' = "idle"
    /\ Evaluate
    /\ chances' = IF state = Gated THEN chances + 1 ELSE chances
    /\ MaySet \/ UNCHANGED next
    /\ UNCHANGED <<machine, timing, steps, frame, past, stepped>>

Next ==
    \/ \E dt \in 0..MaxTime : BeginFrame(dt)
    \/ EarlyStage
    \/ Apply
    \/ FixedStep
    \/ FixedDone
    \/ LateStage

Spec == Init /\ [][Next]_vars

-----------------------------------------------------------------------------
(* Correctness.                                                            *)

\* on_enter and on_exit tell the difference between the state of a frame and
\* that of the frame before, through all stages from the transition on, and in
\* Startup and First of the next frame.  In the first frame the initial state
\* is entered, or left if Startup or First asked for another one.
Before == IF past[2] # None THEN past[2]
          ELSE IF past[1] # Initial THEN Initial ELSE None

FlagsTell ==
    past[1] # None =>
        IF past[1] = past[2] THEN entered = None /\ exited = None
        ELSE entered = past[1] /\ exited = Before

\* The fixed steps keep up with time to the unit: what was given is stepped, due
\* in this frame, left for the next one, which is less than a step, or lost; and
\* lost is exactly what frames had to catch up with beyond the steps they may run,
\* nothing else and nothing of it is made up for later.
TimeKept ==
    /\ accumulator < Dt
    /\ clock = Dt * (stepped + steps) + accumulator + lost

\* A system of Update that may run a number of times while in a state does run
\* that often, however frames in other states come between.
CountedRuns == at # "update" => runs = IF chances < Limit THEN chances ELSE Limit
=============================================================================
