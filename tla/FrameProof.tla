------------------------------ MODULE FrameProof ------------------------------
(***************************************************************************)
(* Proofs about Frame, for any states, any step and any frames: flags tell  *)
(* of transitions, fixed steps keep up with time, counted runs are run.    *)
(* And about SpawnBlocks, which describes the same frames of the executor  *)
(* in variables of its own.                                                *)
(***************************************************************************)
EXTENDS Frame, SpawnBlocks, FiniteSetTheorems, TLAPS

Maybe == States \cup {None}

Types ==
    /\ state \in States /\ next \in Maybe
    /\ entered \in Maybe /\ exited \in Maybe /\ firstApply \in BOOLEAN
    /\ past \in Maybe \X Maybe
    /\ accumulator \in Nat /\ steps \in Nat /\ stepped \in Nat /\ clock \in Nat
    /\ lost \in Nat
    /\ counter \in Nat /\ runs \in Nat /\ chances \in Nat

\* Before the first transition there is the flag of the initial state and
\* nothing else; afterwards the state is that of the last transition.
Machine ==
    IF past[1] = None
    THEN /\ past[2] = None /\ state = Initial /\ firstApply
         /\ entered = Initial /\ exited = None
    ELSE state = past[1] /\ ~firstApply

\* A frame runs all its steps.
StepsDone == at \notin {"startup", "first", "apply", "fixed"} => steps = 0

\* The counted condition has been asked in each frame that could run it.
Asked == counter = chances /\ runs = IF chances < Limit THEN chances ELSE Limit

IInv == Types /\ Machine /\ FlagsTell /\ StepsDone /\ TimeKept /\ Asked

-----------------------------------------------------------------------------
(* Arithmetic of the accumulator.                                          *)

LEMMA DrainFacts ==
    ASSUME NEW acc \in Nat
    PROVE  LET d == Drain(acc)
           IN  /\ d.steps \in Nat /\ d.left \in Nat /\ d.left < Dt
               /\ acc = Dt * d.steps + d.left + Excess(acc)
               /\ Excess(acc) \in Nat
<1> DEFINE q == acc \div Dt
           r == acc % Dt
           M == MaxStepsPerFrame
<1>1. Dt \in Nat /\ Dt > 0 /\ M \in Nat
  BY FrameAssumption
<1>2. q \in Nat /\ r \in Nat /\ r < Dt /\ acc = Dt * q + r
  BY <1>1
<1>3. Drain(acc) = IF q > M THEN [steps |-> M, left |-> 0] ELSE [steps |-> q, left |-> r]
  BY DEF Drain
<1> HIDE DEF q, r, M
<1>4. Dt * M \in Nat /\ Dt * (M + 1) = Dt * M + Dt
  BY <1>1
<1>5. CASE q > M
  <2>1. Dt * q >= Dt * (M + 1)
    BY <1>1, <1>2, <1>5
  <2>2. Excess(acc) = acc - Dt * M
    BY <1>1, <1>2, <1>4, <2>1 DEF Excess, M
  <2> QED
    BY <1>1, <1>2, <1>3, <1>4, <1>5, <2>1, <2>2
<1>6. CASE ~(q > M)
  <2>1. Dt * q <= Dt * M /\ Dt * q \in Nat
    BY <1>1, <1>2, <1>6
  <2>2. Excess(acc) = 0
    BY <1>1, <1>2, <1>4, <2>1 DEF Excess, M
  <2> QED
    BY <1>1, <1>2, <1>3, <1>6, <2>2
<1> QED
  BY <1>5, <1>6

-----------------------------------------------------------------------------
(* The invariant.                                                          *)

LEMMA InitIInv == Init => IInv
<1> SUFFICES ASSUME Init PROVE IInv
  OBVIOUS
<1>1. Types
  BY FrameAssumption DEF Init, Types, Maybe
<1>2. TimeKept
  BY FrameAssumption DEF Init, TimeKept
<1> QED
  BY <1>1, <1>2, FrameAssumption DEF Init, IInv, Machine, FlagsTell, StepsDone, Asked

LEMMA BeginFrameStep ==
    ASSUME IInv, NEW dt \in 0..MaxTime, BeginFrame(dt)
    PROVE  IInv'
<1> DEFINE acc == accumulator + dt
           d == Drain(acc)
<1>1. acc \in Nat /\ dt \in Nat
  BY FrameAssumption DEF IInv, Types
<1>2. /\ d.steps \in Nat /\ d.left \in Nat /\ d.left < Dt
      /\ acc = Dt * d.steps + d.left + Excess(acc)
      /\ Excess(acc) \in Nat
  BY <1>1, DrainFacts
<1>3. steps' = d.steps /\ accumulator' = d.left /\ clock' = clock + dt
      /\ stepped' = stepped /\ lost' = lost + Excess(Owed(dt))
  BY DEF BeginFrame
<1>4. steps = 0
  BY DEF IInv, StepsDone, BeginFrame
<1>5. Owed(dt) = acc
  <2>1. clock = Dt * stepped + accumulator + lost
    BY <1>4 DEF IInv, TimeKept, Types
  <2>2. Dt * stepped \in Nat
    BY FrameAssumption DEF IInv, Types
  <2> QED
    BY <1>1, <2>1, <2>2 DEF Owed, IInv, Types
<1> HIDE DEF d, acc
<1>6. Types'
  BY <1>1, <1>2, <1>3, <1>5 DEF IInv, Types, BeginFrame, machine, flags, counting
<1>7. TimeKept'
  <2>1. Dt * (stepped + d.steps) = Dt * stepped + Dt * d.steps
        /\ Dt * stepped \in Nat /\ Dt * d.steps \in Nat
    BY <1>2, FrameAssumption DEF IInv, Types
  <2>2. clock + dt = Dt * stepped + acc + lost
    BY <1>1, <1>5, <2>1 DEF Owed, IInv, Types
  <2>3. clock + dt = Dt * (stepped + d.steps) + d.left + (lost + Excess(acc))
    BY <1>1, <1>2, <2>1, <2>2 DEF IInv, Types
  <2> QED
    BY <1>2, <1>3, <1>5, <2>3 DEF TimeKept
<1> QED
  BY <1>6, <1>7 DEF IInv, Machine, FlagsTell, Before, StepsDone, Asked, BeginFrame,
                    machine, flags, counting

LEMMA ApplyStep ==
    ASSUME IInv, Apply
    PROVE  IInv'
<1>1. /\ past'[1] = state' /\ past'[2] = past[1] /\ state' \in States
      /\ past' \in Maybe \X Maybe
  BY DEF Apply, IInv, Types, Maybe
<1>2. Types'
  BY <1>1 DEF IInv, Types, Maybe, Apply, timing, counting
<1>3. Machine'
  BY <1>1, FrameAssumption DEF Machine, Apply
<1>4. FlagsTell'
  <2>1. past[1] # None => past[1] = state
    BY DEF IInv, Machine
  <2>2. past[1] = None => state = Initial /\ firstApply /\ entered = Initial /\ exited = None
    BY DEF IInv, Machine
  <2>3. past[1] # None => ~firstApply
    BY DEF IInv, Machine
  <2>4. state # None /\ state \in States
    BY FrameAssumption DEF IInv, Types
  <2> QED
    BY <1>1, <2>1, <2>2, <2>3, <2>4, FrameAssumption DEF FlagsTell, Before, Apply
<1> QED
  BY <1>2, <1>3, <1>4 DEF IInv, StepsDone, TimeKept, Asked, Apply, timing, counting

LEMMA FixedStepStep ==
    ASSUME IInv, FixedStep
    PROVE  IInv'
<1>1. Types'
  BY DEF IInv, Types, Maybe, FixedStep, MaySet, machine, flags, timing, counting
<1>2. steps' + stepped' = steps + stepped
  BY DEF IInv, Types, FixedStep
<1>3. TimeKept'
  BY <1>2 DEF IInv, Types, TimeKept, FixedStep, timing
<1> QED
  BY <1>1, <1>3 DEF IInv, Machine, FlagsTell, Before, StepsDone, Asked, FixedStep,
                    machine, flags, counting

LEMMA LateStageStep ==
    ASSUME IInv, LateStage
    PROVE  IInv'
<1>1. Types'
  BY DEF IInv, Types, Maybe, LateStage, Evaluate, MaySet, machine, flags, timing
<1>2. Asked'
  BY FrameAssumption DEF IInv, Types, Asked, LateStage, Evaluate
<1> QED
  BY <1>1, <1>2 DEF IInv, Machine, FlagsTell, Before, StepsDone, TimeKept, LateStage,
                    machine, flags, timing

\* The other stages at most ask for another state.
LEMMA OtherStep ==
    ASSUME IInv, EarlyStage \/ FixedDone \/ UNCHANGED vars
    PROVE  IInv'
<1>1. UNCHANGED <<machine, timing, counting, steps, past, stepped>>
  BY DEF EarlyStage, FixedDone, vars
<1>2. next' \in Maybe
  BY DEF EarlyStage, FixedDone, vars, MaySet, Maybe, IInv, Types
<1>3. StepsDone'
  BY DEF EarlyStage, FixedDone, vars, IInv, StepsDone
<1> QED
  BY <1>1, <1>2, <1>3 DEF IInv, Types, Machine, FlagsTell, Before, TimeKept, Asked,
                          machine, flags, timing, counting

LEMMA NextIInv == IInv /\ [Next]_vars => IInv'
BY BeginFrameStep, ApplyStep, FixedStepStep, LateStageStep, OtherStep DEF Next

LEMMA Invariance == Spec => []IInv
BY InitIInv, NextIInv, PTL DEF Spec

-----------------------------------------------------------------------------
(* The theorems.                                                           *)

\* Whatever the states and whoever asks when: the flags tell how the state of a
\* frame differs from that of the frame before.
THEOREM TransitionsAreTold == Spec => []FlagsTell
<1>1. IInv => FlagsTell
  BY DEF IInv
<1> QED
  BY <1>1, Invariance, PTL

\* For any length of a step and of frames: time is kept but for what is beyond the
\* steps a frame may run, and of that all is discarded.
THEOREM NoTimeIsLost == Spec => []TimeKept
<1>1. IInv => TimeKept
  BY DEF IInv
<1> QED
  BY <1>1, Invariance, PTL

\* A counted system gets its runs.
THEOREM CountedSystemsRun == Spec => []CountedRuns
<1>1. IInv => CountedRuns
  BY DEF IInv, Asked, CountedRuns
<1> QED
  BY <1>1, Invariance, PTL
-----------------------------------------------------------------------------
(***************************************************************************)
(* SpawnBlocks, for any set of systems and any sizes: a spike stays in its *)
(* block, overflows are counted, and an exhausted block grows.             *)
(***************************************************************************)

BlockTypes ==
  /\ history \in [Systems -> Nat \cup {Never}]
  /\ stage \in {"between", "running"}
  /\ size \in [Systems -> Nat] /\ cursor \in [Systems -> Nat]
  /\ overflowed \in [Systems -> BOOLEAN]
  /\ overflows \in Nat /\ fell \in Nat
  /\ spawned \in [Systems -> Nat] /\ shared \in [Systems -> Nat]

Overflowed == {s \in Systems : size[s] > 0 /\ overflowed[s]}

\* While a stage runs, a block has the size its history says; a system that got
\* nothing from the shared allocator has drawn all it asked for from the block;
\* and a block is marked once its system has fallen through it.
BlocksInUse ==
  stage = "running" =>
    \A s \in Systems :
      /\ size[s] = SeedSize(history[s])
      /\ shared[s] = 0 => cursor[s] = spawned[s]
      /\ overflowed[s] <=> size[s] > 0 /\ shared[s] > 0
      /\ history[s] > 0 /\ spawned[s] <= 3 * history[s] => shared[s] = 0

\* What has fallen through is what was counted and what is about to be.
Counted == fell = overflows + IF stage = "running" THEN Cardinality(Overflowed) ELSE 0

BlockInv == BlockTypes /\ BlocksInUse /\ Counted

-----------------------------------------------------------------------------
(* Sizes.                                                                  *)

\* A block is a number; a system that used ids gets at least three times as
\* many, and one that has a block at all gets more than the block without its
\* escrow.
LEMMA Sizes ==
  ASSUME NEW used \in Nat \cup {Never}
  PROVE  /\ BlockSize(used) \in Nat /\ SeedSize(used) \in Nat
         /\ used > 0 => SeedSize(used) >= 3 * used
         /\ SeedSize(used) > 0 => SeedSize(used) > BlockSize(used)
         /\ used > 0 => BlockSize(used) >= 2 * used
<1>1. BlockSize(used) \in Nat /\ (used > 0 => BlockSize(used) >= 2 * used)
  <2>1. CASE used = Never
    BY <2>1, BlockAssumption DEF BlockSize, Never
  <2>2. CASE used = 0
    BY <2>2 DEF BlockSize, Never
  <2>3. CASE used \in Nat /\ used # 0
    <3>1. BlockSize(used) = AtLeast(2 * used, Floor)
      BY <2>3 DEF BlockSize, Never
    <3> QED
      BY <2>3, <3>1, BlockAssumption DEF AtLeast
  <2> QED
    BY <2>1, <2>2, <2>3
<1> DEFINE B == BlockSize(used)
<1>2. B \div 2 \in Nat /\ 2 * (B \div 2) >= B - 1
  BY <1>1
<1>3. AtLeast(B \div 2, EscrowFloor) \in Nat
      /\ AtLeast(B \div 2, EscrowFloor) >= B \div 2
      /\ AtLeast(B \div 2, EscrowFloor) > 0
  BY <1>2, BlockAssumption DEF AtLeast
<1>4. SeedSize(used) = IF B = 0 THEN 0 ELSE B + AtLeast(B \div 2, EscrowFloor)
  BY DEF SeedSize
<1> HIDE DEF B
<1>5. B \in Nat /\ (used > 0 => B >= 2 * used)
  BY <1>1 DEF B
<1>6. ASSUME used > 0 PROVE B \div 2 >= used
  BY <1>2, <1>5, <1>6 DEF Never
<1> QED
  BY <1>1, <1>3, <1>4, <1>5, <1>6 DEF B, Never

LEMMA OverflowedFinite ==
  IsFiniteSet(Overflowed) /\ Cardinality(Overflowed) \in Nat
BY BlockAssumption, FS_Subset, FS_CardinalityType DEF Overflowed

-----------------------------------------------------------------------------
(* The invariant.                                                          *)

LEMMA InitBlockInv == InitBlocks => BlockInv
BY DEF InitBlocks, BlockInv, BlockTypes, BlocksInUse, Counted, Never

LEMMA SeedStep ==
  ASSUME BlockInv, NEW on \in SUBSET Systems, Seed(on)
  PROVE  BlockInv'
<1>1. \A s \in Systems : SeedSize(history[s]) \in Nat
  BY Sizes DEF BlockInv, BlockTypes
<1>2. BlockTypes'
  BY <1>1 DEF BlockInv, BlockTypes, Seed
<1>3. BlocksInUse'
  BY DEF BlockInv, BlocksInUse, Seed, BlockTypes
<1>4. Overflowed' = {}
  BY DEF Seed, Overflowed
<1>5. Counted'
  BY <1>4, FS_EmptySet DEF BlockInv, Counted, Seed, BlockTypes
<1> QED
  BY <1>2, <1>3, <1>5 DEF BlockInv

\* Drawing from the block: single ids and batches differ only in how far the
\* cursor moves.
LEMMA DrawStep ==
  ASSUME BlockInv, NEW s \in Systems, NEW n \in Nat \ {0},
         stage = "running", Ask(s, n),
         cursor[s] + n <= size[s], cursor' = [cursor EXCEPT ![s] = @ + n], FromBlock,
         UNCHANGED <<history, stage, enabled, size, overflows, round>>
  PROVE  BlockInv'
<1>1. BlockTypes'
  BY DEF BlockInv, BlockTypes, Ask, FromBlock
<1>2. BlocksInUse'
  BY DEF BlockInv, BlockTypes, BlocksInUse, Ask, FromBlock, Never
<1>3. Counted'
  BY DEF BlockInv, Counted, Overflowed, FromBlock
<1> QED
  BY <1>1, <1>2, <1>3 DEF BlockInv

\* Falling through: no more than the block holds was asked for before, so a
\* spike within the margin never comes here.
LEMMA FallStep ==
  ASSUME BlockInv, NEW s \in Systems, NEW n \in Nat \ {0},
         stage = "running", Ask(s, n),
         cursor[s] + n > size[s], cursor' \in [Systems -> Nat],
         \A t \in Systems \ {s} : cursor'[t] = cursor[t],
         FromShared(s, n),
         UNCHANGED <<history, stage, enabled, size, overflows, round>>
  PROVE  BlockInv'
<1>1. BlockTypes'
  BY DEF BlockInv, BlockTypes, Ask, FromShared
<1>2. shared'[s] > 0 /\ shared'[s] = shared[s] + n /\ spawned'[s] = spawned[s] + n
  BY DEF BlockInv, BlockTypes, Ask, FromShared
<1>3. BlocksInUse'
  <2> SUFFICES ASSUME NEW t \in Systems
               PROVE  /\ size'[t] = SeedSize(history'[t])
                      /\ shared'[t] = 0 => cursor'[t] = spawned'[t]
                      /\ overflowed'[t] <=> size'[t] > 0 /\ shared'[t] > 0
                      /\ history'[t] > 0 /\ spawned'[t] <= 3 * history'[t] => shared'[t] = 0
    BY DEF BlocksInUse, SeedSize, BlockSize, AtLeast
  <2>1. CASE t # s
    BY <2>1 DEF BlockInv, BlockTypes, BlocksInUse, Ask, FromShared
  <2>2. CASE t = s
    <3>1. size'[s] = SeedSize(history'[s])
      BY DEF BlockInv, BlocksInUse
    <3>2. overflowed'[s] <=> size'[s] > 0 /\ shared'[s] > 0
      BY <1>2 DEF BlockInv, BlockTypes, FromShared
    <3>3. ~(history'[s] > 0 /\ spawned'[s] <= 3 * history'[s])
      <4> SUFFICES ASSUME history[s] > 0, spawned[s] + n <= 3 * history[s]
                   PROVE  FALSE
        BY <1>2
      <4>1. history[s] \in Nat /\ spawned[s] \in Nat /\ cursor[s] \in Nat /\ size[s] \in Nat
        BY DEF BlockInv, BlockTypes, Never
      <4>2. shared[s] = 0 /\ cursor[s] = spawned[s]
        BY <4>1 DEF BlockInv, BlocksInUse
      <4>3. size[s] >= 3 * history[s]
        BY <4>1, Sizes DEF BlockInv, BlocksInUse
      <4> QED
        BY <4>1, <4>2, <4>3
    <3> QED
      BY <2>2, <1>2, <3>1, <3>2, <3>3
  <2> QED
    BY <2>1, <2>2
<1>4. Counted'
  <2>1. CASE size[s] > 0 /\ shared[s] = 0
    <3>1. s \notin Overflowed
      BY <2>1 DEF BlockInv, BlocksInUse, Overflowed, BlockTypes
    <3>2. Overflowed' = Overflowed \cup {s}
      BY <2>1 DEF Overflowed, FromShared, BlockInv, BlockTypes
    <3>3. Cardinality(Overflowed') = Cardinality(Overflowed) + 1
      BY <3>1, <3>2, OverflowedFinite, FS_AddElement
    <3>4. fell' = fell + 1
      BY <2>1 DEF FromShared
    <3> QED
      BY <3>3, <3>4, OverflowedFinite DEF BlockInv, Counted, BlockTypes
  <2>2. CASE ~(size[s] > 0 /\ shared[s] = 0)
    <3>1. Overflowed' = Overflowed
      BY <2>2 DEF Overflowed, FromShared, BlockInv, BlockTypes, BlocksInUse
    <3>2. fell' = fell
      BY <2>2 DEF FromShared
    <3> QED
      BY <3>1, <3>2 DEF BlockInv, Counted
  <2> QED
    BY <2>1, <2>2
<1> QED
  BY <1>1, <1>3, <1>4 DEF BlockInv

LEMMA ReserveStep ==
  ASSUME BlockInv, NEW s \in Systems, Reserve(s)
  PROVE  BlockInv'
<1>1. cursor \in [Systems -> Nat] /\ size \in [Systems -> Nat]
  BY DEF BlockInv, BlockTypes
<1>2. CASE cursor[s] < size[s]
  <2>1. cursor[s] + 1 <= size[s] /\ cursor' = [cursor EXCEPT ![s] = @ + 1]
    BY <1>1, <1>2 DEF Reserve
  <2>2. stage = "running" /\ Ask(s, 1) /\ FromBlock
        /\ UNCHANGED <<history, stage, enabled, size, overflows, round>>
    BY <1>2 DEF Reserve, Runs
  <2>3. 1 \in Nat \ {0}
    OBVIOUS
  <2> QED
    BY <2>1, <2>2, <2>3, DrawStep
<1>3. CASE ~(cursor[s] < size[s])
  <2>1. /\ cursor[s] + 1 > size[s] /\ cursor' \in [Systems -> Nat]
        /\ \A t \in Systems \ {s} : cursor'[t] = cursor[t]
    BY <1>1, <1>3 DEF Reserve
  <2> QED
    BY <1>3, <2>1, FallStep DEF Reserve, Runs
<1> QED
  BY <1>2, <1>3

LEMMA ReserveBatchStep ==
  ASSUME BlockInv, NEW s \in Systems, NEW n \in 1 .. MaxSpawned, ReserveBatch(s, n)
  PROVE  BlockInv'
<1>1. cursor \in [Systems -> Nat] /\ size \in [Systems -> Nat] /\ n \in Nat \ {0}
  BY BlockAssumption DEF BlockInv, BlockTypes
<1>2. CASE cursor[s] + n <= size[s]
  BY <1>1, <1>2, DrawStep DEF ReserveBatch, Runs
<1>3. CASE ~(cursor[s] + n <= size[s])
  <2>1. /\ cursor[s] + n > size[s] /\ cursor' \in [Systems -> Nat]
        /\ \A t \in Systems \ {s} : cursor'[t] = cursor[t]
    BY <1>1, <1>3 DEF ReserveBatch
  <2> QED
    BY <1>1, <1>3, <2>1, FallStep DEF ReserveBatch, Runs
<1> QED
  BY <1>2, <1>3

LEMMA CommitStep ==
  ASSUME BlockInv, Commit
  PROVE  BlockInv'
<1>1. BlockTypes'
  BY OverflowedFinite DEF BlockInv, BlockTypes, Commit, Used, cursorVars, ghostVars, Seeded, Overflowed
<1>2. {s \in Seeded : overflowed[s]} = Overflowed
  BY DEF Seeded, Overflowed
<1>3. Counted'
  BY <1>2, OverflowedFinite DEF BlockInv, Counted, Commit, ghostVars, BlockTypes
<1> QED
  BY <1>1, <1>3 DEF BlockInv, BlocksInUse, Commit

LEMMA NextBlockInv == BlockInv /\ [NextBlocks]_blockVars => BlockInv'
<1> SUFFICES ASSUME BlockInv, [NextBlocks]_blockVars PROVE BlockInv'
  OBVIOUS
<1>1. CASE UNCHANGED blockVars
  BY <1>1 DEF blockVars, cursorVars, ghostVars, BlockInv, BlockTypes, BlocksInUse, Counted, Overflowed
<1>2. CASE \E on \in SUBSET Systems : Seed(on)
  BY <1>2, SeedStep
<1>3. CASE \E s \in Systems : Reserve(s) \/ \E n \in 1 .. MaxSpawned : ReserveBatch(s, n)
  BY <1>3, ReserveStep, ReserveBatchStep
<1>4. CASE Commit
  BY <1>4, CommitStep
<1> QED
  BY <1>1, <1>2, <1>3, <1>4 DEF NextBlocks

LEMMA BlockInvariance == SpecBlocks => []BlockInv
BY InitBlockInv, NextBlockInv, PTL DEF SpecBlocks

-----------------------------------------------------------------------------
(* The theorems.                                                           *)

\* However many systems there are and whatever the block sizes: a spike of up to
\* three times the last use never reaches the shared allocator.
THEOREM SpikesStayDeterministic == SpecBlocks => []SpikeWithinMargin
<1>1. BlockInv => SpikeWithinMargin
  BY DEF BlockInv, BlocksInUse, SpikeWithinMargin
<1> QED
  BY <1>1, BlockInvariance, PTL

\* Between the stages, the telemetry has counted every system that fell through
\* its block, once for each stage.
THEOREM OverflowsAreCounted == SpecBlocks => []OverflowsCounted
<1>1. BlockInv => OverflowsCounted
  BY DEF BlockInv, Counted, OverflowsCounted, BlockTypes
<1> QED
  BY <1>1, BlockInvariance, PTL

\* A block that was drawn to its end and overflowed is larger the next time.
THEOREM ExhaustedBlocksGrow == SpecBlocks => ExhaustedGrows
<1> DEFINE Step == stage = "running" /\ stage' = "between" =>
                     \A s \in Systems : overflowed[s] /\ cursor[s] >= size[s] => Grows(s)
<1>1. BlockInv /\ [NextBlocks]_blockVars => [Step]_blockVars
  <2> SUFFICES ASSUME BlockInv, NextBlocks, stage = "running", stage' = "between",
                      NEW s \in Systems, overflowed[s], cursor[s] >= size[s]
               PROVE  Grows(s)
    OBVIOUS
  <2>1. Commit
    BY DEF NextBlocks, Seed, Reserve, ReserveBatch
  <2>2. /\ size[s] \in Nat /\ cursor[s] \in Nat /\ size[s] > 0
        /\ size[s] = SeedSize(history[s]) /\ history[s] \in Nat \cup {Never}
    BY DEF BlockInv, BlockTypes, BlocksInUse
  <2>3. history'[s] = size[s]
    BY <2>1, <2>2 DEF Commit, Seeded, Used
  <2>4. size[s] > BlockSize(history[s]) /\ BlockSize(history[s]) \in Nat
    BY <2>2, Sizes
  <2>5. BlockSize(size[s]) >= 2 * size[s] /\ BlockSize(size[s]) \in Nat
    BY <2>2, Sizes
  <2> QED
    BY <2>2, <2>3, <2>4, <2>5 DEF Grows
<1> QED
  BY <1>1, BlockInvariance, PTL DEF SpecBlocks, ExhaustedGrows
=============================================================================
