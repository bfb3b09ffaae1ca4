---------------------------- MODULE SpawnBlocks ----------------------------
(***************************************************************************)
(* The sizing of the deterministic id blocks of apex-scheduler             *)
(* (registration.rs, executor.rs) over the block cursor of apex-core       *)
(* (entity.rs).  Before a stage runs, every system that emits commands is  *)
(* seeded a private block of ids whose size follows what the system used   *)
(* the last time; the system draws ids from it, one by one or in batches;  *)
(* after the stage the use is folded into the history.                     *)
(*                                                                         *)
(* Which ids a block holds is EntityAllocator's business: here an id is    *)
(* either from the block (the same in every run of the program) or from    *)
(* the allocator all systems share (a race).                               *)
(***************************************************************************)
EXTENDS Integers, FiniteSets

CONSTANTS
  Systems,      \* the systems of one stage that use Commands
  InitialSize,  \* INITIAL, 256 in the code: the block of a system never seen
  Floor,        \* FLOOR, 8 in the code
  EscrowFloor,  \* ESCROW_FLOOR, 8 in the code
  MaxSpawned,   \* bound: spawns of one system in one frame
  MaxRounds     \* bound: frames

ASSUME BlockAssumption ==
  /\ InitialSize \in Nat \ {0} /\ Floor \in Nat \ {0} /\ EscrowFloor \in Nat \ {0}
  /\ MaxSpawned \in Nat \ {0} /\ MaxRounds \in Nat \ {0}
  /\ IsFiniteSet(Systems)

Never == -1     \* no entry in system_spawn_history

VARIABLES
  history,     \* system_spawn_history
  stage,       \* "between" the stages or "running"
  enabled,     \* the systems whose run condition held
  size,        \* ids seeded; 0 without a block
  cursor,      \* BlockCursor.next
  overflowed,  \* BlockCursor.overflowed
  overflows,   \* deterministic_overflow_count
  round,       \* frames so far
  spawned,     \* history: ids each system asked for in this frame
  shared,      \* history: those of them the shared allocator gave
  fell         \* history: how often a system fell through its block

cursorVars == <<size, cursor, overflowed>>
ghostVars  == <<spawned, shared, fell>>
blockVars  == <<history, stage, enabled, cursorVars, overflows, round, ghostVars>>

AtLeast(n, low) == IF n < low THEN low ELSE n

BlockSize(used) ==
  CASE used = Never -> InitialSize
    [] used = 0     -> 0
    [] OTHER        -> AtLeast(2 * used, Floor)

\* Wrong on purpose: no escrow behind the block.
SeedWithoutEscrow(used) == BlockSize(used)

SeedSize(used) ==
  LET block == BlockSize(used) IN
  IF block = 0 THEN 0 ELSE block + AtLeast(block \div 2, EscrowFloor)

Seeded == {s \in Systems : size[s] > 0}

\* block_remaining: the cursor of an exhausted block may be past its end.
Used(s) == IF cursor[s] > size[s] THEN size[s] ELSE cursor[s]

-----------------------------------------------------------------------------
\* The conditions of the stage's systems are evaluated once; when all are false
\* the stage is skipped.  Every system that uses Commands is seeded, even one
\* whose condition is false, unless it has no block to get.
Seed(on) ==
  /\ stage = "between" /\ round < MaxRounds
  /\ on # {}
  /\ stage' = "running" /\ enabled' = on /\ round' = round + 1
  /\ size' = [s \in Systems |-> SeedSize(history[s])]
  /\ cursor' = [s \in Systems |-> 0]
  /\ overflowed' = [s \in Systems |-> FALSE]
  /\ spawned' = [s \in Systems |-> 0]
  /\ shared' = [s \in Systems |-> 0]
  /\ UNCHANGED <<history, overflows, fell>>

Runs(s) == stage = "running" /\ s \in enabled

Ask(s, n) ==
  /\ spawned[s] + n <= MaxSpawned
  /\ spawned' = [spawned EXCEPT ![s] = @ + n]

FromBlock == UNCHANGED <<overflowed, shared, fell>>

\* Wrong on purpose: a batch falls through silently.
FromSharedSilentBatch(s, n) ==
  /\ overflowed' = [overflowed EXCEPT ![s] = n = 1 /\ size[s] > 0]
  /\ shared' = [shared EXCEPT ![s] = @ + n]
  /\ fell' = IF size[s] > 0 /\ shared[s] = 0 THEN fell + 1 ELSE fell

FromShared(s, n) ==
  /\ overflowed' = [overflowed EXCEPT ![s] = size[s] > 0]
  /\ shared' = [shared EXCEPT ![s] = @ + n]
  /\ fell' = IF size[s] > 0 /\ shared[s] = 0 THEN fell + 1 ELSE fell

\* reserve: the cursor of a block moves on even past its end.
Reserve(s) ==
  /\ Runs(s) /\ Ask(s, 1)
  /\ cursor' = IF size[s] > 0 THEN [cursor EXCEPT ![s] = @ + 1] ELSE cursor
  /\ IF cursor[s] < size[s] THEN FromBlock ELSE FromShared(s, 1)
  /\ UNCHANGED <<history, stage, enabled, size, overflows, round>>

\* reserve_n: the whole batch from the block, or the whole batch from the
\* shared allocator with the cursor left where it is.
ReserveBatch(s, n) ==
  /\ Runs(s) /\ Ask(s, n)
  /\ IF cursor[s] + n <= size[s]
     THEN cursor' = [cursor EXCEPT ![s] = @ + n] /\ FromBlock
     ELSE UNCHANGED cursor /\ FromShared(s, n)
  /\ UNCHANGED <<history, stage, enabled, size, overflows, round>>

\* Wrong on purpose: the history of a system that overflowed is left alone.
CommitSkipsOverflowed ==
  /\ stage = "running"
  /\ stage' = "between" /\ enabled' = {}
  /\ overflows' = overflows + Cardinality({s \in Seeded : overflowed[s]})
  /\ history' = [s \in Systems |-> IF s \in Seeded /\ ~overflowed[s] THEN Used(s)
                                   ELSE history[s]]
  /\ UNCHANGED <<cursorVars, round, ghostVars>>

\* commit_spawn_history: the telemetry and the history of the seeded systems.
Commit ==
  /\ stage = "running"
  /\ stage' = "between" /\ enabled' = {}
  /\ overflows' = overflows + Cardinality({s \in Seeded : overflowed[s]})
  /\ history' = [s \in Systems |-> IF s \in Seeded THEN Used(s) ELSE history[s]]
  /\ UNCHANGED <<cursorVars, round, ghostVars>>

InitBlocks ==
  /\ history = [s \in Systems |-> Never]
  /\ stage = "between" /\ enabled = {}
  /\ size = [s \in Systems |-> 0] /\ cursor = size
  /\ overflowed = [s \in Systems |-> FALSE]
  /\ overflows = 0 /\ round = 0
  /\ spawned = [s \in Systems |-> 0] /\ shared = spawned /\ fell = 0

NextBlocks ==
  \/ \E on \in SUBSET Systems : Seed(on)
  \/ \E s \in Systems : Reserve(s) \/ \E n \in 1 .. MaxSpawned : ReserveBatch(s, n)
  \/ Commit

SpecBlocks == InitBlocks /\ [][NextBlocks]_blockVars

-----------------------------------------------------------------------------
(* Properties. *)

\* A spike of up to three times what the system used last time, in whatever mix
\* of single spawns and batches, stays deterministic: nothing comes from the
\* shared allocator ("this covers a ~3x peak spike").
SpikeWithinMargin ==
  stage = "running" =>
    \A s \in Systems :
      history[s] > 0 /\ spawned[s] <= 3 * history[s] => shared[s] = 0

\* Every fall through a block is counted, once per system and frame, however
\* many spawns of the frame fell through.
OverflowsCounted == stage = "between" => overflows = fell

\* After an overflow the system's next block is larger ("The block grows next
\* frame").  A batch that does not fit leaves the cursor, and thus the history,
\* behind.
Grows(s) == BlockSize(history'[s]) > BlockSize(history[s])
GrowsAfterOverflow ==
  [][stage = "running" /\ stage' = "between" =>
       \A s \in Systems : overflowed[s] => Grows(s)]_blockVars

\* It does grow after an overflow that came with the block drawn to its end, as
\* it always is for a system that spawns one by one.
ExhaustedGrows ==
  [][stage = "running" /\ stage' = "between" =>
       \A s \in Systems : overflowed[s] /\ cursor[s] >= size[s] => Grows(s)]_blockVars

=============================================================================
