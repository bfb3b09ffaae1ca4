----------------------------- MODULE HandlePool -----------------------------
(***************************************************************************)
(* What the entity allocator promises, with none of its machinery: a       *)
(* handle goes to one holder at a time, becomes live once, and dies for    *)
(* good.  Whether a free index waits in the free list, in the lease, in an *)
(* id block or in the abandon queue, and which thread asked for it, is not *)
(* visible here.                                                           *)
(***************************************************************************)
EXTENDS Integers

CONSTANTS
  Index,   \* entity indices
  MaxGen   \* the last generation

VARIABLES
  status,      \* who has the index: nobody, a holder, the world, or retired
  generation   \* the generation a handle to the index carries now

vars == <<status, generation>>

Status == {"free", "held", "live", "retired"}

Become(S, s) == status' = [i \in Index |-> IF i \in S THEN s ELSE status[i]]

\* A reservation or an allocation hands the indices S out.
Hand(S) ==
  /\ \A i \in S : status[i] = "free"
  /\ Become(S, "held")
  /\ UNCHANGED generation

\* Held handles get a location, or come back unused.
GoLive(S) ==
  /\ \A i \in S : status[i] = "held"
  /\ Become(S, "live")
  /\ UNCHANGED generation

GiveBack(S) ==
  /\ \A i \in S : status[i] = "held"
  /\ Become(S, "free")
  /\ UNCHANGED generation

\* A live handle dies: no handle with its generation is handed out again.
Die(i) ==
  /\ status[i] = "live" /\ generation[i] < MaxGen
  /\ generation' = [generation EXCEPT ![i] = @ + 1]
  /\ Become({i}, IF generation[i] + 1 = MaxGen THEN "retired" ELSE "free")

Init ==
  /\ status = [i \in Index |-> "free"]
  /\ generation = [i \in Index |-> 0]

Next ==
  \/ \E S \in SUBSET Index : Hand(S) \/ GoLive(S) \/ GiveBack(S)
  \/ \E i \in Index : Die(i)

Spec == Init /\ [][Next]_vars
=============================================================================
