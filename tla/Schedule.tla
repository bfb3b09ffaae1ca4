------------------------------ MODULE Schedule ------------------------------
(***************************************************************************)
(* The scheduler: registration of systems, the dependency graph and the    *)
(* stages compile() derives from declared accesses, and the executor that  *)
(* runs the stages (apex-scheduler/src/registration.rs, compile.rs,        *)
(* lib.rs, executor.rs; apex-graph/src/algorithms.rs).                     *)
(*                                                                         *)
(* A system is its name in the catalogue: ids are never reused, so a       *)
(* system that is removed and added again differs from the old one by its  *)
(* place in `systems` only.  What a system does is abstracted to the time  *)
(* it is running; what it may touch is what it declares.                   *)
(***************************************************************************)
EXTENDS Integers, FiniteSets, Sequences, SequencesExt

CONSTANTS
    Catalogue,    \* function from names to what each system declares
    Forward,      \* bound: names an ordering may mention before they exist
    Orders,       \* label orders configure_stages may be given
    EventOrders,  \* values enable_event_ordering may be given
    MaxSystems,   \* bound: systems registered at a time
    MaxOrderings, \* bound: orderings declared at a time
    MaxSteps,     \* bound: FixedUpdate steps in one frame
    LateConflicts,\* may a system be added to a compiled graph whatever it shares?
    Retry         \* may a schedule be compiled again after a missing name?

Names == DOMAIN Catalogue

\* Labels are numbered in their standard order; 7 and above are custom ones.
Startup     == 0
FixedUpdate == 3
Custom      == 7

ASSUME ScheduleAssumption ==
    /\ \A s \in Names :
          /\ Catalogue[s].kind \in {"parallel", "nonsend", "exclusive"}
          /\ Catalogue[s].label \in Nat
          /\ Catalogue[s].whole \in BOOLEAN
          /\ Catalogue[s].splits \in BOOLEAN
          /\ Catalogue[s].deferred \in BOOLEAN
    /\ "barrier" \notin Names
    /\ \A o \in Orders : o \in Seq(Nat)
    /\ EventOrders \subseteq BOOLEAN
    /\ MaxSystems \in Nat /\ MaxOrderings \in Nat /\ MaxSteps \in Nat
    /\ LateConflicts \in BOOLEAN /\ Retry \in BOOLEAN

VARIABLES
    systems,      \* registered systems, in registration order
    explicit,     \* orderings in force, <<a, b>>: a before b
    pending,      \* orderings declared by name and not resolved yet
    declared,     \* history: every ordering asked for between live systems
    eventOrdering,
    stageOrder,   \* configured order of labels, <<>> for the standard one
    nodes, edges, \* the dependency graph, kept from one compile to the next
    dirty,
    plan,         \* compiled stages, if there is a plan
    outcome,      \* of the last compile: "none", "ok", "cycle", "missing"
    startupDone,
    schedule, at, \* stages of this frame and where it is; at = 0: no frame
    enabled,      \* systems of the open stage whose conditions held
    mode,         \* "closed", "sequential" or "parallel"
    running, done,
    passed        \* times each system's stage has let go of it this frame

registry == <<systems, explicit, pending, declared, eventOrdering, stageOrder>>
compiled == <<nodes, edges, dirty, plan, outcome>>
frame    == <<startupDone, schedule, at, enabled, mode, running, done, passed>>
vars     == <<registry, compiled, frame>>

Barrier == "barrier"
Registered == ToSet(systems)
Idle == at = 0
HasPlan == outcome = "ok" /\ ~dirty

Init ==
    /\ systems = <<>> /\ explicit = {} /\ pending = <<>> /\ declared = {}
    /\ eventOrdering = TRUE /\ stageOrder = <<>>
    /\ nodes = {} /\ edges = {} /\ dirty = FALSE /\ plan = <<>> /\ outcome = "none"
    /\ startupDone = FALSE /\ schedule = <<>> /\ at = 0
    /\ enabled = {} /\ mode = "closed" /\ running = {} /\ done = {}
    /\ passed = [s \in Names |-> 0]

\* The elements of a sequence that are in S, in their order: SelectSeq with its
\* recursion written as a function.
Among(seq, S) ==
    LET chosen[n \in 0..Len(seq)] ==
            IF n = 0 THEN <<>>
            ELSE IF seq[n] \in S THEN Append(chosen[n - 1], seq[n]) ELSE chosen[n - 1]
    IN  chosen[Len(seq)]

-----------------------------------------------------------------------------
(* What two declarations share.                                            *)

Declares(s) == Catalogue[s].kind # "exclusive"

Touches(s) ==
    LET c == Catalogue[s]
    IN c.whole \/ c.reads \cup c.writes \cup c.emits \cup c.listens # {}

Writes(a, b)  == Catalogue[a].writes \cap Catalogue[b].writes # {}
Feeds(a, b)   == Catalogue[a].writes \cap Catalogue[b].reads # {}
Emits(a, b)   == Catalogue[a].emits \cap Catalogue[b].emits # {}
Sends(a, b)   == Catalogue[a].emits \cap Catalogue[b].listens # {}
Listens(a, b) == Catalogue[a].listens \cap Catalogue[b].listens # {}

WholeWorld(a, b) ==
    /\ Catalogue[a].whole \/ Catalogue[b].whole
    /\ Touches(a) /\ Touches(b)

\* Wrong on purpose: the listener goes before the sender.
ChecksListenerFirst(a, b) ==
    << <<WholeWorld(a, b) \/ Writes(a, b),    "write write">>,
       <<Feeds(a, b) /\ Feeds(b, a),          "both ways">>,
       <<Feeds(a, b),                         "forward">>,
       <<Feeds(b, a),                         "backward">>,
       <<eventOrdering /\ Emits(a, b),        "emit emit">>,
       <<eventOrdering /\ Sends(b, a),        "forward">>,
       <<eventOrdering /\ Sends(a, b),        "backward">>,
       <<Listens(a, b),                       "listen listen">> >>

\* The checks in the order the code makes them; the first that holds decides.
Checks(a, b) ==
    << <<WholeWorld(a, b) \/ Writes(a, b),    "write write">>,
       <<Feeds(a, b) /\ Feeds(b, a),          "both ways">>,
       <<Feeds(a, b),                         "forward">>,
       <<Feeds(b, a),                         "backward">>,
       <<eventOrdering /\ Emits(a, b),        "emit emit">>,
       <<eventOrdering /\ Sends(a, b),        "forward">>,
       <<eventOrdering /\ Sends(b, a),        "backward">>,
       <<Listens(a, b),                       "listen listen">> >>

Conflict(a, b) ==
    LET checks  == Checks(a, b)
        holding == {n \in DOMAIN checks : checks[n][1]}
    IN  IF holding = {} THEN "none" ELSE checks[Min(holding)][2]

\* Wrong on purpose: what the documents say of two listeners.
SymmetricButListeners == {"write write", "emit emit"}

Symmetric == {"write write", "emit emit", "listen listen"}

-----------------------------------------------------------------------------
(* Registration.                                                           *)

\* invalidate_plan
Invalidate == plan' = <<>> /\ dirty' = TRUE

\* A symmetric conflict with a system compiled earlier gets no edge when a
\* system joins a graph that is already built; LateConflicts lets it happen.
MayJoin(s) ==
    \/ LateConflicts
    \/ nodes = {}
    \/ ~Declares(s)
    \/ \A t \in Registered :
          Declares(t) => Conflict(t, s) \notin Symmetric \cup {"both ways"}

\* push_descriptor, register_system_config
Register(s) ==
    /\ Idle /\ s \notin Registered /\ Len(systems) < MaxSystems
    /\ MayJoin(s)
    /\ systems' = Append(systems, s)
    /\ Invalidate
    /\ UNCHANGED <<explicit, pending, declared, eventOrdering, stageOrder,
                   nodes, edges, outcome, frame>>

\* compile() adds the orderings of new systems only, when there are new ones,
\* and never takes an edge back; LateConflicts lets orderings come too late.
MayOrder(a, b) ==
    /\ Idle /\ a # b
    /\ LateConflicts \/ nodes = {} \/ b \notin nodes
    /\ <<a, b>> \notin declared /\ Cardinality(declared) < MaxOrderings

\* before() and after() between registered systems (add_dependency)
Order(a, b) ==
    /\ MayOrder(a, b)
    /\ explicit' = explicit \cup {<<a, b>>}
    /\ declared' = declared \cup {<<a, b>>}
    /\ Invalidate
    /\ UNCHANGED <<systems, pending, eventOrdering, stageOrder,
                   nodes, edges, outcome, frame>>

\* .before()/.after() in the configuration of a system just registered, the
\* owner: a name, which the next compile looks up, whether or not it is registered
\* now.
Declare(owner, a, b) ==
    /\ owner \notin nodes
    /\ MayOrder(a, b)
    /\ pending' = Append(pending, [pair |-> <<a, b>>, owner |-> owner])
    /\ declared' = declared \cup {<<a, b>>}
    /\ Invalidate
    /\ UNCHANGED <<systems, explicit, eventOrdering, stageOrder,
                   nodes, edges, outcome, frame>>

Without(pairs, s) == {p \in pairs : p[1] # s /\ p[2] # s}
PairsOf(decls)    == {d.pair : d \in ToSet(decls)}

\* remove_system: the graph is rebuilt from nothing by the next compile
RemoveSystem(s) ==
    LET kept == Among(pending, {d \in ToSet(pending) : d.owner # s})
    IN  /\ Idle /\ s \in Registered
        /\ systems' = RemoveFirst(systems, s)
        /\ explicit' = Without(explicit, s)
        /\ pending' = kept
        /\ declared' = Without(declared, s) \cup PairsOf(kept)
        /\ nodes' = {} /\ edges' = {}
        /\ Invalidate
        /\ UNCHANGED <<eventOrdering, stageOrder, outcome, frame>>

ConfigureStages(order) ==
    /\ Idle
    /\ stageOrder # order
    /\ stageOrder' = order
    /\ Invalidate
    /\ UNCHANGED <<systems, explicit, pending, declared, eventOrdering,
                   nodes, edges, outcome, frame>>

EnableEventOrdering(b) ==
    /\ Idle
    /\ eventOrdering' = b
    /\ Invalidate
    /\ UNCHANGED <<systems, explicit, pending, declared, stageOrder,
                   nodes, edges, outcome, frame>>

-----------------------------------------------------------------------------
(* Compiling: the graph.                                                   *)

\* Declarations that mention a name nobody has registered.
Unknown == {i \in DOMAIN pending : ~(ToSet(pending[i].pair) \subseteq Registered)}
\* Wrong on purpose: the last of the list is left out.
ResolvedButLast ==
    explicit \cup PairsOf(IF pending = <<>> THEN <<>> ELSE Front(pending))

\* resolve_pending_orderings: up to the first unknown name; the list is emptied
\* in any case.
Resolved ==
    explicit \cup PairsOf(IF Unknown = {} THEN pending
                          ELSE SubSeq(pending, 1, Min(Unknown) - 1))

\* has_path: a leads to b along edges of E.  Whatever set holds a and not b, an
\* edge leaves it.
HasPath(E, a, b) ==
    \/ a = b
    \/ \A S \in SUBSET ({e[2] : e \in E} \ {a, b}) :
          \E e \in E : e[1] \in S \cup {a} /\ e[2] \notin S \cup {a}

\* The systems whose edges this compile adds: the new ones, or all if none is.
Processed ==
    LET new == Registered \ nodes IN IF new = {} THEN Registered ELSE new

ExplicitEdges(order) == {e \in order : e[2] \in Processed}

\* The barrier after the declared systems and before the exclusive ones, except
\* where an explicit ordering already leads the other way.
WithBarrier(E) ==
    LET declaring == {s \in Registered : Declares(s)}
        exclusive == Registered \ declaring
        into      == E \cup {<<s, Barrier>> : s \in declaring}
    IN  IF declaring = {} \/ exclusive = {} THEN E
        ELSE into \cup {<<Barrier, s>> : s \in {x \in exclusive : ~HasPath(into, x, Barrier)}}

\* Wrong on purpose: no edge of the graph stops the edge of a conflict.
ConflictEdgesBlind(E, order, i, j) ==
    LET a == systems[i]
        b == systems[j]
        kind == Conflict(a, b)
        compared == i < j /\ a \in Processed /\ Declares(a) /\ Declares(b)
    IN  IF ~compared \/ kind = "none" THEN {}
        ELSE IF kind = "backward" THEN {<<b, a>>} ELSE {<<a, b>>}

\* The edges that comparing the i-th with the j-th system adds: the i-th is one
\* that is processed.
ConflictEdges(E, order, i, j) ==
    LET a == systems[i]
        b == systems[j]
        kind == Conflict(a, b)
        ordered(x, y) == <<x, y>> \in order
        forward  == <<a, b>>
        backward == <<b, a>>
        compared == i # j /\ a \in Processed /\ Declares(a) /\ Declares(b)
    IN  { e \in (IF compared THEN {forward, backward} ELSE {}) :
            \/ /\ kind = "both ways" /\ i < j
               /\ ~ordered(e[2], e[1])
            \/ /\ kind \in Symmetric /\ i < j /\ e = forward
               /\ ~ordered(a, b) /\ ~ordered(b, a)
            \/ /\ kind = "forward" /\ e = forward
               /\ ~HasPath(E, b, a)
            \/ /\ kind = "backward" /\ j < i /\ e = backward
               /\ ~HasPath(E, a, b) }

\* add_new_nodes_and_edges: every system against every other, in registration
\* order.
NewEdges(order) ==
    LET n == Len(systems)
        after[k \in 0..(n * n)] ==
            IF k = 0 THEN WithBarrier(Without(edges, Barrier) \cup ExplicitEdges(order))
            ELSE LET E == after[k - 1]
                 IN  E \cup ConflictEdges(E, order, ((k - 1) \div n) + 1, ((k - 1) % n) + 1)
    IN  after[n * n]

Cyclic(E) == \E e \in E : HasPath(E, e[2], e[1])

-----------------------------------------------------------------------------
(* Compiling: the stages.                                                  *)

\* parallel_levels: one more than the highest level of a predecessor
LevelIn(E) ==
    LET level[s \in Registered \cup {Barrier}] ==
            1 + Max({0} \cup {level[e[1]] : e \in {x \in E : x[2] = s}})
    IN  level

Label(s) == Catalogue[s].label
Priority(label) == IF label < Custom THEN label ELSE Custom

\* Is a stage of label x at level k placed before one of label y at level m?
\* In a configured order labels come one after another, those it does not list
\* last; in the standard order the custom labels take turns, level by level.
PlacedBefore(x, k, y, m) ==
    LET place(l) == SelectInSeq(stageOrder, LAMBDA z : z = l)
        rank(l, n) == IF stageOrder = <<>> THEN <<Priority(l), n, l>>
                      ELSE IF place(l) > 0 THEN <<0, place(l), n>>
                      ELSE <<1, l, n>>
        p == rank(x, k)
        q == rank(y, m)
    IN  \E i \in 1..3 : p[i] < q[i] /\ \A j \in 1..(i - 1) : p[j] = q[j]

\* split_at_apply_boundaries
CutAfter(order, ids, i) ==
    \/ Catalogue[ids[i]].splits
    \/ Catalogue[ids[i]].deferred /\ <<ids[i], ids[i + 1]>> \in order

\* Wrong on purpose: what comes after the last cut is lost.
SplitWithoutTail(order, ids) ==
    LET cuts == {i \in 1..(Len(ids) - 1) : CutAfter(order, ids, i)}
    IN  IF cuts = {} THEN <<ids>> ELSE <<SubSeq(ids, 1, Max(cuts))>>

Split(order, ids) ==
    LET cuts   == {i \in 2..Len(ids) : CutAfter(order, ids, i - 1)}
        starts == Among([i \in DOMAIN ids |-> i], {1} \cup cuts)
        end(i) == Min({Len(ids)} \cup {j - 1 : j \in {k \in cuts : k > i}})
    IN  [n \in DOMAIN starts |-> SubSeq(ids, starts[n], end(starts[n]))]

Stage(ids) ==
    [label |-> Label(ids[1]), systems |-> ids,
     parallel |-> \A i \in DOMAIN ids : Declares(ids[i])]

\* The stages, with the systems of a level in the order of `sorted`.
Stages(E, order, sorted) ==
    LET level == LevelIn(E)
        groups == {<<Label(s), level[s]>> : s \in Registered}
        before(g) == {h \in groups : PlacedBefore(h[1], h[2], g[1], g[2])}
        group(n) == CHOOSE g \in groups : Cardinality(before(g)) = n - 1
        members(g) == Among(sorted, {s \in Registered : Label(s) = g[1] /\ level[s] = g[2]})
        stagesOf(g) == LET parts == Split(order, members(g))
                       IN  [n \in DOMAIN parts |-> Stage(parts[n])]
    IN  FlattenSeq([n \in 1..Cardinality(groups) |-> stagesOf(group(n))])

\* compile.  The sort breaks ties by the history of the graph's slots and edge
\* lists; any order of the systems of a level stands for it.
Compile ==
    /\ Idle
    /\ ~HasPlan
    /\ Retry \/ outcome # "missing"
    /\ pending' = <<>>
    /\ explicit' = Resolved
    /\ IF dirty /\ Unknown # {}
       THEN /\ outcome' = "missing"
            /\ UNCHANGED <<nodes, edges, dirty, plan>>
       ELSE LET E == IF dirty THEN NewEdges(Resolved) ELSE edges
            IN  /\ edges' = E
                /\ nodes' = Registered
                /\ dirty' = FALSE
                /\ IF Cyclic(E)
                   THEN outcome' = "cycle" /\ UNCHANGED plan
                   ELSE /\ outcome' = "ok"
                        /\ \E sorted \in SetToSeqs(Registered) :
                              plan' = Stages(E, Resolved, sorted)
    /\ UNCHANGED <<systems, declared, eventOrdering, stageOrder, frame>>

-----------------------------------------------------------------------------
(* Running a frame.                                                        *)

\* Wrong on purpose: each FixedUpdate stage catches up before the next begins.
FrameStageByStage(steps) ==
    LET times(i) == IF plan[i].label = FixedUpdate THEN steps ELSE 1
    IN  FlattenSeq([i \in DOMAIN plan |-> [n \in 1..times(i) |-> i]])

\* The stages of the frame in order: the block of FixedUpdate stages `steps`
\* times over, every other one once.
Frame(steps) ==
    LET fixed  == {i \in DOMAIN plan : plan[i].label = FixedUpdate}
        block  == Among([i \in DOMAIN plan |-> i], fixed)
        from   == IF fixed = {} THEN Len(plan) + 1 ELSE Min(fixed)
        before == [i \in 1..(from - 1) |-> i]
        after  == [i \in 1..(Len(plan) - Len(before) - Len(block)) |->
                      i + Len(before) + Len(block)]
    IN  before \o FlattenSeq([n \in 1..steps |-> block]) \o after

\* run: the schedule of the frame is laid out before its first stage.  FixedTime
\* decides the number of steps.
BeginFrame(steps) ==
    /\ Idle /\ HasPlan /\ plan # <<>>
    /\ schedule' = Frame(steps)
    /\ at' = 1
    /\ passed' = [s \in Names |-> 0]
    /\ UNCHANGED <<registry, compiled, startupDone, enabled, mode, running, done>>

InFrame == ~Idle /\ at <= Len(schedule)
Open    == plan[schedule[at]]
Members == ToSet(Open.systems)

LeaveStage ==
    /\ at' = at + 1
    /\ passed' = [s \in Names |-> IF s \in Members THEN passed[s] + 1 ELSE passed[s]]

\* Startup has run in an earlier frame, or no condition of the stage holds.
SkipStage ==
    /\ InFrame /\ mode = "closed"
    /\ LeaveStage
    /\ UNCHANGED <<registry, compiled, startupDone, schedule, enabled, mode,
                   running, done>>

\* Conditions are evaluated once, before any system runs.  A stage that may run
\* in parallel may also be run in sequence (the cost model decides).
OpenStage(holding, how) ==
    /\ InFrame /\ mode = "closed"
    /\ ~(Open.label = Startup /\ startupDone)
    /\ enabled' = holding /\ holding # {}
    /\ how = "sequential" \/ Open.parallel
    /\ mode' = how
    /\ UNCHANGED <<registry, compiled, startupDone, schedule, at, running, done, passed>>

Place(s) == SelectInSeq(Open.systems, LAMBDA t : t = s)
Earlier(s, group) == {t \in group : Place(t) < Place(s)}

\* Whose turn is it?  In sequence one after another; in parallel a main-thread
\* system after the earlier ones of its kind, any other at any time.  (Systems
\* without entities of their own run before the workers of their stage, one by
\* one: some of the orders allowed here.)
MayStart(s) ==
    \/ mode = "sequential" /\ Earlier(s, enabled) \subseteq done
    \/ /\ mode = "parallel"
       /\ Catalogue[s].kind = "nonsend" =>
             Earlier(s, {t \in enabled : Catalogue[t].kind = "nonsend"}) \subseteq done

Start(s) ==
    /\ InFrame /\ s \in enabled \ (running \cup done)
    /\ MayStart(s)
    /\ running' = running \cup {s}
    /\ UNCHANGED <<registry, compiled, startupDone, schedule, at, enabled, mode,
                   done, passed>>

Finish(s) ==
    /\ s \in running
    /\ running' = running \ {s}
    /\ done' = done \cup {s}
    /\ UNCHANGED <<registry, compiled, startupDone, schedule, at, enabled, mode,
                   passed>>

\* All have run: commands are applied, events flushed, windows moved.
CloseStage ==
    /\ InFrame /\ mode # "closed" /\ done = enabled
    /\ enabled' = {} /\ done' = {} /\ mode' = "closed"
    /\ LeaveStage
    /\ UNCHANGED <<registry, compiled, startupDone, schedule, running>>

EndFrame ==
    /\ ~Idle /\ at > Len(schedule)
    /\ at' = 0 /\ schedule' = <<>>
    /\ startupDone' = TRUE
    /\ passed' = [s \in Names |-> 0]
    /\ UNCHANGED <<registry, compiled, enabled, mode, running, done>>

Next ==
    \/ \E s \in Names : Register(s)
    \/ Idle /\ \E a, b \in Registered : Order(a, b)
    \/ /\ Idle /\ systems # <<>>
       /\ \E other \in Forward : \/ Declare(Last(systems), Last(systems), other)
                                 \/ Declare(Last(systems), other, Last(systems))
    \/ \E s \in Registered : RemoveSystem(s)
    \/ \E order \in Orders : ConfigureStages(order)
    \/ \E b \in EventOrders : EnableEventOrdering(b)
    \/ Compile
    \/ \E steps \in 0..MaxSteps : BeginFrame(steps)
    \/ SkipStage
    \/ /\ InFrame
       /\ \E holding \in SUBSET Members : \E how \in {"sequential", "parallel"} :
             OpenStage(holding, how)
    \/ \E s \in enabled : Start(s) \/ Finish(s)
    \/ CloseStage
    \/ EndFrame

Spec == Init /\ [][Next]_vars

-----------------------------------------------------------------------------
(* Correctness.                                                            *)

SharesData(a, b) ==
    \/ Touches(a) /\ Touches(b) /\ (Catalogue[a].whole \/ Catalogue[b].whole)
    \/ Writes(a, b) \/ Feeds(a, b) \/ Feeds(b, a)

\* What two systems must never do at the same time, stated on its own: one
\* writes what the other touches, both append to one event queue, or both read
\* one; an exclusive system owns the world.  Two readers of one queue race on
\* its cursors (the comment at lib.rs:1123); the doc of detect_conflict_kind and
\* that of AccessDescriptor say that they may run together.
Races(a, b) ==
    \/ ~Declares(a) \/ ~Declares(b)
    \/ SharesData(a, b)
    \/ Emits(a, b) \/ Listens(a, b)

\* No two systems that share data in conflict are ever running together: the
\* soundness of every unsafe access of the executor rests on it.
NoRace == \A a, b \in running : a # b => ~Races(a, b)

\* A compiled plan holds every registered system exactly once.
PlanExact ==
    HasPlan =>
        LET all == FlattenSeq([i \in DOMAIN plan |-> plan[i].systems])
        IN  IsInjective(all) /\ ToSet(all) = Registered

\* An ordering that was asked for between two systems of one label is kept, in
\* every pass of the label: what must go first has had its turn.
OrderKept ==
    \A b \in running : \A a \in Registered :
        <<a, b>> \in declared /\ Label(a) = Label(b) => passed[a] > passed[b]

\* Does label x come before label y?  In the standard order the custom labels
\* count as one.
EarlierLabel(x, y) ==
    IF stageOrder = <<>> THEN Priority(x) < Priority(y) ELSE PlacedBefore(x, 0, y, 0)

\* While a system runs, nothing of an earlier label is still to come in the
\* frame, whatever the graph says about systems of different labels; and the
\* systems of its own label are in the same pass of it.
LabelsInOrder ==
    \A b \in running :
        /\ \A i \in at..Len(schedule) :
               ~EarlierLabel(plan[schedule[i]].label, Label(b))
        /\ \A a \in Registered :
               Label(a) = Label(b) => passed[a] - passed[b] \in {0, 1}

\* A listener starts after every emitter of its event in the same label has had
\* its turn, unless something else puts the listener first: an ordering, what
\* the two share besides the event, an event the other way, or a way round through
\* other systems.
EmitFirst ==
    eventOrdering =>
        \A b \in running : \A a \in Registered \ {b} :
            Declares(a) /\ Declares(b) /\ Sends(a, b) /\ Label(a) = Label(b)
               => \/ passed[a] > passed[b]
                  \/ <<b, a>> \in explicit
                  \/ SharesData(a, b) \/ Emits(a, b) \/ Sends(b, a)
                  \/ HasPath(edges \ {<<b, a>>}, b, a)

\* compile() refuses a schedule only for a reason its author can see: a pair of
\* systems that feed each other and have no ordering, or an ordering against
\* the order of registration.
CyclesAreReal ==
    outcome = "cycle" /\ ~dirty =>
        \E i, j \in DOMAIN systems :
            /\ i < j
            /\ \/ <<systems[j], systems[i]>> \in explicit
               \/ /\ Declares(systems[i]) /\ Declares(systems[j])
                  /\ Conflict(systems[i], systems[j]) = "both ways"
                  /\ <<systems[i], systems[j]>> \notin explicit
=============================================================================
