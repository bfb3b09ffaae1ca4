------------------------------ MODULE Exchange ------------------------------
(***************************************************************************)
(* The bridge between a world and an isolated world on another thread: one *)
(* bounded channel each way, an overflow policy, and counters of what was   *)
(* sent and dropped (apex-isolated/src/lib.rs).                            *)
(*                                                                         *)
(* A world ticks for ever: it drains its channel (apply_incoming), then its *)
(* systems run, some of which send, from several threads at a time if the   *)
(* bridge is cloned.  What a message does to the world that applies it is   *)
(* left out, but for the messages it may send in its turn.  The high-water  *)
(* mark is left out: it is read from the channel after the fact.            *)
(***************************************************************************)
EXTENDS Integers, Sequences, FiniteSets, SequencesExt

CONSTANTS
    Sender,        \* threads that send
    Home,          \* the world each thread belongs to
    Capacity,      \* of each channel
    Policies,      \* BridgeOverflow: "Block" or "DropLoud"
    PerTick,       \* messages a world sends in one tick where a send may block
    MaxSends,      \* bound: messages of each thread
    BlockingReplies\* may a message that is applied send where a send may block?

World == {"main", "sub"}
Peer(w) == IF w = "main" THEN "sub" ELSE "main"

ASSUME ExchangeAssumption ==
    /\ IsFiniteSet(Sender)
    /\ Home \in [Sender -> World]
    /\ Capacity \in Nat \ {0}
    /\ Policies \subseteq {"Block", "DropLoud"}
    /\ PerTick \in Nat /\ MaxSends \in [Sender -> Nat]
    /\ BlockingReplies \in BOOLEAN

VARIABLES
    policy,
    channel,  \* messages on the way to each world, [from, n]
    open,     \* worlds that have not dropped their end
    phase,    \* of each world's tick: "drain" or "systems"
    spent,    \* messages each world has sent in this tick
    thread,   \* "idle", "sending" (until it is queued or refused) or "queued"
    offered,  \* messages each thread has begun to send
    sent, dropped, \* BridgeStats of each world's sends
    got       \* history: numbers of the messages that arrived from each thread

vars == <<policy, channel, open, phase, spent, thread, offered, sent, dropped, got>>

Threads(w) == {t \in Sender : Home[t] = w}
In(w, state) == {t \in Threads(w) : thread[t] = state}
Quiet(w) == In(w, "idle") = Threads(w)
To(t) == Peer(Home[t])

Init ==
    /\ policy \in Policies
    /\ channel = [w \in World |-> <<>>]
    /\ open = World
    /\ phase = [w \in World |-> "drain"]
    /\ spent = [w \in World |-> 0]
    /\ thread = [t \in Sender |-> "idle"]
    /\ offered = [t \in Sender |-> 0]
    /\ sent = [w \in World |-> 0] /\ dropped = [w \in World |-> 0]
    /\ got = [t \in Sender |-> <<>>]

-----------------------------------------------------------------------------
(* A tick.                                                                 *)

\* apply_incoming: one message
Take(w) ==
    /\ w \in open /\ phase[w] = "drain" /\ Quiet(w)
    /\ channel[w] # <<>>
    /\ channel' = [channel EXCEPT ![w] = Tail(@)]
    /\ got' = [got EXCEPT ![Head(channel[w]).from] = Append(@, Head(channel[w]).n)]
    /\ UNCHANGED <<policy, open, phase, spent, thread, offered, sent, dropped>>

\* Wrong on purpose: a tick drains no more than it has to.
BeginSystemsEarly(w) ==
    /\ w \in open /\ phase[w] = "drain" /\ Quiet(w)
    /\ phase' = [phase EXCEPT ![w] = "systems"]
    /\ UNCHANGED <<policy, channel, open, spent, thread, offered, sent, dropped, got>>

\* apply_incoming returns when it finds nothing.
BeginSystems(w) ==
    /\ w \in open /\ phase[w] = "drain" /\ Quiet(w)
    /\ channel[w] = <<>>
    /\ phase' = [phase EXCEPT ![w] = "systems"]
    /\ UNCHANGED <<policy, channel, open, spent, thread, offered, sent, dropped, got>>

\* The systems have been joined and the next tick begins.
EndTick(w) ==
    /\ w \in open /\ phase[w] = "systems" /\ Quiet(w)
    /\ phase' = [phase EXCEPT ![w] = "drain"]
    /\ spent' = [spent EXCEPT ![w] = 0]
    /\ UNCHANGED <<policy, channel, open, thread, offered, sent, dropped, got>>

\* A world drops its bridge: its receiver takes along what has not been
\* received, and sends to it fail from now on.
Close(w) ==
    /\ w \in open /\ Quiet(w)
    /\ open' = open \ {w}
    /\ channel' = [channel EXCEPT ![w] = <<>>]
    /\ UNCHANGED <<policy, phase, spent, thread, offered, sent, dropped, got>>

-----------------------------------------------------------------------------
(* Sending (send_with_policy).                                             *)

\* send_event: an event that cannot be serialized is dropped (record_dropped).
Unserializable(t) ==
    /\ Home[t] \in open /\ thread[t] = "idle" /\ offered[t] < MaxSends[t]
    /\ phase[Home[t]] = "systems"
    /\ offered' = [offered EXCEPT ![t] = @ + 1]
    /\ dropped' = [dropped EXCEPT ![Home[t]] = @ + 1]
    /\ UNCHANGED <<policy, channel, open, phase, spent, thread, sent, got>>

\* send_action, send_event.  Messages sent by one that is being applied come
\* from the thread that drains.
Offer(t) ==
    LET w == Home[t]
    IN  /\ w \in open /\ thread[t] = "idle" /\ offered[t] < MaxSends[t]
        /\ policy = "Block" => spent[w] < PerTick
        /\ phase[w] = "drain" => Quiet(w) /\ (policy = "Block" => BlockingReplies)
        /\ thread' = [thread EXCEPT ![t] = "sending"]
        /\ offered' = [offered EXCEPT ![t] = @ + 1]
        /\ spent' = [spent EXCEPT ![w] = IF policy = "Block" THEN @ + 1 ELSE 0]
        /\ UNCHANGED <<policy, channel, open, phase, sent, dropped, got>>

\* send() or try_send() finds room.
Enqueue(t) ==
    /\ thread[t] = "sending" /\ To(t) \in open
    /\ Len(channel[To(t)]) < Capacity
    /\ channel' = [channel EXCEPT ![To(t)] = Append(@, [from |-> t, n |-> offered[t]])]
    /\ thread' = [thread EXCEPT ![t] = "queued"]
    /\ UNCHANGED <<policy, open, phase, spent, offered, sent, dropped, got>>

\* record_sent: the receiver may have been faster.
CountSent(t) ==
    /\ thread[t] = "queued"
    /\ thread' = [thread EXCEPT ![t] = "idle"]
    /\ sent' = [sent EXCEPT ![Home[t]] = @ + 1]
    /\ UNCHANGED <<policy, channel, open, phase, spent, offered, dropped, got>>

\* Wrong on purpose: only a full channel is refused.
RefuseWhenFull(t) ==
    /\ thread[t] = "sending"
    /\ policy = "DropLoud" /\ Len(channel[To(t)]) >= Capacity
    /\ thread' = [thread EXCEPT ![t] = "idle"]
    /\ dropped' = [dropped EXCEPT ![Home[t]] = @ + 1]
    /\ UNCHANGED <<policy, channel, open, phase, spent, offered, sent, got>>

\* Wrong on purpose: a message to a closed channel is not counted.
RefuseUncounted(t) ==
    /\ thread[t] = "sending"
    /\ \/ To(t) \notin open
       \/ policy = "DropLoud" /\ Len(channel[To(t)]) >= Capacity
    /\ thread' = [thread EXCEPT ![t] = "idle"]
    /\ dropped' = [dropped EXCEPT ![Home[t]] = IF To(t) \in open THEN @ + 1 ELSE @]
    /\ UNCHANGED <<policy, channel, open, phase, spent, offered, sent, got>>

\* The peer has closed its end, or the channel is full and may shed load
\* (record_dropped).
Refuse(t) ==
    /\ thread[t] = "sending"
    /\ \/ To(t) \notin open
       \/ policy = "DropLoud" /\ Len(channel[To(t)]) >= Capacity
    /\ thread' = [thread EXCEPT ![t] = "idle"]
    /\ dropped' = [dropped EXCEPT ![Home[t]] = @ + 1]
    /\ UNCHANGED <<policy, channel, open, phase, spent, offered, sent, got>>

-----------------------------------------------------------------------------
Tick(w) == Take(w) \/ BeginSystems(w) \/ EndTick(w)
Send(t) == Enqueue(t) \/ CountSent(t) \/ Refuse(t)

Next ==
    \/ \E w \in World : Tick(w) \/ Close(w)
    \/ \E t \in Sender : Offer(t) \/ Unserializable(t) \/ Send(t)

Spec == Init /\ [][Next]_vars

\* Both worlds tick, and a thread that is sending goes on where it can.
FairSpec ==
    /\ Spec
    /\ \A w \in World : WF_vars(Tick(w))
    /\ \A t \in Sender : WF_vars(Send(t))

-----------------------------------------------------------------------------
(* Correctness.                                                            *)

\* The messages that the threads of w have begun to send, and those of them that
\* have arrived or are on their way.
Begun(w) == UNION {{t} \X (1..offered[t]) : t \in Threads(w)}

Came(t, n) == n \in ToSet(got[t]) \/ [from |-> t, n |-> n] \in ToSet(channel[To(t)])

Passed(w) == {m \in Begun(w) : Came(m[1], m[2])}

\* The receiver gets to see the messages of t in the order they were sent in, and
\* none of them twice.
Ascending(t) ==
    LET lane == channel[To(t)]
        mine == {i \in DOMAIN lane : lane[i].from = t}
    IN  /\ \A i, j \in DOMAIN got[t] : i < j => got[t][i] < got[t][j]
        /\ \A i, j \in mine : i < j => lane[i].n < lane[j].n
        /\ \A i \in DOMAIN got[t], j \in mine : got[t][i] < lane[j].n

\* The counters tell the truth: each message begun is counted as sent or as
\* dropped once its send returns, as long as the peer listens as many as were
\* sent have arrived or are on their way, and they arrive once and in order.
Accounted ==
    /\ \A w \in World :
           LET queued == Cardinality(In(w, "queued"))
           IN  /\ Cardinality(Begun(w)) =
                      sent[w] + dropped[w] + queued + Cardinality(In(w, "sending"))
               /\ Peer(w) \in open => Cardinality(Passed(w)) = sent[w] + queued
    /\ \A t \in Sender : Ascending(t)

\* Wherever sends block, the two worlds never wait for each other.
Waiting(w) ==
    /\ In(w, "sending") # {}
    /\ Peer(w) \in open
    /\ Len(channel[Peer(w)]) >= Capacity

NeverStuck == policy = "Block" => \E w \in World : ~Waiting(w)

\* A message that is being sent arrives, unless its send returns because the
\* peer has gone or because it may be dropped.
Arrives ==
    \A t \in Sender : \A n \in 1..MaxSends[t] :
        (thread[t] = "sending" /\ offered[t] = n) ~>
            \/ n \in ToSet(got[t])
            \/ ~(thread[t] = "sending" /\ offered[t] = n)
               /\ (To(t) \notin open \/ policy = "DropLoud")
=============================================================================
