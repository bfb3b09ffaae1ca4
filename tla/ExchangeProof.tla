---------------------------- MODULE ExchangeProof ----------------------------
(***************************************************************************)
(* Two bridged worlds that block on full channels never wait for each      *)
(* other, for any number of threads and any capacity, if neither sends more *)
(* in one tick than a channel holds and none while it drains.  Whatever     *)
(* they send and when, the bridge's counters account for every message, and *)
(* the messages of a thread arrive once and in order.                      *)
(***************************************************************************)
EXTENDS Exchange, SequenceTheorems, FiniteSetTheorems, TLAPS

Message == [from : Sender, n : Nat]

Sending(w) == Cardinality(In(w, "sending"))

Types ==
    /\ policy \in {"Block", "DropLoud"}
    /\ channel \in [World -> Seq(Message)]
    /\ open \in SUBSET World
    /\ phase \in [World -> {"drain", "systems"}]
    /\ spent \in [World -> Nat]
    /\ thread \in [Sender -> {"idle", "sending", "queued"}]
    /\ offered \in [Sender -> Nat]

\* A world that drains, or has closed its end, is not sending.
Silent(w) == phase[w] = "drain" \/ w \notin open

SilentSendsNothing == \A w \in World : Silent(w) => In(w, "sending") = {}

\* What a world has sent in this tick covers what it is sending.
WithinBudget == \A w \in World : Sending(w) <= spent[w] /\ spent[w] <= PerTick

\* Everything on the way to w was sent in the current tick of its peer.
Fits(w) == Len(channel[w]) + Sending(Peer(w)) <= spent[Peer(w)]

OneHasRoom == \E w \in World : Silent(w) \/ Fits(w)

IInv ==
    /\ Types
    /\ policy = "Block" => SilentSendsNothing /\ WithinBudget /\ OneHasRoom

-----------------------------------------------------------------------------
\* The peer of a world is the other one.
LEMMA PeerFacts ==
    \A w \in World : Peer(w) \in World /\ Peer(w) # w /\ Peer(Peer(w)) = w
BY DEF World, Peer

LEMMA SendingFinite ==
    \A state : \A w \in World :
        /\ IsFiniteSet(In(w, state))
        /\ Cardinality(In(w, state)) \in Nat
        /\ Cardinality(In(w, state)) = 0 <=> In(w, state) = {}
<1> SUFFICES ASSUME NEW state, NEW w \in World
             PROVE  /\ IsFiniteSet(In(w, state))
                    /\ Cardinality(In(w, state)) \in Nat
                    /\ Cardinality(In(w, state)) = 0 <=> In(w, state) = {}
  OBVIOUS
<1>1. In(w, state) \in SUBSET Sender
  BY DEF In, Threads
<1>2. IsFiniteSet(In(w, state))
  BY <1>1, ExchangeAssumption, FS_Subset
<1> QED
  BY <1>2, FS_CardinalityType, FS_EmptySet

\* A thread that begins to send counts, one that stops no longer does, and the
\* threads of the other world are not concerned.
LEMMA ThreadFacts ==
    ASSUME Types, NEW t \in Sender, NEW s \in {"idle", "sending", "queued"},
           thread' = [thread EXCEPT ![t] = s]
    PROVE  /\ In(Peer(Home[t]), "sending")' = In(Peer(Home[t]), "sending")
           /\ s = "sending" => In(Home[t], "sending")' = In(Home[t], "sending") \cup {t}
           /\ s # "sending" => In(Home[t], "sending")' = In(Home[t], "sending") \ {t}
<1>1. Home[t] \in World /\ Peer(Home[t]) # Home[t]
  BY ExchangeAssumption, PeerFacts
<1> QED
  BY <1>1 DEF In, Threads, Types

-----------------------------------------------------------------------------
LEMMA InitIInv == Init => IInv
<1> SUFFICES ASSUME Init PROVE IInv
  OBVIOUS
<1>1. Types
  BY ExchangeAssumption DEF Init, Types
<1>2. \A w \in World : In(w, "sending") = {}
  BY DEF Init, In, Threads
<1>3. \A w \in World : Sending(w) = 0
  BY <1>2, FS_EmptySet DEF Sending
<1>4. WithinBudget
  BY <1>3, ExchangeAssumption DEF WithinBudget, Init
<1>5. OneHasRoom
  BY DEF OneHasRoom, Silent, Init, World
<1> QED
  BY <1>1, <1>2, <1>4, <1>5 DEF IInv, SilentSendsNothing

\* Types are kept by every step.
LEMMA TypesStep == ASSUME Types, [Next]_vars PROVE Types'
<1> USE ExchangeAssumption DEF Types
<1>1. ASSUME NEW w \in World, Take(w) PROVE Types'
  BY <1>1 DEF Take
<1>2. ASSUME NEW w \in World, BeginSystems(w) \/ EndTick(w) PROVE Types'
  <2>1. CASE BeginSystems(w)
    BY <2>1 DEF BeginSystems
  <2>2. CASE EndTick(w)
    BY <2>2 DEF EndTick
  <2> QED
    BY <1>2, <2>1, <2>2
<1>3. ASSUME NEW w \in World, Close(w) PROVE Types'
  BY <1>3 DEF Close
<1>4. ASSUME NEW t \in Sender, Offer(t) PROVE Types'
  BY <1>4 DEF Offer, World
<1>5. ASSUME NEW t \in Sender, Unserializable(t) PROVE Types'
  BY <1>5 DEF Unserializable
<1>6. ASSUME NEW t \in Sender, Enqueue(t) PROVE Types'
  <2>1. To(t) \in World
    BY PeerFacts DEF To
  <2>2. [from |-> t, n |-> offered[t]] \in Message
    BY DEF Message
  <2> QED
    BY <1>6, <2>1, <2>2 DEF Enqueue
<1>7. ASSUME NEW t \in Sender, CountSent(t) \/ Refuse(t) PROVE Types'
  BY <1>7 DEF CountSent, Refuse
<1>8. CASE UNCHANGED vars
  BY <1>8 DEF vars
<1> QED
  BY <1>1, <1>2, <1>3, <1>4, <1>5, <1>6, <1>7, <1>8 DEF Next, Tick, Send

-----------------------------------------------------------------------------
(* One lemma for each action.                                              *)

Rest == SilentSendsNothing /\ WithinBudget /\ OneHasRoom

LEMMA TakeStep ==
    ASSUME Types, Rest, NEW w \in World, Take(w) PROVE Rest'
<1> USE DEF Rest
<1>1. \A v \in World : In(v, "sending")' = In(v, "sending") /\ Sending(v)' = Sending(v)
  BY DEF Take, In, Threads, Sending
<1>2. \A v \in World : Len(channel'[v]) <= Len(channel[v]) /\ Len(channel'[v]) \in Nat
  <2>1. channel[w] \in Seq(Message) /\ channel[w] # <<>>
    BY DEF Take, Types
  <2>2. Len(Tail(channel[w])) = Len(channel[w]) - 1 /\ Len(channel[w]) \in Nat \ {0}
    BY <2>1
  <2> QED
    BY <2>2, LenProperties DEF Take, Types
<1>3. \A v \in World : Fits(v) => Fits(v)'
  <2> SUFFICES ASSUME NEW v \in World, Fits(v) PROVE Fits(v)'
    OBVIOUS
  <2>1. Sending(Peer(v)) \in Nat /\ Sending(Peer(v))' = Sending(Peer(v))
    BY <1>1, SendingFinite, PeerFacts DEF Sending
  <2>2. spent' = spent /\ spent[Peer(v)] \in Nat
    BY PeerFacts DEF Take, Types
  <2>3. Len(channel[v]) \in Nat
    BY LenProperties DEF Types
  <2> QED
    BY <1>2, <2>1, <2>2, <2>3 DEF Fits
<1>4. \A v \in World : Silent(v) <=> Silent(v)'
  BY DEF Silent, Take
<1> QED
  BY <1>1, <1>3, <1>4 DEF SilentSendsNothing, WithinBudget, OneHasRoom, Take

LEMMA TickStep ==
    ASSUME Types, Rest, NEW w \in World, BeginSystems(w) \/ EndTick(w) \/ Close(w)
    PROVE  Rest'
<1> USE DEF Rest
<1> DEFINE v == Peer(w)
<1>1. v \in World /\ v # w /\ Peer(v) = w /\ World = {w, v}
  BY PeerFacts DEF World
<1>2. In(w, "sending") = {} /\ Sending(w) = 0
  BY FS_EmptySet DEF BeginSystems, EndTick, Close, Quiet, In, Threads, Sending
<1>3. \A u \in World : In(u, "sending")' = In(u, "sending") /\ Sending(u)' = Sending(u)
  BY DEF BeginSystems, EndTick, Close, In, Threads, Sending
<1>4. SilentSendsNothing'
  <2>1. Silent(v)' => Silent(v)
    BY <1>1 DEF Silent, BeginSystems, EndTick, Close, Types
  <2> QED
    BY <1>1, <1>2, <1>3, <2>1 DEF SilentSendsNothing
<1>5. WithinBudget'
  <2>1. spent'[v] = spent[v] /\ spent'[w] \in {spent[w], 0}
    BY <1>1 DEF BeginSystems, EndTick, Close, Types
  <2> QED
    BY <1>1, <1>2, <1>3, <2>1, ExchangeAssumption DEF WithinBudget
<1>6. OneHasRoom'
  <2>1. CASE BeginSystems(w)
    <3>1. channel'[w] = <<>> /\ spent' = spent /\ Peer(w) = v
      BY <2>1 DEF BeginSystems
    <3>2. Len(channel'[w]) = 0
      BY <3>1
    <3>3. Sending(v) \in Nat /\ Sending(v) <= spent[v]
      BY <1>1, SendingFinite DEF Sending, WithinBudget
    <3>4. Fits(w)'
      BY <1>1, <1>3, <3>1, <3>2, <3>3 DEF Fits
    <3> QED
      BY <3>4 DEF OneHasRoom
  <2>2. CASE EndTick(w) \/ Close(w)
    <3>1. Silent(w)'
      BY <2>2 DEF EndTick, Close, Silent, Types
    <3> QED
      BY <3>1 DEF OneHasRoom
  <2> QED
    BY <2>1, <2>2
<1> QED
  BY <1>4, <1>5, <1>6

LEMMA OfferStep ==
    ASSUME Types, Rest, policy = "Block", ~BlockingReplies,
           NEW t \in Sender, Offer(t)
    PROVE  Rest'
<1> USE DEF Rest
<1> DEFINE w == Home[t]
           v == Peer(w)
<1>1. w \in World /\ v \in World /\ v # w /\ Peer(v) = w /\ World = {w, v}
  BY PeerFacts, ExchangeAssumption DEF World
<1>2. /\ w \in open /\ phase[w] = "systems" /\ thread[t] = "idle"
      /\ spent[w] < PerTick /\ spent' = [spent EXCEPT ![w] = @ + 1]
      /\ thread' = [thread EXCEPT ![t] = "sending"]
      /\ UNCHANGED <<channel, open, phase>>
  BY <1>1 DEF Offer, Types
<1>3. In(v, "sending")' = In(v, "sending") /\ In(w, "sending")' = In(w, "sending") \cup {t}
  BY <1>2, ThreadFacts
<1>4. t \notin In(w, "sending")
  BY <1>2 DEF In
<1>5. /\ Sending(v)' = Sending(v) /\ Sending(v) \in Nat
      /\ Sending(w)' = Sending(w) + 1 /\ Sending(w) \in Nat
  BY <1>1, <1>3, <1>4, SendingFinite, FS_AddElement DEF Sending
<1>6. spent'[w] = spent[w] + 1 /\ spent'[v] = spent[v] /\ spent[w] \in Nat /\ spent[v] \in Nat
  BY <1>1, <1>2 DEF Types
<1>7. SilentSendsNothing'
  <2>1. ~Silent(w)' /\ (Silent(v)' <=> Silent(v))
    BY <1>1, <1>2 DEF Silent
  <2> QED
    BY <1>1, <1>3, <2>1 DEF SilentSendsNothing
<1>8. WithinBudget'
  BY <1>1, <1>2, <1>5, <1>6, ExchangeAssumption DEF WithinBudget
<1>9. OneHasRoom'
  <2>1. \A u \in World : Silent(u) => Silent(u)'
    BY <1>2 DEF Silent
  <2>2. Len(channel[v]) \in Nat /\ Len(channel[w]) \in Nat /\ channel' = channel
    BY <1>1, <1>2, LenProperties DEF Types
  <2>3. Fits(v) => Fits(v)'
    BY <1>1, <1>5, <1>6, <2>2 DEF Fits
  <2>4. Fits(w) => Fits(w)'
    BY <1>1, <1>5, <1>6, <2>2 DEF Fits
  <2> QED
    BY <1>1, <2>1, <2>3, <2>4 DEF OneHasRoom
<1> QED
  BY <1>7, <1>8, <1>9

LEMMA EnqueueStep ==
    ASSUME Types, Rest, NEW t \in Sender, Enqueue(t) \/ Refuse(t) PROVE Rest'
<1> USE DEF Rest
<1> DEFINE w == Home[t]
           v == Peer(w)
<1>1. w \in World /\ v \in World /\ v # w /\ Peer(v) = w /\ World = {w, v}
  BY PeerFacts, ExchangeAssumption DEF World
<1>2. PICK s \in {"idle", "queued"} : thread' = [thread EXCEPT ![t] = s]
  BY DEF Enqueue, Refuse
<1>3. thread[t] = "sending" /\ UNCHANGED <<open, phase, spent>>
  BY DEF Enqueue, Refuse
<1>4. In(v, "sending")' = In(v, "sending") /\ In(w, "sending")' = In(w, "sending") \ {t}
  BY <1>2, ThreadFacts
<1>5. t \in In(w, "sending")
  BY <1>3 DEF In, Threads
<1>6. /\ Sending(v)' = Sending(v) /\ Sending(v) \in Nat
      /\ Sending(w)' = Sending(w) - 1 /\ Sending(w) \in Nat
  BY <1>1, <1>4, <1>5, SendingFinite, FS_RemoveElement DEF Sending
<1>7. \A u \in World : Silent(u)' <=> Silent(u)
  BY <1>3 DEF Silent
<1>8. SilentSendsNothing'
  BY <1>1, <1>4, <1>7 DEF SilentSendsNothing
<1>9. spent[w] \in Nat /\ spent[v] \in Nat
  BY <1>1 DEF Types
<1>10. WithinBudget'
  BY <1>1, <1>3, <1>6, <1>9, ExchangeAssumption DEF WithinBudget
<1>11. OneHasRoom'
  <2>1. channel'[w] = channel[w] /\ Len(channel[w]) \in Nat
    BY <1>1, LenProperties DEF Enqueue, Refuse, To, Types
  <2>2. Len(channel'[v]) <= Len(channel[v]) + 1 /\ Len(channel'[v]) \in Nat
        /\ Len(channel[v]) \in Nat
    <3>1. channel[v] \in Seq(Message)
      BY <1>1 DEF Types
    <3>2. [from |-> t, n |-> offered[t]] \in Message
      BY DEF Message, Types
    <3>3. Len(Append(channel[v], [from |-> t, n |-> offered[t]])) = Len(channel[v]) + 1
      BY <3>1, <3>2, AppendProperties
    <3>4. Len(channel[v]) \in Nat
      BY <3>1, LenProperties
    <3> QED
      BY <1>1, <3>3, <3>4 DEF Enqueue, Refuse, To, Types
  <2>3. Fits(v) => Fits(v)'
    BY <1>1, <1>3, <1>6, <1>9, <2>2 DEF Fits
  <2>4. Fits(w) => Fits(w)'
    BY <1>1, <1>3, <1>6, <1>9, <2>1 DEF Fits
  <2> QED
    BY <1>1, <1>7, <2>3, <2>4 DEF OneHasRoom
<1> QED
  BY <1>8, <1>10, <1>11

\* Steps that leave alone what the invariant is about.
LEMMA OtherStep ==
    ASSUME Types, Rest,
           \/ \E t \in Sender : CountSent(t) \/ Unserializable(t)
           \/ UNCHANGED vars
    PROVE  Rest'
<1>1. UNCHANGED <<channel, open, phase, spent>>
  BY DEF CountSent, Unserializable, vars
<1>2. \A w \in World : In(w, "sending")' = In(w, "sending")
  BY DEF CountSent, Unserializable, vars, In, Threads, Types
<1>3. \A w \in World : Sending(w)' = Sending(w)
  BY <1>2 DEF Sending
<1>4. \A w \in World : (Silent(w)' <=> Silent(w)) /\ (Fits(w)' <=> Fits(w))
  BY <1>1, <1>3, PeerFacts DEF Silent, Fits
<1> QED
  BY <1>1, <1>2, <1>3, <1>4 DEF Rest, SilentSendsNothing, WithinBudget, OneHasRoom

-----------------------------------------------------------------------------
LEMMA NextIInv ==
    ASSUME ~BlockingReplies, IInv, [Next]_vars PROVE IInv'
<1>1. Types'
  BY TypesStep DEF IInv
<1>2. policy' = policy
  BY DEF Next, Tick, Send, Take, BeginSystems, EndTick, Close, Offer,
     Unserializable, Enqueue, CountSent, Refuse, vars
<1>3. ASSUME policy = "Block" PROVE Rest'
  <2>1. Types /\ Rest
    BY <1>3 DEF IInv, Rest
  <2>2. ASSUME NEW w \in World, Tick(w) \/ Close(w) PROVE Rest'
    BY <2>1, <2>2, TakeStep, TickStep DEF Tick
  <2>3. ASSUME NEW t \in Sender, Offer(t) PROVE Rest'
    BY <1>3, <2>1, <2>3, OfferStep
  <2>4. ASSUME NEW t \in Sender, Enqueue(t) \/ Refuse(t) PROVE Rest'
    BY <2>1, <2>4, EnqueueStep
  <2>5. ASSUME \/ \E t \in Sender : CountSent(t) \/ Unserializable(t)
               \/ UNCHANGED vars
        PROVE  Rest'
    BY <2>1, <2>5, OtherStep
  <2> QED
    BY <2>2, <2>3, <2>4, <2>5 DEF Next, Send
<1> QED
  BY <1>1, <1>2, <1>3 DEF IInv, Rest

\* The invariant leaves one of the two a way on: the one whose peer drains, or
\* the one whose channel its own tick cannot fill.
LEMMA RoomForOne ==
    ASSUME IInv, PerTick <= Capacity PROVE NeverStuck
<1> SUFFICES ASSUME policy = "Block" PROVE \E w \in World : ~Waiting(w)
  BY DEF NeverStuck
<1>1. PICK w \in World : Silent(w) \/ Fits(w)
  BY DEF IInv, OneHasRoom
<1>2. CASE Silent(w)
  BY <1>2 DEF IInv, SilentSendsNothing, Waiting
<1>3. CASE Fits(w)
  <2> DEFINE v == Peer(w)
  <2>1. v \in World /\ Peer(v) = w
    BY PeerFacts
  <2>2. spent[v] \in Nat /\ spent[v] <= PerTick
    BY <2>1 DEF IInv, Types, WithinBudget
  <2>3. Sending(v) \in Nat /\ (Sending(v) = 0 <=> In(v, "sending") = {})
    BY <2>1, SendingFinite DEF Sending
  <2>4. Len(channel[w]) \in Nat
    BY LenProperties DEF IInv, Types
  <2>5. Len(channel[w]) + Sending(v) <= Capacity
    BY <1>3, <2>2, <2>3, <2>4, ExchangeAssumption DEF Fits
  <2>6. ~Waiting(v)
    BY <2>1, <2>3, <2>4, <2>5, ExchangeAssumption DEF Waiting
  <2> QED
    BY <2>1, <2>6
<1> QED
  BY <1>1, <1>2, <1>3

\* Whatever the capacity, the threads and their messages: two worlds that block
\* on full channels (BridgeOverflow::Block) never wait for each other, if
\* neither sends more in a tick than a channel holds and neither sends while it
\* applies what has come in.
THEOREM NeverWaitForEachOther ==
    ASSUME PerTick <= Capacity, ~BlockingReplies
    PROVE  Spec => []NeverStuck
<1>1. Init => IInv
  BY InitIInv
<1>2. IInv /\ [Next]_vars => IInv'
  BY NextIInv
<1>3. IInv => NeverStuck
  BY RoomForOne
<1> QED
  BY <1>1, <1>2, <1>3, PTL DEF Spec

-----------------------------------------------------------------------------
(* The counters.                                                           *)

CountTypes ==
    /\ Types
    /\ sent \in [World -> Nat] /\ dropped \in [World -> Nat]
    /\ got \in [Sender -> Seq(Nat)]

\* What is on the way to a world was sent by its peer.
Addressed == \A w \in World : \A i \in DOMAIN channel[w] : To(channel[w][i].from) = w

\* Nothing comes that was not begun, nor what is still being sent.
Until(t) == IF thread[t] = "sending" THEN offered[t] - 1 ELSE offered[t]

Within(t) ==
    /\ Until(t) \in Nat
    /\ \A i \in DOMAIN got[t] : got[t][i] \in 1..Until(t)
    /\ \A i \in DOMAIN channel[To(t)] :
           channel[To(t)][i].from = t => channel[To(t)][i].n \in 1..Until(t)

Streams == Addressed /\ \A t \in Sender : Within(t) /\ Ascending(t)

\* The counters of w add up.
Tally(w) ==
    /\ IsFiniteSet(Begun(w))
    /\ Cardinality(Begun(w)) =
           sent[w] + dropped[w] + Cardinality(In(w, "queued")) + Sending(w)
    /\ Peer(w) \in open =>
           Cardinality(Passed(w)) = sent[w] + Cardinality(In(w, "queued"))

CountInv == CountTypes /\ Streams /\ \A w \in World : Tally(w)

LEMMA CountTypesStep == ASSUME CountTypes, [Next]_vars PROVE CountTypes'
<1>1. Types'
  BY TypesStep DEF CountTypes
<1>2. ASSUME NEW w \in World, Take(w) PROVE got' \in [Sender -> Seq(Nat)]
  <2>1. channel[w] \in Seq(Message) /\ channel[w] # <<>>
    BY <1>2 DEF Take, CountTypes, Types
  <2>2. Head(channel[w]) \in Message
    BY <2>1
  <2> QED
    BY <1>2, <2>2 DEF Take, CountTypes, Message
<1>3. sent' \in [World -> Nat]
  <2>1. sent' = sent \/ \E t \in Sender : CountSent(t)
    BY DEF Next, Tick, Send, Take, BeginSystems, EndTick, Close,
       Offer, Unserializable, Enqueue, CountSent, Refuse, vars
  <2>2. ASSUME NEW t \in Sender, CountSent(t) PROVE sent' \in [World -> Nat]
    BY <2>2, ExchangeAssumption DEF CountTypes, CountSent, Unserializable, Refuse
  <2> QED
    BY <2>1, <2>2 DEF CountTypes
<1>4. dropped' \in [World -> Nat]
  <2>1. dropped' = dropped \/ \E t \in Sender : Unserializable(t) \/ Refuse(t)
    BY DEF Next, Tick, Send, Take, BeginSystems, EndTick, Close,
       Offer, Unserializable, Enqueue, CountSent, Refuse, vars
  <2>2. ASSUME NEW t \in Sender, Unserializable(t) \/ Refuse(t) PROVE dropped' \in [World -> Nat]
    BY <2>2, ExchangeAssumption DEF CountTypes, CountSent, Unserializable, Refuse
  <2> QED
    BY <2>1, <2>2 DEF CountTypes
<1>5. got' \in [Sender -> Seq(Nat)]
  <2>1. got' = got \/ \E w \in World : Take(w)
    BY DEF Next, Tick, Send, BeginSystems, EndTick,
       Close, Offer, Unserializable, Enqueue, CountSent, Refuse, vars
  <2> QED
    BY <1>2, <2>1 DEF CountTypes
<1> QED
  BY <1>1, <1>3, <1>4, <1>5 DEF CountTypes

\* Where a thread sends to.
LEMMA ToFacts == \A t \in Sender : Home[t] \in World /\ To(t) \in World /\ To(t) = Peer(Home[t])
BY ExchangeAssumption, PeerFacts DEF To

LEMMA BegunMembers ==
    \A w : \A m : m \in Begun(w) <=> \E t \in Threads(w) : \E n \in 1..offered[t] : m = <<t, n>>
BY DEF Begun

LEMMA PassedMembers ==
    \A w : \A m : m \in Passed(w) <=>
        \E t \in Threads(w) : \E n \in 1..offered[t] : m = <<t, n>> /\ Came(t, n)
BY BegunMembers DEF Passed

\* A message that is begun is one more of its world.
LEMMA BegunGrows ==
    ASSUME Types, NEW t \in Sender, offered' = [offered EXCEPT ![t] = @ + 1]
    PROVE  /\ Begun(Home[t])' = Begun(Home[t]) \cup {<<t, offered[t] + 1>>}
           /\ <<t, offered[t] + 1>> \notin Begun(Home[t])
           /\ Begun(To(t))' = Begun(To(t))
<1> DEFINE w == Home[t]
           o == offered[t]
           new == <<t, o + 1>>
<1>1. w \in World /\ To(t) # w /\ o \in Nat /\ offered'[t] = o + 1
  BY ToFacts, PeerFacts DEF Types
<1>2. \A u \in Sender : u # t => offered'[u] = offered[u]
  BY DEF Types
<1>3. t \in Threads(w) /\ \A v : Threads(v) \in SUBSET Sender
  BY DEF Threads
<1>4. \A v : \A m : m \in Begun(v)' <=> \E u \in Threads(v) : \E n \in 1..offered'[u] : m = <<u, n>>
  BY DEF Begun, Threads
<1>5. 1..o + 1 = (1..o) \cup {o + 1}
  BY <1>1
<1>6. ASSUME NEW m PROVE m \in Begun(w)' <=> m \in Begun(w) \cup {new}
  <2>1. ASSUME m \in Begun(w)' PROVE m \in Begun(w) \cup {new}
    <3>1. PICK u \in Threads(w) : \E n \in 1..offered'[u] : m = <<u, n>>
      BY <1>4, <2>1
    <3>2. PICK n \in 1..offered'[u] : m = <<u, n>>
      BY <3>1
    <3>3. CASE u = t
      BY <1>1, <1>3, <1>5, <3>2, <3>3, BegunMembers
    <3>4. CASE u # t
      BY <1>2, <1>3, <3>2, <3>4, BegunMembers
    <3> QED
      BY <3>3, <3>4
  <2>2. ASSUME m \in Begun(w) PROVE m \in Begun(w)'
    <3>1. PICK u \in Threads(w) : \E n \in 1..offered[u] : m = <<u, n>>
      BY <2>2, BegunMembers
    <3>2. PICK n \in 1..offered[u] : m = <<u, n>>
      BY <3>1
    <3>3. n \in 1..offered'[u]
      BY <1>1, <1>2, <1>3, <1>5, <3>2
    <3> QED
      BY <1>4, <3>2, <3>3
  <2>3. ASSUME m = new PROVE m \in Begun(w)'
    <3>1. o + 1 \in 1..offered'[t]
      BY <1>1
    <3> QED
      BY <1>3, <1>4, <2>3, <3>1
  <2> QED
    BY <2>1, <2>2, <2>3
<1>7. new \notin Begun(w)
  BY <1>1, BegunMembers
<1>8. Begun(To(t))' = Begun(To(t))
  <2>1. \A u \in Threads(To(t)) : offered'[u] = offered[u]
    BY <1>1, <1>2 DEF Threads
  <2> QED
    BY <2>1 DEF Begun, Threads
<1> QED
  BY <1>6, <1>7, <1>8

\* A thread that changes from one state to another.
LEMMA MoveFacts ==
    ASSUME Types, NEW t \in Sender, NEW s \in {"idle", "sending", "queued"},
           thread' = [thread EXCEPT ![t] = s], thread[t] # s
    PROVE  \A state \in {"sending", "queued"} :
               /\ Cardinality(In(To(t), state))' = Cardinality(In(To(t), state))
               /\ state = s => Cardinality(In(Home[t], state))' =
                                   Cardinality(In(Home[t], state)) + 1
               /\ state = thread[t] => Cardinality(In(Home[t], state))' =
                                           Cardinality(In(Home[t], state)) - 1
               /\ state \notin {s, thread[t]} => Cardinality(In(Home[t], state))' =
                                                     Cardinality(In(Home[t], state))
<1> SUFFICES ASSUME NEW state \in {"sending", "queued"}
    PROVE      /\ Cardinality(In(To(t), state))' = Cardinality(In(To(t), state))
               /\ state = s => Cardinality(In(Home[t], state))' =
                                   Cardinality(In(Home[t], state)) + 1
               /\ state = thread[t] => Cardinality(In(Home[t], state))' =
                                           Cardinality(In(Home[t], state)) - 1
               /\ state \notin {s, thread[t]} => Cardinality(In(Home[t], state))' =
                                                     Cardinality(In(Home[t], state))
  OBVIOUS
<1>1. Home[t] \in World /\ To(t) # Home[t]
  BY ToFacts, PeerFacts
<1>2. In(To(t), state)' = In(To(t), state)
  BY <1>1 DEF In, Threads, Types
<1>3. state = s => In(Home[t], state)' = In(Home[t], state) \cup {t} /\ t \notin In(Home[t], state)
  BY <1>1 DEF In, Threads, Types
<1>4. state = thread[t] =>
          In(Home[t], state)' = In(Home[t], state) \ {t} /\ t \in In(Home[t], state)
  BY <1>1 DEF In, Threads, Types
<1>5. state \notin {s, thread[t]} => In(Home[t], state)' = In(Home[t], state)
  BY <1>1 DEF In, Threads, Types
<1>6. IsFiniteSet(In(Home[t], state))
  BY <1>1, SendingFinite
<1> QED
  BY <1>2, <1>3, <1>4, <1>5, <1>6, FS_AddElement, FS_RemoveElement
-----------------------------------------------------------------------------
LEMMA ToSetTail ==
    ASSUME NEW S, NEW s \in Seq(S), s # <<>>
    PROVE  ToSet(s) = {Head(s)} \cup ToSet(Tail(s))
<1>1. /\ Len(s) \in Nat \ {0} /\ Len(Tail(s)) = Len(s) - 1 /\ Head(s) = s[1]
      /\ DOMAIN s = 1..Len(s) /\ DOMAIN Tail(s) = 1..Len(s) - 1
      /\ \A i \in 1..Len(s) - 1 : Tail(s)[i] = s[i + 1]
  OBVIOUS
<1>2. ASSUME NEW i \in 1..Len(s) PROVE s[i] \in {Head(s)} \cup ToSet(Tail(s))
  <2>1. CASE i = 1
    BY <1>1, <2>1
  <2>2. CASE i # 1
    <3>1. i - 1 \in 1..Len(s) - 1 /\ Tail(s)[i - 1] = s[i]
      BY <1>1, <2>2
    <3> QED
      BY <1>1, <3>1 DEF ToSet
  <2> QED
    BY <2>1, <2>2
<1>3. ASSUME NEW i \in 1..Len(s) - 1 PROVE Tail(s)[i] \in ToSet(s)
  <2>1. i + 1 \in 1..Len(s)
    BY <1>1
  <2> QED
    BY <1>1, <2>1 DEF ToSet
<1>4. Head(s) \in ToSet(s)
  BY <1>1 DEF ToSet
<1>5. ToSet(s) \in SUBSET ({Head(s)} \cup ToSet(Tail(s)))
  BY <1>1, <1>2 DEF ToSet
<1>6. ToSet(Tail(s)) \in SUBSET ToSet(s)
  BY <1>1, <1>3 DEF ToSet
<1> QED
  BY <1>4, <1>5, <1>6

LEMMA ToSetAppend ==
    ASSUME NEW S, NEW s \in Seq(S), NEW x \in S
    PROVE  ToSet(Append(s, x)) = ToSet(s) \cup {x}
<1>1. /\ Len(s) \in Nat /\ Len(Append(s, x)) = Len(s) + 1
      /\ DOMAIN s = 1..Len(s) /\ DOMAIN Append(s, x) = 1..Len(s) + 1
      /\ \A i \in 1..Len(s) : Append(s, x)[i] = s[i]
      /\ Append(s, x)[Len(s) + 1] = x
  OBVIOUS
<1>2. 1..Len(s) + 1 = (1..Len(s)) \cup {Len(s) + 1}
  BY <1>1
<1>3. ASSUME NEW y PROVE y \in ToSet(Append(s, x)) <=> y \in ToSet(s) \cup {x}
  BY <1>1, <1>2 DEF ToSet
<1> QED
  BY <1>3

\* The message a world takes, and what is left.
LEMMA TakeFacts ==
    ASSUME CountTypes, Addressed, NEW w \in World, Take(w)
    PROVE  \E f \in Sender : \E n \in Nat :
               /\ To(f) = w /\ channel[w][1] = [from |-> f, n |-> n]
               /\ Len(channel[w]) \in Nat \ {0}
               /\ DOMAIN channel[w] = 1..Len(channel[w])
               /\ DOMAIN channel'[w] = 1..Len(channel[w]) - 1
               /\ \A i \in 1..Len(channel[w]) - 1 : channel'[w][i] = channel[w][i + 1]
               /\ ToSet(channel[w]) = {[from |-> f, n |-> n]} \cup ToSet(channel'[w])
               /\ \A v \in World : v # w => channel'[v] = channel[v]
               /\ Len(got[f]) \in Nat
               /\ DOMAIN got[f] = 1..Len(got[f]) /\ DOMAIN got'[f] = 1..Len(got[f]) + 1
               /\ \A i \in 1..Len(got[f]) : got'[f][i] = got[f][i]
               /\ got'[f][Len(got[f]) + 1] = n
               /\ ToSet(got'[f]) = ToSet(got[f]) \cup {n}
               /\ \A t \in Sender : t # f => got'[t] = got[t]
<1> DEFINE lane == channel[w]
           m == Head(lane)
<1>1. lane \in Seq(Message) /\ lane # <<>> /\ channel' = [channel EXCEPT ![w] = Tail(lane)]
  BY DEF Take, CountTypes, Types
<1>2. m \in Message /\ m = lane[1] /\ Len(lane) \in Nat \ {0} /\ DOMAIN lane = 1..Len(lane)
  BY <1>1
<1>3. /\ DOMAIN Tail(lane) = 1..Len(lane) - 1
      /\ \A i \in 1..Len(lane) - 1 : Tail(lane)[i] = lane[i + 1]
  BY <1>1
<1>4. ToSet(lane) = {m} \cup ToSet(Tail(lane))
  BY <1>1, ToSetTail
<1>5. PICK f \in Sender, n \in Nat : m = [from |-> f, n |-> n]
  BY <1>2 DEF Message
<1>6. To(f) = w
  <2>1. 1 \in DOMAIN lane
    BY <1>2
  <2>2. lane[1].from = f
    BY <1>2, <1>5
  <2> QED
    BY <2>1, <2>2 DEF Addressed
<1>7. channel'[w] = Tail(lane) /\ \A v \in World : v # w => channel'[v] = channel[v]
  BY <1>1 DEF CountTypes, Types
<1>8. m.from = f /\ m.n = n /\ got[f] \in Seq(Nat)
  BY <1>5 DEF CountTypes
<1>9. got'[f] = Append(got[f], n) /\ \A t \in Sender : t # f => got'[t] = got[t]
  BY <1>8 DEF Take, CountTypes
<1>10. /\ Len(got[f]) \in Nat
       /\ DOMAIN got[f] = 1..Len(got[f]) /\ DOMAIN got'[f] = 1..Len(got[f]) + 1
       /\ \A i \in 1..Len(got[f]) : got'[f][i] = got[f][i]
       /\ got'[f][Len(got[f]) + 1] = n
  BY <1>8, <1>9
<1>11. ToSet(got'[f]) = ToSet(got[f]) \cup {n}
  BY <1>8, <1>9, ToSetAppend
<1> HIDE DEF lane, m
<1>12. /\ channel[w][1] = [from |-> f, n |-> n] /\ Len(channel[w]) \in Nat \ {0}
       /\ DOMAIN channel[w] = 1..Len(channel[w])
       /\ DOMAIN channel'[w] = 1..Len(channel[w]) - 1
       /\ \A i \in 1..Len(channel[w]) - 1 : channel'[w][i] = channel[w][i + 1]
       /\ ToSet(channel[w]) = {[from |-> f, n |-> n]} \cup ToSet(channel'[w])
  BY <1>2, <1>3, <1>4, <1>5, <1>7 DEF lane
<1> QED
  BY <1>6, <1>7, <1>9, <1>10, <1>11, <1>12

\* A message that is taken has come before and after.
LEMMA TakeKeepsPassed ==
    ASSUME CountTypes, Addressed, NEW w \in World, Take(w)
    PROVE  \A v \in World : Passed(v)' = Passed(v)
<1>1. PICK f \in Sender, n \in Nat :
          /\ To(f) = w
          /\ ToSet(channel[w]) = {[from |-> f, n |-> n]} \cup ToSet(channel'[w])
          /\ \A v \in World : v # w => channel'[v] = channel[v]
          /\ ToSet(got'[f]) = ToSet(got[f]) \cup {n}
          /\ \A t \in Sender : t # f => got'[t] = got[t]
  BY TakeFacts
<1>2. ASSUME NEW t \in Sender, NEW k PROVE Came(t, k)' <=> Came(t, k)
  <2>1. To(t)' = To(t) /\ To(t) \in World
    BY ToFacts DEF To
  <2>2. CASE t = f
    <3>1. [from |-> t, n |-> k] = [from |-> f, n |-> n] <=> k = n
      BY <2>2
    <3> QED
      BY <1>1, <2>1, <2>2, <3>1 DEF Came
  <2>3. CASE t # f
    <3>1. [from |-> t, n |-> k] # [from |-> f, n |-> n]
      BY <2>3
    <3>2. [from |-> t, n |-> k] \in ToSet(channel'[To(t)]) <=>
              [from |-> t, n |-> k] \in ToSet(channel[To(t)])
      BY <1>1, <2>1, <3>1
    <3> QED
      BY <1>1, <2>1, <2>3, <3>2 DEF Came
  <2> QED
    BY <2>2, <2>3
<1>3. offered' = offered /\ \A v : Threads(v)' = Threads(v) /\ Threads(v) \in SUBSET Sender
  BY DEF Take, Threads
<1>4. \A v \in World : Begun(v)' = Begun(v)
  BY <1>3 DEF Begun
<1>5. \A v \in World : \A x \in Begun(v) : x[1] \in Sender
  BY <1>3, BegunMembers
<1> QED
  BY <1>2, <1>4, <1>5 DEF Passed

-----------------------------------------------------------------------------
(* Order: what a step does to the messages of each thread.                 *)

LEMMA TakeStreams ==
    ASSUME CountTypes, Streams, NEW w \in World, Take(w) PROVE Streams'
<1>1. PICK f \in Sender, k \in Nat :
          /\ To(f) = w /\ channel[w][1] = [from |-> f, n |-> k]
          /\ Len(channel[w]) \in Nat \ {0}
          /\ DOMAIN channel[w] = 1..Len(channel[w])
          /\ DOMAIN channel'[w] = 1..Len(channel[w]) - 1
          /\ \A i \in 1..Len(channel[w]) - 1 : channel'[w][i] = channel[w][i + 1]
          /\ \A v \in World : v # w => channel'[v] = channel[v]
          /\ Len(got[f]) \in Nat
          /\ DOMAIN got[f] = 1..Len(got[f]) /\ DOMAIN got'[f] = 1..Len(got[f]) + 1
          /\ \A i \in 1..Len(got[f]) : got'[f][i] = got[f][i]
          /\ got'[f][Len(got[f]) + 1] = k
          /\ \A t \in Sender : t # f => got'[t] = got[t]
  BY TakeFacts DEF Streams
<1> DEFINE lane == channel[w]
           rest == channel'[w]
           l == Len(lane)
           g == Len(got[f])
<1>2. /\ 1 \in 1..l /\ lane[1].from = f /\ lane[1].n = k
      /\ \A i \in 1..l - 1 : i + 1 \in 1..l /\ 1 < i + 1 /\ rest[i] = lane[i + 1]
      /\ \A i, j \in 1..l - 1 : i < j => i + 1 < j + 1
  <2>1. l \in Nat \ {0} /\ lane[1] = [from |-> f, n |-> k]
    BY <1>1
  <2>2. lane[1].from = f /\ lane[1].n = k
    BY <2>1
  <2>3. \A i \in 1..l - 1 : rest[i] = lane[i + 1]
    BY <1>1
  <2> HIDE DEF l
  <2>4. 1 \in 1..l /\ \A i \in 1..l - 1 : i + 1 \in 1..l /\ 1 < i + 1
    BY <2>1
  <2>5. \A i, j \in 1..l - 1 : i < j => i + 1 < j + 1
    BY <2>1
  <2> QED
    BY <2>2, <2>3, <2>4, <2>5
<1>3. \A t : To(t)' = To(t) /\ (t \in Sender => To(t) \in World)
  BY ToFacts DEF To
<1>4. thread' = thread /\ offered' = offered
  BY DEF Take
<1>5. \A t : Until(t)' = Until(t)
  BY <1>4 DEF Until
<1>6. Addressed'
  <2>1. ASSUME NEW v \in World, NEW i \in DOMAIN channel'[v] PROVE To(channel'[v][i].from) = v
    <3>1. CASE v = w
      <4>1. i + 1 \in DOMAIN channel[w] /\ channel'[w][i] = channel[w][i + 1]
        BY <1>1, <1>2, <3>1
      <4> QED
        BY <3>1, <4>1 DEF Streams, Addressed
    <3>2. CASE v # w
      BY <1>1, <3>2 DEF Streams, Addressed
    <3> QED
      BY <3>1, <3>2
  <2> QED
    BY <1>3, <2>1 DEF Addressed
<1>7. ASSUME NEW t \in Sender PROVE Within(t)'
  <2>1. ASSUME NEW i \in DOMAIN got'[t] PROVE got'[t][i] \in 1..Until(t)
    <3>1. CASE t # f
      BY <1>1, <3>1 DEF Streams, Within
    <3>2. CASE t = f /\ i \in 1..g
      BY <1>1, <3>2 DEF Streams, Within
    <3>3. CASE t = f /\ i = g + 1
      BY <1>1, <1>2, <3>3 DEF Streams, Within
    <3> QED
      BY <1>1, <3>1, <3>2, <3>3
  <2>2. ASSUME NEW i \in DOMAIN channel'[To(t)], channel'[To(t)][i].from = t
        PROVE  channel'[To(t)][i].n \in 1..Until(t)
    <3>1. CASE To(t) = w
      <4>1. i + 1 \in DOMAIN channel[w] /\ channel'[w][i] = channel[w][i + 1]
        BY <1>1, <1>2, <2>2, <3>1
      <4> QED
        BY <2>2, <3>1, <4>1 DEF Streams, Within
    <3>2. CASE To(t) # w
      BY <1>1, <1>3, <2>2, <3>2 DEF Streams, Within
    <3> QED
      BY <3>1, <3>2
  <2> QED
    <3>1. Until(t) \in Nat
      BY DEF Streams, Within
    <3> QED
      BY <1>3, <1>5, <2>1, <2>2, <3>1 DEF Within
<1>8. ASSUME NEW t \in Sender PROVE Ascending(t)'
  <2> DEFINE ch == channel[To(t)]
             after == channel'[To(t)]
  <2>1. /\ \A i, j \in DOMAIN got[t] : i < j => got[t][i] < got[t][j]
        /\ \A i, j \in DOMAIN ch : ch[i].from = t /\ ch[j].from = t /\ i < j => ch[i].n < ch[j].n
        /\ \A i \in DOMAIN got[t] : \A j \in DOMAIN ch : ch[j].from = t => got[t][i] < ch[j].n
    BY DEF Streams, Ascending
  <2>2. CASE To(t) # w
    <3>1. t # f /\ got'[t] = got[t] /\ after = ch
      BY <1>1, <1>3, <2>2
    <3> QED
      BY <1>3, <2>1, <3>1 DEF Ascending
  <2>3. CASE To(t) = w
    <3>0. ch = lane /\ after = rest
      BY <2>3
    <3>1. \A i, j \in DOMAIN after :
              after[i].from = t /\ after[j].from = t /\ i < j => after[i].n < after[j].n
      <4> SUFFICES ASSUME NEW i \in DOMAIN after, NEW j \in DOMAIN after,
                          after[i].from = t, after[j].from = t, i < j
                   PROVE  after[i].n < after[j].n
        OBVIOUS
      <4>1. /\ i + 1 \in DOMAIN ch /\ j + 1 \in DOMAIN ch /\ i + 1 < j + 1
            /\ after[i] = ch[i + 1] /\ after[j] = ch[j + 1]
        BY <1>1, <1>2, <3>0
      <4> QED
        BY <2>1, <4>1
    <3>2. ASSUME NEW i \in DOMAIN got'[t], NEW j \in DOMAIN after, after[j].from = t
          PROVE  got'[t][i] < after[j].n
      <4>1. j + 1 \in DOMAIN ch /\ 1 \in DOMAIN ch /\ 1 < j + 1 /\ after[j] = ch[j + 1]
        BY <1>1, <1>2, <3>0
      <4>2. CASE t # f \/ i \in 1..g
        <5>1. i \in DOMAIN got[t] /\ got'[t][i] = got[t][i]
          BY <1>1, <3>2, <4>2
        <5> QED
          BY <2>1, <3>2, <4>1, <5>1
      <4>3. CASE t = f /\ i = g + 1
        <5>1. got'[t][i] = k /\ ch[1].from = t /\ ch[1].n = k
          BY <1>1, <1>2, <3>0, <4>3
        <5> QED
          BY <2>1, <3>2, <4>1, <5>1
      <4> QED
        BY <1>1, <4>2, <4>3
    <3>3. ASSUME NEW i \in DOMAIN got'[t], NEW j \in DOMAIN got'[t], i < j
          PROVE  got'[t][i] < got'[t][j]
      <4>1. CASE t # f
        BY <1>1, <2>1, <3>3, <4>1
      <4>2. CASE t = f /\ j \in 1..g
        <5>1. i \in 1..g
          BY <1>1, <3>3, <4>2
        <5> QED
          BY <1>1, <2>1, <3>3, <4>2, <5>1
      <4>3. CASE t = f /\ j = g + 1
        <5>1. i \in 1..g
          BY <1>1, <3>3, <4>3
        <5>2. got[t][i] < ch[1].n
          BY <1>1, <1>2, <2>1, <3>0, <4>3, <5>1
        <5> QED
          BY <1>1, <1>2, <3>0, <4>3, <5>1, <5>2
      <4> QED
        BY <1>1, <4>1, <4>2, <4>3
    <3> QED
      BY <1>3, <3>1, <3>2, <3>3 DEF Ascending
  <2> QED
    BY <2>2, <2>3
<1> QED
  BY <1>6, <1>7, <1>8 DEF Streams

\* A message that is queued comes after all that came before.
LEMMA EnqueueStreams ==
    ASSUME CountTypes, Streams, NEW s \in Sender, Enqueue(s) PROVE Streams'
<1> DEFINE w == To(s)
           lane == channel[w]
           l == Len(lane)
           m == [from |-> s, n |-> offered[s]]
<1>1. w \in World /\ lane \in Seq(Message) /\ m \in Message /\ channel' = [channel EXCEPT ![w] = Append(lane, m)]
  BY ToFacts DEF Enqueue, CountTypes, Types, Message
<1>2. channel'[w] = Append(lane, m) /\ \A v \in World : v # w => channel'[v] = channel[v]
  BY <1>1 DEF CountTypes, Types
<1>3. /\ l \in Nat /\ DOMAIN lane = 1..l /\ DOMAIN channel'[w] = 1..l + 1
      /\ \A i \in 1..l : channel'[w][i] = lane[i]
      /\ channel'[w][l + 1] = m
  BY <1>1, <1>2
<1>4. \A t : To(t)' = To(t) /\ (t \in Sender => To(t) \in World)
  BY ToFacts DEF To
<1>5. /\ got' = got /\ thread[s] = "sending" /\ offered' = offered
      /\ \A t \in Sender : thread'[t] = IF t = s THEN "queued" ELSE thread[t]
      /\ \A t \in Sender : offered[t] \in Nat
  BY DEF Enqueue, CountTypes, Types
<1>6. /\ \A t \in Sender : t # s => Until(t)' = Until(t)
      /\ Until(s) = offered[s] - 1 /\ Until(s)' = offered[s]
      /\ \A t \in Sender : Until(t) \in Int /\ Until(t) <= Until(t)'
  BY <1>5 DEF Until
<1>7. \A i \in DOMAIN got[s] : got[s][i] \in 1..offered[s] - 1
  BY <1>6 DEF Streams, Within
<1>8. \A i \in 1..l : lane[i].from = s => lane[i].n \in 1..offered[s] - 1
  BY <1>3, <1>6 DEF Streams, Within
<1>9. m.from = s /\ m.n = offered[s]
  OBVIOUS
<1> HIDE DEF m
<1>10. offered[s] \in 1..offered[s]
  BY <1>5, <1>6 DEF Streams, Within
<1>11. Addressed'
  <2>1. ASSUME NEW v \in World, NEW i \in DOMAIN channel'[v] PROVE To(channel'[v][i].from) = v
    <3>1. CASE v # w
      BY <1>2, <3>1 DEF Streams, Addressed
    <3>2. CASE v = w /\ i \in 1..l
      BY <1>3, <3>2 DEF Streams, Addressed
    <3>3. CASE v = w /\ i = l + 1
      BY <1>3, <1>9, <3>3
    <3> QED
      BY <1>3, <3>1, <3>2, <3>3
  <2> QED
    BY <1>4, <2>1 DEF Addressed
<1>12. ASSUME NEW t \in Sender PROVE Within(t)'
  <2>0. /\ Until(t) \in Nat /\ Until(t)' \in Nat /\ \A n \in 1..Until(t) : n \in 1..Until(t)'
    BY <1>5, <1>6 DEF Streams, Within
  <2>1. \A i \in DOMAIN got'[t] : got'[t][i] \in 1..Until(t)'
    BY <1>5, <2>0 DEF Streams, Within
  <2>2. ASSUME NEW i \in DOMAIN channel'[To(t)], channel'[To(t)][i].from = t
        PROVE  channel'[To(t)][i].n \in 1..Until(t)'
    <3>1. CASE To(t) # w
      BY <1>2, <1>4, <2>0, <2>2, <3>1 DEF Streams, Within
    <3>2. CASE To(t) = w /\ i \in 1..l
      BY <1>3, <2>0, <2>2, <3>2 DEF Streams, Within
    <3>3. CASE To(t) = w /\ i = l + 1
      BY <1>3, <1>6, <1>9, <1>10, <2>2, <3>3
    <3> QED
      BY <1>3, <3>1, <3>2, <3>3
  <2> QED
    BY <1>4, <2>0, <2>1, <2>2 DEF Within
<1>13. ASSUME NEW t \in Sender PROVE Ascending(t)'
  <2> DEFINE ch == channel[To(t)]
             after == channel'[To(t)]
  <2>1. /\ \A i, j \in DOMAIN got[t] : i < j => got[t][i] < got[t][j]
        /\ \A i, j \in DOMAIN ch : ch[i].from = t /\ ch[j].from = t /\ i < j => ch[i].n < ch[j].n
        /\ \A i \in DOMAIN got[t] : \A j \in DOMAIN ch : ch[j].from = t => got[t][i] < ch[j].n
    BY DEF Streams, Ascending
  <2>2. CASE To(t) # w
    <3>1. after = ch
      BY <1>2, <1>4, <2>2
    <3> QED
      BY <1>4, <1>5, <2>1, <3>1 DEF Ascending
  <2>3. CASE To(t) = w
    <3>0. ch = lane /\ after = channel'[w]
      BY <2>3
    <3> HIDE DEF ch, after
    <3>1. ASSUME NEW i \in DOMAIN after, NEW j \in DOMAIN after,
                 after[i].from = t, after[j].from = t, i < j
          PROVE  after[i].n < after[j].n
      <4>1. i \in 1..l
        BY <1>3, <3>0, <3>1
      <4>2. CASE j \in 1..l
        BY <1>3, <2>1, <3>0, <3>1, <4>1, <4>2
      <4>3. CASE j = l + 1
        BY <1>3, <1>5, <1>8, <1>9, <3>0, <3>1, <4>1, <4>3
      <4> QED
        BY <1>3, <3>0, <4>2, <4>3
    <3>2. ASSUME NEW i \in DOMAIN got[t], NEW j \in DOMAIN after, after[j].from = t
          PROVE  got[t][i] < after[j].n
      <4>1. CASE j \in 1..l
        BY <1>3, <2>1, <3>0, <3>2, <4>1
      <4>2. CASE j = l + 1
        BY <1>3, <1>5, <1>7, <1>9, <3>0, <3>2, <4>2
      <4> QED
        BY <1>3, <3>0, <4>1, <4>2
    <3> QED
      BY <1>4, <1>5, <2>1, <3>1, <3>2 DEF Ascending, after
  <2> QED
    BY <2>2, <2>3
<1> QED
  BY <1>11, <1>12, <1>13 DEF Streams

\* A step that queues and takes nothing, and counts no message back.
LEMMA OtherStreams ==
    ASSUME CountTypes, Streams, got' = got,
           \A w \in World : channel'[w] = channel[w] \/ channel'[w] = <<>>,
           \A t \in Sender : Until(t)' \in Nat /\ Until(t) <= Until(t)'
    PROVE  Streams'
<1>1. \A t : To(t)' = To(t) /\ (t \in Sender => To(t) \in World)
  BY ToFacts DEF To
<1>2. Addressed'
  <2>1. ASSUME NEW v \in World, NEW i \in DOMAIN channel'[v] PROVE To(channel'[v][i].from) = v
    <3>1. channel'[v] # <<>>
      BY <2>1
    <3> QED
      BY <3>1 DEF Streams, Addressed
  <2> QED
    BY <1>1, <2>1 DEF Addressed
<1>3. ASSUME NEW t \in Sender PROVE Within(t)' /\ Ascending(t)'
  <2>1. /\ Until(t) \in Nat /\ Until(t)' \in Nat /\ \A n \in 1..Until(t) : n \in 1..Until(t)'
    BY DEF Streams, Within
  <2>2. CASE channel'[To(t)] = channel[To(t)]
    BY <1>1, <2>1, <2>2 DEF Streams, Within, Ascending
  <2>3. CASE channel'[To(t)] = <<>>
    <3>1. DOMAIN channel'[To(t)] = {}
      BY <2>3
    <3> QED
      BY <1>1, <2>1, <3>1 DEF Streams, Within, Ascending
  <2> QED
    BY <1>1, <2>2, <2>3
<1> QED
  BY <1>2, <1>3 DEF Streams

-----------------------------------------------------------------------------
(* The counters, step by step.                                             *)

\* What the sum is made of.
LEMMA TallyTypes ==
    ASSUME CountTypes, NEW w \in World, Tally(w)
    PROVE  /\ sent[w] \in Nat /\ dropped[w] \in Nat
           /\ Cardinality(In(w, "queued")) \in Nat /\ Sending(w) \in Nat
           /\ IsFiniteSet(Begun(w)) /\ Cardinality(Begun(w)) \in Nat
           /\ IsFiniteSet(Passed(w)) /\ Cardinality(Passed(w)) \in Nat
<1>1. Passed(w) \in SUBSET Begun(w)
  BY DEF Passed
<1> QED
  BY <1>1, SendingFinite, FS_Subset, FS_CardinalityType DEF CountTypes, Tally, Sending

\* The messages that came are the same if no more were begun, none arrived and
\* none was queued.
LEMMA PassedSame ==
    ASSUME NEW w \in World, Begun(w)' = Begun(w), got' = got,
           channel'[Peer(w)] = channel[Peer(w)]
    PROVE  Passed(w)' = Passed(w)
<1>1. \A m \in Begun(w) : m[1] \in Threads(w)
  BY BegunMembers
<1>2. \A t \in Threads(w) : To(t) = Peer(w) /\ To(t)' = Peer(w)
  BY DEF Threads, To
<1> QED
  BY <1>1, <1>2 DEF Passed, Came

\* A message that has just been begun has not come.
LEMMA PassedBegun ==
    ASSUME CountTypes, Streams, NEW t \in Sender,
           offered' = [offered EXCEPT ![t] = @ + 1], thread[t] # "sending",
           got' = got, channel' = channel
    PROVE  \A w \in World : Passed(w)' = Passed(w)
<1>1. ASSUME NEW w \in World, NEW m PROVE m \in Passed(w)' <=> m \in Passed(w)
  <2>1. \A u, n : Came(u, n)' <=> Came(u, n)
    BY DEF Came, To
  <2>2. ~Came(t, offered[t] + 1)
    <3>1. offered[t] \in Nat /\ Until(t) = offered[t]
      BY DEF Until, CountTypes, Types
    <3>2. ~(offered[t] + 1 \in 1..Until(t))
      BY <3>1
    <3>3. offered[t] + 1 \notin ToSet(got[t])
      BY <3>2 DEF ToSet, Streams, Within
    <3>4. [from |-> t, n |-> offered[t] + 1] \notin ToSet(channel[To(t)])
      BY <3>2 DEF ToSet, Streams, Within
    <3> QED
      BY <3>3, <3>4 DEF Came
  <2>3. w = Home[t] \/ w = To(t)
    BY ToFacts, PeerFacts DEF World, Peer
  <2>4. Begun(w)' = Begun(w) \/ Begun(w)' = Begun(w) \cup {<<t, offered[t] + 1>>}
    BY <2>3, BegunGrows DEF CountTypes
  <2> QED
    BY <2>1, <2>2, <2>4 DEF Passed
<1> QED
  BY <1>1

LEMMA SameTally ==
    ASSUME NEW w \in World, Tally(w), Begun(w)' = Begun(w), UNCHANGED <<sent, dropped>>,
           In(w, "queued")' = In(w, "queued"), In(w, "sending")' = In(w, "sending"),
           open' \subseteq open, Peer(w) \in open' => Passed(w)' = Passed(w)
    PROVE  Tally(w)'
<1>1. Sending(w)' = Sending(w)
  BY DEF Sending
<1> QED
  BY <1>1 DEF Tally

LEMMA TickTally ==
    ASSUME CountTypes, Streams, \A w \in World : Tally(w),
           (\E w \in World : Tick(w) \/ Close(w)) \/ UNCHANGED vars,
           NEW v \in World
    PROVE  Tally(v)'
<1>1. UNCHANGED <<sent, dropped, thread, offered>>
  BY DEF Tick, Take, BeginSystems, EndTick, Close, vars
<1>2. \A state : In(v, state)' = In(v, state)
  BY <1>1 DEF In, Threads
<1>3. Begun(v)' = Begun(v)
  BY <1>1 DEF Begun, Threads
<1>4. open' \subseteq open
  BY DEF Tick, Take, BeginSystems, EndTick, Close, vars
<1>5. Peer(v) \in open' => Passed(v)' = Passed(v)
  <2>1. CASE \E w \in World : Take(w)
    BY <2>1, TakeKeepsPassed DEF Streams
  <2>2. CASE (\E w \in World : BeginSystems(w) \/ EndTick(w)) \/ UNCHANGED vars
    <3>1. got' = got /\ channel' = channel
      BY <2>2 DEF BeginSystems, EndTick, vars
    <3> QED
      BY <1>3, <3>1, PassedSame
  <2>3. ASSUME NEW w \in World, Close(w), Peer(v) \in open' PROVE Passed(v)' = Passed(v)
    <3>1. got' = got /\ channel'[Peer(v)] = channel[Peer(v)]
      BY <2>3, PeerFacts DEF Close, CountTypes, Types
    <3> QED
      BY <1>3, <3>1, PassedSame
  <2> QED
    BY <2>1, <2>2, <2>3 DEF Tick
<1> QED
  BY <1>1, <1>2, <1>3, <1>4, <1>5, SameTally

LEMMA BeginTally ==
    ASSUME CountTypes, Streams, \A w \in World : Tally(w),
           NEW t \in Sender, Offer(t) \/ Unserializable(t), NEW v \in World
    PROVE  Tally(v)'
<1> DEFINE w == Home[t]
<1>1. /\ offered' = [offered EXCEPT ![t] = @ + 1] /\ thread[t] = "idle"
      /\ got' = got /\ channel' = channel /\ open' = open /\ sent' = sent
  BY DEF Offer, Unserializable
<1>2. w \in World /\ To(t) = Peer(w) /\ (v = w \/ v = To(t)) /\ To(t) # w
  BY ToFacts, PeerFacts DEF World, Peer
<1>3. Passed(v)' = Passed(v)
  BY <1>1, PassedBegun
<1>4. CASE v = w
  <2>1. /\ Begun(w)' = Begun(w) \cup {<<t, offered[t] + 1>>}
        /\ <<t, offered[t] + 1>> \notin Begun(w)
    BY <1>1, BegunGrows DEF CountTypes
  <2>2. /\ IsFiniteSet(Begun(w)') /\ Cardinality(Begun(w)') = Cardinality(Begun(w)) + 1
    BY <1>2, <2>1, FS_AddElement DEF Tally
  <2>3. CASE Offer(t)
    <3>1. thread' = [thread EXCEPT ![t] = "sending"] /\ dropped' = dropped
      BY <2>3 DEF Offer
    <3>2. /\ Cardinality(In(w, "sending"))' = Cardinality(In(w, "sending")) + 1
          /\ Cardinality(In(w, "queued"))' = Cardinality(In(w, "queued"))
      BY <1>1, <3>1, MoveFacts DEF CountTypes
    <3> QED
      BY <1>1, <1>2, <1>3, <1>4, <2>2, <3>1, <3>2, TallyTypes DEF Tally, Sending
  <2>4. CASE Unserializable(t)
    <3>1. thread' = thread /\ dropped'[w] = dropped[w] + 1
      BY <1>2, <2>4 DEF Unserializable, CountTypes
    <3>2. \A state : In(w, state)' = In(w, state)
      BY <3>1 DEF In, Threads
    <3> QED
      BY <1>1, <1>2, <1>3, <1>4, <2>2, <3>1, <3>2, TallyTypes DEF Tally, Sending
  <2> QED
    BY <2>3, <2>4
<1>5. CASE v = To(t)
  <2>1. Begun(v)' = Begun(v)
    BY <1>1, <1>5, BegunGrows DEF CountTypes
  <2>2. \A state \in {"sending", "queued"} :
            Cardinality(In(v, state))' = Cardinality(In(v, state)) /\ dropped'[v] = dropped[v]
    <3>1. CASE Offer(t)
      <4>1. thread' = [thread EXCEPT ![t] = "sending"] /\ dropped' = dropped
        BY <3>1 DEF Offer
      <4> QED
        BY <1>1, <1>5, <4>1, MoveFacts DEF CountTypes
    <3>2. CASE Unserializable(t)
      BY <1>2, <1>5, <3>2 DEF Unserializable, In, Threads, CountTypes
    <3> QED
      BY <3>1, <3>2
  <2> QED
    BY <1>1, <1>3, <2>1, <2>2 DEF Tally, Sending
<1> QED
  BY <1>2, <1>4, <1>5

LEMMA SendTally ==
    ASSUME CountTypes, Streams, \A w \in World : Tally(w),
           NEW t \in Sender, CountSent(t) \/ Refuse(t), NEW v \in World
    PROVE  Tally(v)'
<1> DEFINE w == Home[t]
<1>1. /\ thread' = [thread EXCEPT ![t] = "idle"]
      /\ UNCHANGED <<got, channel, open, offered>>
  BY DEF CountSent, Refuse
<1>2. w \in World /\ To(t) = Peer(w) /\ (v = w \/ v = To(t)) /\ To(t) # w
  BY ToFacts, PeerFacts DEF World, Peer
<1>3. Begun(v)' = Begun(v)
  BY <1>1 DEF Begun, Threads
<1>4. Passed(v)' = Passed(v)
  BY <1>1, <1>3, PassedSame
<1>5. CASE v = w
  <2>1. CASE CountSent(t)
    <3>1. thread[t] = "queued" /\ sent'[w] = sent[w] + 1 /\ dropped' = dropped
      BY <1>2, <2>1 DEF CountSent, CountTypes
    <3>2. /\ Cardinality(In(w, "queued"))' = Cardinality(In(w, "queued")) - 1
          /\ Cardinality(In(w, "sending"))' = Cardinality(In(w, "sending"))
      BY <1>1, <3>1, MoveFacts DEF CountTypes
    <3> QED
      BY <1>1, <1>2, <1>3, <1>4, <1>5, <3>1, <3>2, TallyTypes DEF Tally, Sending
  <2>2. CASE Refuse(t)
    <3>1. thread[t] = "sending" /\ dropped'[w] = dropped[w] + 1 /\ sent' = sent
      BY <1>2, <2>2 DEF Refuse, CountTypes
    <3>2. /\ Cardinality(In(w, "sending"))' = Cardinality(In(w, "sending")) - 1
          /\ Cardinality(In(w, "queued"))' = Cardinality(In(w, "queued"))
      BY <1>1, <3>1, MoveFacts DEF CountTypes
    <3> QED
      BY <1>1, <1>2, <1>3, <1>4, <1>5, <3>1, <3>2, TallyTypes DEF Tally, Sending
  <2> QED
    BY <2>1, <2>2
<1>6. CASE v = To(t)
  <2>1. \A state \in {"sending", "queued"} : Cardinality(In(v, state))' = Cardinality(In(v, state))
    BY <1>1, <1>6, MoveFacts DEF CountTypes, CountSent, Refuse
  <2>2. sent'[v] = sent[v] /\ dropped'[v] = dropped[v]
    BY <1>2, <1>6 DEF CountSent, Refuse, CountTypes
  <2> QED
    BY <1>1, <1>3, <1>4, <2>1, <2>2 DEF Tally, Sending
<1> QED
  BY <1>2, <1>5, <1>6

\* The message that is queued is one more that has come.
LEMMA EnqueuePassed ==
    ASSUME CountTypes, Streams, NEW t \in Sender, Enqueue(t)
    PROVE  /\ Passed(Home[t])' = Passed(Home[t]) \cup {<<t, offered[t]>>}
           /\ <<t, offered[t]>> \notin Passed(Home[t])
           /\ Passed(To(t))' = Passed(To(t))
<1> DEFINE w == Home[t]
           k == offered[t]
           m == [from |-> t, n |-> k]
<1>1. w \in World /\ To(t) = Peer(w) /\ Peer(w) \in World /\ To(t) # w /\ Peer(Peer(w)) = w
  BY ToFacts, PeerFacts
<1>2. /\ channel[To(t)] \in Seq(Message) /\ m \in Message
      /\ channel' = [channel EXCEPT ![To(t)] = Append(channel[To(t)], m)]
      /\ got' = got /\ offered' = offered /\ thread[t] = "sending"
  BY <1>1 DEF Enqueue, CountTypes, Types, Message
<1>3. \A v : Begun(v)' = Begun(v)
  BY <1>2 DEF Begun, Threads
<1>4. channel'[w] = channel[w] /\ channel'[To(t)] = Append(channel[To(t)], m)
  BY <1>1, <1>2 DEF CountTypes, Types
<1>5. ToSet(channel'[To(t)]) = ToSet(channel[To(t)]) \cup {m}
  BY <1>2, <1>4, ToSetAppend
<1>6. Passed(To(t))' = Passed(To(t))
  BY <1>1, <1>2, <1>3, <1>4, PassedSame
<1>7. k \in Nat /\ Until(t) = k - 1 /\ Until(t) \in Nat /\ t \in Threads(w)
  BY <1>2 DEF Until, CountTypes, Types, Streams, Within, Threads
<1>8. ~Came(t, k)
  <2>1. k \notin 1..Until(t)
    BY <1>7
  <2>2. k \notin ToSet(got[t])
    BY <2>1 DEF ToSet, Streams, Within
  <2>3. m \notin ToSet(channel[To(t)])
    BY <2>1 DEF ToSet, Streams, Within
  <2> QED
    BY <2>2, <2>3 DEF Came
<1>9. <<t, k>> \in Begun(w)
  <2>1. k \in 1..offered[t]
    BY <1>7
  <2> QED
    BY <1>7, <2>1, BegunMembers
<1>10. ASSUME NEW u \in Threads(w), NEW n PROVE Came(u, n)' <=> Came(u, n) \/ (u = t /\ n = k)
  <2>1. To(u) = To(t) /\ To(u)' = To(t)
    BY DEF Threads, To
  <2>2. [from |-> u, n |-> n] = m <=> u = t /\ n = k
    OBVIOUS
  <2> HIDE DEF m
  <2> QED
    BY <1>2, <1>5, <2>1, <2>2 DEF Came
<1>11. \A x \in Begun(w) : x[1] \in Threads(w) /\ x = <<x[1], x[2]>>
  BY BegunMembers
<1>12. ASSUME NEW x PROVE x \in Passed(w)' <=> x \in Passed(w) \cup {<<t, k>>}
  BY <1>3, <1>9, <1>10, <1>11 DEF Passed
<1>13. <<t, k>> \notin Passed(w)
  BY <1>8 DEF Passed
<1> QED
  BY <1>6, <1>12, <1>13

LEMMA EnqueueTally ==
    ASSUME CountTypes, Streams, \A w \in World : Tally(w),
           NEW t \in Sender, Enqueue(t), NEW v \in World
    PROVE  Tally(v)'
<1> DEFINE w == Home[t]
<1>1. /\ thread' = [thread EXCEPT ![t] = "queued"] /\ thread[t] = "sending"
      /\ UNCHANGED <<got, open, offered, sent, dropped>>
  BY DEF Enqueue
<1>2. w \in World /\ To(t) = Peer(w) /\ (v = w \/ v = To(t)) /\ To(t) # w
  BY ToFacts, PeerFacts DEF World, Peer
<1>3. Begun(v)' = Begun(v)
  BY <1>1 DEF Begun, Threads
<1>4. CASE v = w
  <2>1. /\ Cardinality(In(w, "queued"))' = Cardinality(In(w, "queued")) + 1
        /\ Cardinality(In(w, "sending"))' = Cardinality(In(w, "sending")) - 1
    BY <1>1, MoveFacts DEF CountTypes
  <2>2. Cardinality(Passed(w)') = Cardinality(Passed(w)) + 1
    <3>1. Passed(w)' = Passed(w) \cup {<<t, offered[t]>>} /\ <<t, offered[t]>> \notin Passed(w)
      BY EnqueuePassed
    <3>2. IsFiniteSet(Passed(w))
      BY <1>2, TallyTypes
    <3> QED
      BY <3>1, <3>2, FS_AddElement
  <2> QED
    BY <1>1, <1>2, <1>3, <1>4, <2>1, <2>2, TallyTypes DEF Tally, Sending
<1>5. CASE v = To(t)
  <2>1. \A state \in {"sending", "queued"} : Cardinality(In(v, state))' = Cardinality(In(v, state))
    BY <1>1, <1>5, MoveFacts DEF CountTypes
  <2>2. Passed(v)' = Passed(v)
    BY <1>5, EnqueuePassed
  <2> QED
    BY <1>1, <1>3, <2>1, <2>2 DEF Tally, Sending
<1> QED
  BY <1>2, <1>4, <1>5

-----------------------------------------------------------------------------
LEMMA InitCountInv == Init => CountInv
<1> SUFFICES ASSUME Init PROVE CountInv
  OBVIOUS
<1>1. CountTypes
  BY InitIInv DEF Init, CountTypes, IInv
<1>2. \A t \in Sender : To(t) \in World /\ got[t] = <<>> /\ channel[To(t)] = <<>> /\ Until(t) = 0
  BY ToFacts DEF Init, Until
<1>3. Streams
  <2>1. Addressed
    BY DEF Addressed, Init
  <2>2. \A t \in Sender : Within(t)
    BY <1>2 DEF Within
  <2>3. \A t \in Sender : Ascending(t)
    BY <1>2 DEF Ascending
  <2> QED
    BY <2>1, <2>2, <2>3 DEF Streams
<1>4. ASSUME NEW w \in World PROVE Tally(w)
  <2>1. \A t \in Threads(w) : 1..offered[t] = {}
    BY DEF Init, Threads
  <2>2. Begun(w) = {}
    BY <2>1, BegunMembers
  <2>3. Passed(w) = {}
    BY <2>2 DEF Passed
  <2>4. In(w, "queued") = {} /\ In(w, "sending") = {}
    BY DEF In, Threads, Init
  <2>5. sent[w] = 0 /\ dropped[w] = 0
    BY DEF Init
  <2>6. IsFiniteSet({}) /\ Cardinality({}) = 0
    BY FS_EmptySet
  <2> QED
    BY <2>2, <2>3, <2>4, <2>5, <2>6 DEF Tally, Sending
<1> QED
  BY <1>1, <1>3, <1>4 DEF CountInv

LEMMA StreamsStep == ASSUME CountTypes, Streams, [Next]_vars PROVE Streams'
<1>1. \A t \in Sender : Until(t) \in Nat /\ offered[t] \in Nat
  BY DEF Streams, Within, CountTypes, Types
<1>2. ASSUME NEW w \in World, BeginSystems(w) \/ EndTick(w) \/ Close(w) PROVE Streams'
  <2>1. got' = got /\ thread' = thread /\ offered' = offered
    BY <1>2 DEF BeginSystems, EndTick, Close
  <2>2. \A v \in World : channel'[v] = channel[v] \/ channel'[v] = <<>>
    BY <1>2 DEF BeginSystems, EndTick, Close, CountTypes, Types
  <2>3. \A t \in Sender : Until(t)' \in Nat /\ Until(t) <= Until(t)'
    BY <1>1, <2>1 DEF Until
  <2> QED
    BY <2>1, <2>2, <2>3, OtherStreams
<1>3. ASSUME NEW s \in Sender, Offer(s) \/ Unserializable(s) \/ CountSent(s) \/ Refuse(s)
      PROVE  Streams'
  <2>1. got' = got /\ channel' = channel
    BY <1>3 DEF Offer, Unserializable, CountSent, Refuse
  <2>2. /\ offered'[s] = offered[s] \/ offered'[s] = offered[s] + 1
        /\ thread'[s] = "sending" => offered'[s] = offered[s] + 1 /\ thread[s] # "sending"
        /\ \A t \in Sender : t # s => offered'[t] = offered[t] /\ thread'[t] = thread[t]
    BY <1>3 DEF Offer, Unserializable, CountSent, Refuse, CountTypes, Types
  <2>3. \A t \in Sender : Until(t)' \in Nat /\ Until(t) <= Until(t)'
    <3>1. ASSUME NEW t \in Sender, t # s PROVE Until(t)' = Until(t)
      BY <2>2, <3>1 DEF Until
    <3>2. Until(s)' \in Nat /\ Until(s) <= Until(s)'
      BY <1>1, <2>2 DEF Until
    <3> QED
      BY <1>1, <3>1, <3>2
  <2> QED
    BY <2>1, <2>3, OtherStreams
<1>4. CASE UNCHANGED vars
  <2>1. got' = got /\ channel' = channel /\ \A t : Until(t)' = Until(t)
    BY <1>4 DEF vars, Until
  <2> QED
    BY <1>1, <2>1, OtherStreams
<1> QED
  BY <1>2, <1>3, <1>4, TakeStreams, EnqueueStreams DEF Next, Tick, Send

LEMMA NextCountInv == ASSUME CountInv, [Next]_vars PROVE CountInv'
<1>1. CountTypes /\ Streams /\ \A w \in World : Tally(w)
  BY DEF CountInv
<1>2. CountTypes' /\ Streams'
  BY <1>1, CountTypesStep, StreamsStep
<1>3. \A v \in World : Tally(v)'
  BY <1>1, TickTally, BeginTally, SendTally, EnqueueTally DEF Next, Send
<1> QED
  BY <1>2, <1>3 DEF CountInv

\* Whatever the capacity, the policy, the threads and the number of their
\* messages: the bridge's counters add up to the messages begun, what is counted
\* as sent has come or is on its way as long as the peer listens, and the messages
\* of a thread come once and in the order it sent them.
THEOREM NothingUnaccounted == Spec => []Accounted
<1>1. Init => CountInv
  BY InitCountInv
<1>2. CountInv /\ [Next]_vars => CountInv'
  BY NextCountInv
<1>3. CountInv => Accounted
  BY DEF CountInv, Streams, Tally, Accounted, Sending
<1> QED
  BY <1>1, <1>2, <1>3, PTL DEF Spec

=============================================================================
