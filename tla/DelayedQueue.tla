---------------------------- MODULE DelayedQueue ----------------------------
(***************************************************************************)
(* DelayedQueue<T> of apex-core (events.rs) in front of an Events<T>:      *)
(* events kept back for a number of ticks in a min-heap by (delivery tick, *)
(* sequence number), sent to the event queue by `flush_delayed`, which the *)
(* program calls when it likes.  Ticks are unsigned integers of fixed      *)
(* width and wrap around; `now` is the true time.                          *)
(***************************************************************************)
EXTENDS Events

CONSTANTS
  TickMod,    \* ticks are taken modulo TickMod, 2^32 in the code
  FirstTick,  \* the true time at which the queue is created
  MaxNow,     \* bound: the last true time
  MaxDelay,   \* bound: the longest delay
  MaxDelayed  \* bound: events sent with a delay

ASSUME DelayedAssumption ==
  /\ TickMod \in Nat \ {0} /\ FirstTick \in Nat /\ MaxNow \in Nat
  /\ MaxDelay \in 0 .. TickMod - 1 /\ MaxDelayed \in Nat \ {0}

VARIABLES
  now,       \* the true time
  heap,      \* the deferred events
  sequence,  \* the next sequence number
  delayed,   \* history: events sent with a delay
  out        \* history: [entry, from] of what has been flushed in this tick

waiting == <<now, heap, sequence, delayed, out>>
allVars == <<vars, waiting>>

Tick(n) == n % TickMod

\* World::tick.
Advance ==
  /\ now < MaxNow
  /\ now' = now + 1 /\ out' = <<>>
  /\ UNCHANGED <<vars, heap, sequence, delayed>>

\* An event is its number; `due` is the true time it is asked for.
SendDelayed(delay) ==
  /\ delayed < MaxDelayed
  /\ delayed' = delayed + 1
  /\ heap' = heap \cup {[at    |-> Tick(Tick(now) + delay), seq |-> sequence,
                         event |-> delayed + 1, due |-> now + delay]}
  /\ sequence' = sequence + 1
  /\ UNCHANGED <<vars, now, out>>

\* Wrong on purpose: what is due in the next tick is let through.
ReadyNext(e) == e.at <= Tick(now + 1)

\* flush_delayed compares the ticks as plain numbers.
Ready(e) == e.at <= Tick(now)

\* Wrong on purpose: among events of a tick the last one is on top.
HigherLifo(d, e) == d.at < e.at \/ (d.at = e.at /\ d.seq > e.seq)

\* d is nearer the top of the heap than e.
Higher(d, e) == d.at < e.at \/ (d.at = e.at /\ d.seq < e.seq)

\* The loop pops the top while it is ready: all ready entries, in heap order,
\* of which there is one.
DueNow == {e \in heap : Ready(e)}
Popped ==
  {order \in [1 .. Cardinality(DueNow) -> DueNow] :
     \A j, k \in DOMAIN order : j < k => Higher(order[j], order[k])}

\* Each is sent, as by a writer.
FlushDelayed ==
  \E order \in Popped :
    /\ order # <<>> /\ sent["main"] + Len(order) <= MaxSent
    /\ heap' = heap \ DueNow
    /\ out' = out \o [k \in DOMAIN order |-> [entry |-> order[k], from |-> Len(out)]]
    /\ pending' =
         pending \o [k \in DOMAIN order |-> [lane |-> "main", n |-> sent["main"] + k]]
    /\ sent' = [sent EXCEPT !["main"] = @ + Len(order)]
    /\ UNCHANGED <<events, syncPending, slots, handle, seen, now, sequence, delayed>>

\* clear: forget everything, and start the sequence numbers again.
ClearDelayed ==
  /\ heap # {}
  /\ heap' = {} /\ sequence' = 0
  /\ UNCHANGED <<vars, now, delayed, out>>

InitDelayed ==
  /\ Init
  /\ now = FirstTick
  /\ heap = {} /\ sequence = 0 /\ delayed = 0 /\ out = <<>>

NextDelayed ==
  \/ Next /\ UNCHANGED waiting
  \/ Advance
  \/ \E delay \in 0 .. MaxDelay : SendDelayed(delay)
  \/ FlushDelayed
  \/ ClearDelayed

SpecDelayed == InitDelayed /\ [][NextDelayed]_allVars /\ Fairness

-----------------------------------------------------------------------------
(* Properties. *)

\* A flush delivers what is due, nothing before its delay is over ("the number
\* of ticks after which the event becomes available"), and leaves nothing
\* behind that is due.
OnTime ==
  [][out' # out /\ out' # <<>> =>
       /\ \A k \in 1 .. Len(out') : out'[k].entry.due <= now
       /\ \A e \in heap' : e.due > now]_allVars

\* Events of one flush come out in the order in which they fall due, and in the
\* order they were sent when they fall due together, also after a `clear` reset
\* the sequence numbers.
DueOrder ==
  \A j, k \in 1 .. Len(out) :
    j < k /\ out[j].from = out[k].from =>
      \/ out[j].entry.due < out[k].entry.due
      \/ out[j].entry.due = out[k].entry.due
         /\ out[j].entry.event < out[k].entry.event

=============================================================================
