------------------------------- MODULE EventQueue -------------------------------
(***************************************************************************)
(* The event queues of src/src/kernel/eventQueue.cpp                       *)
(* (KernelEqueuePrivate): user events (level and edge), AMPR and video-out *)
(* events, which keep what was triggered before it is collected, and       *)
(* one-shot timers.                                                        *)
(*                                                                         *)
(* A queue is its list of events; m_mutex guards it, so every call is one  *)
(* action.  A waiting thread looks again at the latest after 10 ms         *)
(* (Common::CondVar::Wait polls), so a wait is a sequence of passes and    *)
(* m_cond_var is not shown.  A queue lives as long as a caller holds it    *)
(* (KernelPinEqueue); listed says whether g_equeues still names it.        *)
(***************************************************************************)
EXTENDS Integers, Sequences, SequencesExt

CONSTANTS Queues,    \* handles, each created once
          Waiters,   \* guest threads that wait on queues
          Idents,    \* (ident, filter) of an event
          NoQueue

ASSUME EventQueueAssumption == NoQueue \notin Queues

VARIABLES equeue,    \* each queue: listed, open (~m_closed), m_events
          waiter,    \* the KernelWaitEqueue call of each thread
          history    \* history: what was sent and collected of each event

eventVars == <<equeue, waiter, history>>

Kinds == {"level", "edge", "ampr", "video", "timer"}
OneShot(e) == e.kind = "timer"
Clears(e) == e.kind \in {"edge", "ampr", "video"}
Keeps(e) == e.kind \in {"ampr", "video"}

NewEvent(ident, kind) ==
    [ident |-> ident, kind |-> kind, triggered |-> FALSE, data |-> 0,
     pending |-> <<>>, due |-> IF kind = "timer" THEN "later" ELSE "never"]

NoWait == [queue |-> NoQueue, room |-> 1, timed |-> FALSE]
NoHistory == [sent |-> <<>>, got |-> <<>>]

EventInit ==
    /\ equeue = [q \in Queues |-> [listed |-> TRUE, open |-> TRUE, events |-> <<>>]]
    /\ waiter = [t \in Waiters |-> NoWait]
    /\ history = [q \in Queues |-> [i \in Idents |-> NoHistory]]

Find(q, ident) == SelectInSeq(equeue[q].events, LAMBDA e : e.ident = ident)
Has(q, ident) == Find(q, ident) # 0
-----------------------------------------------------------------------------
(* Collecting: GetTriggeredEvents *)

\* What an event that was not collected in full is left with.
Rest_Dropped(e, chain, n) ==
    [e EXCEPT !.triggered = FALSE, !.data = 0, !.pending = <<>>]
Rest(e, chain, n) ==
    IF n < Len(chain)
    THEN [e EXCEPT !.data = chain[n + 1], !.pending = SubSeq(chain, n + 2, Len(chain))]
    ELSE [e EXCEPT !.triggered = FALSE, !.data = 0, !.pending = <<>>]

\* The inner loop for one event with room for that many: what it hands out and
\* what it leaves.  An event that neither goes nor clears is handed out until
\* the caller's array is full.
Take(e, room) ==
    LET chain == <<e.data>> \o e.pending
        n == IF room < Len(chain) THEN room ELSE Len(chain)
    IN IF ~e.triggered \/ room = 0 THEN [out |-> <<>>, left |-> <<e>>]
       ELSE CASE OneShot(e) -> [out |-> <<e.data>>, left |-> <<>>]
              [] Clears(e) -> [out |-> SubSeq(chain, 1, n), left |-> <<Rest(e, chain, n)>>]
              [] OTHER -> [out |-> [k \in 1 .. room |-> e.data], left |-> <<e>>]

\* TriggerExpiredTimers.
Expire(e) == IF ~e.triggered /\ e.due = "passed" THEN [e EXCEPT !.triggered = TRUE] ELSE e

\* One round of the loop over the events, after which acc.out is handed out and
\* acc.left stays in the list.
Collected(acc, e, room) ==
    LET got == Take(Expire(e), room - Len(acc.out))
    IN [out |-> acc.out \o [k \in DOMAIN got.out |-> <<e.ident, got.out[k]>>],
        left |-> acc.left \o got.left]
Nothing == [out |-> <<>>, left |-> <<>>]

Collect(events, room) ==
    LET after[k \in 0 .. Len(events)] ==
          IF k = 0 THEN Nothing ELSE Collected(after[k - 1], events[k], room)
    IN after[Len(events)]

\* What was handed out of one event.
OfEvent(acc, o, i) == IF o[1] = i THEN Append(acc, o[2]) ELSE acc
DataOf(out, i) ==
    LET data[k \in 0 .. Len(out)] == IF k = 0 THEN <<>> ELSE OfEvent(data[k - 1], out[k], i)
    IN data[Len(out)]

\* The history of the events that keep what they are triggered with.
More(h, data) == [h EXCEPT !.got = @ \o data]
Received(q, out) ==
    LET Kept(i) == Has(q, i) /\ Keeps(equeue[q].events[Find(q, i)])
    IN history' = [history EXCEPT ![q] = [i \in Idents |->
                      IF Kept(i) THEN More(@[i], DataOf(out, i)) ELSE @[i]]]

WaitBegin(t, q, room, timed) ==
    /\ waiter[t] = NoWait /\ equeue[q].listed
    /\ waiter' = [waiter EXCEPT ![t] = [queue |-> q, room |-> room, timed |-> timed]]
    /\ UNCHANGED <<equeue, history>>

\* A pass of WaitForEvents that finds something, or the queue closed.
WaitReturns(t) ==
    LET q == waiter[t].queue
        got == Collect(equeue[q].events, waiter[t].room)
    IN /\ q # NoQueue
       /\ IF equeue[q].open
          THEN /\ got.out # <<>>
               /\ equeue' = [equeue EXCEPT ![q].events = got.left]
               /\ Received(q, got.out)
          ELSE UNCHANGED <<equeue, history>>
       /\ waiter' = [waiter EXCEPT ![t] = NoWait]

WaitTimesOut(t) ==
    /\ waiter[t].queue # NoQueue /\ waiter[t].timed
    /\ equeue[waiter[t].queue].open
    /\ Collect(equeue[waiter[t].queue].events, waiter[t].room).out = <<>>
    /\ waiter' = [waiter EXCEPT ![t] = NoWait]
    /\ UNCHANGED <<equeue, history>>
\* KernelWaitEqueue with a timeout of zero.
Poll(q, room) ==
    LET got == Collect(equeue[q].events, room)
    IN /\ equeue[q].listed /\ equeue[q].open /\ got.out # <<>>
       /\ equeue' = [equeue EXCEPT ![q].events = got.left]
       /\ Received(q, got.out)
       /\ UNCHANGED waiter
-----------------------------------------------------------------------------
(* Adding, triggering, deleting, closing.  Each takes the queues and gives the
   queues after it, for the callers in other components. *)

Alive(q) == equeue[q].listed /\ equeue[q].open

\* AddEvent: an event that is there only gets a new deadline.
Added(q, event) ==
    IF Has(q, event.ident)
    THEN [equeue EXCEPT ![q].events[Find(q, event.ident)].due = event.due]
    ELSE [equeue EXCEPT ![q].events = Append(@, event)]

\* The trigger functions: user events are overwritten, the others keep order.
Trigger_Overwrites(e, data) == [e EXCEPT !.triggered = TRUE, !.data = data]
Trigger(e, data) ==
    IF e.triggered /\ Keeps(e) THEN [e EXCEPT !.pending = Append(@, data)]
    ELSE [e EXCEPT !.triggered = TRUE, !.data = data]

\* TriggerEvent, with what it adds to the history.
Triggers(q, ident, data) ==
    /\ equeue' = [equeue EXCEPT ![q].events[Find(q, ident)] = Trigger(@, data)]
    /\ history' = IF Keeps(equeue[q].events[Find(q, ident)])
                  THEN [history EXCEPT ![q][ident].sent = Append(@, data)] ELSE history

Removed(q, ident) == [equeue EXCEPT ![q].events = RemoveAt(@, Find(q, ident))]
Forget(q, ident) == history' = [history EXCEPT ![q][ident] = NoHistory]

AddEvent(q, ident, kind) ==
    /\ Alive(q)
    /\ equeue' = Added(q, NewEvent(ident, kind))
    /\ IF Has(q, ident) THEN UNCHANGED history ELSE Forget(q, ident)
    /\ UNCHANGED waiter

TriggerEvent(q, ident, data) ==
    /\ Alive(q) /\ Has(q, ident)
    /\ Triggers(q, ident, data)
    /\ UNCHANGED waiter

DeleteEvent(q, ident) ==
    /\ Alive(q) /\ Has(q, ident)
    /\ equeue' = Removed(q, ident)
    /\ Forget(q, ident)
    /\ UNCHANGED waiter

DeadlinePasses(q, ident) ==
    /\ Has(q, ident) /\ equeue[q].events[Find(q, ident)].due = "later"
    /\ equeue' = [equeue EXCEPT ![q].events[Find(q, ident)].due = "passed"]
    /\ UNCHANGED <<waiter, history>>

\* KernelDeleteEqueue: the handle goes first, Close follows.
Unlist(q) ==
    /\ equeue[q].listed
    /\ equeue' = [equeue EXCEPT ![q].listed = FALSE]
    /\ UNCHANGED <<waiter, history>>

Closed(q) == [equeue EXCEPT ![q] = [@ EXCEPT !.open = FALSE, !.events = <<>>]]
CloseQueue(q) ==
    /\ ~equeue[q].listed /\ equeue[q].open
    /\ equeue' = Closed(q)
    /\ history' = [history EXCEPT ![q] = [i \in Idents |-> NoHistory]]
    /\ UNCHANGED waiter
-----------------------------------------------------------------------------
Contents(e) == IF e.triggered THEN <<e.data>> \o e.pending ELSE <<>>

\* Whatever the guest's threads do, an AMPR or video-out event hands out what
\* it was triggered with once each and in order: what is not yet collected is
\* still there (AmprEventTriggerFunc, TriggerVideoOutEvent, the refill from
\* pending_events in GetTriggeredEvents).
KeptInOrder ==
    \A q \in Queues : \A k \in DOMAIN equeue[q].events :
        LET e == equeue[q].events[k] IN
        Keeps(e) => history[q][e.ident].sent = history[q][e.ident].got \o Contents(e)

\* One event of each (ident, filter) in a queue: AddEvent never doubles one.
OneOfEach ==
    \A q \in Queues : \A j, k \in DOMAIN equeue[q].events :
        equeue[q].events[j].ident = equeue[q].events[k].ident => j = k
=============================================================================
