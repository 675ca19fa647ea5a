---------------------------- MODULE EventRouter ----------------------------
(***************************************************************************)
(* What a host sees of the driver (crates/driver/src/embedding.rs): the    *)
(* event pump, the router that copies every event into the bounded queue   *)
(* of each registered handler, the handlers' workers, and the invocation   *)
(* handles whose outcome any number of futures may wait for.               *)
(*                                                                         *)
(* The driver itself is external here: it enqueues numbered events and     *)
(* completes invocations (crates/driver/src/pool.rs, module Driver).       *)
(***************************************************************************)
EXTENDS Naturals, Sequences, FiniteSets

CONSTANTS
    Handler,        \* event handlers, each registered at most once
    Invocation,     \* invocations; also the name of an invocation's watcher
    Waiter,         \* futures of InvocationHandle::wait made by the host
    Outcome,        \* terminal outcomes
    SinkCapacity,   \* bound of a handler's queue and of the watchers
    EventCapacity,  \* bound of the driver's event queue
    MaxEvents,      \* bound: events the driver produces
    None

VARIABLES
    queue,      \* state.events of the driver
    produced,   \* number of driver events made
    pump,       \* [at, batch, event, targets, refused]
    stopping,   \* PumpStop.requested
    sinks,      \* registrations in the router
    sink,       \* DriverEventSinkQueue of each handler
    worker,     \* "none", "runnable", "parked", "handling", "done"
    handled,    \* history: events each handler has taken
    since,      \* history: length of routed when the handler registered
    routed,     \* history: events the pump has begun to route
    outcome,    \* InvocationCompletionState.outcome
    slots,      \* InvocationCompletionState.waiters
    wait        \* InvocationWait: [at, of, slot, got]

routing == <<queue, produced, pump, stopping, sinks, sink, worker, handled, since, routed>>
waiting == <<outcome, slots, wait>>
vars == <<routing, waiting>>

Wait == Waiter \cup Invocation

(* None is the absent handler, wait and outcome.                           *)
RouterAssumption ==
    /\ None \notin Handler /\ None \notin Wait /\ None \notin Outcome
    /\ SinkCapacity \in Nat

Members(s) == {s[n] : n \in DOMAIN s}
Idle == [at |-> "waiting", batch |-> <<>>, event |-> None, targets |-> {}, refused |-> None]

RoutingInit ==
    /\ queue = <<>> /\ produced = 0 /\ pump = Idle /\ stopping = FALSE
    /\ sinks = {} /\ sink = [h \in Handler |-> [events |-> <<>>, closed |-> FALSE]]
    /\ worker = [h \in Handler |-> "none"]
    /\ handled = [h \in Handler |-> <<>>] /\ since = [h \in Handler |-> 0]
    /\ routed = <<>>

WaitingInit ==
    /\ outcome = [i \in Invocation |-> None] /\ slots = [i \in Invocation |-> <<>>]
    /\ wait = [w \in Wait |-> [at |-> "none", of |-> None, slot |-> 0, got |-> None]]

Init == RoutingInit /\ WaitingInit

-----------------------------------------------------------------------------
(* Registrations and handler queues.                                       *)

Register(h) ==
    /\ worker[h] = "none"
    /\ sinks' = sinks \cup {h}
    /\ worker' = [worker EXCEPT ![h] = "runnable"]
    /\ since' = [since EXCEPT ![h] = Len(routed)]
    /\ UNCHANGED <<queue, produced, pump, stopping, sink, handled, routed, waiting>>

(* A parked receiver left its waker in the queue.                          *)
WokenNever(h) == worker[h]
Woken(h) == IF worker[h] = "parked" THEN "runnable" ELSE worker[h]

Closed(h) == [sink EXCEPT ![h] = [events |-> <<>>, closed |-> TRUE]]

(* DriverEventSinkQueue::receive, polled by the worker.                    *)
Receive(h) ==
    /\ worker[h] \in {"runnable", "parked"}
    /\ IF sink[h].events # <<>>
       THEN /\ handled' = [handled EXCEPT ![h] = Append(@, Head(sink[h].events))]
            /\ sink' = [sink EXCEPT ![h].events = Tail(@)]
            /\ worker' = [worker EXCEPT ![h] = "handling"]
       ELSE /\ worker' = [worker EXCEPT ![h] = IF sink[h].closed THEN "done" ELSE "parked"]
            /\ UNCHANGED <<handled, sink>>
    /\ UNCHANGED <<queue, produced, pump, stopping, sinks, since, routed, waiting>>

HandlerReturns(h) ==
    /\ worker[h] = "handling"
    /\ worker' = [worker EXCEPT ![h] = "runnable"]
    /\ UNCHANGED <<queue, produced, pump, stopping, sinks, sink, handled, since, routed, waiting>>

(* The handler panics: the worker's guard closes the queue, the            *)
(* registration stays until the router meets the closed queue.             *)
HandlerPanics(h) ==
    /\ worker[h] = "handling"
    /\ worker' = [worker EXCEPT ![h] = "done"]
    /\ sink' = Closed(h)
    /\ UNCHANGED <<queue, produced, pump, stopping, sinks, handled, since, routed, waiting>>

(* Drop of DriverEventRegistration; dropping the worker's handle ends it.  *)
Unregister(h) ==
    /\ worker[h] # "none" /\ sink[h].closed = FALSE
    /\ sinks' = sinks \ {h}
    /\ sink' = Closed(h)
    /\ worker' = [worker EXCEPT ![h] = "done"]
    /\ UNCHANGED <<queue, produced, pump, stopping, handled, since, routed, waiting>>

-----------------------------------------------------------------------------
(* The pump.                                                               *)

(* The driver enqueues an event; producers wait while the queue is full.   *)
Produce ==
    /\ produced < MaxEvents /\ Len(queue) < EventCapacity
    /\ produced' = produced + 1
    /\ queue' = Append(queue, <<produced + 1>>)
    /\ UNCHANGED <<pump, stopping, sinks, sink, worker, handled, since, routed, waiting>>

(* select polls the events first: stop is only seen while there are none.  *)
TakeEvents ==
    /\ pump.at = "waiting" /\ queue # <<>>
    /\ pump' = [Idle EXCEPT !.at = "routing", !.batch = queue]
    /\ queue' = <<>>
    /\ UNCHANGED <<produced, stopping, sinks, sink, worker, handled, since, routed, waiting>>

Stop ==
    /\ ~ stopping /\ stopping' = TRUE
    /\ UNCHANGED <<queue, produced, pump, sinks, sink, worker, handled, since, routed, waiting>>

SeeStop ==
    /\ pump.at = "waiting" /\ stopping /\ queue = <<>>
    /\ pump' = [pump EXCEPT !.at = "stopping"]
    /\ UNCHANGED <<queue, produced, stopping, sinks, sink, worker, handled, since, routed, waiting>>

(* Events enqueued between the two polls are drained before the pump ends. *)
DrainNothing ==
    /\ pump.at = "stopping"
    /\ pump' = [pump EXCEPT !.at = "stopped"]
    /\ UNCHANGED <<queue, produced, stopping, sinks, sink, worker, handled, since, routed, waiting>>
Drain ==
    /\ pump.at = "stopping"
    /\ pump' = [pump EXCEPT !.at = "draining", !.batch = queue]
    /\ queue' = <<>>
    /\ UNCHANGED <<produced, stopping, sinks, sink, worker, handled, since, routed, waiting>>

(* route copies the list of sinks under the lock, then sends to each.      *)
RouteNext ==
    /\ pump.at \in {"routing", "draining"} /\ pump.targets = {} /\ pump.refused = None
    /\ IF pump.batch = <<>>
       THEN /\ pump' = [Idle EXCEPT !.at = IF pump.at = "draining" THEN "stopped" ELSE "waiting"]
            /\ UNCHANGED routed
       ELSE /\ pump' = [pump EXCEPT !.batch = Tail(@), !.event = Head(pump.batch), !.targets = sinks]
            /\ routed' = Append(routed, Head(pump.batch))
    /\ UNCHANGED <<queue, produced, stopping, sinks, sink, worker, handled, since, waiting>>

(* DriverEventSinkQueue::try_send: a closed or full queue refuses.         *)
Refuses(h) == sink[h].closed \/ Len(sink[h].events) >= SinkCapacity
TrySend(h) ==
    /\ h \in pump.targets /\ pump.refused = None
    /\ IF Refuses(h)
       THEN /\ pump' = [pump EXCEPT !.targets = @ \ {h}, !.refused = h]
            /\ UNCHANGED <<sink, worker>>
       ELSE /\ pump' = [pump EXCEPT !.targets = @ \ {h}]
            /\ sink' = [sink EXCEPT ![h].events = Append(@, pump.event)]
            /\ worker' = [worker EXCEPT ![h] = Woken(h)]
    /\ UNCHANGED <<queue, produced, stopping, sinks, handled, since, routed, waiting>>

(* A handler that refused is removed if it is still registered.            *)
DisconnectSkipping ==
    /\ pump.refused # None
    /\ pump' = [pump EXCEPT !.refused = None]
    /\ UNCHANGED <<queue, produced, stopping, sinks, sink, worker, handled, since, routed, waiting>>
Disconnect ==
    /\ pump.refused # None
    /\ pump' = [pump EXCEPT !.refused = None]
    /\ IF pump.refused \in sinks
       THEN /\ sinks' = sinks \ {pump.refused}
            /\ sink' = Closed(pump.refused)
            /\ worker' = [worker EXCEPT ![pump.refused] = Woken(pump.refused)]
       ELSE UNCHANGED <<sinks, sink, worker>>
    /\ UNCHANGED <<queue, produced, stopping, handled, since, routed, waiting>>

-----------------------------------------------------------------------------
(* Invocations.                                                            *)

WakingNobody(i, w) == wait[w]
Waking(i, w) == IF wait[w].of = i /\ wait[w].at = "parked"
                THEN [wait[w] EXCEPT !.at = "runnable"] ELSE wait[w]

(* InvocationState::complete keeps the first outcome and wakes every slot. *)
CompleteAgain(i, o) ==
    /\ outcome' = [outcome EXCEPT ![i] = o]
    /\ slots' = [slots EXCEPT ![i] = <<>>]
    /\ wait' = [w \in Wait |-> IF w \in Members(slots[i]) THEN Waking(i, w) ELSE wait[w]]
    /\ UNCHANGED routing
Complete(i, o) ==
    /\ outcome[i] = None
    /\ outcome' = [outcome EXCEPT ![i] = o]
    /\ slots' = [slots EXCEPT ![i] = <<>>]
    /\ wait' = [w \in Wait |-> IF w \in Members(slots[i]) THEN Waking(i, w) ELSE wait[w]]
    /\ UNCHANGED routing

Begin(w, i) ==
    /\ wait[w].at = "none"
    /\ wait' = [wait EXCEPT ![w] = [at |-> "runnable", of |-> i, slot |-> 0, got |-> None]]
    /\ UNCHANGED <<routing, outcome, slots>>

Watched == {i \in Invocation : wait[i].at \notin {"none", "done"}}

(* watch_invocation: a watcher waits like anybody else.                    *)
Watch(i) ==
    /\ Cardinality(Watched) < SinkCapacity
    /\ Begin(i, i)

(* The first free slot, or a new one at the end.                           *)
Slot(i) ==
    LET free == {n \in DOMAIN slots[i] : slots[i][n] = None}
    IN  IF free = {} THEN Len(slots[i]) + 1 ELSE CHOOSE n \in free : \A k \in free : n <= k

(* InvocationWait::poll; a future may be polled again without being woken. *)
Poll(w) ==
    LET i == wait[w].of
        n == IF wait[w].slot # 0 THEN wait[w].slot ELSE Slot(i)
    IN  /\ wait[w].at \in {"runnable", "parked"}
        /\ IF outcome[i] # None
           THEN /\ wait' = [wait EXCEPT ![w].at = "ready", ![w].got = outcome[i]]
                /\ UNCHANGED slots
           ELSE /\ slots' = [slots EXCEPT ![i] =
                        IF n > Len(@) THEN Append(@, w) ELSE [@ EXCEPT ![n] = w]]
                /\ wait' = [wait EXCEPT ![w].at = "parked", ![w].slot = n]
        /\ UNCHANGED <<routing, outcome>>

(* Drop of a pending InvocationWait frees its slot.                        *)
DropWaitShrinking(w) ==
    /\ w \in Waiter /\ wait[w].at \in {"runnable", "parked"}
    /\ wait' = [wait EXCEPT ![w].at = "dropped"]
    /\ slots' = [slots EXCEPT ![wait[w].of] =
           IF wait[w].slot \in DOMAIN @
           THEN SubSeq(@, 1, wait[w].slot - 1) \o SubSeq(@, wait[w].slot + 1, Len(@)) ELSE @]
    /\ UNCHANGED <<routing, outcome>>
DropWait(w) ==
    /\ w \in Waiter /\ wait[w].at \in {"runnable", "parked"}
    /\ wait' = [wait EXCEPT ![w].at = "dropped"]
    /\ slots' = [slots EXCEPT ![wait[w].of] =
           IF wait[w].slot \in DOMAIN @ THEN [@ EXCEPT ![wait[w].slot] = None] ELSE @]
    /\ UNCHANGED <<routing, outcome>>

(* publish_watched_invocation: the outcome becomes a driver event.         *)
Publish(i) ==
    /\ wait[i].at = "ready" /\ Len(queue) < EventCapacity
    /\ queue' = Append(queue, <<i, wait[i].got>>)
    /\ wait' = [wait EXCEPT ![i].at = "done"]
    /\ UNCHANGED <<produced, pump, stopping, sinks, sink, worker, handled, since, routed,
                   outcome, slots>>

-----------------------------------------------------------------------------
PumpStep ==
    \/ TakeEvents \/ SeeStop \/ Drain \/ RouteNext \/ Disconnect
    \/ \E h \in Handler : TrySend(h)

Next ==
    \/ PumpStep \/ Produce \/ Stop
    \/ \E h \in Handler : \/ Register(h) \/ Receive(h) \/ HandlerReturns(h)
                          \/ HandlerPanics(h) \/ Unregister(h)
    \/ \E i \in Invocation : \/ Watch(i) \/ Publish(i)
                             \/ \E o \in Outcome : Complete(i, o)
                             \/ \E w \in Waiter : Begin(w, i)
    \/ \E w \in Wait : Poll(w) \/ DropWait(w)

(* The runtime polls the pump and every future that was woken.  Nothing is *)
(* assumed of the handlers.                                                *)
Fairness ==
    /\ WF_vars(PumpStep)
    /\ \A w \in Wait : WF_vars(wait[w].at = "runnable" /\ Poll(w))
    /\ \A i \in Invocation : SF_vars(Publish(i))

Spec == Init /\ [][Next]_vars /\ Fairness

-----------------------------------------------------------------------------
TypeOK ==
    /\ Len(queue) <= EventCapacity /\ produced \in 0..MaxEvents /\ stopping \in BOOLEAN
    /\ pump.at \in {"waiting", "routing", "stopping", "draining", "stopped"}
    /\ pump.targets \subseteq Handler /\ pump.refused \in Handler \cup {None}
    /\ sinks \subseteq Handler
    /\ \A h \in Handler : /\ Len(sink[h].events) <= SinkCapacity
                          /\ worker[h] \in {"none", "runnable", "parked", "handling", "done"}
    /\ \A i \in Invocation : outcome[i] \in Outcome \cup {None}
    /\ \A w \in Wait : wait[w].at \in {"none", "runnable", "parked", "ready", "done", "dropped"}

(* A handler takes the events routed since it registered in their order    *)
(* and without a gap (route, try_send, receive): one that missed an event  *)
(* never sees a later one.                                                 *)
HandlersSeePrefix ==
    \A h \in Handler :
        LET taken == handled[h] \o sink[h].events
        IN  /\ since[h] + Len(taken) <= Len(routed)
            /\ taken = SubSeq(routed, since[h] + 1, since[h] + Len(taken))

(* A worker that sleeps has nothing to do: its queue is empty and open, so *)
(* no wake-up was lost between try_send, close and receive.                *)
ParkedIsIdle ==
    \A h \in Handler : worker[h] = "parked" => sink[h] = [events |-> <<>>, closed |-> FALSE]

(* A sleeping wait holds its own slot of an invocation that is not         *)
(* complete (InvocationWait::poll and drop), so complete will wake it.     *)
SleepersHoldSlots ==
    \A w \in Wait : wait[w].at = "parked" =>
        /\ outcome[wait[w].of] = None
        /\ wait[w].slot \in DOMAIN slots[wait[w].of]
        /\ slots[wait[w].of][wait[w].slot] = w

(* Every wait of an invocation answers with the same outcome, the first    *)
(* one recorded (InvocationState::complete).                               *)
OneOutcome == \A w \in Wait : wait[w].got # None => wait[w].got = outcome[wait[w].of]

(* Whatever the handlers do, also when they never return, the events made  *)
(* before the pump drains for the last time are routed: a full handler is  *)
(* disconnected and never waited for (spawn_router, route).                *)
EventsRouted ==
    (produced = MaxEvents /\ pump.at \in {"waiting", "routing", "stopping"})
        ~> Len(routed) = MaxEvents

(* A watched invocation's outcome reaches the router as an event.          *)
WatchedReported ==
    \A i \in Invocation : (i \in Watched /\ outcome[i] # None) ~>
        (<<i, outcome[i]>> \in Members(routed) \/ pump.at = "stopped")
=============================================================================
