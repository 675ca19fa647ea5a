------------------------- MODULE EventRouterProofs --------------------------
(***************************************************************************)
(* What a handler takes and what the waits of an invocation answer, for    *)
(* any number of handlers, waits, invocations and events and any queue     *)
(* capacities.                                                             *)
(***************************************************************************)
EXTENDS EventRouter, SequenceTheorems, WellFoundedInduction, TLAPS

USE ZenonT(5), SMTT(20)

Event == {<<n>> : n \in Nat} \cup {<<i, o>> : i \in Invocation, o \in Outcome \cup {None}}
Sink == [events : Seq(Event), closed : BOOLEAN]
Pump == [at : {"waiting", "routing", "stopping", "draining", "stopped"}, batch : Seq(Event),
         event : Event \cup {None}, targets : SUBSET Handler, refused : Handler \cup {None}]

RoutingTyped ==
    /\ queue \in Seq(Event) /\ produced \in Nat /\ pump \in Pump /\ sinks \in SUBSET Handler
    /\ sink \in [Handler -> Sink]
    /\ worker \in [Handler -> {"none", "runnable", "parked", "handling", "done"}]
    /\ handled \in [Handler -> Seq(Event)] /\ since \in [Handler -> Nat]
    /\ routed \in Seq(Event)

(* What h has taken and what its queue holds are events that were routed,  *)
(* one after the other, from its registration on.                          *)
Taken(h) == since[h] + Len(handled[h])
Aligned(h) ==
    /\ Taken(h) + Len(sink[h].events) <= Len(routed)
    /\ \A n \in 1..Len(handled[h]) : handled[h][n] = routed[since[h] + n]
    /\ \A n \in 1..Len(sink[h].events) : sink[h].events[n] = routed[Taken(h) + n]

(* An open queue misses at most the event that is being routed, and only   *)
(* while the pump still has to send it or to disconnect the handler.       *)
UpToDate(h) ==
    (h \in sinks /\ ~ sink[h].closed /\ h # pump.refused) =>
        Taken(h) + Len(sink[h].events) =
            IF h \in pump.targets THEN Len(routed) - 1 ELSE Len(routed)

Registered(h) ==
    /\ worker[h] = "none" =>
           /\ h \notin sinks /\ h \notin pump.targets /\ h # pump.refused
           /\ handled[h] = <<>> /\ sink[h].events = <<>>
    /\ h \notin sinks => sink[h].closed \/ worker[h] = "none"
    /\ sink[h].closed => sink[h].events = <<>>

PumpRests ==
    pump.at \in {"waiting", "stopping", "stopped"} => pump.targets = {} /\ pump.refused = None

RoutingInv ==
    /\ RoutingTyped /\ PumpRests
    /\ pump.targets # {} => routed # <<>> /\ pump.event = routed[Len(routed)]
    /\ \A h \in Handler : Aligned(h) /\ UpToDate(h) /\ Registered(h)
    /\ ParkedIsIdle

Waits == [at : {"none", "runnable", "parked", "ready", "done", "dropped"},
          of : Invocation \cup {None}, slot : Nat, got : Outcome \cup {None}]

WaitingTyped ==
    /\ outcome \in [Invocation -> Outcome \cup {None}]
    /\ slots \in [Invocation -> Seq(Wait \cup {None})]
    /\ wait \in [Wait -> Waits]

(* A complete invocation has no slots; a wait that was woken, and one that *)
(* answered, are of a complete invocation.                                 *)
WaitingInv ==
    /\ WaitingTyped /\ SleepersHoldSlots /\ OneOutcome
    /\ \A i \in Invocation : outcome[i] # None => slots[i] = <<>>
    /\ \A w \in Wait : /\ wait[w].at # "none" => wait[w].of \in Invocation
                       /\ (wait[w].at = "runnable" /\ wait[w].slot # 0) => outcome[wait[w].of] # None

-----------------------------------------------------------------------------
(* The routing half.                                                       *)

LEMMA InitRouting ==
    ASSUME RouterAssumption, RoutingInit
    PROVE  RoutingInv
<1>1. RoutingTyped
  BY DEF RoutingInit, RoutingTyped, Idle, Pump, Sink
<1>2. ASSUME NEW h \in Handler PROVE Aligned(h) /\ UpToDate(h) /\ Registered(h)
  BY DEF RouterAssumption, RoutingInit, Aligned, Taken, UpToDate, Registered, Idle
<1> QED
  BY <1>1, <1>2 DEF RoutingInit, RoutingInv, Idle, ParkedIsIdle, PumpRests

Routed(h) == Aligned(h) /\ UpToDate(h) /\ Registered(h)

(* A handler whose own state and standing with the pump are left alone.    *)
LEMMA HandlerKept ==
    ASSUME NEW h \in Handler, Routed(h), routed' = routed,
           handled'[h] = handled[h], since'[h] = since[h], sink'[h] = sink[h],
           worker'[h] = "none" <=> worker[h] = "none",
           h \in sinks' <=> h \in sinks,
           h \in pump'.targets <=> h \in pump.targets,
           h = pump'.refused <=> h = pump.refused
    PROVE  Routed(h)'
BY DEF Routed, Aligned, Taken, UpToDate, Registered

(* A queue that is closed and emptied, and its handler.                    *)
LEMMA ClosedHandler ==
    ASSUME NEW h \in Handler, Aligned(h), RoutingTyped, worker[h] # "none", worker'[h] # "none",
           routed' = routed, handled'[h] = handled[h], since'[h] = since[h],
           sink'[h] = [events |-> <<>>, closed |-> TRUE]
    PROVE  Routed(h)'
<1>1. Len(handled[h]) \in Nat /\ Len(sink[h].events) \in Nat /\ since[h] \in Nat /\ Len(routed) \in Nat
  BY DEF RoutingTyped, Sink
<1>2. Aligned(h)'
  BY <1>1 DEF Aligned, Taken
<1> QED
  BY <1>2 DEF Routed, UpToDate, Registered

LEMMA RegisterRouting ==
    ASSUME RouterAssumption, RoutingInv, NEW h \in Handler, Register(h)
    PROVE  RoutingInv'
<1>1. RoutingTyped'
  BY DEF RoutingInv, RoutingTyped, Register
<1>2. ASSUME NEW k \in Handler PROVE Routed(k)'
  <2>0. Routed(k)
    BY DEF RoutingInv, Routed
  <2>1. CASE k = h
    <3>1. /\ h \notin pump.targets /\ h # pump.refused /\ handled[h] = <<>> /\ sink[h].events = <<>>
          /\ Len(routed) \in Nat
      BY <2>0, <2>1 DEF Routed, Registered, Register, RoutingInv, RoutingTyped
    <3> QED
      BY <2>1, <3>1 DEF Register, Routed, Aligned, Taken, UpToDate, Registered, RoutingInv, RoutingTyped
  <2>2. CASE k # h
    BY <2>0, <2>2, HandlerKept DEF Register, RoutingInv, RoutingTyped
  <2> QED
    BY <2>1, <2>2
<1>3. ParkedIsIdle'
  BY DEF RoutingInv, RoutingTyped, ParkedIsIdle, Register
<1> QED
  BY <1>1, <1>2, <1>3 DEF RoutingInv, Routed, Register, PumpRests

LEMMA ReceiveRouting ==
    ASSUME RouterAssumption, RoutingInv, NEW h \in Handler, Receive(h)
    PROVE  RoutingInv'
<1>0. /\ RoutingTyped /\ sink[h] \in Sink /\ handled[h] \in Seq(Event) /\ since[h] \in Nat
      /\ routed \in Seq(Event) /\ Routed(h)
  BY DEF RoutingInv, RoutingTyped, Routed
<1>1. CASE sink[h].events # <<>>
  <2> DEFINE e == Head(sink[h].events)
             rest == Tail(sink[h].events)
  <2>1. /\ handled' = [handled EXCEPT ![h] = Append(handled[h], e)]
        /\ sink' = [sink EXCEPT ![h] = [sink[h] EXCEPT !.events = rest]]
        /\ worker' = [worker EXCEPT ![h] = "handling"]
        /\ UNCHANGED <<queue, produced, pump, sinks, since, routed>>
    BY <1>0, <1>1 DEF Receive, RoutingTyped, Sink
  <2>2. /\ e \in Event /\ rest \in Seq(Event) /\ Len(rest) = Len(sink[h].events) - 1
        /\ Len(sink[h].events) \in Nat /\ e = sink[h].events[1]
        /\ \A n \in 1..Len(rest) : rest[n] = sink[h].events[n + 1]
    BY <1>0, <1>1 DEF Sink
  <2>3. sink'[h] = [events |-> rest, closed |-> sink[h].closed] /\ sink'[h] \in Sink
    BY <1>0, <2>1, <2>2 DEF RoutingTyped, Sink
  <2>4. /\ handled'[h] \in Seq(Event) /\ Len(handled'[h]) = Len(handled[h]) + 1
        /\ handled'[h][Len(handled[h]) + 1] = e /\ Len(handled[h]) \in Nat
        /\ \A n \in 1..Len(handled[h]) : handled'[h][n] = handled[h][n]
    BY <1>0, <2>1, <2>2 DEF RoutingTyped
  <2>5. RoutingTyped'
    BY <1>0, <2>1, <2>3, <2>4 DEF RoutingTyped
  <2> HIDE DEF e, rest
  <2>n. /\ Len(handled'[h]) = Len(handled[h]) + 1 /\ Len(rest) = Len(sink[h].events) - 1
        /\ Len(handled[h]) \in Nat /\ Len(sink[h].events) \in Nat \ {0} /\ since[h] \in Nat
        /\ since'[h] = since[h] /\ sink'[h].events = rest
    <3>1. Len(sink[h].events) # 0
      BY <1>0, <1>1 DEF Sink
    <3> QED
      BY <1>0, <2>1, <2>2, <2>3, <2>4, <3>1
  <2>6. ASSUME NEW k \in Handler PROVE Routed(k)'
    <3>1. CASE k = h
      <4>1. Taken(h)' = Taken(h) + 1 /\ Taken(h) \in Nat
        BY <2>n DEF Taken
      <4>2. Taken(h)' + Len(sink'[h].events) = Taken(h) + Len(sink[h].events)
        BY <2>n, <4>1
      <4>3. \A n \in 1..Len(handled'[h]) : handled'[h][n] = routed[since[h] + n]
        <5>1. handled'[h][Len(handled[h]) + 1] = routed[since[h] + (Len(handled[h]) + 1)]
          <6>1. 1 \in 1..Len(sink[h].events) /\ Taken(h) + 1 = since[h] + (Len(handled[h]) + 1)
            BY <2>n DEF Taken
          <6> QED
            BY <1>0, <2>2, <2>4, <6>1 DEF Routed, Aligned
        <5>2. \A n \in 1..Len(handled[h]) : handled'[h][n] = routed[since[h] + n]
          BY <1>0, <2>4 DEF Routed, Aligned
        <5> QED
          BY <2>4, <5>1, <5>2
      <4>4. \A n \in 1..Len(rest) : rest[n] = routed[Taken(h)' + n]
        <5> SUFFICES ASSUME NEW n \in 1..Len(rest) PROVE rest[n] = routed[Taken(h)' + n]
          OBVIOUS
        <5>1. n + 1 \in 1..Len(sink[h].events) /\ Taken(h)' + n = Taken(h) + (n + 1)
          BY <2>n, <4>1
        <5> QED
          BY <1>0, <2>2, <5>1 DEF Routed, Aligned
      <4>5. Aligned(h)'
        BY <1>0, <2>1, <2>3, <4>2, <4>3, <4>4 DEF Routed, Aligned
      <4>6. UpToDate(h)'
        BY <1>0, <2>1, <2>3, <4>2 DEF Routed, UpToDate
      <4>7. Registered(h)'
        BY <1>0, <1>1, <2>1, <2>3 DEF Routed, Registered, RoutingTyped
      <4> QED
        BY <3>1, <4>5, <4>6, <4>7 DEF Routed
    <3>2. CASE k # h
      BY <1>0, <2>1, <3>2, HandlerKept DEF RoutingInv, RoutingTyped, Routed
    <3> QED
      BY <3>1, <3>2
  <2>7. ParkedIsIdle'
    BY <1>0, <2>1 DEF RoutingInv, RoutingTyped, ParkedIsIdle
  <2> QED
    BY <2>1, <2>5, <2>6, <2>7 DEF RoutingInv, Routed, PumpRests
<1>2. CASE sink[h].events = <<>>
  <2>1. /\ worker' = [worker EXCEPT ![h] = IF sink[h].closed THEN "done" ELSE "parked"]
        /\ UNCHANGED <<queue, produced, pump, sinks, since, routed, handled, sink>>
        /\ worker[h] # "none"
    BY <1>2 DEF Receive
  <2>2. RoutingTyped'
    BY <1>0, <2>1 DEF RoutingTyped
  <2>3. ASSUME NEW k \in Handler PROVE Routed(k)'
    BY <1>0, <2>1, HandlerKept DEF RoutingInv, RoutingTyped, Routed
  <2>4. ParkedIsIdle'
    <3>1. ~ sink[h].closed => sink[h] = [events |-> <<>>, closed |-> FALSE]
      BY <1>0, <1>2 DEF Sink
    <3> QED
      BY <1>0, <2>1, <3>1 DEF RoutingInv, RoutingTyped, ParkedIsIdle
  <2> QED
    BY <2>1, <2>2, <2>3, <2>4 DEF RoutingInv, Routed, PumpRests
<1> QED
  BY <1>1, <1>2

LEMMA HandlerEndsRouting ==
    ASSUME RouterAssumption, RoutingInv, NEW h \in Handler,
           HandlerReturns(h) \/ HandlerPanics(h) \/ Unregister(h)
    PROVE  RoutingInv'
<1>0. RoutingTyped /\ \A k \in Handler : Routed(k)
  BY DEF RoutingInv, Routed
<1>1. CASE HandlerReturns(h)
  <2>1. RoutingTyped'
    BY <1>0, <1>1 DEF HandlerReturns, RoutingTyped
  <2>2. ASSUME NEW k \in Handler PROVE Routed(k)'
    BY <1>0, <1>1, HandlerKept DEF HandlerReturns, RoutingTyped
  <2>3. ParkedIsIdle'
    BY <1>0, <1>1 DEF HandlerReturns, RoutingTyped, RoutingInv, ParkedIsIdle
  <2> QED
    BY <1>1, <2>1, <2>2, <2>3 DEF HandlerReturns, RoutingInv, Routed, PumpRests
<1>2. CASE HandlerPanics(h) \/ Unregister(h)
  <2>0. /\ sink' = [sink EXCEPT ![h] = [events |-> <<>>, closed |-> TRUE]]
        /\ worker' = [worker EXCEPT ![h] = "done"] /\ worker[h] # "none"
        /\ sinks' \in {sinks, sinks \ {h}}
        /\ UNCHANGED <<queue, produced, pump, handled, since, routed>>
    BY <1>2 DEF HandlerPanics, Unregister, Closed
  <2>1. RoutingTyped'
    BY <1>0, <2>0 DEF RoutingTyped, Sink
  <2>2. ASSUME NEW k \in Handler PROVE Routed(k)'
    <3>1. CASE k = h
      <4>1. worker'[h] = "done" /\ sink'[h] = [events |-> <<>>, closed |-> TRUE]
        BY <1>0, <2>0 DEF RoutingTyped
      <4> QED
        BY <1>0, <2>0, <3>1, <4>1, ClosedHandler DEF Routed
    <3>2. CASE k # h
      BY <1>0, <2>0, <3>2, HandlerKept DEF RoutingTyped
    <3> QED
      BY <3>1, <3>2
  <2>3. ParkedIsIdle'
    BY <1>0, <2>0 DEF RoutingTyped, RoutingInv, ParkedIsIdle
  <2> QED
    BY <2>0, <2>1, <2>2, <2>3 DEF RoutingInv, Routed, PumpRests
<1> QED
  BY <1>1, <1>2

(* Steps of the driver and of the pump that touch no handler.              *)
LEMMA NoHandlerRouting ==
    ASSUME RoutingInv, UNCHANGED <<sinks, sink, worker, handled, since, routed>>,
           queue' \in Seq(Event), produced' \in Nat, pump' \in Pump,
           pump'.targets = pump.targets, pump'.event = pump.event, pump'.refused = pump.refused,
           PumpRests'
    PROVE  RoutingInv'
<1>1. RoutingTyped'
  BY DEF RoutingInv, RoutingTyped
<1>2. ASSUME NEW h \in Handler PROVE Routed(h)'
  BY HandlerKept DEF RoutingInv, Routed
<1> QED
  BY <1>1, <1>2 DEF RoutingInv, Routed, ParkedIsIdle

(* The pump takes the events there are; it had finished with the others.   *)
LEMMA TakeRouting ==
    ASSUME RouterAssumption, RoutingInv, TakeEvents
    PROVE  RoutingInv'
<1>0. RoutingTyped /\ queue \in Seq(Event) /\ pump.targets = {} /\ pump.refused = None
  BY DEF RoutingInv, RoutingTyped, PumpRests, TakeEvents
<1>1. /\ pump' = [at |-> "routing", batch |-> queue, event |-> None, targets |-> {}, refused |-> None]
      /\ queue' = <<>> /\ UNCHANGED <<produced, sinks, sink, worker, handled, since, routed>>
  BY DEF TakeEvents, Idle
<1>2. RoutingTyped'
  BY <1>0, <1>1 DEF RoutingTyped, Pump
<1>3. ASSUME NEW h \in Handler PROVE Routed(h)'
  BY <1>0, <1>1, HandlerKept DEF RoutingInv, Routed
<1> QED
  BY <1>1, <1>2, <1>3 DEF RoutingInv, Routed, ParkedIsIdle, PumpRests

LEMMA RouteNextRouting ==
    ASSUME RouterAssumption, RoutingInv, RouteNext
    PROVE  RoutingInv'
<1>0. /\ RoutingTyped /\ \A h \in Handler : Routed(h)
      /\ pump.targets = {} /\ pump.refused = None /\ pump \in Pump /\ routed \in Seq(Event)
  BY DEF RoutingInv, RoutingTyped, Routed, RouteNext
<1>1. CASE pump.batch = <<>>
  <2>1. /\ pump'.targets = {} /\ pump'.refused = None /\ pump' \in Pump
        /\ UNCHANGED <<queue, produced, sinks, sink, worker, handled, since, routed>>
    <3>1. \E at \in {"waiting", "stopped"} :
              pump' = [at |-> at, batch |-> <<>>, event |-> None, targets |-> {}, refused |-> None]
      BY <1>1 DEF RouteNext, Idle
    <3>2. UNCHANGED <<queue, produced, sinks, sink, worker, handled, since, routed>>
      BY <1>1 DEF RouteNext
    <3> QED
      BY <3>1, <3>2 DEF Pump
  <2>2. RoutingTyped'
    BY <1>0, <2>1 DEF RoutingTyped
  <2>3. ASSUME NEW h \in Handler PROVE Routed(h)'
    BY <1>0, <2>1, HandlerKept
  <2> QED
    BY <2>1, <2>2, <2>3 DEF RoutingInv, Routed, ParkedIsIdle, PumpRests
<1>2. CASE pump.batch # <<>>
  <2> DEFINE e == Head(pump.batch)
  <2>1. /\ pump' = [pump EXCEPT !.batch = Tail(pump.batch), !.event = e, !.targets = sinks]
        /\ routed' = Append(routed, e)
        /\ UNCHANGED <<queue, produced, sinks, sink, worker, handled, since>>
    BY <1>0, <1>2 DEF RouteNext, Pump
  <2>2. e \in Event /\ Tail(pump.batch) \in Seq(Event)
    BY <1>0, <1>2 DEF Pump
  <2>3. /\ pump' \in Pump /\ pump'.targets = sinks /\ pump'.event = e /\ pump'.refused = None
    BY <1>0, <2>1, <2>2 DEF Pump, RoutingTyped
  <2> HIDE DEF e
  <2>4. /\ routed' \in Seq(Event) /\ Len(routed') = Len(routed) + 1 /\ Len(routed) \in Nat
        /\ routed'[Len(routed')] = e /\ routed' # <<>>
        /\ \A n \in 1..Len(routed) : routed'[n] = routed[n]
    BY <1>0, <2>1, <2>2
  <2>5. RoutingTyped'
    BY <1>0, <2>1, <2>3, <2>4 DEF RoutingTyped
  <2>6. ASSUME NEW h \in Handler PROVE Routed(h)'
    <3>1. /\ Len(handled[h]) \in Nat /\ Len(sink[h].events) \in Nat /\ since[h] \in Nat
          /\ Taken(h) \in Nat /\ Taken(h)' = Taken(h)
      BY <1>0, <2>1 DEF RoutingTyped, Sink, Taken
    <3>2. Taken(h) + Len(sink[h].events) <= Len(routed)
      BY <1>0 DEF Routed, Aligned
    <3>3. ASSUME NEW n \in 1..Len(handled[h]) PROVE since[h] + n \in 1..Len(routed)
      <4>1. Taken(h) = since[h] + Len(handled[h]) /\ Len(routed) \in Nat
        BY <2>4 DEF Taken
      <4> QED
        BY <3>1, <3>2, <4>1
    <3>4. \A n \in 1..Len(sink[h].events) : Taken(h) + n \in 1..Len(routed)
      BY <2>4, <3>1, <3>2
    <3>5. Taken(h) + Len(sink[h].events) <= Len(routed')
      BY <2>4, <3>1, <3>2
    <3>6. Aligned(h)'
      BY <1>0, <2>1, <2>4, <3>1, <3>3, <3>4, <3>5 DEF Routed, Aligned
    <3>7. UpToDate(h)'
      BY <1>0, <2>1, <2>3, <2>4, <3>1 DEF RouterAssumption, Routed, UpToDate
    <3>8. Registered(h)'
      BY <1>0, <2>1, <2>3 DEF RouterAssumption, Routed, Registered
    <3> QED
      BY <3>6, <3>7, <3>8 DEF Routed
  <2>7. ParkedIsIdle'
    BY <2>1 DEF RoutingInv, ParkedIsIdle
  <2>8. PumpRests'
    <3>1. pump'.at \in {"routing", "draining"}
      BY <1>0, <2>1 DEF RouteNext, Pump
    <3> QED
      BY <3>1 DEF PumpRests
  <2> QED
    BY <2>3, <2>4, <2>5, <2>6, <2>7, <2>8 DEF RoutingInv, Routed
<1> QED
  BY <1>1, <1>2

LEMMA TrySendRouting ==
    ASSUME RouterAssumption, RoutingInv, NEW h \in Handler, TrySend(h)
    PROVE  RoutingInv'
<1>0. /\ RoutingTyped /\ \A k \in Handler : Routed(k) /\ h \in pump.targets
      /\ pump \in Pump /\ routed \in Seq(Event) /\ pump.refused = None
      /\ sink[h] \in Sink /\ worker[h] # "none" /\ ParkedIsIdle
      /\ routed # <<>> /\ pump.event = routed[Len(routed)]
  BY DEF RoutingInv, RoutingTyped, Routed, Registered, TrySend
<1>1. CASE Refuses(h)
  <2>1. /\ pump' = [pump EXCEPT !.targets = pump.targets \ {h}, !.refused = h]
        /\ UNCHANGED <<queue, produced, sinks, sink, worker, handled, since, routed>>
    BY <1>1 DEF TrySend
  <2>2. /\ pump' \in Pump /\ pump'.targets = pump.targets \ {h} /\ pump'.refused = h
        /\ pump'.event = pump.event
    BY <1>0, <2>1 DEF Pump
  <2>3. RoutingTyped'
    BY <1>0, <2>1, <2>2 DEF RoutingTyped
  <2>4. ASSUME NEW k \in Handler PROVE Routed(k)'
    <3>1. CASE k = h
      BY <1>0, <2>1, <2>2, <3>1 DEF Routed, Aligned, Taken, UpToDate, Registered
    <3>2. CASE k # h
      BY <1>0, <2>1, <2>2, <3>2, HandlerKept DEF RouterAssumption
    <3> QED
      BY <3>1, <3>2
  <2> QED
    BY <1>0, <2>1, <2>2, <2>3, <2>4 DEF RoutingInv, Routed, ParkedIsIdle, PumpRests
<1>2. CASE ~ Refuses(h)
  <2> DEFINE more == Append(sink[h].events, pump.event)
  <2>0. ~ sink[h].closed /\ h \in sinks
    BY <1>0, <1>2 DEF Refuses, Routed, Registered
  <2>1. /\ pump' = [pump EXCEPT !.targets = pump.targets \ {h}]
        /\ sink' = [sink EXCEPT ![h] = [sink[h] EXCEPT !.events = more]]
        /\ worker' = [worker EXCEPT ![h] = Woken(h)]
        /\ UNCHANGED <<queue, produced, sinks, handled, since, routed>>
    BY <1>0, <1>2 DEF TrySend, RoutingTyped, Sink
  <2>2. /\ pump' \in Pump /\ pump'.targets = pump.targets \ {h} /\ pump'.refused = pump.refused
        /\ pump'.event = pump.event
    BY <1>0, <2>1 DEF Pump
  <2>3. /\ pump.event \in Event /\ Len(routed) \in Nat \ {0}
    BY <1>0
  <2>4. /\ more \in Seq(Event) /\ Len(more) = Len(sink[h].events) + 1
        /\ Len(sink[h].events) \in Nat /\ more[Len(more)] = pump.event
        /\ \A n \in 1..Len(sink[h].events) : more[n] = sink[h].events[n]
    BY <1>0, <2>3 DEF Sink
  <2>5. /\ sink'[h] = [events |-> more, closed |-> FALSE] /\ sink'[h] \in Sink
    BY <1>0, <2>0, <2>1, <2>4 DEF RoutingTyped, Sink
  <2>6. Woken(h) \in {"runnable", "handling", "done"}
    BY <1>0 DEF Woken, RoutingTyped
  <2> HIDE DEF more
  <2>7. RoutingTyped'
    BY <1>0, <2>1, <2>2, <2>5, <2>6 DEF RoutingTyped
  <2>8. ASSUME NEW k \in Handler PROVE Routed(k)'
    <3>1. CASE k = h
      <4>1. Taken(h) + Len(sink[h].events) = Len(routed) - 1
        BY <1>0, <2>0 DEF RouterAssumption, Routed, UpToDate
      <4>2. /\ Taken(h) \in Nat /\ Taken(h)' = Taken(h)
        BY <1>0, <2>1 DEF Taken, RoutingTyped
      <4>3. /\ Len(sink'[h].events) = Len(sink[h].events) + 1 /\ sink'[h].events = more
            /\ Len(sink[h].events) \in Nat
        BY <2>4, <2>5
      <4>4. Taken(h) + Len(sink'[h].events) = Len(routed)
        BY <2>3, <4>1, <4>2, <4>3
      <4>5. \A n \in 1..Len(more) : more[n] = routed[Taken(h) + n]
        <5> SUFFICES ASSUME NEW n \in 1..Len(more) PROVE more[n] = routed[Taken(h) + n]
          OBVIOUS
        <5>1. CASE n = Len(more)
          BY <1>0, <2>4, <4>3, <4>4, <5>1
        <5>2. CASE n # Len(more)
          <6>1. n \in 1..Len(sink[h].events)
            BY <4>3, <5>2
          <6> QED
            BY <1>0, <2>4, <6>1 DEF Routed, Aligned
        <5> QED
          BY <5>1, <5>2
      <4>6. Aligned(h)'
        BY <1>0, <2>1, <2>3, <4>2, <4>3, <4>4, <4>5 DEF Routed, Aligned
      <4>7. UpToDate(h)'
        BY <2>1, <2>2, <4>2, <4>4 DEF UpToDate
      <4>8. Registered(h)'
        BY <1>0, <2>0, <2>1, <2>5, <2>6 DEF Registered, RoutingTyped
      <4> QED
        BY <3>1, <4>6, <4>7, <4>8 DEF Routed
    <3>2. CASE k # h
      BY <1>0, <2>1, <2>2, <3>2, HandlerKept DEF RoutingTyped
    <3> QED
      BY <3>1, <3>2
  <2>9. ParkedIsIdle'
    BY <1>0, <2>1, <2>6 DEF RoutingTyped, ParkedIsIdle
  <2> QED
    BY <1>0, <2>1, <2>2, <2>7, <2>8, <2>9 DEF RoutingInv, Routed, PumpRests
<1> QED
  BY <1>1, <1>2

LEMMA DisconnectRouting ==
    ASSUME RouterAssumption, RoutingInv, Disconnect
    PROVE  RoutingInv'
<1> DEFINE h == pump.refused
<1>0. /\ RoutingTyped /\ \A k \in Handler : Routed(k) /\ ParkedIsIdle
      /\ pump \in Pump /\ h \in Handler
      /\ pump' = [pump EXCEPT !.refused = None]
      /\ UNCHANGED <<queue, produced, handled, since, routed>>
  BY DEF RoutingInv, RoutingTyped, Routed, Disconnect, Pump
<1>1. /\ pump' \in Pump /\ pump'.targets = pump.targets /\ pump'.event = pump.event
      /\ pump'.refused = None
  BY <1>0 DEF Pump
<1>2. CASE h \in sinks
  <2>1. /\ sinks' = sinks \ {h}
        /\ sink' = [sink EXCEPT ![h] = [events |-> <<>>, closed |-> TRUE]]
        /\ worker' = [worker EXCEPT ![h] = Woken(h)]
    BY <1>2 DEF Disconnect, Closed
  <2>2. Woken(h) \in {"runnable", "handling", "done"} /\ worker[h] # "none"
    BY <1>0, <1>2 DEF Woken, RoutingTyped, Routed, Registered
  <2> HIDE DEF h
  <2>3. RoutingTyped'
    BY <1>0, <1>1, <2>1, <2>2 DEF RoutingTyped, Sink
  <2>4. ASSUME NEW k \in Handler PROVE Routed(k)'
    <3>1. CASE k = h
      <4>1. worker'[h] # "none" /\ sink'[h] = [events |-> <<>>, closed |-> TRUE]
        BY <1>0, <2>1, <2>2 DEF RoutingTyped
      <4> QED
        BY <1>0, <2>2, <3>1, <4>1, ClosedHandler DEF Routed
    <3>2. CASE k # h
      <4>1. k = pump'.refused <=> k = pump.refused
        BY <1>1, <3>2 DEF RouterAssumption, h
      <4> QED
        BY <1>0, <1>1, <2>1, <3>2, <4>1, HandlerKept DEF RoutingTyped
    <3> QED
      BY <3>1, <3>2
  <2>5. ParkedIsIdle'
    BY <1>0, <2>1, <2>2 DEF RoutingTyped, ParkedIsIdle
  <2> QED
    BY <1>0, <1>1, <2>3, <2>4, <2>5 DEF RoutingInv, Routed, PumpRests
<1>3. CASE h \notin sinks
  <2>1. UNCHANGED <<sinks, sink, worker>>
    BY <1>3 DEF Disconnect
  <2>2. RoutingTyped'
    BY <1>0, <1>1, <2>1 DEF RoutingTyped
  <2>3. ASSUME NEW k \in Handler PROVE Routed(k)'
    <3>1. CASE k = h
      BY <1>0, <1>1, <1>3, <2>1, <3>1 DEF RouterAssumption, Routed, Aligned, Taken, UpToDate, Registered
    <3>2. CASE k # h
      <4>1. k = pump'.refused <=> k = pump.refused
        BY <1>1, <3>2 DEF RouterAssumption
      <4> QED
        BY <1>0, <1>1, <2>1, <4>1, HandlerKept
    <3> QED
      BY <3>1, <3>2
  <2> QED
    BY <1>0, <1>1, <2>1, <2>2, <2>3 DEF RoutingInv, Routed, ParkedIsIdle, PumpRests
<1> QED
  BY <1>2, <1>3

-----------------------------------------------------------------------------
(* The waiting half.                                                       *)

LEMMA SmallestOf ==
    ASSUME NEW T \in SUBSET Nat, T # {}
    PROVE  \E n \in T : \A k \in T : n <= k
<1> DEFINE R == OpToRel(<, Nat)
<1>1. IsWellFoundedOn(R, Nat)
  BY NatLessThanWellFounded
<1>2. R = {ss \in Nat \X Nat : ss[1] < ss[2]}
  BY DEF OpToRel
<1> HIDE DEF R
<1>3. PICK n \in T : \A k \in T : ~ (<<k, n>> \in R)
  BY <1>1, WFMin
<1>4. \A k \in T : <<k, n>> \in Nat \X Nat /\ ~ (k < n)
  BY <1>2, <1>3
<1>5. \A k \in T : k \in Nat /\ n \in Nat /\ ~ (k < n)
  BY <1>4
<1>6. \A k \in T : n <= k
  BY <1>5
<1> QED
  BY <1>6

(* InvocationWait::poll takes a slot that is free or one past the end.     *)
LEMMA SlotIsFree ==
    ASSUME WaitingTyped, NEW i \in Invocation
    PROVE  /\ Slot(i) \in Nat \ {0} /\ Slot(i) <= Len(slots[i]) + 1
           /\ Slot(i) \in DOMAIN slots[i] => slots[i][Slot(i)] = None
<1> DEFINE free == {n \in DOMAIN slots[i] : slots[i][n] = None}
<1>1. DOMAIN slots[i] = 1..Len(slots[i]) /\ Len(slots[i]) \in Nat
  BY DEF WaitingTyped
<1>2. free \in SUBSET Nat
  BY <1>1
<1>3. CASE free = {}
  <2>1. Slot(i) = Len(slots[i]) + 1
    BY <1>3 DEF Slot
  <2> QED
    BY <1>1, <2>1
<1>4. CASE free # {}
  <2>1. Slot(i) = CHOOSE n \in free : \A k \in free : n <= k
    BY <1>4 DEF Slot
  <2> HIDE DEF free
  <2>2. \E n \in free : \A k \in free : n <= k
    BY <1>2, <1>4, SmallestOf
  <2>3. Slot(i) \in free
    BY <2>1, <2>2
  <2> QED
    BY <1>1, <2>3 DEF free
<1> QED
  BY <1>3, <1>4

LEMMA InitWaiting ==
    ASSUME WaitingInit
    PROVE  WaitingInv
BY DEF WaitingInit, WaitingInv, WaitingTyped, Waits, SleepersHoldSlots, OneOutcome

LEMMA CompleteWaiting ==
    ASSUME RouterAssumption, WaitingInv, NEW i \in Invocation, NEW o \in Outcome, Complete(i, o)
    PROVE  WaitingInv'
<1>0. /\ WaitingTyped /\ outcome[i] = None
      /\ outcome' = [outcome EXCEPT ![i] = o] /\ slots' = [slots EXCEPT ![i] = <<>>]
      /\ wait' = [w \in Wait |-> IF w \in Members(slots[i]) THEN Waking(i, w) ELSE wait[w]]
      /\ o # None
  BY DEF WaitingInv, Complete, RouterAssumption
<1>1. ASSUME NEW w \in Wait
      PROVE  /\ wait[w] \in Waits /\ wait'[w] \in Waits /\ wait'[w].of = wait[w].of
             /\ wait'[w].slot = wait[w].slot /\ wait'[w].got = wait[w].got
             /\ \/ wait'[w].at = wait[w].at
                \/ wait[w].at = "parked" /\ wait'[w].at = "runnable" /\ wait[w].of = i
             /\ (wait'[w].at = "parked" /\ wait[w].of = i) => w \notin Members(slots[i])
  <2>1. wait[w] \in Waits /\ wait'[w] = IF w \in Members(slots[i]) THEN Waking(i, w) ELSE wait[w]
    BY <1>0 DEF WaitingTyped
  <2>2. Waking(i, w) = IF wait[w].of = i /\ wait[w].at = "parked"
                       THEN [wait[w] EXCEPT !.at = "runnable"] ELSE wait[w]
    BY DEF Waking
  <2>3. CASE w \in Members(slots[i]) /\ wait[w].of = i /\ wait[w].at = "parked"
    BY <2>1, <2>2, <2>3 DEF Waits
  <2>4. CASE ~ (w \in Members(slots[i]) /\ wait[w].of = i /\ wait[w].at = "parked")
    <3>1. wait'[w] = wait[w]
      BY <2>1, <2>2, <2>4
    <3> QED
      BY <2>1, <2>4, <3>1
  <2> QED
    BY <2>3, <2>4
<1>2. WaitingTyped'
  <2>1. wait' \in [Wait -> Waits]
    BY <1>0, <1>1
  <2> QED
    BY <1>0, <2>1 DEF WaitingTyped
<1>3. SleepersHoldSlots'
  <2> SUFFICES ASSUME NEW w \in Wait, wait'[w].at = "parked"
               PROVE  /\ outcome'[wait'[w].of] = None
                      /\ wait'[w].slot \in DOMAIN slots'[wait'[w].of]
                      /\ slots'[wait'[w].of][wait'[w].slot] = w
    BY DEF SleepersHoldSlots
  <2>1. /\ wait[w].at = "parked" /\ wait'[w].of = wait[w].of /\ wait'[w].slot = wait[w].slot
        /\ wait[w].of = i => w \notin Members(slots[i])
    BY <1>1
  <2>2. /\ outcome[wait[w].of] = None /\ wait[w].slot \in DOMAIN slots[wait[w].of]
        /\ slots[wait[w].of][wait[w].slot] = w
    BY <2>1 DEF WaitingInv, SleepersHoldSlots
  <2>3. wait[w].of # i
    BY <2>1, <2>2 DEF Members
  <2>4. wait[w].of \in Invocation
    BY <2>1 DEF WaitingInv
  <2> QED
    BY <1>0, <2>1, <2>2, <2>3, <2>4 DEF WaitingTyped
<1>4. OneOutcome'
  <2> SUFFICES ASSUME NEW w \in Wait, wait'[w].got # None
               PROVE  wait'[w].got = outcome'[wait'[w].of]
    BY DEF OneOutcome
  <2>1. wait[w].got # None /\ wait[w].got = outcome[wait[w].of]
    BY <1>1 DEF WaitingInv, OneOutcome
  <2> QED
    BY <1>0, <1>1, <2>1 DEF WaitingTyped
<1>5. \A j \in Invocation : outcome'[j] # None => slots'[j] = <<>>
  BY <1>0 DEF WaitingInv, WaitingTyped
<1>6. ASSUME NEW w \in Wait
      PROVE  /\ wait'[w].at # "none" => wait'[w].of \in Invocation
             /\ (wait'[w].at = "runnable" /\ wait'[w].slot # 0) => outcome'[wait'[w].of] # None
  BY <1>0, <1>1 DEF WaitingInv, WaitingTyped
<1> QED
  BY <1>2, <1>3, <1>4, <1>5, <1>6 DEF WaitingInv

LEMMA BeginWaiting ==
    ASSUME RouterAssumption, WaitingInv, NEW w \in Wait, NEW i \in Invocation, Begin(w, i)
    PROVE  WaitingInv'
<1>1. /\ WaitingTyped /\ UNCHANGED <<outcome, slots>>
      /\ wait' = [wait EXCEPT ![w] = [at |-> "runnable", of |-> i, slot |-> 0, got |-> None]]
  BY DEF WaitingInv, Begin
<1>2. WaitingTyped'
  BY <1>1 DEF WaitingTyped, Waits
<1>3. SleepersHoldSlots' /\ OneOutcome'
  BY <1>1 DEF WaitingInv, WaitingTyped, SleepersHoldSlots, OneOutcome
<1> QED
  BY <1>1, <1>2, <1>3 DEF WaitingInv, WaitingTyped

LEMMA PollWaiting ==
    ASSUME RouterAssumption, WaitingInv, NEW w \in Wait, Poll(w)
    PROVE  WaitingInv'
<1> DEFINE i == wait[w].of
           n == IF wait[w].slot # 0 THEN wait[w].slot ELSE Slot(i)
<1>0. /\ WaitingTyped /\ wait[w] \in Waits /\ i \in Invocation /\ outcome' = outcome
      /\ wait[w].at \in {"runnable", "parked"}
  BY DEF WaitingInv, WaitingTyped, Poll
<1>1. CASE outcome[i] # None
  <2>1. /\ slots' = slots
        /\ wait' = [wait EXCEPT ![w] = [wait[w] EXCEPT !.at = "ready", !.got = outcome[i]]]
    BY <1>0, <1>1 DEF Poll, WaitingTyped
  <2>2. /\ [wait[w] EXCEPT !.at = "ready", !.got = outcome[i]]
             = [at |-> "ready", of |-> i, slot |-> wait[w].slot, got |-> outcome[i]]
        /\ outcome[i] \in Outcome
    <3> DEFINE s == [wait[w] EXCEPT !.at = "ready"]
    <3>1. s = [at |-> "ready", of |-> i, slot |-> wait[w].slot, got |-> wait[w].got]
      BY <1>0 DEF Waits
    <3>2. outcome[i] \in Outcome
      BY <1>0, <1>1 DEF WaitingTyped
    <3> HIDE DEF s
    <3>3. [s EXCEPT !.got = outcome[i]]
            = [at |-> "ready", of |-> i, slot |-> wait[w].slot, got |-> outcome[i]]
      BY <3>1
    <3> QED
      BY <3>2, <3>3 DEF s
  <2>3. WaitingTyped'
    BY <1>0, <2>1, <2>2 DEF WaitingTyped, Waits
  <2>4. SleepersHoldSlots' /\ OneOutcome'
    BY <1>0, <2>1, <2>2 DEF WaitingInv, WaitingTyped, SleepersHoldSlots, OneOutcome
  <2> QED
    BY <1>0, <2>1, <2>2, <2>3, <2>4 DEF WaitingInv, WaitingTyped
<1>2. CASE outcome[i] = None
  <2>1. /\ slots' = [slots EXCEPT ![i] =
               IF n > Len(slots[i]) THEN Append(slots[i], w) ELSE [slots[i] EXCEPT ![n] = w]]
        /\ wait' = [wait EXCEPT ![w] = [wait[w] EXCEPT !.at = "parked", !.slot = n]]
    BY <1>0, <1>2 DEF Poll, WaitingTyped
  <2>2. slots[i] \in Seq(Wait \cup {None}) /\ Len(slots[i]) \in Nat
        /\ DOMAIN slots[i] = 1..Len(slots[i])
    BY <1>0 DEF WaitingTyped
  <2>3. /\ n \in Nat \ {0} /\ n <= Len(slots[i]) + 1
        /\ n \in DOMAIN slots[i] => slots[i][n] \in {None, w}
    <3>1. CASE wait[w].slot # 0
      <4>1. wait[w].at = "parked"
        BY <1>0, <1>2, <3>1 DEF WaitingInv
      <4>2. wait[w].slot \in DOMAIN slots[i] /\ slots[i][wait[w].slot] = w
        BY <4>1 DEF WaitingInv, SleepersHoldSlots
      <4> QED
        BY <2>2, <3>1, <4>2
    <3>2. CASE wait[w].slot = 0
      BY <1>0, <3>2, SlotIsFree
    <3> QED
      BY <3>1, <3>2
  <2> HIDE DEF n
  <2>4. [wait[w] EXCEPT !.at = "parked", !.slot = n]
          = [at |-> "parked", of |-> i, slot |-> n, got |-> wait[w].got]
    <3> DEFINE s == [wait[w] EXCEPT !.at = "parked"]
    <3>1. s = [at |-> "parked", of |-> i, slot |-> wait[w].slot, got |-> wait[w].got]
      BY <1>0 DEF Waits
    <3> HIDE DEF s
    <3>2. [s EXCEPT !.slot = n] = [at |-> "parked", of |-> i, slot |-> n, got |-> wait[w].got]
      BY <3>1
    <3> QED
      BY <3>2 DEF s
  <2>5. /\ slots'[i] \in Seq(Wait \cup {None}) /\ n \in DOMAIN slots'[i] /\ slots'[i][n] = w
        /\ \A m \in DOMAIN slots[i] : m # n => m \in DOMAIN slots'[i] /\ slots'[i][m] = slots[i][m]
    <3>1. CASE n > Len(slots[i])
      <4>1. slots'[i] = Append(slots[i], w) /\ n = Len(slots[i]) + 1
        BY <1>0, <2>1, <2>2, <2>3, <3>1 DEF WaitingTyped
      <4> QED
        BY <2>2, <4>1
    <3>2. CASE ~ (n > Len(slots[i]))
      <4>1. slots'[i] = [slots[i] EXCEPT ![n] = w] /\ n \in 1..Len(slots[i])
        BY <1>0, <2>1, <2>2, <2>3, <3>2 DEF WaitingTyped
      <4> QED
        BY <2>2, <4>1
    <3> QED
      BY <3>1, <3>2
  <2>6. /\ \A j \in Invocation : j # i => slots'[j] = slots[j]
        /\ slots' \in [Invocation -> Seq(Wait \cup {None})]
    BY <1>0, <2>1, <2>5 DEF WaitingTyped
  <2>7. /\ wait'[w] = [at |-> "parked", of |-> i, slot |-> n, got |-> wait[w].got]
        /\ \A v \in Wait : v # w => wait'[v] = wait[v]
        /\ wait' \in [Wait -> Waits]
    BY <1>0, <2>1, <2>3, <2>4 DEF WaitingTyped, Waits
  <2> HIDE DEF i
  <2>8. WaitingTyped'
    BY <1>0, <2>6, <2>7 DEF WaitingTyped
  <2>9. SleepersHoldSlots'
    <3> SUFFICES ASSUME NEW v \in Wait, wait'[v].at = "parked"
                 PROVE  /\ outcome[wait'[v].of] = None
                        /\ wait'[v].slot \in DOMAIN slots'[wait'[v].of]
                        /\ slots'[wait'[v].of][wait'[v].slot] = v
      BY <1>0 DEF SleepersHoldSlots
    <3>1. CASE v = w
      BY <1>2, <2>5, <2>7, <3>1
    <3>2. CASE v # w
      <4>1. /\ wait'[v] = wait[v] /\ outcome[wait[v].of] = None
            /\ wait[v].slot \in DOMAIN slots[wait[v].of] /\ slots[wait[v].of][wait[v].slot] = v
            /\ wait[v].of \in Invocation
        BY <2>7, <3>2 DEF WaitingInv, SleepersHoldSlots
      <4>2. CASE wait[v].of = i
        <5>1. wait[v].slot # n
          BY <2>3, <3>2, <4>1, <4>2 DEF RouterAssumption
        <5> QED
          BY <2>5, <4>1, <4>2, <5>1
      <4>3. CASE wait[v].of # i
        BY <2>6, <4>1, <4>3
      <4> QED
        BY <4>2, <4>3
    <3> QED
      BY <3>1, <3>2
  <2>10. OneOutcome'
    BY <1>0, <2>7 DEF WaitingInv, OneOutcome, i
  <2>11. \A j \in Invocation : outcome[j] # None => slots'[j] = <<>>
    BY <1>2, <2>6 DEF WaitingInv
  <2> QED
    BY <1>0, <2>7, <2>8, <2>9, <2>10, <2>11 DEF WaitingInv
<1> QED
  BY <1>1, <1>2

LEMMA DropWaiting ==
    ASSUME RouterAssumption, WaitingInv, NEW w \in Wait, DropWait(w)
    PROVE  WaitingInv'
<1> DEFINE i == wait[w].of
           n == wait[w].slot
<1>0. /\ WaitingTyped /\ wait[w] \in Waits /\ i \in Invocation /\ outcome' = outcome
      /\ wait[w].at \in {"runnable", "parked"}
      /\ wait' = [wait EXCEPT ![w] = [wait[w] EXCEPT !.at = "dropped"]]
      /\ slots' = [slots EXCEPT ![i] = IF n \in DOMAIN slots[i] THEN [slots[i] EXCEPT ![n] = None]
                                       ELSE slots[i]]
  BY DEF WaitingInv, WaitingTyped, DropWait
<1>1. [wait[w] EXCEPT !.at = "dropped"] = [at |-> "dropped", of |-> i, slot |-> n, got |-> wait[w].got]
  BY <1>0 DEF Waits
<1>2. /\ wait'[w] = [at |-> "dropped", of |-> i, slot |-> n, got |-> wait[w].got]
      /\ \A v \in Wait : v # w => wait'[v] = wait[v]
      /\ wait' \in [Wait -> Waits]
  BY <1>0, <1>1 DEF WaitingTyped, Waits
<1>3. /\ slots'[i] \in Seq(Wait \cup {None}) /\ DOMAIN slots'[i] = DOMAIN slots[i]
      /\ \A m \in DOMAIN slots[i] : m # n => slots'[i][m] = slots[i][m]
      /\ slots[i] = <<>> => slots'[i] = <<>>
  <2>1. slots[i] \in Seq(Wait \cup {None}) /\ DOMAIN slots[i] = 1..Len(slots[i]) /\ Len(slots[i]) \in Nat
    BY <1>0 DEF WaitingTyped
  <2>2. slots'[i] = IF n \in DOMAIN slots[i] THEN [slots[i] EXCEPT ![n] = None] ELSE slots[i]
    BY <1>0 DEF WaitingTyped
  <2> HIDE DEF i, n
  <2> QED
    BY <2>1, <2>2
<1>4. /\ \A j \in Invocation : j # i => slots'[j] = slots[j]
      /\ slots' \in [Invocation -> Seq(Wait \cup {None})]
  BY <1>0, <1>3 DEF WaitingTyped
<1>5. WaitingTyped'
  BY <1>0, <1>2, <1>4 DEF WaitingTyped
<1>6. SleepersHoldSlots'
  <2> SUFFICES ASSUME NEW v \in Wait, wait'[v].at = "parked"
               PROVE  /\ outcome[wait'[v].of] = None
                      /\ wait'[v].slot \in DOMAIN slots'[wait'[v].of]
                      /\ slots'[wait'[v].of][wait'[v].slot] = v
    BY <1>0 DEF SleepersHoldSlots
  <2>1. v # w
    BY <1>2
  <2>2. /\ wait'[v] = wait[v] /\ outcome[wait[v].of] = None
        /\ wait[v].slot \in DOMAIN slots[wait[v].of] /\ slots[wait[v].of][wait[v].slot] = v
        /\ wait[v].of \in Invocation
    BY <1>2, <2>1 DEF WaitingInv, SleepersHoldSlots
  <2>3. CASE wait[v].of = i
    <3>1. wait[w].at = "parked" \/ n = 0
      BY <1>0, <2>2, <2>3 DEF WaitingInv
    <3>2. wait[v].slot # n
      <4>1. CASE wait[w].at = "parked"
        <5>1. slots[i][n] = w
          BY <4>1 DEF WaitingInv, SleepersHoldSlots
        <5> QED
          BY <2>1, <2>2, <2>3, <5>1
      <4>2. CASE n = 0
        <5>1. 0 \notin DOMAIN slots[i]
          BY <1>0 DEF WaitingTyped
        <5> QED
          BY <2>2, <2>3, <4>2, <5>1
      <4> QED
        BY <3>1, <4>1, <4>2
    <3> QED
      BY <1>3, <2>2, <2>3, <3>2
  <2>4. CASE wait[v].of # i
    BY <1>4, <2>2, <2>4
  <2> QED
    BY <2>3, <2>4
<1>7. OneOutcome'
  <2> SUFFICES ASSUME NEW v \in Wait, wait'[v].got # None
               PROVE  wait'[v].got = outcome[wait'[v].of]
    BY <1>0 DEF OneOutcome
  <2>1. wait'[v].got = wait[v].got /\ wait'[v].of = wait[v].of
    BY <1>2
  <2> QED
    BY <2>1 DEF WaitingInv, OneOutcome
<1>8. \A j \in Invocation : outcome[j] # None => slots'[j] = <<>>
  BY <1>3, <1>4 DEF WaitingInv
<1> QED
  BY <1>0, <1>2, <1>5, <1>6, <1>7, <1>8 DEF WaitingInv

(* Publishing a watched invocation appends an event and ends the wait.     *)
LEMMA PublishBoth ==
    ASSUME RouterAssumption, RoutingInv, WaitingInv, NEW i \in Invocation, Publish(i)
    PROVE  RoutingInv' /\ WaitingInv'
<1>0. /\ i \in Wait /\ wait[i] \in Waits /\ WaitingTyped /\ queue \in Seq(Event)
      /\ wait[i].at = "ready"
  BY DEF Wait, WaitingInv, WaitingTyped, RoutingInv, RoutingTyped, Publish
<1>1. RoutingInv'
  <2>1. <<i, wait[i].got>> \in Event
    BY <1>0 DEF Event, Waits
  <2>2. queue' \in Seq(Event)
    BY <1>0, <2>1 DEF Publish
  <2> QED
    BY <2>2, NoHandlerRouting DEF Publish, RoutingInv, RoutingTyped, PumpRests
<1>2. WaitingInv'
  <2>1. [wait[i] EXCEPT !.at = "done"]
          = [at |-> "done", of |-> wait[i].of, slot |-> wait[i].slot, got |-> wait[i].got]
    BY <1>0 DEF Waits
  <2>2. /\ wait'[i] = [at |-> "done", of |-> wait[i].of, slot |-> wait[i].slot, got |-> wait[i].got]
        /\ \A v \in Wait : v # i => wait'[v] = wait[v]
        /\ wait' \in [Wait -> Waits] /\ UNCHANGED <<outcome, slots>>
    BY <1>0, <2>1 DEF Publish, WaitingTyped, Waits
  <2>3. WaitingTyped'
    BY <1>0, <2>2 DEF WaitingTyped
  <2>4. \A v \in Wait : /\ wait'[v].of = wait[v].of /\ wait'[v].slot = wait[v].slot
                        /\ wait'[v].got = wait[v].got
                        /\ wait'[v].at \in {wait[v].at, "done"}
    BY <1>0, <2>2
  <2>5. SleepersHoldSlots'
    BY <2>2, <2>4 DEF WaitingInv, SleepersHoldSlots
  <2>6. OneOutcome'
    BY <2>2, <2>4 DEF WaitingInv, OneOutcome
  <2> QED
    BY <1>0, <2>2, <2>3, <2>4, <2>5, <2>6 DEF WaitingInv
<1> QED
  BY <1>1, <1>2

LEMMA PumpRouting ==
    ASSUME RouterAssumption, RoutingInv, PumpStep \/ Produce \/ Stop
    PROVE  RoutingInv'
<1>0. queue \in Seq(Event) /\ produced \in Nat /\ pump \in Pump
  BY DEF RoutingInv, RoutingTyped
<1>1. CASE Produce
  <2>1. <<produced + 1>> \in Event
    BY <1>0 DEF Event
  <2>2. queue' \in Seq(Event) /\ produced' \in Nat /\ pump' = pump
    BY <1>0, <1>1, <2>1 DEF Produce
  <2> QED
    BY <1>0, <1>1, <2>2, NoHandlerRouting DEF RoutingInv, Produce, PumpRests
<1>2. CASE Stop
  BY <1>0, <1>2, NoHandlerRouting DEF RoutingInv, Stop, PumpRests
<1>3. CASE SeeStop
  BY <1>0, <1>3, NoHandlerRouting DEF RoutingInv, SeeStop, Pump, PumpRests
<1>4. CASE Drain
  <2> DEFINE p == [pump EXCEPT !.at = "draining"]
  <2>1. p \in Pump /\ p.targets = pump.targets /\ p.event = pump.event /\ p.refused = pump.refused
    BY <1>0 DEF Pump
  <2> HIDE DEF p
  <2>2. LET q == [p EXCEPT !.batch = queue]
        IN  /\ q \in Pump /\ q.targets = pump.targets
            /\ q.event = pump.event /\ q.refused = pump.refused
    BY <1>0, <2>1 DEF Pump
  <2>3. pump' = [p EXCEPT !.batch = queue] /\ queue' = <<>>
    BY <1>4 DEF Drain, p
  <2>4. PumpRests'
    <3>1. pump'.targets = {} /\ pump'.refused = None
      BY <1>4, <2>2, <2>3 DEF Drain, RoutingInv, PumpRests
    <3> QED
      BY <3>1 DEF PumpRests
  <2>5. /\ pump' \in Pump /\ pump'.targets = pump.targets
        /\ pump'.event = pump.event /\ pump'.refused = pump.refused
    BY <2>2, <2>3
  <2>6. queue' \in Seq(Event) /\ produced' \in Nat
    BY <1>0, <1>4, <2>3 DEF Drain
  <2>7. UNCHANGED <<sinks, sink, worker, handled, since, routed>>
    BY <1>4 DEF Drain
  <2> QED
    BY <2>4, <2>5, <2>6, <2>7, NoHandlerRouting
<1>5. CASE TakeEvents
  BY <1>5, TakeRouting
<1>6. CASE RouteNext
  BY <1>6, RouteNextRouting
<1>7. CASE Disconnect
  BY <1>7, DisconnectRouting
<1>8. ASSUME NEW h \in Handler, TrySend(h) PROVE RoutingInv'
  BY <1>8, TrySendRouting
<1> QED
  BY <1>1, <1>2, <1>3, <1>4, <1>5, <1>6, <1>7, <1>8 DEF PumpStep

-----------------------------------------------------------------------------
LEMMA NextInv ==
    ASSUME RouterAssumption, RoutingInv, WaitingInv, [Next]_vars
    PROVE  RoutingInv' /\ WaitingInv'
<1>1. UNCHANGED waiting => WaitingInv'
  BY DEF waiting, WaitingInv, WaitingTyped, SleepersHoldSlots, OneOutcome
<1>2. UNCHANGED routing => RoutingInv'
  BY NoHandlerRouting DEF routing, RoutingInv, RoutingTyped, PumpRests
<1>3. CASE PumpStep \/ Produce \/ Stop
  <2>1. UNCHANGED waiting
    BY <1>3 DEF PumpStep, Produce, Stop, TakeEvents, SeeStop, Drain, RouteNext, Disconnect, TrySend
  <2> QED
    BY <1>1, <1>3, <2>1, PumpRouting
<1>4. ASSUME NEW h \in Handler, Register(h) PROVE RoutingInv' /\ WaitingInv'
  BY <1>1, <1>4, RegisterRouting DEF Register
<1>5. ASSUME NEW h \in Handler, Receive(h) PROVE RoutingInv' /\ WaitingInv'
  BY <1>1, <1>5, ReceiveRouting DEF Receive
<1>6. ASSUME NEW h \in Handler, HandlerReturns(h) \/ HandlerPanics(h) \/ Unregister(h)
      PROVE  RoutingInv' /\ WaitingInv'
  BY <1>1, <1>6, HandlerEndsRouting DEF HandlerReturns, HandlerPanics, Unregister
<1>7. ASSUME NEW i \in Invocation, Publish(i) PROVE RoutingInv' /\ WaitingInv'
  BY <1>7, PublishBoth
<1>8. ASSUME NEW i \in Invocation, NEW w \in Wait, Begin(w, i) PROVE RoutingInv' /\ WaitingInv'
  BY <1>2, <1>8, BeginWaiting DEF Begin
<1>9. ASSUME NEW i \in Invocation, NEW o \in Outcome, Complete(i, o) PROVE RoutingInv' /\ WaitingInv'
  BY <1>2, <1>9, CompleteWaiting DEF Complete
<1>10. ASSUME NEW w \in Wait, Poll(w) PROVE RoutingInv' /\ WaitingInv'
  BY <1>2, <1>10, PollWaiting DEF Poll
<1>11. ASSUME NEW w \in Wait, DropWait(w) PROVE RoutingInv' /\ WaitingInv'
  BY <1>2, <1>11, DropWaiting DEF DropWait
<1>12. CASE UNCHANGED vars
  BY <1>1, <1>2, <1>12 DEF vars
<1>13. Waiter \subseteq Wait /\ Invocation \subseteq Wait
  BY DEF Wait
<1> QED
  BY <1>3, <1>4, <1>5, <1>6, <1>7, <1>8, <1>9, <1>10, <1>11, <1>12, <1>13 DEF Next, Watch

LEMMA AlignedPrefix ==
    ASSUME RoutingTyped, NEW h \in Handler, Aligned(h)
    PROVE  LET taken == handled[h] \o sink[h].events
           IN  /\ since[h] + Len(taken) <= Len(routed)
               /\ taken = SubSeq(routed, since[h] + 1, since[h] + Len(taken))
<1> DEFINE a == handled[h]
           b == sink[h].events
           s == since[h]
           taken == a \o b
           part == SubSeq(routed, s + 1, s + Len(taken))
<1>1. a \in Seq(Event) /\ b \in Seq(Event) /\ s \in Nat /\ routed \in Seq(Event)
  BY DEF RoutingTyped, Sink
<1>2. /\ s + Len(a) + Len(b) <= Len(routed)
      /\ \A n \in 1..Len(a) : a[n] = routed[s + n]
      /\ \A n \in 1..Len(b) : b[n] = routed[s + Len(a) + n]
  BY DEF Aligned, Taken
<1> HIDE DEF a, b, s
<1>3. Len(a) \in Nat /\ Len(b) \in Nat /\ Len(routed) \in Nat
  BY <1>1
<1>4. /\ taken \in Seq(Event) /\ Len(taken) = Len(a) + Len(b)
      /\ \A n \in 1..Len(a) + Len(b) : taken[n] = IF n <= Len(a) THEN a[n] ELSE b[n - Len(a)]
  BY <1>1, ConcatProperties
<1> HIDE DEF taken
<1>5. /\ part \in Seq(Event) /\ Len(part) = Len(taken)
      /\ \A n \in 1..Len(taken) : part[n] = routed[s + n]
  <2> DEFINE m == s + 1
             k == s + Len(taken)
  <2>1. m \in Int /\ k \in Int /\ Len(taken) \in Nat
    BY <1>1, <1>3, <1>4
  <2>2. k <= Len(routed)
    BY <1>1, <1>2, <1>3, <1>4
  <2>3. \A n \in m .. k : routed[n] \in Event
    BY <1>1, <1>3, <2>1, <2>2
  <2>p. part = SubSeq(routed, m, k)
    OBVIOUS
  <2>5. k - m + 1 = Len(taken) /\ (\A n \in Nat : m + n - 1 = s + n) /\ (m <= k <=> Len(taken) # 0)
    BY <1>1, <2>1
  <2> HIDE DEF part, m, k
  <2>4. /\ part \in Seq(Event)
        /\ Len(part) = IF m <= k THEN k - m + 1 ELSE 0
        /\ \A n \in 1 .. k - m + 1 : part[n] = routed[m + n - 1]
    BY <2>1, <2>3, <2>p, SubSeqProperties
  <2>6. Len(part) = Len(taken)
    BY <2>1, <2>4, <2>5
  <2>7. \A n \in 1..Len(taken) : n \in Nat
    BY <2>1
  <2>8. \A n \in 1..Len(taken) : part[n] = routed[s + n]
    BY <2>4, <2>5, <2>7
  <2> QED
    BY <2>4, <2>6, <2>8
<1> HIDE DEF part
<1>6. \A n \in 1..Len(taken) : taken[n] = part[n]
  <2> SUFFICES ASSUME NEW n \in 1..Len(taken) PROVE taken[n] = routed[s + n]
    BY <1>5
  <2>1. CASE n <= Len(a)
    BY <1>2, <1>3, <1>4, <2>1
  <2>2. CASE ~ (n <= Len(a))
    <3>1. n - Len(a) \in 1..Len(b) /\ s + Len(a) + (n - Len(a)) = s + n
      BY <1>1, <1>3, <1>4, <2>2
    <3> QED
      BY <1>2, <1>4, <2>2, <3>1
  <2> QED
    BY <2>1, <2>2
<1>7. taken = part
  BY <1>4, <1>5, <1>6, SeqEqual
<1>8. s + Len(taken) <= Len(routed)
  BY <1>1, <1>2, <1>3, <1>4
<1> QED
  BY <1>7, <1>8 DEF a, b, s, taken, part

(* Whatever handlers register, return, panic or are dropped while the pump *)
(* routes, stops and drains, a handler takes the events routed since its   *)
(* registration in order and without a gap, and a worker that sleeps has   *)
(* an empty, open queue (DriverEventRouter::route, try_send, receive).     *)
THEOREM HandlersAlwaysSeePrefix ==
    RouterAssumption => (Spec => [](HandlersSeePrefix /\ ParkedIsIdle))
<1> SUFFICES ASSUME RouterAssumption
             PROVE  Spec => [](HandlersSeePrefix /\ ParkedIsIdle)
  OBVIOUS
<1>1. Init => RoutingInv /\ WaitingInv
  BY InitRouting, InitWaiting DEF Init
<1>2. RoutingInv /\ WaitingInv /\ [Next]_vars => RoutingInv' /\ WaitingInv'
  BY NextInv
<1>3. RoutingInv => HandlersSeePrefix /\ ParkedIsIdle
  BY AlignedPrefix DEF RoutingInv, HandlersSeePrefix
<1> QED
  BY <1>1, <1>2, <1>3, PTL DEF Spec

(* A wait that sleeps holds its own slot of an invocation that is not      *)
(* complete, so completing it wakes the wait, and all waits of an          *)
(* invocation answer with the outcome recorded first, however many futures *)
(* begin, are polled again or are dropped (InvocationWait, complete).      *)
THEOREM WaitsAlwaysAnswerAlike ==
    RouterAssumption => (Spec => [](SleepersHoldSlots /\ OneOutcome))
<1> SUFFICES ASSUME RouterAssumption
             PROVE  Spec => [](SleepersHoldSlots /\ OneOutcome)
  OBVIOUS
<1>1. Init => RoutingInv /\ WaitingInv
  BY InitRouting, InitWaiting DEF Init
<1>2. RoutingInv /\ WaitingInv /\ [Next]_vars => RoutingInv' /\ WaitingInv'
  BY NextInv
<1>3. WaitingInv => SleepersHoldSlots /\ OneOutcome
  BY DEF WaitingInv
<1> QED
  BY <1>1, <1>2, <1>3, PTL DEF Spec
=============================================================================
