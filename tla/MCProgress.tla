----------------------------- MODULE MCProgress -----------------------------
(***************************************************************************)
(* What must eventually happen, on small instances: futures and operators  *)
(* that share two places ("admission"), a driver that is shut down while   *)
(* tasks sleep, spawn and wait for requests ("pool"), two tasks that       *)
(* conflict on a key ("tasks"), an event pump with a handler ("routing"),  *)
(* and an invocation that a future and a watcher wait for ("waiting").     *)
(***************************************************************************)
EXTENDS Admission, TLC

CONSTANTS a, kid, door, box, k, h1, inv, w1, NoTask, NoEndpoint, none

VARIABLES
    scenario,
    pool, manager, run, answer, mail, sent, received, reports, proc, turn,
    counter, task, status, outcome, effects, published, caps, applied, delivered,
    events, produced, pump, stopping, sinks, sink, worker, handled, since, routed,
    answered, slots, wait

poolVars == <<pool, manager, run, answer, mail, sent, received, reports, proc, turn>>
taskVars == <<counter, task, status, outcome, effects, published, caps, applied, delivered>>
routerVars == <<events, produced, pump, stopping, sinks, sink, worker, handled, since,
                routed, answered, slots, wait>>
allVars == <<scenario, vars, poolVars, taskVars, routerVars>>

EndpointOf(t) == door
ChildOf(t) == kid
Ends == [status |-> "complete", kind |-> "none", send |-> {}, effect |-> FALSE]
Waits(kind) == [status |-> "suspend", kind |-> kind, send |-> {}, effect |-> FALSE]
Behaviour(t) ==
    {Ends, Waits("timer"), Waits("external")} \cup IF t = a THEN {Waits("spawn")} ELSE {}

Pool == INSTANCE Driver WITH
    Host <- {a}, Child <- {kid}, Endpoint <- {door}, Mailbox <- {box}, MaxProc <- 2,
    MaxRuns <- 2, MaxMessages <- 0, Operation <- {"shutdown"}, Fault <- {},
    EventCapacity <- 1, ActiveCapacity <- 2, SuspendedCapacity <- 2, TimerCapacity <- 2

TaskResponses == [t \in {a, kid} |-> {"commit", "complete", "abort", "retry"}]
TaskFaults == [t \in {a, kid} |-> {"runtime"}]

Tasks == INSTANCE Tasks WITH
    Task <- {a, kid}, Key <- {k}, Response <- TaskResponses,
    Fault <- TaskFaults, Tagged <- {kid}, Subscribing <- {FALSE}, NoTx <- none,
    MaxRetries <- 1, MaxSegment <- 1, MaxCounter <- 2

Routing == INSTANCE EventRouter WITH
    Handler <- {h1}, Invocation <- {}, Waiter <- {}, Outcome <- {}, SinkCapacity <- 1,
    EventCapacity <- 1, MaxEvents <- 3, None <- none, queue <- events, outcome <- answered

Invoked == INSTANCE EventRouter WITH
    Handler <- {}, Invocation <- {inv}, Waiter <- {w1}, SinkCapacity <- 1,
    Outcome <- {"completed", "cancelled"}, EventCapacity <- 1, MaxEvents <- 0, None <- none,
    queue <- events, outcome <- answered

ASSUME RouterAssumptions == Routing!RouterAssumption /\ Invoked!RouterAssumption

ProgressInit ==
    /\ scenario \in {"admission", "pool", "tasks", "routing", "waiting"}
    /\ Init /\ Pool!Init /\ Tasks!Init
    /\ IF scenario = "routing" THEN Routing!RoutingInit ELSE Invoked!RoutingInit
    /\ Invoked!WaitingInit

ProgressNext ==
    /\ UNCHANGED scenario
    /\ \/ scenario = "admission" /\ Next /\ UNCHANGED <<poolVars, taskVars, routerVars>>
       \/ scenario = "pool" /\ Pool!Next /\ UNCHANGED <<vars, taskVars, routerVars>>
       \/ scenario = "tasks" /\ Tasks!Next /\ UNCHANGED <<vars, poolVars, routerVars>>
       \/ scenario = "routing" /\ Routing!Next /\ UNCHANGED <<vars, poolVars, taskVars>>
       \/ scenario = "waiting" /\ Invoked!Next /\ UNCHANGED <<vars, poolVars, taskVars>>

-----------------------------------------------------------------------------
(* The fairness of each part.                                              *)

InAdmission(A) == scenario = "admission" /\ A /\ UNCHANGED <<scenario, poolVars, taskVars, routerVars>>
InPool(A) == scenario = "pool" /\ A /\ UNCHANGED <<scenario, vars, taskVars, routerVars>>
InTasks(A) == scenario = "tasks" /\ A /\ UNCHANGED <<scenario, vars, poolVars, routerVars>>
InRouter(s, A) == scenario = s /\ A /\ UNCHANGED <<scenario, vars, poolVars, taskVars>>

(* Scheduled futures are polled, wakers that were taken are called, and    *)
(* permits and borrowed places are given back.                             *)
AdmissionFairness ==
    /\ \A f \in Client : /\ WF_allVars(InAdmission(f \in scheduled /\ Poll(f)))
                         /\ WF_allVars(InAdmission(Wake(f)))
                         /\ WF_allVars(InAdmission(Release(f)))
    /\ \A w \in Worker : WF_allVars(InAdmission(ReleaseParallel(w)))

(* The runtime polls every coroutine that is ready, the dispatcher runs    *)
(* what it was given, sleeps end, requests are answered or time out, and   *)
(* the host pumps events.                                                  *)
PoolFairness ==
    /\ \A p \in Pool!Proc : SF_allVars(InPool(Pool!Step(p)))
    /\ \A t \in {a, kid} : /\ WF_allVars(InPool(Pool!Run(t)))
                         /\ SF_allVars(InPool(Pool!Fires(t)))
                         /\ SF_allVars(InPool(Pool!ExternalAnswer(t)))
    /\ SF_allVars(InPool(Pool!Pump))

(* A running task has a thread that keeps going.                           *)
TaskFairness == \A t \in {a, kid} : WF_allVars(InTasks(Tasks!Step(t)))

(* The runtime polls the pump and the futures that were woken; nothing is  *)
(* assumed of event handlers.                                              *)
RouterFairness ==
    /\ WF_allVars(InRouter("routing", Routing!PumpStep))
    /\ WF_allVars(InRouter("waiting", Invoked!PumpStep))
    /\ \A w \in {inv, w1} :
           WF_allVars(InRouter("waiting", wait[w].at = "runnable" /\ Invoked!Poll(w)))
    /\ SF_allVars(InRouter("waiting", Invoked!Publish(inv)))

ProgressSpec ==
    /\ ProgressInit /\ [][ProgressNext]_allVars
    /\ AdmissionFairness /\ PoolFairness /\ TaskFairness /\ RouterFairness

-----------------------------------------------------------------------------
(* A handler takes the events routed since it registered in their order    *)
(* and without a gap, a worker sleeps only on an empty, open queue, a      *)
(* sleeping InvocationWait holds a slot of its own, and all waits of an    *)
(* invocation answer with the first outcome recorded.                      *)
RoutingFaithful ==
    /\ scenario = "routing" => Routing!HandlersSeePrefix /\ Routing!ParkedIsIdle
    /\ scenario = "waiting" => Invoked!SleepersHoldSlots /\ Invoked!OneOutcome

(* A future that asked for a place gets it, the pump routes every event    *)
(* although a handler may never return, and the outcome of a watched       *)
(* invocation is routed.                                                   *)
WaitersAnswered ==
    /\ WaitersServed
    /\ scenario = "routing" => Routing!EventsRouted
    /\ scenario = "waiting" => Invoked!WatchedReported

(* Shutdown completes while the host pumps events, a task that waits for a *)
(* timer or a request is answered or ends, and a run of a task comes to an *)
(* outcome because conflicts are retried a bounded number of times.        *)
WorkEnds == Pool!ShutdownCompletes /\ Pool!TimedWaitsEnd /\ Tasks!RunsEnd
=============================================================================
