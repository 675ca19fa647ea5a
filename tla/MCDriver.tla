------------------------------ MODULE MCDriver ------------------------------
(***************************************************************************)
(* The driver on small instances, one scenario per behaviour: what tasks   *)
(* do, what hosts ask and which capacities are scarce differ between them. *)
(* Five scenarios run the pool, one the resources of endpoints.            *)
(***************************************************************************)
EXTENDS EndpointResources, Sequences, TLC

CONSTANTS a, b, kid, e1, e2, m1, m2, NoTask, NoEndpoint

VARIABLES
    scenario,
    pool, manager, run, answer, mail, sent, received, reports, proc, turn

poolVars == <<pool, manager, run, answer, mail, sent, received, reports, proc, turn>>
allVars == <<scenario, poolVars, vars>>

TwoEndpoints(t) == IF t = b THEN e2 ELSE e1
OneEndpoint(t) == e1
FirstSpawns(t) == kid

(* The outcomes a run of t may have, with what it sent and whether it      *)
(* emitted an effect.                                                      *)
Behaves(t, kinds, recvs, sends, emits) ==
    LET outcomes ==
          {[status |-> k, kind |-> "none"] : k \in kinds \cap {"complete", "abort"}}
            \cup {[status |-> "suspend", kind |-> k] : k \in kinds \ {"complete", "abort"}}
            \cup {[status |-> "suspend", kind |-> "recv", timeout |-> r[1], mailboxes |-> r[2]] :
                    r \in recvs}
    IN {o @@ [send |-> ms, effect |-> x] : o \in outcomes, ms \in sends, x \in emits}

MailBehaviour(t) ==
    Behaves(t, {"complete", "external"}, {"some", "poll"} \X {{m1, m2}},
            IF t = b THEN {{}, {m1}, {m2}} ELSE {{}}, {FALSE})
LifeBehaviour(t) ==
    Behaves(t, {"complete", "timer", "external"}
               \cup IF t = a THEN {"spawn"} ELSE {}, {}, {{}}, {FALSE})
PressureBehaviour(t) ==
    Behaves(t, {"complete"} \cup IF t = a THEN {"timer"} ELSE {}, {"none", "some"} \X {{m1}},
            IF t = a THEN {{}, {m1}} ELSE {{}}, IF t = b THEN BOOLEAN ELSE {FALSE})
CloseBehaviour(t) ==
    Behaves(t, {"complete", "timer"}, IF t = a THEN {<<"none", {m1}>>} ELSE {},
            IF t = b THEN {{}, {m1}} ELSE {{}}, {FALSE})
TasksBehaviour(t) ==
    Behaves(t, {"complete", "abort", "timer", "external", "input", "never"}
               \cup IF t = a THEN {"spawn"} ELSE {}, {}, {{}},
            IF t = a THEN BOOLEAN ELSE {FALSE})

Mail == INSTANCE Driver WITH
    Host <- {a, b}, Child <- {}, Endpoint <- {e1}, EndpointOf <- OneEndpoint,
    ChildOf <- FirstSpawns, Mailbox <- {m1, m2}, MaxProc <- 3,
    Behaviour <- MailBehaviour, MaxRuns <- 2, MaxMessages <- 2,
    Operation <- {"stream"}, Fault <- {}, EventCapacity <- 1,
    ActiveCapacity <- 2, SuspendedCapacity <- 2, TimerCapacity <- 2

Life == INSTANCE Driver WITH
    Host <- {a, b}, Child <- {kid}, Endpoint <- {e1}, EndpointOf <- OneEndpoint,
    ChildOf <- FirstSpawns, Mailbox <- {m1}, MaxProc <- 3,
    Behaviour <- LifeBehaviour, MaxRuns <- 1, MaxMessages <- 0,
    Operation <- {"cancel", "close", "shutdown"},
    Fault <- {"task"}, EventCapacity <- 1,
    ActiveCapacity <- 2, SuspendedCapacity <- 2, TimerCapacity <- 2

Pressure == INSTANCE Driver WITH
    Host <- {a, b}, Child <- {}, Endpoint <- {e1}, EndpointOf <- OneEndpoint,
    ChildOf <- FirstSpawns, Mailbox <- {m1}, MaxProc <- 3,
    Behaviour <- PressureBehaviour, MaxRuns <- 1, MaxMessages <- 1,
    Operation <- {"cancel", "close", "shutdown", "detach"},
    Fault <- {"task"}, EventCapacity <- 1,
    ActiveCapacity <- 1, SuspendedCapacity <- 1, TimerCapacity <- 1

Closes == INSTANCE Driver WITH
    Host <- {a, b}, Child <- {}, Endpoint <- {e1, e2}, EndpointOf <- TwoEndpoints,
    ChildOf <- FirstSpawns, Mailbox <- {m1}, MaxProc <- 3,
    Behaviour <- CloseBehaviour, MaxRuns <- 2, MaxMessages <- 1,
    Operation <- {"close"}, Fault <- {}, EventCapacity <- 1,
    ActiveCapacity <- 2, SuspendedCapacity <- 2, TimerCapacity <- 2

Tasks == INSTANCE Driver WITH
    Host <- {a, b}, Child <- {kid}, Endpoint <- {e1}, EndpointOf <- OneEndpoint,
    ChildOf <- FirstSpawns, Mailbox <- {m1}, MaxProc <- 3,
    Behaviour <- TasksBehaviour, MaxRuns <- 1, MaxMessages <- 0,
    Operation <- {"close", "input"}, Fault <- {}, EventCapacity <- 1,
    ActiveCapacity <- 2, SuspendedCapacity <- 2, TimerCapacity <- 1

(* Two endpoints own a fact in two scopes each, and subscribe with one.    *)
Owning == ~ racing /\ Next /\ UNCHANGED subs
Listening == racing /\ Next /\ (op' # NoOp => op'.scope = EndpointScope)

DriverInit ==
    /\ Init
    /\ \/ scenario = "mail" /\ Mail!Init /\ ~ racing
       \/ scenario = "life" /\ Life!Init /\ ~ racing
       \/ scenario = "pressure" /\ Pressure!Init /\ ~ racing
       \/ scenario = "close" /\ Closes!Init /\ ~ racing
       \/ scenario = "tasks" /\ Tasks!Init /\ ~ racing
       \/ scenario = "endpoints" /\ Mail!Init

PoolNext ==
    \/ scenario = "mail" /\ Mail!Next
    \/ scenario = "life" /\ Life!Next
    \/ scenario = "pressure" /\ Pressure!Next
    \/ scenario = "close" /\ Closes!Next
    \/ scenario = "tasks" /\ Tasks!Next

DriverNext ==
    \/ PoolNext /\ UNCHANGED <<scenario, vars>>
    \/ scenario = "endpoints" /\ (Owning \/ Listening) /\ UNCHANGED <<scenario, poolVars>>

DriverSpec == DriverInit /\ [][DriverNext]_allVars

-----------------------------------------------------------------------------
(* A message is in its mailbox, on its way to a task or was handed to one, *)
(* and a receiver never sleeps on a mailbox that has messages: a coroutine *)
(* of the pool is still going to wake it (wake_mailbox_waiters and         *)
(* mailbox_recv).                                                          *)
MessagesReach == scenario = "mail" => Mail!MessagesKept /\ Mail!WakePending

(* A task whose context the pool keeps is suspended in the task manager; a *)
(* driver that has stopped keeps no task, timer or request; once the close *)
(* of an endpoint has returned, no task of it is suspended or will be.     *)
EndsClean ==
    /\ scenario = "life" => Life!ContextsAreSuspended /\ Life!StoppedIsClean
    /\ scenario = "close" => Closes!ClosedStaysEmpty

(* A task ends at most once for its host and the bounds on tasks, timers   *)
(* and events hold, whoever cancels, fails or resumes while capacities are *)
(* short; while no run fails and no single task is cancelled, a task that  *)
(* was not reported is in the hands of a coroutine, registered for its     *)
(* wake-up, or about to be cancelled by the close of its endpoint.         *)
TasksAccounted ==
    /\ scenario = "pressure" => Pressure!ReportedOnce /\ Pressure!CapacitiesHold
    /\ scenario = "tasks" => Tasks!NoTaskStranded
=============================================================================
