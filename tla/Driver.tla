------------------------------- MODULE Driver -------------------------------
(***************************************************************************)
(* The task driver.  Every call into it, every timer and every external    *)
(* request is a coroutine of one Compio runtime: it runs until it awaits   *)
(* something that is not ready.  Tasks themselves run on the threads of    *)
(* the dispatcher, which deliver mailbox sends and record the outcome      *)
(* before the coroutine that dispatched them goes on.                      *)
(*                                                                         *)
(* A coroutine is modelled by what it still has to do: `todo' holds the    *)
(* steps left of the outcome in hand, `queue' the outcomes that            *)
(* process_outcome_queue has not reached, `rest' what the caller does      *)
(* after it.  An error drops all three.                                    *)
(***************************************************************************)
EXTENDS Integers, Sequences, FiniteSets

CONSTANTS
    Host,               \* tasks a host submits through an invocation handle
    Child,              \* tasks spawned by tasks
    Endpoint,
    EndpointOf(_),      \* the endpoint a host task is submitted through
    ChildOf(_),         \* the task a task spawns
    Mailbox,
    MaxProc,            \* bound: coroutines at a time
    Behaviour(_),       \* the outcomes a run of a task may have
    MaxRuns,            \* bound: suspensions of a task
    MaxMessages,        \* bound: messages sent
    Operation,          \* host operations besides submission
    Fault,              \* subset of {"task"}: a dispatched run may fail
    NoTask, NoEndpoint,
    EventCapacity, ActiveCapacity, SuspendedCapacity, TimerCapacity

Task == Host \cup Child
Proc == 1..MaxProc
NoProc == 0

Members(s) == {s[i] : i \in DOMAIN s}

(* The members of a set, in the order an iteration happens to take.        *)
Listed(S) == CHOOSE s \in [1..Cardinality(S) -> S] :
                \A i, j \in 1..Cardinality(S) : s[i] = s[j] => i = j

VARIABLES
    pool,      \* PoolState
    manager,   \* manager[t]: where the shared task manager has t
    run,       \* run[t]: number, outcome and endpoint of t's last run
    answer,    \* answer[t]: what t was last resumed with
    mail,      \* mail[m]: queued messages
    sent,      \* number of messages sent
    received,  \* messages handed to a task
    reports,   \* reports[t]: terminal outcomes reported for t
    proc,      \* the coroutines
    turn       \* the coroutine that has the thread

vars == <<pool, manager, run, answer, mail, sent, received, reports, proc, turn>>

Complete == [status |-> "complete", kind |-> "none", send |-> {}, effect |-> FALSE]
Free == [kind |-> "free", task |-> NoTask, endpoint |-> NoEndpoint, rest |-> <<>>,
         todo |-> <<>>, queue |-> <<>>, await |-> NoTask, doomed |-> FALSE]

Init ==
    /\ pool = [lifecycle |-> "running", contexts |-> {}, invocations |-> {},
               active |-> {}, terminal |-> [t \in Task |-> "none"],
               closed |-> {}, inputs |-> [e \in Endpoint |-> <<>>],
               waiters |-> [m \in Mailbox |-> <<>>],
               events |-> <<>>, timers |-> {}, external |-> {}]
    /\ manager = [t \in Task |-> "none"]
    /\ run = [t \in Task |-> [n |-> 0, outcome |-> Complete, endpoint |-> NoEndpoint]]
    /\ answer = [t \in Task |-> "none"]
    /\ mail = [m \in Mailbox |-> <<>>]
    /\ sent = 0
    /\ received = {}
    /\ reports = [t \in Task |-> <<>>]
    /\ proc = [p \in Proc |-> Free]
    /\ turn = NoProc

-----------------------------------------------------------------------------
(* PoolState.                                                              *)

Without(s, t) ==
    [s EXCEPT !.waiters = [m \in Mailbox |-> SelectSeq(@[m], LAMBDA u : u # t)]]

WithoutWaiters(s, t) ==
    [Without(s, t) EXCEPT !.inputs = [e \in Endpoint |-> SelectSeq(@[e], LAMBDA u : u # t)]]

RecordTerminalKeepingContext(s, t, what) ==
    [s EXCEPT !.active = @ \ {t}, !.terminal[t] = what]

RecordTerminal(s, t, what) ==
    [s EXCEPT !.active = @ \ {t}, !.contexts = @ \ {t}, !.terminal[t] = what]

Timers(s, t) == {w \in s.timers : w.task = t}

TakeWorkers(s, t) == [s EXCEPT !.timers = @ \ Timers(s, t), !.external = @ \ {t}]

AdmittedPastCapacity(s, t) == t \in s.active \/ Cardinality(s.active) <= ActiveCapacity
Admitted(s, t) == t \in s.active \/ Cardinality(s.active) < ActiveCapacity

(* Workers that sleep and workers that are resuming their task both count  *)
(* against the timer capacity.                                             *)
TimerWorkers == Cardinality(pool.timers)
                + Cardinality({p \in Proc : proc[p].kind = "timer"})

IsWorker(p) == proc[p].kind \in {"timer", "external", "stream"}

-----------------------------------------------------------------------------
(* Coroutines.                                                             *)

Activity(e) == {p \in Proc : proc[p].endpoint = e}
Coalesces(e) == e[2] = "suspended" /\ e \in Members(pool.events)
NoRoom(e) == ~ Coalesces(e) /\ Len(pool.events) >= EventCapacity
Busy(p) == \E q \in Proc \ {p} : proc[q].await # NoTask \/ proc[q].endpoint # NoEndpoint

(* The dispatcher's threads are joined before the driver has stopped.      *)
JoinedAnyway == TRUE
Joined == \A t \in Task : manager[t] # "running"

Blocked(p) ==
    \/ proc[p].await # NoTask
    \/ /\ proc[p].todo # <<>>
       /\ LET i == Head(proc[p].todo) IN
            CASE i.op = "emit" -> NoRoom(i.event)
              [] i.op = "idle" -> Activity(i.endpoint) # {}
              [] i.op = "quiet" -> Busy(p)
              [] i.op = "stop" -> ~ Joined
              [] OTHER -> FALSE

Yielded == IF turn = NoProc THEN TRUE ELSE Blocked(turn) /\ ~ proc[turn].doomed
MayStep(p) == IF turn = p THEN TRUE ELSE Yielded

At(p, op) ==
    /\ proc[p].await = NoTask
    /\ proc[p].todo # <<>>
    /\ Head(proc[p].todo).op = op
    /\ MayStep(p)
    /\ ~ Blocked(p)

Item(p) == Head(proc[p].todo)

Then(p, items) ==
    /\ proc' = [proc EXCEPT ![p].todo = items \o Tail(@)]
    /\ turn' = p

Do(op, t) == [op |-> op, task |-> t]
Report(t, what) == [op |-> "report", task |-> t, what |-> what]
Emit(t, what) == [op |-> "emit", event |-> <<t, what>>]
Terminal(t, what) == [op |-> "terminal", task |-> t, what |-> what]
Resume(t, value) == [op |-> "resume", task |-> t, value |-> value]
Cancel(t) == [op |-> "cancel", task |-> t]
Wakes(ms) == [i \in 1..Cardinality(ms) |->
                 [op |-> "wake", mailbox |-> Listed(ms)[i]]]

(* An error that reaches the caller.  A worker records the failure of its  *)
(* task unless the driver, the endpoint or a cancellation stopped it; a    *)
(* submission takes its invocation handle back; a stream reports the error *)
(* to its handler.                                                         *)
Fails(p, stopped) ==
    LET t == proc[p].task IN
    /\ turn' = p
    /\ proc' = [proc EXCEPT
         ![p].queue = <<>>, ![p].rest = <<>>, ![p].await = NoTask,
         ![p].todo = CASE proc[p].kind \in {"timer", "external"} /\ ~ stopped ->
                            <<Report(t, "failed"), Terminal(t, "failed")>>
                       [] proc[p].kind = "submit" -> <<Do("withdraw", t)>>
                       [] OTHER -> <<>>]

(* Cancelling the workers of t drops their coroutines where they are.  One *)
(* that is cancelling itself goes on until it has to wait.                 *)
DropWorkers(f, p, t) ==
    [q \in Proc |->
        IF IsWorker(q) /\ proc[q].task = t
          THEN IF q = p THEN [f[q] EXCEPT !.doomed = TRUE] ELSE Free
          ELSE f[q]]

(* What a coroutine that ends leaves: its guards release the endpoint.     *)
EndedHoldingEndpoint(p) == [Free EXCEPT !.endpoint = proc[p].endpoint]
Ended(p) == Free

Slot == CHOOSE p \in Proc : proc[p].kind = "free" /\ \A q \in Proc :
            proc[q].kind = "free" => p <= q

Starts(kind, t, e, todo, rest) ==
    /\ \E p \in Proc : proc[p].kind = "free"
    /\ Yielded
    /\ proc' = [proc EXCEPT ![Slot] =
         [Free EXCEPT !.kind = kind, !.task = t, !.endpoint = e,
                      !.todo = todo, !.rest = rest]]
    /\ turn' = Slot

(* The coroutine goes on to its next outcome, its next call, or its end.   *)
Proceed(p) ==
    /\ proc[p].kind # "free"
    /\ proc[p].await = NoTask
    /\ proc[p].todo = <<>>
    /\ proc[p].queue = <<>>
    /\ MayStep(p)
    /\ IF proc[p].rest # <<>>
         THEN /\ proc' = [proc EXCEPT ![p].todo = <<Head(proc[p].rest)>>, ![p].rest = Tail(@)]
              /\ turn' = p
         ELSE /\ proc' = [proc EXCEPT ![p] = Ended(p)]
              /\ turn' = NoProc
    /\ UNCHANGED <<pool, manager, run, answer, mail, sent, received, reports>>

(* A worker that cancelled itself is dropped where it first has to wait.   *)
Drop(p) ==
    /\ proc[p].doomed
    /\ Blocked(p)
    /\ proc' = [proc EXCEPT ![p] = Free]
    /\ turn' = NoProc
    /\ UNCHANGED <<pool, manager, run, answer, mail, sent, received, reports>>

-----------------------------------------------------------------------------
(* Dispatching a task.                                                     *)

(* begin_dispatch, then a run of t on the dispatcher.                      *)
Dispatches(p, s, t, e) ==
    IF s.lifecycle # "running"
      THEN Fails(p, TRUE) /\ UNCHANGED <<manager, run>>
      ELSE /\ proc' = [proc EXCEPT ![p].todo = Tail(@), ![p].await = t,
                                   ![p].endpoint = IF Item(p).op = "enter" THEN e ELSE @]
           /\ turn' = NoProc
           /\ manager' = [manager EXCEPT ![t] = "running"]
           /\ run' = [run EXCEPT ![t].endpoint = e]

(* The task runs to its end or to its next suspension: its sends are       *)
(* delivered and its outcome recorded.                                     *)
Run(t) ==
    /\ manager[t] = "running"
    /\ \E o \in IF run[t].n < MaxRuns THEN Behaviour(t) ELSE {Complete} :
         /\ sent + Cardinality(o.send) <= MaxMessages
         /\ o.kind = "spawn" => manager[ChildOf(t)] = "none"
         /\ run' = [run EXCEPT ![t].n = @ + 1, ![t].outcome = o]
         /\ manager' = [manager EXCEPT ![t] = IF o.status = "suspend" THEN "suspended"
                                                                    ELSE "ended"]
         /\ mail' = [m \in Mailbox |-> IF m \in o.send THEN Append(mail[m], sent + 1)
                                                       ELSE mail[m]]
         /\ sent' = IF o.send = {} THEN sent ELSE sent + 1
    /\ UNCHANGED <<pool, answer, received, reports, proc, turn>>

(* A run that the runtime fails.                                           *)
RunFails(t) ==
    /\ "task" \in Fault
    /\ manager[t] = "running"
    /\ run[t].n > 0
    /\ manager' = [manager EXCEPT ![t] = "failed"]
    /\ UNCHANGED <<pool, run, answer, mail, sent, received, reports, proc, turn>>

InstallsForAny(t) == run[t].n = 1
Installs(t) == t \in Host /\ run[t].n = 1

(* dispatch returns: the outcome joins the queue, and the first one of an  *)
(* invocation installs its handle.                                         *)
Return(p) ==
    LET t == proc[p].await IN
    /\ t # NoTask
    /\ manager[t] # "running"
    /\ Yielded
    /\ IF manager[t] = "failed"
         THEN Fails(p, FALSE) /\ UNCHANGED pool
         ELSE /\ proc' = [proc EXCEPT ![p].await = NoTask, ![p].queue = Append(@, t)]
              /\ turn' = p
              /\ pool' = IF Installs(t)
                           THEN [pool EXCEPT !.invocations = @ \cup {t}] ELSE pool
    /\ UNCHANGED <<manager, run, answer, mail, sent, received, reports>>

(* submit_invocation_handle: the first run of a host's task.               *)
Invoke(p) ==
    LET t == Item(p).task IN
    /\ At(p, "invoke")
    /\ Dispatches(p, pool, t, EndpointOf(t))
    /\ UNCHANGED <<pool, answer, mail, sent, received, reports>>

Withdraw(p) ==
    LET t == Item(p).task IN
    /\ At(p, "withdraw")
    /\ pool' = [pool EXCEPT !.invocations = @ \ {t}]
    /\ reports' = [reports EXCEPT ![t] = Append(@, "error")]
    /\ Then(p, <<>>)
    /\ UNCHANGED <<manager, run, answer, mail, sent, received>>

(* A task that is resumed is no longer the driver's to cancel.             *)
ReleasedLate(s, t) == s
Released(s, t) == [s EXCEPT !.contexts = @ \ {t}]

(* resume_raw.                                                             *)
ResumeRaw(p) ==
    LET i == Item(p)
        s == Released(pool, i.task) IN
    /\ At(p, "resume")
    /\ IF i.task \notin pool.contexts
         THEN /\ Fails(p, FALSE)
              /\ UNCHANGED <<pool, manager, run, answer, received>>
         ELSE /\ pool' = s
              /\ Dispatches(p, s, i.task, run[i.task].endpoint)
              /\ answer' = [answer EXCEPT ![i.task] = i.value.kind]
              /\ received' = received \cup i.value.messages
    /\ UNCHANGED <<mail, sent, reports>>

(* A resume that is refused leaves the task to whoever closes it.          *)
RefusedReleasing(s, t) == [s EXCEPT !.contexts = @ \ {t}]
Refused(s, t) == s

(* resume: what a timer, a timeout, an external answer or input does.      *)
Enter(p) ==
    LET i == Item(p)
        t == i.task
        s == Released(Without(pool, t), t) IN
    /\ At(p, "enter")
    /\ CASE t \notin pool.contexts ->
              /\ Fails(p, pool.terminal[t] = "cancelled")
              /\ UNCHANGED <<pool, manager, run, answer>>
         [] t \in pool.contexts /\ \/ pool.lifecycle # "running"
                                   \/ run[t].endpoint \in pool.closed ->
              /\ Fails(p, TRUE)
              /\ pool' = Refused(pool, t)
              /\ UNCHANGED <<manager, run, answer>>
         [] OTHER ->
              /\ pool' = s
              /\ Dispatches(p, s, t, run[t].endpoint)
              /\ answer' = [answer EXCEPT ![t] = i.value.kind]
    /\ UNCHANGED <<mail, sent, received, reports>>

-----------------------------------------------------------------------------
(* process_outcome_queue.                                                  *)

Effects(t) == IF run[t].outcome.effect THEN <<Emit(t, "effect")>> ELSE <<>>

(* Deliveries are routed after every outcome.                              *)
RoutedAtEnd(o) == IF o.status = "suspend" THEN <<>> ELSE Wakes(o.send)
Routed(o) == Wakes(o.send)

(* A suspension that comes too late is cancelled.                          *)
TooLateForDriver(t) == pool.lifecycle # "running"
TooLate(t) == pool.lifecycle # "running" \/ run[t].endpoint \in pool.closed

Outcome(p) ==
    LET t == Head(proc[p].queue)
        o == run[t].outcome
        suspended == o.status = "suspend"
        s == [pool EXCEPT !.active = @ \cup {t}]
        refused == Effects(t) \o <<Report(t, "failed")>> \o Routed(o)
                     \o <<Terminal(t, "failed")>>
        Goes(items) ==
            /\ proc' = [proc EXCEPT ![p].queue = Tail(@), ![p].todo = items]
            /\ turn' = p IN
    /\ proc[p].await = NoTask
    /\ proc[p].todo = <<>>
    /\ proc[p].queue # <<>>
    /\ MayStep(p)
    /\ CASE ~ Admitted(pool, t) ->
              /\ manager' = [manager EXCEPT ![t] = IF suspended THEN "cancelled" ELSE @]
              /\ Goes(refused)
              /\ UNCHANGED pool
         [] Admitted(pool, t) /\ ~ suspended ->
              /\ pool' = s
              /\ Goes(Effects(t) \o <<Report(t, o.status), Terminal(t, o.status)>>
                        \o Routed(o))
              /\ UNCHANGED manager
         [] Admitted(pool, t) /\ suspended /\ TooLate(t) ->
              /\ manager' = [manager EXCEPT ![t] = "cancelled"]
              /\ pool' = IF pool.terminal[t] # "none" THEN s
                           ELSE RecordTerminal(WithoutWaiters(s, t), t, "cancelled")
              /\ Goes(IF pool.terminal[t] # "none" THEN <<>> ELSE <<Report(t, "cancelled")>>)
         [] OTHER ->
              IF Cardinality(pool.contexts) >= SuspendedCapacity
                THEN /\ manager' = [manager EXCEPT ![t] = "cancelled"]
                     /\ pool' = s
                     /\ Goes(refused)
                ELSE /\ pool' = [s EXCEPT !.contexts = @ \cup {t},
                           !.inputs[run[t].endpoint] =
                              IF o.kind = "input" THEN Append(@, t) ELSE @]
                     /\ Goes(Effects(t) \o <<Do("announce", t)>>
                          \o (IF o.kind \in {"timer", "recv"} THEN <<Do(o.kind, t)>> ELSE <<>>)
                          \o Routed(o)
                          \o (IF o.kind \in {"spawn", "external"} THEN <<Do(o.kind, t)>> ELSE <<>>))
                     /\ UNCHANGED manager
    /\ UNCHANGED <<run, answer, mail, sent, received, reports>>

(* complete_invocation, or the event of a task without a handle.           *)
ReportTask(p) ==
    LET i == Item(p) IN
    /\ At(p, "report")
    /\ IF i.task \in pool.invocations
         THEN /\ pool' = [pool EXCEPT !.invocations = @ \ {i.task}]
              /\ reports' = [reports EXCEPT ![i.task] = Append(@, i.what)]
              /\ Then(p, <<>>)
         ELSE Then(p, <<Emit(i.task, i.what)>>) /\ UNCHANGED <<pool, reports>>
    /\ UNCHANGED <<manager, run, answer, mail, sent, received>>

Announce(p) ==
    LET t == Item(p).task IN
    /\ At(p, "announce")
    /\ Then(p, IF t \in pool.invocations THEN <<>> ELSE <<Emit(t, "suspended")>>)
    /\ UNCHANGED <<pool, manager, run, answer, mail, sent, received, reports>>

(* EventEnqueue, once there is room.                                       *)
Enqueue(p) ==
    LET e == Item(p).event IN
    /\ At(p, "emit")
    /\ pool' = IF Coalesces(e) THEN pool ELSE [pool EXCEPT !.events = Append(@, e)]
    /\ reports' = IF e[2] \in {"effect", "suspended"} THEN reports
                    ELSE [reports EXCEPT ![e[1]] = Append(@, e[2])]
    /\ Then(p, <<>>)
    /\ UNCHANGED <<manager, run, answer, mail, sent, received>>

RecordEnd(p) ==
    LET i == Item(p) IN
    /\ At(p, "terminal")
    /\ pool' = RecordTerminal(pool, i.task, i.what)
    /\ Then(p, <<>>)
    /\ UNCHANGED <<manager, run, answer, mail, sent, received, reports>>

-----------------------------------------------------------------------------
(* Timers, mailboxes, children and external requests.                      *)

CanSleep == pool.lifecycle = "running" /\ TimerWorkers < TimerCapacity
Sleep(t, kind) == [task |-> t, kind |-> kind, wait |-> run[t].n]

(* fail_suspended_task_for_capacity.                                       *)
FailsForCapacity(p, t, left) ==
    LET items == IF t \in pool.contexts THEN <<Report(t, "failed")>> ELSE <<>>
        f == [proc EXCEPT ![p].todo = items \o left] IN
    /\ turn' = p
    /\ IF t \in pool.contexts
         THEN /\ pool' = TakeWorkers(RecordTerminal(WithoutWaiters(pool, t), t, "failed"), t)
              /\ manager' = [manager EXCEPT ![t] = "cancelled"]
              /\ proc' = DropWorkers(f, p, t)
         ELSE proc' = f /\ UNCHANGED <<pool, manager>>

(* spawn_timer_resume; without room the rest of the outcome is skipped.    *)
SpawnTimer(p) ==
    LET t == Item(p).task IN
    /\ At(p, "timer")
    /\ IF CanSleep
         THEN /\ pool' = [pool EXCEPT !.timers = @ \cup {Sleep(t, "timer")}]
              /\ Then(p, <<>>)
              /\ UNCHANGED manager
         ELSE FailsForCapacity(p, t, <<>>)
    /\ UNCHANGED <<run, answer, mail, sent, received, reports>>

Queued(ms) == UNION {Members(mail[m]) : m \in ms}
Drained(ms) == [m \in Mailbox |-> IF m \in ms THEN <<>> ELSE mail[m]]

(* handle_mailbox_recv.                                                    *)
MailboxRecv(p) ==
    LET t == Item(p).task
        o == run[t].outcome
        ready == Queued(o.mailboxes)
        s == [pool EXCEPT !.waiters = [m \in Mailbox |->
                 IF m \in o.mailboxes THEN Append(@[m], t) ELSE @[m]]] IN
    /\ At(p, "recv")
    /\ CASE ready # {} \/ o.timeout = "poll" ->
              /\ mail' = Drained(o.mailboxes)
              /\ pool' = Without(s, t)
              /\ Then(p, <<Resume(t, [kind |-> IF ready = {} THEN "empty" ELSE "messages",
                                      messages |-> ready])>>)
              /\ UNCHANGED manager
         [] ready = {} /\ o.timeout = "none" ->
              pool' = s /\ Then(p, <<>>) /\ UNCHANGED <<mail, manager>>
         [] ready = {} /\ o.timeout = "some" ->
              /\ IF CanSleep
                   THEN /\ pool' = [s EXCEPT !.timers = @ \cup {Sleep(t, "timeout")}]
                        /\ Then(p, <<>>)
                        /\ UNCHANGED manager
                   ELSE FailsForCapacity(p, t, Tail(proc[p].todo))
              /\ UNCHANGED mail
    /\ UNCHANGED <<run, answer, sent, received, reports>>

(* A woken receiver gets what all its mailboxes hold.                      *)
WokenWithOne(m, ms) == Queued({m})
WokenWith(m, ms) == Queued(ms)

(* wake_mailbox_waiters for one mailbox.                                   *)
Wake(p) ==
    LET m == Item(p).mailbox
        t == Head(pool.waiters[m])
        ms == run[t].outcome.mailboxes IN
    /\ At(p, "wake")
    /\ IF pool.waiters[m] = <<>>
         THEN Then(p, <<>>) /\ UNCHANGED <<pool, mail>>
         ELSE /\ pool' = Without(pool, t)
              /\ mail' = Drained(ms)
              /\ Then(p, IF WokenWith(m, ms) = {} THEN <<>>
                   ELSE <<Resume(t, [kind |-> "messages", messages |-> WokenWith(m, ms)])>>)
    /\ UNCHANGED <<manager, run, answer, sent, received, reports>>

(* spawn_child_and_resume: submit_spawn_raw, which gives the child a new   *)
(* id, then the parent is resumed.                                         *)
SpawnChild(p) ==
    LET t == Item(p).task
        c == ChildOf(t) IN
    /\ At(p, "spawn")
    /\ IF pool.lifecycle # "running"
         THEN Fails(p, TRUE) /\ UNCHANGED <<manager, run>>
         ELSE /\ manager[c] = "none"
              /\ proc' = [proc EXCEPT ![p].await = c, ![p].todo =
                   <<Resume(t, [kind |-> "child", messages |-> {}])>> \o Tail(@)]
              /\ turn' = NoProc
              /\ manager' = [manager EXCEPT ![c] = "running"]
              /\ run' = [run EXCEPT ![c].endpoint = run[t].endpoint]
    /\ UNCHANGED <<pool, answer, mail, sent, received, reports>>

(* spawn_external_request_resume: the context of the task is expected.     *)
SpawnExternal(p) ==
    LET t == Item(p).task IN
    /\ At(p, "external")
    /\ pool' = IF t \notin pool.contexts THEN [pool EXCEPT !.lifecycle = "poisoned"]
                 ELSE [pool EXCEPT !.external =
                         IF pool.lifecycle = "running" THEN @ \cup {t} ELSE @]
    /\ Then(p, <<>>)
    /\ UNCHANGED <<manager, run, answer, mail, sent, received, reports>>

-----------------------------------------------------------------------------
(* Workers.                                                                *)

EnterWith(t, kind) == [op |-> "enter", task |-> t, value |-> [kind |-> kind]]

(* A sleep ends.  A timeout only resumes a task that is still waiting.     *)
StillReceiving(w) == \E m \in Mailbox : w.task \in Members(pool.waiters[m])
StillWaiting(w) == w.kind = "timer" \/ \E m \in Mailbox : w.task \in Members(pool.waiters[m])

Fire(w) ==
    /\ w \in pool.timers
    /\ pool' = [pool EXCEPT !.timers = @ \ {w}]
    /\ Starts("timer", w.task, NoEndpoint,
              IF StillWaiting(w) THEN <<EnterWith(w.task, w.kind)>> ELSE <<>>, <<>>)
    /\ UNCHANGED <<manager, run, answer, mail, sent, received, reports>>

Streaming(t) == \E p \in Proc : proc[p].kind = "stream" /\ proc[p].task = t

(* An external request is answered, or times out.                          *)
ExternalAnswer(t) ==
    /\ t \in pool.external
    /\ ~ Streaming(t)
    /\ pool' = [pool EXCEPT !.external = @ \ {t}]
    /\ Starts("external", t, NoEndpoint, <<EnterWith(t, "external")>>, <<>>)
    /\ UNCHANGED <<manager, run, answer, mail, sent, received, reports>>

(* deliver_external_mailbox: a streamed value is sent to a mailbox.        *)
ExternalStream(t, m) ==
    /\ "stream" \in Operation
    /\ t \in pool.external
    /\ ~ Streaming(t)
    /\ sent < MaxMessages
    /\ mail' = [mail EXCEPT ![m] = Append(@, sent + 1)]
    /\ sent' = sent + 1
    /\ Starts("stream", t, NoEndpoint, Wakes({m}), <<>>)
    /\ UNCHANGED <<pool, manager, run, answer, received, reports>>

-----------------------------------------------------------------------------
(* Hosts.                                                                  *)

Open(e) == pool.lifecycle = "running" /\ e \notin pool.closed

Submit(t) ==
    /\ manager[t] = "none"
    /\ \A p \in Proc : proc[p].task # t
    /\ Open(EndpointOf(t))
    /\ Starts("submit", t, EndpointOf(t), <<Do("invoke", t)>>, <<>>)
    /\ UNCHANGED <<pool, manager, run, answer, mail, sent, received, reports>>

(* Input resumes every waiting reader of the endpoint in turn.             *)
Input(e) ==
    LET ts == pool.inputs[e] IN
    /\ "input" \in Operation
    /\ Open(e)
    /\ ts # <<>>
    /\ pool' = [pool EXCEPT !.inputs[e] = <<>>]
    /\ Starts("input", NoTask, e, <<>>, [i \in DOMAIN ts |-> EnterWith(ts[i], "input")])
    /\ UNCHANGED <<manager, run, answer, mail, sent, received, reports>>

(* The host holds the handle of t once its submission has returned.        *)
Held(t) == t \in Host /\ run[t].n > 0 /\ \A p \in Proc :
              ~ (proc[p].kind = "submit" /\ proc[p].task = t)

CancelTask(t) ==
    /\ "cancel" \in Operation
    /\ Held(t)
    /\ t \in pool.contexts
    /\ Starts("cancel", t, NoEndpoint, <<Cancel(t)>>, <<>>)
    /\ UNCHANGED <<pool, manager, run, answer, mail, sent, received, reports>>

(* Detaching a handle leaves the outcome to the event stream.              *)
Detach(t) ==
    /\ "detach" \in Operation
    /\ Held(t)
    /\ t \in pool.contexts \cap pool.invocations
    /\ Yielded
    /\ pool' = [pool EXCEPT !.invocations = @ \ {t}]
    /\ UNCHANGED <<manager, run, answer, mail, sent, received, reports, proc, turn>>

Close(e) ==
    /\ "close" \in Operation
    /\ e \notin pool.closed
    /\ pool.lifecycle = "running"
    /\ pool' = [pool EXCEPT !.closed = @ \cup {e}]
    /\ Starts("close", NoTask, NoEndpoint, <<>>,
              <<[op |-> "idle", endpoint |-> e], [op |-> "cancelall", endpoints |-> {e}]>>)
    /\ UNCHANGED <<manager, run, answer, mail, sent, received, reports>>

(* shutdown: admission stops and the workers are dropped at once.          *)
Shutdown ==
    /\ "shutdown" \in Operation
    /\ pool.lifecycle = "running"
    /\ Yielded
    /\ \E p \in Proc : proc[p].kind = "free"
    /\ pool' = [pool EXCEPT !.lifecycle = "shutting down", !.timers = {}, !.external = {}]
    /\ proc' = [p \in Proc |->
         CASE p = Slot -> [Free EXCEPT !.kind = "shutdown", !.rest =
                  <<[op |-> "quiet"], [op |-> "cancelall", endpoints |-> Endpoint],
                    [op |-> "sweep"], [op |-> "stop"]>>]
           [] p # Slot /\ IsWorker(p) -> Free
           [] OTHER -> proc[p]]
    /\ turn' = Slot
    /\ UNCHANGED <<manager, run, answer, mail, sent, received, reports>>

(* EndpointIdle and DriverIdle.                                            *)
Waited(p) ==
    /\ At(p, "idle") \/ At(p, "quiet")
    /\ Then(p, <<>>)
    /\ UNCHANGED <<pool, manager, run, answer, mail, sent, received, reports>>

(* cancel_endpoint_tasks, and the same over every context at shutdown.     *)
CancelAll(p) ==
    /\ At(p, "cancelall")
    /\ Then(p, Listed({Cancel(t) : t \in {u \in pool.contexts :
                            run[u].endpoint \in Item(p).endpoints}}))
    /\ UNCHANGED <<pool, manager, run, answer, mail, sent, received, reports>>

(* cancel_task_with_reason.                                                *)
CancelWithReason(p) ==
    LET t == Item(p).task
        f == [proc EXCEPT ![p].todo = <<Report(t, "cancelled")>> \o Tail(@)] IN
    /\ At(p, "cancel")
    /\ IF t \notin pool.contexts
         THEN Then(p, <<>>) /\ UNCHANGED <<pool, manager>>
         ELSE /\ pool' = TakeWorkers(RecordTerminal(WithoutWaiters(pool, t), t, "cancelled"), t)
              /\ manager' = [manager EXCEPT ![t] = "cancelled"]
              /\ proc' = DropWorkers(f, p, t)
              /\ turn' = p
    /\ UNCHANGED <<run, answer, mail, sent, received, reports>>

(* cancel_all_tasks, then record_cancelled_task for each.                  *)
Sweep(p) ==
    LET ts == {t \in Task : manager[t] = "suspended"} IN
    /\ At(p, "sweep")
    /\ manager' = [t \in Task |-> IF t \in ts THEN "cancelled" ELSE manager[t]]
    /\ Then(p, Listed({Do("swept", t) : t \in ts}))
    /\ UNCHANGED <<pool, run, answer, mail, sent, received, reports>>

RecordCancelled(p) ==
    LET t == Item(p).task IN
    /\ At(p, "swept")
    /\ IF pool.terminal[t] # "none"
         THEN UNCHANGED pool /\ Then(p, <<>>)
         ELSE /\ pool' = RecordTerminal(WithoutWaiters(pool, t), t, "cancelled")
              /\ Then(p, <<Report(t, "cancelled")>>)
    /\ UNCHANGED <<manager, run, answer, mail, sent, received, reports>>

Stop(p) ==
    /\ At(p, "stop")
    /\ pool' = [pool EXCEPT !.lifecycle = "stopped"]
    /\ Then(p, <<>>)
    /\ UNCHANGED <<manager, run, answer, mail, sent, received, reports>>

(* The event pump drains the queue.                                        *)
Pump ==
    /\ pool.events # <<>>
    /\ Yielded
    /\ pool' = [pool EXCEPT !.events = <<>>]
    /\ turn' = NoProc
    /\ UNCHANGED <<manager, run, answer, mail, sent, received, reports, proc>>

-----------------------------------------------------------------------------
Step(p) ==
    \/ Proceed(p) \/ Drop(p) \/ Return(p) \/ Invoke(p) \/ Withdraw(p)
    \/ ResumeRaw(p) \/ Enter(p) \/ Outcome(p) \/ ReportTask(p) \/ Announce(p)
    \/ Enqueue(p) \/ RecordEnd(p) \/ SpawnTimer(p) \/ MailboxRecv(p) \/ Wake(p)
    \/ SpawnChild(p) \/ SpawnExternal(p) \/ Waited(p) \/ CancelAll(p)
    \/ CancelWithReason(p) \/ Sweep(p) \/ RecordCancelled(p) \/ Stop(p)

Fires(t) == \E w \in pool.timers : w.task = t /\ Fire(w)

Next ==
    \/ \E p \in Proc : Step(p)
    \/ \E t \in Task : \/ Run(t) \/ RunFails(t) \/ Fires(t) \/ ExternalAnswer(t)
                       \/ CancelTask(t) \/ Detach(t)
    \/ \E t \in Task, m \in Mailbox : ExternalStream(t, m)
    \/ \E t \in Host : Submit(t)
    \/ \E e \in Endpoint : Input(e) \/ Close(e)
    \/ Shutdown
    \/ Pump

Spec == Init /\ [][Next]_vars

(* The runtime polls every coroutine that is ready, the dispatcher runs    *)
(* what it was given, sleeps end, requests are answered or time out, and   *)
(* the host pumps events.                                                  *)
Fairness ==
    /\ \A p \in Proc : SF_vars(Step(p))
    /\ \A t \in Task : WF_vars(Run(t)) /\ SF_vars(Fires(t)) /\ SF_vars(ExternalAnswer(t))
    /\ SF_vars(Pump)

FairSpec == Spec /\ Fairness

-----------------------------------------------------------------------------
(* Properties.                                                             *)

Ops == {"invoke", "withdraw", "resume", "enter", "report", "announce", "emit",
        "terminal", "timer", "recv", "wake", "spawn", "external", "idle", "quiet",
        "cancelall", "cancel", "sweep", "swept", "stop"}

(* PoolState, the manager and the coroutines have their types; a coroutine *)
(* that awaits a run has the thread taken from it.                         *)
TypeOK ==
    /\ pool.lifecycle \in {"running", "shutting down", "stopped", "poisoned"}
    /\ pool.contexts \subseteq Task /\ pool.active \subseteq Task
    /\ pool.invocations \subseteq Host
    /\ pool.closed \subseteq Endpoint
    /\ \A m \in Mailbox : Members(pool.waiters[m]) \subseteq Task /\ Members(mail[m]) \subseteq 1..sent
    /\ \A e \in Endpoint : Members(pool.inputs[e]) \subseteq Task
    /\ pool.external \subseteq Task
    /\ manager \in [Task -> {"none", "running", "suspended", "ended", "failed", "cancelled"}]
    /\ received \subseteq 1..sent
    /\ \A p \in Proc : /\ \A i \in DOMAIN proc[p].todo : proc[p].todo[i].op \in Ops
                       /\ Members(proc[p].queue) \subseteq Task
                       /\ turn = p => proc[p].await = NoTask

(* A task whose context the driver keeps is suspended in the task manager: *)
(* the cancellations that remove a context first and then ask the manager  *)
(* never fail halfway.                                                     *)
ContextsAreSuspended == \A t \in pool.contexts : manager[t] = "suspended"

(* A task ends at most once for its host: it has one invocation outcome or *)
(* one terminal event, whoever cancels, fails or resumes it.               *)
ReportedOnce == \A t \in Task : Len(SelectSeq(reports[t], LAMBDA w : w # "error")) <= 1

(* The bounds on suspended tasks, active tasks, timers and queued events   *)
(* hold at every moment, whatever interleaves with the checks.             *)
CapacitiesHold ==
    /\ Cardinality(pool.contexts) <= SuspendedCapacity
    /\ Cardinality(pool.active) <= ActiveCapacity
    /\ TimerWorkers <= TimerCapacity
    /\ Len(pool.events) <= EventCapacity

Pending(t) ==
    \E p \in Proc :
      \/ proc[p].await = t
      \/ t \in Members(proc[p].queue)
      \/ \E i \in DOMAIN proc[p].todo : LET x == proc[p].todo[i] IN
            \/ x.op = "emit" /\ x.event[1] = t
            \/ x.op \notin {"emit", "wake", "idle", "quiet", "cancelall", "sweep", "stop"}
                 /\ x.task = t
      \/ \E i \in DOMAIN proc[p].rest : proc[p].rest[i].op = "enter"
                                         /\ proc[p].rest[i].task = t

Closing(e) == e \in pool.closed /\ \E p \in Proc : proc[p].kind = "close"

WaitingFor(t) ==
    LET o == run[t].outcome IN
    CASE o.kind = "timer" -> Timers(pool, t) # {}
      [] o.kind = "recv" -> \A m \in o.mailboxes : t \in Members(pool.waiters[m])
      [] o.kind = "input" -> \E e \in Endpoint : t \in Members(pool.inputs[e])
      [] o.kind = "external" -> t \in pool.external
      [] OTHER -> o.kind = "never"

(* No task is stranded: one that has been dispatched and not been reported *)
(* is in the hands of a coroutine, or is suspended with its wake-up        *)
(* registered, or is about to be cancelled by the close of its endpoint.   *)
NoTaskStranded ==
    \A t \in Task : manager[t] # "none" /\ reports[t] = <<>> =>
        \/ Pending(t)
        \/ t \in pool.contexts /\ WaitingFor(t)
        \/ t \in pool.contexts /\ Closing(run[t].endpoint)

(* A task that waits for input stays registered for it until it is given   *)
(* some: input that fails for one reader does not take it from the others. *)
ReadersWait ==
    \A t \in pool.contexts : run[t].outcome.kind = "input" => WaitingFor(t) \/ Pending(t)

(* A message is in its mailbox, on its way to a task, or was handed to a   *)
(* task: none is drained and then dropped.                                 *)
MessagesKept ==
    \A k \in 1..sent :
        \/ \E m \in Mailbox : k \in Members(mail[m])
        \/ k \in received
        \/ \E p \in Proc : \E i \in DOMAIN proc[p].todo :
              proc[p].todo[i].op = "resume" /\ k \in proc[p].todo[i].value.messages

(* A receiver never sleeps on a mailbox that has messages: a coroutine is  *)
(* still going to wake it.                                                 *)
WakePending ==
    \A m \in Mailbox : mail[m] # <<>> /\ pool.waiters[m] # <<>> =>
        \E p \in Proc :
          \/ [op |-> "wake", mailbox |-> m] \in Members(proc[p].todo)
          \/ \E t \in Members(proc[p].queue) \cup {proc[p].await} :
                t # NoTask /\ m \in run[t].outcome.send

(* Only a receive with a timeout is answered by a timeout.                 *)
TimeoutWasAsked ==
    \A t \in Task : manager[t] = "running" /\ answer[t] = "timeout" =>
        run[t].outcome.timeout = "some"

(* The context that an external request is scheduled with is there.        *)
ExternalContextRegistered == pool.lifecycle # "poisoned"

(* Once a close has returned, no task of the endpoint is suspended in the  *)
(* driver, and none will be: outcomes that arrive later are cancelled.     *)
ClosedStaysEmpty ==
    \A e \in pool.closed :
        (\A p \in Proc : proc[p].kind # "close") =>
            \A t \in pool.contexts : run[t].endpoint # e

(* A driver that has stopped keeps no suspended task, timer or external    *)
(* request, and the dispatcher runs nothing.                               *)
StoppedIsClean ==
    pool.lifecycle = "stopped" =>
        /\ pool.contexts = {} /\ pool.timers = {} /\ pool.external = {}
        /\ \A t \in Task : manager[t] # "running"

(* A driver that has stopped has answered every invocation.                *)
StoppedAnswersAll == pool.lifecycle = "stopped" => pool.invocations = {}

(* Shutdown completes while the host pumps events.                         *)
ShutdownCompletes == pool.lifecycle = "shutting down" ~> pool.lifecycle = "stopped"

(* A task that waits with a timeout, a timer or an external request is     *)
(* answered or ends.                                                       *)
TimedWaitsEnd ==
    \A t \in Task : (t \in pool.contexts /\ (\/ run[t].outcome.kind \in {"timer", "external"}
                                             \/ /\ run[t].outcome.kind = "recv"
                                                /\ run[t].outcome.timeout = "some"))
        ~> t \notin pool.contexts
=============================================================================
