------------------------------- MODULE Tasks -------------------------------
(***************************************************************************)
(* Tasks between boundaries, and the shared task manager.  A task runs its *)
(* VM until it asks something of the host, commits what it drafted, and    *)
(* either goes on, retries from its last boundary, or hands an outcome to  *)
(* the task manager, which records effects, sends and the next state.      *)
(*                                                                         *)
(* A VM is reduced to its checkpoint: the segment it is in and the value   *)
(* it was last resumed with.  A segment increments some functional keys,   *)
(* emits one effect (a mailbox send goes the same way at the same time)    *)
(* and may request one subscription.  An emission is named by the task,    *)
(* the segment and the attempt that made it.                               *)
(***************************************************************************)
EXTENDS Integers, Sequences, FiniteSets

CONSTANTS
    Task,
    Key,            \* functional keys, each holding a counter
    Response,       \* Response[t]: host responses the VM of t gives
    Fault,          \* Fault[t]: failures that t meets: subset of
                    \*   {"runtime", "persist", "dispatch", "resume"}
    Tagged,         \* tasks whose writes are tagged buffer edits
    Subscribing,    \* subset of BOOLEAN: whether segments subscribe
    NoTx,
    MaxRetries,     \* TaskLimits.max_retries
    MaxSegment,     \* bound: segments a task runs
    MaxCounter      \* bound: increments of a key

ASSUME LimitsAssumption == MaxRetries \in Nat /\ MaxSegment \in Nat

VARIABLES
    counter,     \* counter[k]: the published value of key k
    task,        \* the Task a thread holds, or the saved TaskState
    status,      \* where the shared task manager has each task
    outcome,     \* the outcome a thread is about to record
    effects,     \* SharedTaskState.effects, and sends delivered with them
    published,   \* emissions whose boundary succeeded
    caps,        \* subscription capabilities allocated
    applied,     \* subscriptions applied at a boundary
    delivered    \* value each task was last resumed with

vars == <<counter, task, status, outcome, effects, published, caps,
          applied, delivered>>

Boundaries == {"commit", "suspend", "spawn", "complete"}

ASSUME ResponseAssumption ==
    \A t \in Task : Response[t] \subseteq Boundaries \cup {"retry", "abort"}

Vm == [segment : 0..MaxSegment, value : Nat]

TypeOK ==
    /\ counter \in [Key -> 0..MaxCounter]
    /\ status \in [Task -> {"none", "running", "recording", "suspended",
                            "completed", "cancelled", "failed", "forgotten"}]
    /\ \A t \in Task :
         /\ task[t].vm \in Vm /\ task[t].retry \in Vm
         /\ task[t].retries \in 0..MaxRetries
         /\ task[t].writes \subseteq Key
         /\ task[t].response \in Response[t] \cup {"none"}

Fresh ==
    [vm |-> [segment |-> 0, value |-> 0], retry |-> [segment |-> 0, value |-> 0],
     base |-> NoTx, writes |-> {}, pending |-> <<>>, committed |-> <<>>,
     subscription |-> {}, retries |-> 0, response |-> "none"]

Init ==
    /\ counter = [k \in Key |-> 0]
    /\ task = [t \in Task |-> Fresh]
    /\ status = [t \in Task |-> "none"]
    /\ outcome = [t \in Task |-> "none"]
    /\ effects = <<>>
    /\ published = {}
    /\ caps = {}
    /\ applied = {}
    /\ delivered = [t \in Task |-> 0]

Elements(s) == {s[i] : i \in DOMAIN s}

Emission(t) == <<t, task[t].vm.segment, task[t].retries>>

-----------------------------------------------------------------------------
(* The task.                                                               *)

(* SharedTaskManager::submit_with_context_and_limits, up to the run.       *)
Submit(t) ==
    /\ status[t] = "none"
    /\ status' = [status EXCEPT ![t] = "running"]
    /\ task' = [task EXCEPT ![t].base = counter]
    /\ UNCHANGED <<counter, outcome, effects, published, caps, applied,
                   delivered>>

(* run_until_host_response: the VM drafts its writes and buffers its       *)
(* emission.  A subscription's capability is allocated at once.            *)
RunVm(t, keys, subscribe, response) ==
    /\ status[t] = "running"
    /\ task[t].response = "none"
    /\ response = "commit" => task[t].vm.segment + 1 < MaxSegment
    /\ \A k \in keys : counter[k] < MaxCounter
    /\ task' = [task EXCEPT ![t].writes = keys,
                            ![t].pending = <<Emission(t)>>,
                            ![t].subscription = IF subscribe THEN {Emission(t)}
                                                ELSE {},
                            ![t].response = response]
    /\ caps' = IF subscribe THEN caps \cup {Emission(t)} ELSE caps
    /\ UNCHANGED <<counter, status, outcome, effects, published,
                   applied, delivered>>

(* An error that is not a language error ends the run; the task is         *)
(* dropped with what it had buffered.                                      *)
Dropped(t) ==
    /\ status' = [status EXCEPT ![t] = "failed"]
    /\ task' = [task EXCEPT ![t] = Fresh]
    /\ outcome' = outcome

(* run_until_host_response returning an error.                             *)
RuntimeFailure(t) ==
    /\ "runtime" \in Fault[t]
    /\ status[t] = "running"
    /\ task[t].response = "none"
    /\ Dropped(t)
    /\ UNCHANGED <<counter, effects, published, caps, applied, delivered>>

Conflict(t) == \E k \in task[t].writes : counter[k] # task[t].base[k]

NextSegment(vm) == [vm EXCEPT !.segment = @ + 1]

(* finish_successful_boundary: what was buffered is committed and, unless  *)
(* the task ends here, the checkpoint moves and a new transaction begins.  *)
FinishBoundary(t) ==
    LET kept == [task[t] EXCEPT !.committed = @ \o task[t].pending,
                    !.pending = <<>>, !.subscription = {}, !.writes = {},
                    !.response = "none"]
    IN  IF task[t].response = "complete" THEN [kept EXCEPT !.base = NoTx]
        ELSE [kept EXCEPT !.vm = NextSegment(@), !.retry = NextSegment(task[t].vm),
                          !.base = counter']

(* Where the response leads once its boundary has succeeded.               *)
AfterBoundary(t) ==
    /\ task' = [task EXCEPT ![t] = FinishBoundary(t)]
    /\ published' = published \cup Elements(task[t].pending)
    /\ applied' = applied \cup task[t].subscription
    /\ IF task[t].response = "commit" THEN UNCHANGED <<status, outcome>>
       ELSE /\ status' = [status EXCEPT ![t] = "recording"]
            /\ outcome' = [outcome EXCEPT ![t] =
                 IF task[t].response = "complete" THEN "completed" ELSE "suspended"]

(* commit_boundary_with_disposition on a read-only transaction.            *)
ReadOnlyBoundary(t) ==
    /\ status[t] = "running"
    /\ task[t].response \in Boundaries
    /\ task[t].writes = {}
    /\ UNCHANGED <<counter, effects, caps, delivered>>
    /\ \/ AfterBoundary(t)
       \/ /\ "dispatch" \in Fault[t]
          /\ Dropped(t)
          /\ UNCHANGED <<published, applied>>

(* Mutant of Write: a conflict is not noticed.                             *)
WriteBlindly(t) ==
    /\ counter' = [k \in Key |-> IF k \in task[t].writes
                                   THEN task[t].base[k] + 1 ELSE counter[k]]

Write(t) ==
    /\ ~ Conflict(t)
    /\ counter' = [k \in Key |-> IF k \in task[t].writes
                                   THEN task[t].base[k] + 1 ELSE counter[k]]

(* The same on a transaction that writes: validated and published in one   *)
(* hold of the commit lock.  The subscriptions are applied there too, and  *)
(* their failure is returned although the writes are published.            *)
WriteBoundary(t) ==
    /\ status[t] = "running"
    /\ task[t].response \in Boundaries
    /\ task[t].writes # {}
    /\ Write(t)
    /\ UNCHANGED <<effects, caps, delivered>>
    /\ \/ AfterBoundary(t)
       \/ /\ "dispatch" \in Fault[t]
          /\ Dropped(t)
          /\ published' = published \cup Elements(task[t].pending)
          /\ UNCHANGED applied

(* The provider refuses the commit, or a tagged buffer edit conflicts:     *)
(* pending subscriptions are discarded and the error ends the task.        *)
CommitFailure(t) ==
    /\ status[t] = "running"
    /\ task[t].response \in Boundaries
    /\ task[t].writes # {}
    /\ IF Conflict(t) THEN t \in Tagged ELSE "persist" \in Fault[t]
    /\ Dropped(t)
    /\ caps' = caps \ task[t].subscription
    /\ UNCHANGED <<counter, effects, published, applied, delivered>>

(* Mutants of RestoreCheckpoint: the failed attempt's emissions are kept,  *)
(* or the attempt is not counted.                                          *)
RestoreKeepingEffects(t) ==
    [task[t] EXCEPT !.committed = @ \o task[t].pending, !.pending = <<>>,
        !.subscription = {}, !.writes = {}, !.vm = task[t].retry,
        !.base = counter, !.retries = @ + 1, !.response = "none"]

RestoreUncounted(t) ==
    [task[t] EXCEPT !.pending = <<>>, !.subscription = {}, !.writes = {},
        !.vm = task[t].retry, !.base = counter, !.response = "none"]

RestoreCheckpoint(t) ==
    [task[t] EXCEPT !.pending = <<>>, !.subscription = {}, !.writes = {},
        !.vm = task[t].retry, !.base = counter, !.retries = @ + 1,
        !.response = "none"]

(* Mutant of RetriesExceeded: one attempt too many.                        *)
RetriesExceededLate(t) == task[t].retries > MaxRetries

RetriesExceeded(t) == task[t].retries >= MaxRetries

(* retry_from_boundary, after a conflict or a rollback the VM asked for.   *)
Retry(t) ==
    /\ status[t] = "running"
    /\ \/ task[t].response = "retry"
       \/ /\ task[t].response \in Boundaries
          /\ task[t].writes # {}
          /\ Conflict(t)
          /\ t \notin Tagged
    /\ IF RetriesExceeded(t)
         THEN /\ Dropped(t)
              /\ UNCHANGED caps
         ELSE /\ task' = [task EXCEPT ![t] = RestoreCheckpoint(t)]
              /\ caps' = caps \ task[t].subscription
              /\ UNCHANGED <<status, outcome>>
    /\ UNCHANGED <<counter, effects, published, applied, delivered>>

(* VmHostResponse::Abort.                                                  *)
Abort(t) ==
    /\ status[t] = "running"
    /\ task[t].response = "abort"
    /\ task' = [task EXCEPT ![t].pending = <<>>, ![t].subscription = {},
                            ![t].writes = {}, ![t].base = NoTx,
                            ![t].response = "none"]
    /\ caps' = caps \ task[t].subscription
    /\ status' = [status EXCEPT ![t] = "recording"]
    /\ outcome' = [outcome EXCEPT ![t] = "completed"]
    /\ UNCHANGED <<counter, effects, published, applied, delivered>>

-----------------------------------------------------------------------------
(* The shared task manager.                                                *)

(* Mutant of Emitted: a suspension keeps its effects for later.            *)
EmittedWhenDone(t) ==
    IF outcome[t] = "suspended" THEN effects ELSE effects \o task[t].committed

Emitted(t) == effects \o task[t].committed

(* Mutant of Saved: the effects are copied out instead of taken.           *)
SavedWithEffects(t) == [task[t] EXCEPT !.base = NoTx]

(* take_committed_effects and checkpoint.                                  *)
Saved(t) == [task[t] EXCEPT !.committed = <<>>, !.base = NoTx]

(* record_outcome: emissions and sends leave the task, and the task is     *)
(* completed or saved.                                                     *)
RecordOutcome(t) ==
    /\ status[t] = "recording"
    /\ effects' = Emitted(t)
    /\ status' = [status EXCEPT ![t] = outcome[t]]
    /\ outcome' = [outcome EXCEPT ![t] = "none"]
    /\ task' = [task EXCEPT ![t] = IF outcome[t] = "suspended" THEN Saved(t)
                                   ELSE Fresh]
    /\ UNCHANGED <<counter, published, caps, applied, delivered>>

(* Mutant of Resumed: the value is not part of the checkpoint.             *)
ResumedVmOnly(t, value) ==
    [task[t] EXCEPT !.vm.value = value, !.base = counter]

(* Task::from_state_with_authority and Task::resume_with.                  *)
Resumed(t, value) ==
    [task[t] EXCEPT !.vm.value = value, !.retry = [task[t].vm EXCEPT !.value = value],
                    !.base = counter]

(* resume_with_context: the saved state is taken out under the lock and    *)
(* runs without it.                                                        *)
Resume(t) ==
    LET value == delivered[t] + 1 IN
    /\ status[t] = "suspended"
    /\ status' = [status EXCEPT ![t] = "running"]
    /\ task' = [task EXCEPT ![t] = Resumed(t, value)]
    /\ delivered' = [delivered EXCEPT ![t] = value]
    /\ UNCHANGED <<counter, outcome, effects, published, caps, applied>>

(* The VM rejects the resumption: the task is in none of the tables.       *)
ResumeFailure(t) ==
    /\ "resume" \in Fault[t]
    /\ status[t] = "suspended"
    /\ Dropped(t)
    /\ UNCHANGED <<counter, effects, published, caps, applied, delivered>>

(* cancel_task and cancel_all_tasks.                                       *)
Cancel(ts) ==
    /\ ts # {}
    /\ \A t \in ts : status[t] = "suspended"
    /\ Cardinality(ts) = 1 \/ ts = {t \in Task : status[t] = "suspended"}
    /\ status' = [t \in Task |-> IF t \in ts THEN "cancelled" ELSE status[t]]
    /\ task' = [t \in Task |-> IF t \in ts THEN Fresh ELSE task[t]]
    /\ UNCHANGED <<counter, outcome, effects, published, caps, applied,
                   delivered>>

(* forget_terminal_task.                                                   *)
Forget(t) ==
    /\ status[t] \in {"completed", "cancelled"}
    /\ status' = [status EXCEPT ![t] = "forgotten"]
    /\ UNCHANGED <<counter, task, outcome, effects, published, caps,
                   applied, delivered>>

Step(t) ==
    \/ \E keys \in SUBSET Key, subscribe \in Subscribing, response \in Response[t] :
         RunVm(t, keys, subscribe, response)
    \/ RuntimeFailure(t)
    \/ ReadOnlyBoundary(t)
    \/ WriteBoundary(t)
    \/ CommitFailure(t)
    \/ Retry(t)
    \/ Abort(t)
    \/ RecordOutcome(t)

Next ==
    \/ \E t \in Task :
         \/ Submit(t)
         \/ Step(t)
         \/ task[t].vm.segment < MaxSegment /\ Resume(t)
         \/ ResumeFailure(t)
         \/ Forget(t)
    \/ \E ts \in SUBSET Task : Cancel(ts)

(* A running task has a thread that keeps going; nobody has to resume a    *)
(* suspended one.                                                          *)
Fairness == \A t \in Task : WF_vars(Step(t))

Spec == Init /\ [][Next]_vars /\ Fairness

-----------------------------------------------------------------------------
(* Properties.                                                             *)

(* Only emissions of an attempt whose boundary succeeded are exposed:      *)
(* neither a conflict, a rollback, an abort nor an error leaks one.        *)
ExposedWasPublished ==
    Elements(effects) \subseteq published

(* No emission is exposed twice, and of the attempts at a segment at most  *)
(* one succeeds: a retry never repeats what a boundary made visible.       *)
SegmentsPublishOnce ==
    /\ \A i, j \in 1..Len(effects) : i # j => effects[i] # effects[j]
    /\ \A e, f \in published : e[1] = f[1] /\ e[2] = f[2] => e = f

(* A boundary that succeeded has its effects recorded, or a thread still   *)
(* holds them on the way to record_outcome.  Only a task that failed may   *)
(* have lost them: after a commit in the middle of its run, or with writes *)
(* that were published before its subscriptions could not be applied.      *)
EffectsFollowWrites ==
    \A e \in published :
        \/ e \in Elements(effects)
        \/ e \in Elements(task[e[1]].committed)
        \/ status[e[1]] = "failed" /\ ("commit" \in Response[e[1]] \/ "dispatch" \in Fault[e[1]])

(* Every key counts the segments that wrote it: an increment drafted on a  *)
(* stale snapshot is retried, never published over another.                *)
NoLostUpdate ==
    [][\A k \in Key : counter'[k] # counter[k] => counter'[k] = counter[k] + 1]_vars

(* A running attempt works with the value its task was last resumed with,  *)
(* the first time and after any number of retries.                         *)
ValueSurvivesRetry ==
    \A t \in Task : status[t] = "running" => task[t].vm.value = delivered[t]

(* Every capability allocated belongs to an applied subscription, to a     *)
(* request a running task still holds, or to a task that failed.           *)
CapabilitiesAccounted ==
    \A c \in caps : c \in applied \/ c \in task[c[1]].subscription \/ status[c[1]] = "failed"

(* What a task exposes (effects, mailbox sends, spawned children) was      *)
(* published by the boundary it belongs to, each segment is published at   *)
(* most once, the value a resumption brings survives a retried segment, a  *)
(* boundary that succeeded has its effects recorded or in the hands of a   *)
(* thread on its way to record_outcome, and capabilities of abandoned      *)
(* attempts are given back.                                                *)
TasksExact ==
    /\ ExposedWasPublished /\ SegmentsPublishOnce /\ ValueSurvivesRetry
    /\ EffectsFollowWrites /\ CapabilitiesAccounted

(* Tasks behave as series of atomic segments: a segment counts as done     *)
(* when its boundary has succeeded and as exposed when record_outcome has  *)
(* released its effects.                                                   *)
Atomic == INSTANCE Segments WITH
    done <- [t \in Task |-> Cardinality({e \in published : e[1] = t})],
    exposed <- [t \in Task |-> Cardinality({i \in DOMAIN effects : effects[i][1] = t})]

ImplementsSegments == Atomic!Spec

(* No increment is lost or applied twice, and the tasks implement the      *)
(* abstract one-segment-at-a-time specification (Segments).                *)
SegmentsImplemented == NoLostUpdate /\ ImplementsSegments

(* A run comes to an outcome: conflicts are retried a bounded number of    *)
(* times.                                                                  *)
RunsEnd ==
    \A t \in Task : status[t] = "running" ~> status[t] # "running"
=============================================================================
