# TLA+ models of Mica

This directory holds TLA+ specifications of parts of Mica, the TLC
configurations that check them on small instances, and TLAPS proofs of the
properties that matter most. `PROJECT.json` lists, for every definition that
models code, the source lines it stands for.

    tlc -workers 2 -config MCKernel.cfg MCKernel
    tlapm RelationKernelProofs.tla

## The system

Mica is a live programming environment whose state is a set of relations.
Programs run as tasks; each task reads a snapshot of the relations, collects
its writes in a transaction, and publishes them at commit boundaries. Hosts
(web, WebTransport, telnet, console) submit work to a driver, which runs tasks,
delivers mailbox messages and resumes suspended tasks.

| Part (`crates/`) | What makes it hard | Modules |
| --- | --- | --- |
| Relation kernel: snapshots, transactions, staged commits (`relation-kernel/src/kernel.rs`, `transaction.rs`, `snapshot.rs`) | optimistic transactions validated late; a fork published as one commit; persistence between building and publishing | `RelationKernel`, `SnapshotStore` |
| Fjall provider (`provider/fjall`) | queue limits, failed batches, crashes, two durability modes | `FjallWriter` |
| Derived caches (`snapshot.rs`) | two locks, filled concurrently by readers | `DerivedCache` |
| Rules and their maintenance (`rules.rs`, `differential.rs`) | incremental results must equal a full evaluation | `Rules`, `Differential`, `DerivedStore` |
| Text buffers (`buffer/`) | rebasing concurrent edits, tokens, bounded history, recovery | `BufferText`, `Deltas`, `BufferDelta`, `Buffers` |
| Tasks and task manager (`runtime/src/task.rs`, `task_manager.rs`) | a retry must neither repeat nor lose effects | `Tasks`, `Segments` |
| Subscriptions and mailboxes (`runtime/src/subscription.rs`) | every commit seen once, overflow, revocation | `Subscriptions` |
| Driver pool (`driver/src/pool.rs`) | timeouts racing deliveries, capacities, shutdown | `Driver`, `EndpointResources` |
| Admission (`driver/src/execution.rs`) | wakers called after the unlock, borrowed places | `Admission` |
| Event pump and invocation handles (`driver/src/embedding.rs`) | handlers that are full or panic, waits raced by outcomes | `EventRouter` |
| Compiler and VM control flow (`compiler/src/backend.rs`, `vm/src/vm.rs`) | finally blocks left by every exit, retries from a checkpoint | `Codegen`, `Vm` |
| View synchronisation (`web-host/src/sync.rs`, `webtransport-host/src/sync.rs`, `sync-client.js`) | state read before an await, errors halfway, lost and reordered datagrams | `ViewSync` |

The parts meet in these places. A task's boundary commits its transaction, and
the commit runs subscription dispatch before it releases the commit lock. The
kernel hands every commit with durable changes to the provider while it holds
that lock. The driver turns mailbox deliveries, which subscriptions produce,
into resumptions of tasks, and hosts render views when the driver tells them
that a relation changed.

## Modules

A component's module has its state, one action per operation, and its
properties. Each action is a whole critical section or the whole code between
two awaits. Definitions that end in a changed behaviour (`...Unchecked`,
`...Dropped`) are plausible bugs, kept beside the definition they would replace:
`PROJECT.json` names for every property one that makes TLC report it violated.

### RelationKernel and SnapshotStore

A fact stands for a tuple of a relation. Each relation has one of the three
conflict policies of `ConflictPolicy`, and a functional key names the relation
and the projection of the tuple. `root` is `RelationKernel.root`, `history` the
commit history of the published snapshot, `lock` the commit lock, and
`accepted` the commits handed to the provider. For a transaction, `base` is the
snapshot it began on and `writes` its overlay (the last local change of each
fact). `built`, `tracked` and `visible` are `functional_visible`: which
relations have a map, which keys it holds, and the visible fact of each key.
The map is kept separate from the overlay because the code updates the two
separately, and the commit-time validation takes its keys from the map when
there is one and from the overlay when there is none.

A commit is three steps, as in `commit_inner`: `CommitTransaction` takes the
lock, validates and builds; `Persist` or `PersistRefused` calls the provider;
`Publish` swaps the root if it is still the one the snapshot was built from.
Transactions of other threads begin, write and roll back in between. A staged
commit reads the expected version (`StageOpen`) and the fork (`ForkInMemory`)
in two loads, as `run_filein_with_unit_inner` does, and works on the fork in
steps that each stand for one small transaction committed to the fork's own
kernel. `SnapshotStore` is what callers are promised: consistent states, each
made from the one before by one atomic commit whose log entry is the exact
difference, and readers that hold one state.

Buffers, rule changes, subscription dispatch and caches, which the same commits
carry, have modules of their own. Computed relations, read authority and metrics
are left out. `validate_staged_snapshot` can fail only when the kernel has
relations the fork lacks, which `ForkOK` of the proofs excludes at an equal
version, so the failing branch is not an action. The "publish failed after
serialized persistence" branch of `Publish` is in the model and proved
unreachable.

### FjallWriter

Every caller of the provider holds the commit lock, so the client side is one
program counter `pc`: check the recorded error, send, raise `queued_version`,
wait for the reply in strict mode, publish. The writer thread takes one message
at a time. `journal` is the sequence of keyspace states, one per batch, and
`synced` how much of it is on disk: a process crash loses the queue, a power
failure also any unsynced suffix, and `Restart` loads the last state. Fjall
itself is external: a batch is atomic, a failed batch leaves no trace, and a
sync covers everything before it. `factsAt` is a history variable, the durable
facts of each version; `mode` is the durability chosen at start.

### DerivedCache, Rules, Differential, DerivedStore

In `DerivedCache` rows are abstracted: a cache is the set of derived relations
it holds rows for. A reader's steps are the separate critical sections of
`derived_relations` and `warm_maintained_relation`. The three kinds of commit
differ in what they carry over: a fact commit advances the maintained state into
a partial cache, a relation creation drops both, a staged or rule commit
re-evaluates what was maintained. Evaluation errors, which are cached like
results, are left out.

`Rules` is evaluation from nothing: stratification, strongly connected
components, planning and semi-naive iteration, checked against a naive
fixpoint. `Differential` is what a commit does to the maintained state: counted
derivations in non-recursive components, deletion and rederivation in recursive
ones, traces with weights, negation. `DerivedStore` drives it with reads that
warm relations, commits and rule changes, and the changes they report. Computed
relations in rule bodies and the overflow of derivation counts are left out.

### Buffers

`BufferText` is the balanced tree of pieces, checked against plain sequences.
`Deltas` has the delta algebra (derive, apply, compare, rebase), `BufferDelta`
two editors of one base. `Buffers` has transactions on buffers: private edits,
tagged applies with tokens and their results, compaction, reversion, retained
history, the commit that materialises, persists, publishes and records them,
and recovery from the store. Buffers of staged snapshots are left out.

### Tasks and Segments

A VM is reduced to its checkpoint: the segment it is in and the value it was
last resumed with. `Execute` runs to the next request of the host; the commit
conflicts, fails or publishes; effects and sends are held by the task until
`record_outcome` exposes them. `Segments` is the promise: a task is a series of
segments, each of which happens once, all at once and on the newest values, and
whose effects are exposed afterwards, once and in order.

### Subscriptions

A boundary runs under the kernel's commit lock: it dispatches the commits since
the dispatched cursor to the active subscriptions and then applies the register
or cancel operation of its task. Commits published without a boundary (staged
commits, catalogue operations, endpoint facts) are dispatched by the next one.
Mailboxes have budgets; overflow drops a subscription's messages and leaves a
resynchronisation marker. A derived relation is a copy of a stored one.

### Driver, EndpointResources, Admission, EventRouter

Every call into the driver, every timer and every external request is a
coroutine of one runtime that runs until it awaits something that is not ready;
tasks run on dispatcher threads. A coroutine is what it still has to do: `todo`,
the outcomes `queue`d behind it, and the `rest` of its caller. `EndpointResources`
has the volatile facts and host subscriptions an endpoint owns, with the
ownership counts that decide what closing it retracts. `Admission` is the fair
queue in front of dispatcher threads and external requests; a waker is taken
under the lock and called after it. `EventRouter` is the pump that routes driver
events to handlers and the waits on an invocation's outcome.

### Codegen and Vm

`Codegen` compiles nested control flow to the register program; `Vm` executes
it, one instruction a step, with frames, the try stack, pending finally
continuations, suspension at a commit and restoration after a conflict.
`Meaning` in `Vm` defines what the source says without registers, jumps or
stacks, and is what a run is compared with. Instructions that only compute
values are left out.

### ViewSync

One view of one browser session. The world is the tree `sync_view_tree` would
return now; a signature is the pair of revision and tree it is computed from.
A handler (datagram reader, stream reader, POST request, driver event) is a
coroutine; every await ends a step. `host` is fixed at the start and says which
handlers may overlap, whether the channel is reliable, whether a session
survives a reconnection, whether registrations and renders may fail and
permissions be lost, and what an error does: the WebTransport and the HTTP/SSE host are two values of it. The
browser is `sync-client.js`.

`RegisterFails` and `RenderFails` end a handler in the middle (`HandlerFails`):
the error of a stream's message or of a driver event is logged, a POST is
refused, and that of a datagram ends the session. `HandleNotice(FALSE)` is the
loop of `process_driver_event` ended by the error of another view before it
comes to this one. The history variable `missed` is set when such an error
loses a change for which the mailbox was already drained, and reset by the next
render of the view with subscriptions in force. Subscriptions can be `revoked`:
the marker is handled like `resynchronize`, as in the code, and the runtime
sends nothing more for them, so a lost marker leaves the view without notices.

## What TLC checks

An `MC` module composes small instances of several components as scenarios: the
initial state picks one and only that component moves. The runs are:

| Run | Scenarios | What it shows |
| --- | --- | --- |
| `kernel` | `keys`, `sets`: two transactions over two functional facts of one key and a Set fact; `staged`: a transaction, a fork, a relation creation, a volatile EventAppend fact, a provider that may refuse; two commits past the loaded version | keys unique, visibility map exact, logs replay, first committer wins, confirmed facts still there, refinement of `SnapshotStore`, the lock is released |
| `derived` | `writer`: both modes, queue of two, three versions, one failed batch, one outage; `caches`: two readers, three derived relations, two snapshots; `traced`, `plain`: nine rule sets, two changes | what a restart finds, that only suffixes are lost, flushes durable, operations answered; caches agree at rest; evaluation, maintenance and reported changes exact |
| `runtime` | `tasks`: two tasks with failures at every step; `stream`, `catalogue`, `faults`: subscriptions | segments happen once and implement `Segments`; streams complete or marked; no rows without authority |
| `driver` | `mail`, `life`, `pressure`, `close`, `tasks`; `endpoints`: two endpoints, two mailboxes, two calls in flight, with and without racing programs | no message or wake is lost, shutdown and close leave nothing, one report per task, capacities hold; what endpoints own is counted and released |
| `progress` | `admission`, `pool`, `tasks`, `routing`, `waiting` | no lost wakeup, order of admission, routing; and, under fairness, waiters are answered and work ends |
| `buffers` | `text`, `delta`, `span`, `client`, `whole`, `names`, `restarts`, `relaxed` | tree and delta operations agree with sequences; revisions name texts, no edit is lost, results settle, eviction only when full |
| `hosts` | WebTransport with handlers one at a time and overlapping, HTTP/SSE, all three with renders and registrations that fail; WebTransport with two datagrams under way, which overtake each other | a browser shows what its revision and signature stand for; settled views are current; recovery never goes back |
| `language` | about 3800 programs of every shape of control flow | execution with conflicts does what the source says, and ends |
| `derived_read`, `derived_stored`, `loop_continue`, `finally_caught` | | violated: see below |

Deadlock is not checked where the system may rest: a runtime with no more work
within the bounds, closed endpoints, ended programs, views that nobody changes.

### Bounds

Two transactions and three facts suffice for every conflict that
`validate_conflicts` tells apart, because it compares facts and keys one by one
and each comparison is between one transaction and the current snapshot; two
commits past the base let a transaction meet a snapshot changed by a commit that
itself had met a change. Versions start at 3 so that a version is never confused
with a position in the log. In the writer, three versions let a failed batch
have a queued successor, and one outage interrupts every one of these steps; that
the safety properties survive any number of them is proved.
Two tasks on one key with one retry reach a conflict, a retry that conflicts
again, and the exhausted retry; three segments let a resumed task be resumed
again. Rule sets have at most four relations over two or three values, enough
for a row with two derivations of which one is lost. Texts have up to six
scalars in chunks of two, so that trees of several levels are rebalanced; bases
of deltas have three scalars, which separates before, inside, at the border and
after. Views have two trees, four revisions and one datagram under way besides
the queue, two for the host whose datagrams are reordered, so that a delta can
meet a base older and newer than its own.
Programs nest two blocks, with every exit at every place of both, two
iterations, one call and one conflict. Bounds are constants of the modules
(`MaxVersion`, `MaxOutages`, `MaxRetries`, `MaxSegment`, `maxRevision`...).

Symmetry is used for transactions (`kernel`) and for transactions and tokens
(`buffers`). In `kernel` the only liveness property concerns the scenario
`staged`, in which one transaction acts and the permutations are trivial.

### Fairness

* `RelationKernel`: a committer that holds the lock takes its next step; the
  code has no other exit from that section.
* `FjallWriter`: the committing thread and the writer thread run when they can;
  nothing is assumed about new commits, outages or restarts.
* `DerivedCache`: a thread inside a read goes on; it holds no lock between steps.
* `Admission`: scheduled futures are polled, wakers that were taken are called,
  and held places are released, because the work behind a place ends.
* `Driver`: coroutines that are ready are polled; runs on the dispatcher end;
  sleeps and external requests are answered; the host pumps events.
* `Tasks`: a task that can take a step takes it.
* `EventRouter`: the pump runs, woken futures are polled, and the thread that has
  an invocation's outcome publishes it. Nothing is assumed
  of handlers, which may never take an event.
* `Vm`: the machine executes and the host answers a suspension.

## Disagreements with the documentation

Four runs end in a violation; each states a sentence of the book.

* `derived_read`. A read clones a partial cache, then learns from the maintained
  state that the relation is served and returns the clone. Another thread's
  first read of that relation stores the maintained state before it stores the
  complete cache, so the clone has no derived rows for it
  (`snapshot.rs:460`). `mdbook/src/language/differential-updates.md:62` says that
  a snapshot presents a coherent relation whatever is maintained. When no thread
  is reading the snapshot the caches agree, which is proved
  (`CachesAlwaysCoherent`).
* `derived_stored`. A commit that retracts a stored row of a maintained head
  while a rule begins to derive the same row drops it from the collections that
  later joins read (`differential.rs:2211`), and relations defined over the head
  lose answers. `differential-updates.md:39` says the conclusion can remain
  present throughout.
* `loop_continue`. `continue` in a `for` loop whose body ends in `return` or
  `raise` leaves the loop (`backend.rs:4389`). `control-flow.md:68` says it skips
  to the next iteration.
* `finally_caught`. A `break`, `continue` or `return` in a finally block discards
  the pending continuation before its own inner finally block has run; if that
  block raises and the error is caught, the task fails with `EmptyTryStack`
  (`vm.rs:2588`). `errors-and-recovery.md:110` says the original control flow
  continues.

TLC showed the following as well while the models were written. The models
contain the code that does it; a passing run either does not combine the inputs
it takes, or its property names the exception.

* Fjall writer: in relaxed mode the writer records a failed batch and goes on
  with the commits queued behind it (`writer.rs:182`), so a restart may load
  facts that belong to no version (`relation-kernel/README.md:65`).
  `RelaxedLosesSuffix` exempts runs in which a batch failed.
* Subscriptions: a staged commit records changes for maintained derived
  relations only, so a subscription on a stored relation is told nothing
  (`subscription.rs:389`; `subscriptions.md:33`); one that resumes over commits
  made before its relation was maintained gets an incomplete stream without a
  marker (`:282`; `:74`), and so does one whose relation a concurrent reader drops
  from the maintained targets (`snapshot.rs:513`); a registration whose mailbox
  was closed meanwhile makes later boundaries fail (`:255`; `runtime/index.md:25`);
  a catalogue change dispatched with a revocation replaces its marker (`:252`;
  `:117`); a rule change reports only relations maintained before
  (`kernel.rs:661`). The scenarios of `runtime` keep these apart.
* Tasks: effects and sends of a segment are dropped when dispatch fails after the
  writes are published (`task.rs:428`; `tasks-and-transactions.md:53`), and an
  exhausted retry keeps the capability of its pending subscription (`:496`;
  `:142`). `TasksExact` exempts tasks that failed.
* Driver: a receive's timeout worker survives it and answers a later receive
  without a timeout (`pool.rs:2333`); a waiter taken out for a mailbox that
  another receive drained stays suspended (`:2391`); cancelling a task drops the
  outcomes held by the coroutine it spawned from (`:1760`); a cancellation before
  an external request is scheduled breaks an assertion (`:2603`); a suspension
  that is cancelled skips the wake of its receivers (`:2128`); shutdown may leave
  an invocation unanswered (`:1523`); a woken receiver's failure is given to the
  sender (`:2395`); input stops at the first reader that fails (`:932`). The
  workloads of `driver` and `progress` keep these apart.
* Endpoints: whether a fact was there before the driver claimed it is decided by
  a look at the store before the transaction (`pool.rs:991`; `runtime/index.md:81`).
  A program's commit in between is recorded as the driver's own.
  `RetractsOnlyItsOwn` exempts the instances in which programs race (`racing`).
  The error exits after a failing retraction (`:1077` and `:1591`) are left out:
  the retraction commits volatile facts only, which no provider sees, of relations
  in which the driver asserted them; a close retries conflicts, and at shutdown no
  task is left to conflict with.
* Buffers: with the relaxed writer, recovery may give a volatile buffer a
  revision that clients have seen with another text (`store.rs:156`;
  `buffers.md:183`).
* View synchronisation: with overlapping handlers an older render may be stored
  after a newer one, and a lost recovery snapshot of the WebTransport host is not
  sent again. `process_driver_event` drains the mailbox and then renders; when a
  render or a new registration fails (`web-host/src/sync.rs:1593-1603`), the error
  is logged and the change of this view, and of the views after it in the loop, is
  forgotten: host and browser agree on a tree that is not the current one until
  something else has the view rendered. `CurrentWhenSettled` is stated for handlers
  that do not overlap and exempts the time from such an error to the next render
  of the view with subscriptions in force (`missed`); every other failing render or
  registration and every revocation is covered.

## What is proved

TLAPS proves the following for every value of the constants that satisfies the
named assumptions. `RelationKernel` assumes disjoint sets of actors, a
functional key that determines its relation, and a loaded state that is well
formed and has unique keys (`ActorAssumption`, `CatalogAssumption`,
`BaseAssumption`; the kernel wrote that state earlier, `load_from_state` does
not check it). `WriterAssumption`, `AdmissionAssumption` and `LimitsAssumption`
ask for natural numbers as capacities and limits, `ResponseAssumption` for the
boundaries and requests a task may make, `HostAssumption` for finitely many
request handlers and a host that queues snapshots, `ResourceAssumption` that the
endpoint's own scope is a scope and that `None` is no subscription owner.
`CacheAssumption` says that there are derived relations, that each
needs derived relations only, and that there is a first snapshot;
`RouterAssumption` says that `None` is no handler, wait or outcome and that the
queues have a capacity. Both are hypotheses of their theorems. TLC evaluates the
assumptions in the runs: those of a module that an MC module extends, and those
of an instance where the MC module asserts them.

| Module | Theorems |
| --- | --- |
| `RelationKernelProofs` | types; `KeysUnique`; `MapAgrees`; `AllWrittenKeysValidated`; `PublishSucceeds` |
| `RelationKernelCommit` | `FirstCommitterAlwaysWins`; `PublicationIsolated`; `ConfirmedFactKept`; `LogsAlwaysReplay`; `Refinement` of `SnapshotStore` |
| `WriterCacheProofs` | the writer: types with the queue bound, `StrictRecovers`, `OnlySuffixesLost`, `FlushesDurable`; the caches (`Cache == INSTANCE DerivedCache`): `CachesAlwaysCoherent` |
| `TasksProofs` | `TasksAlwaysExact`; `NoUpdateLost`; `TasksImplementSegments` |
| `AdmissionProofs` | `PlacesStayBounded`; `NoWakeupIsLost`; `PermitsInOrder` |
| `EventRouterProofs` | `HandlersAlwaysSeePrefix`; `WaitsAlwaysAnswerAlike` |
| `EndpointProofs` | `OwnedAlways`; `EndsAlwaysRightly` |
| `ViewSyncProofs` | `ViewAlwaysFaithful`; `RecoveryNeverGoesBack`; `SettledIsCurrent` |

Each rests on an inductive invariant: the initial states satisfy it, every
action keeps it, and the property follows from it.

**Kernel.** `IInv` adds to the types: `LockInv` (exactly the holder of the lock
is between validation and publication); `PreparedInv` (what the holder is about
to publish is the successor of the current root, has unique keys, and its commit
is the exact difference, which is why validation stays good while the provider
is called); `TransactionInv` (a base is an older root or the current one with
unique keys, equal versions mean equal snapshots, overlay and visibility map
agree, a relation without a map has retracts only); `StageInv` (a fork's touched
facts cover its difference from the snapshot it was forked from, when that is
still the root). Unique keys are not inductive alone: a transaction may assert a
key its base lacks only because the current snapshot lacks it too, which needs
the comparison of base and root over all keys of the map or the overlay.
`ValidatedInv` keeps the result of that comparison until publication and gives
the action properties; `LogInv` says that replaying the history from a held
snapshot, and the accepted commits from the loaded one, gives the current facts,
and how far the commit in flight has come in each log.

**Writer.** `StrictInv`: the queue holds at most the message of the waiting
client, everything in the journal is synced, and the last state is the published
one unless the commit in flight has been applied. `LogInv`, for both modes: the
journal's entries are consecutive versions with the facts of those versions
unless a batch failed, the queued messages continue the journal, and a reply to
a flush is covered by the synced part.

**Derived caches.** Where a maintained state claims more than its cache holds,
some thread stands right before storing a complete cache (`CoverInv`). A copy
that a thread holds as complete came from a cache that is still complete
(`CopyInv`), so a thread that skips that store leaves nothing uncovered.

**Tasks.** The invariant ties what a task holds back (effects, sends,
capabilities) to the segment it is in and to the checkpoint it would restart
from, and says that each segment has at most one publication. The refinement
maps a task's boundary commit to the segment's one atomic step.

**Admission.** Places are either free, held or lent, one future has the turn,
and whenever a place is free and somebody waits, the first waiter is scheduled
or its waker is about to be called.

**Event router.** `RoutingInv`: what a handler has taken, followed by what its
queue holds, are consecutive events of the routed ones from its registration on
(`Aligned`), and an open queue misses at most the event the pump is routing, and
only while the pump still has to send it or to disconnect the handler
(`UpToDate`). `WaitingInv`: a complete invocation has no slots, and a wait that
was woken belongs to a complete one; a slot is given away only when its future
was dropped.

**Endpoints.** `CountInv`: a fact's count is the number of open endpoints that
hold it in some scope. `LedgerInv`: every present fact is a program's or the
driver's, the driver's and the found ones have owners, and no fact is both.
`CallInv`: the look of a call in flight is still right, unless programs race.

**View synchronisation.** Signatures stand for the same trees in the host's
state, the queue, the network and the browser; a view has one registration;
while a browser recovers, the host counts on from the revision it reported. For
handlers that do not overlap, as long as no change was forgotten (`FreshInv`): a
stored tree is current, or a change notice is pending, or the handler at work
has a newer tree or was told of the change and would set `missed` if it failed.
A handler that fails leaves the record's tree as it is, so in every other case
the stored tree was fresh before. Revoked subscriptions are silent, so `FreshInv`
needs `RevokedInv`: the marker of a revocation waits until the host has read it.

### What is only model-checked

* Liveness (`StagedLockReleased`, `WriterAnswers`, `WaitersAnswered`, `WorkEnds`,
  `Ends`): temporal reasoning under fairness, and `ENABLED`, are outside what the
  prover handles.
* `Rules`, `Differential`, `DerivedStore`, `BufferText`, `Deltas`, `Buffers`,
  `Codegen`, `Vm`: their properties say what recursive definitions compute, which
  needs induction over data.
* `Driver`, `Subscriptions`: large state machines, not proved.

## Not modelled

Record encodings, packed batches, indexes and value representation are pure data
structures without interleavings. Parsing, name resolution, type checking and
instructions that only compute values are left to the repository's tests.
Computed relations and dispatch caches memoise what a snapshot determines. The
host protocol's framing and DOM diff are pure functions; HTTP serving, TLS,
sessions and tokens, the source provider, native and GPU execution, external
HTTP and LLM streams, and the daemon, console, telnet and ZeroMQ hosts are I/O
or generated code around the modelled parts.
