--------------------------- MODULE Subscriptions ---------------------------
(***************************************************************************)
(* Change subscriptions and the mailboxes they deliver to.  A boundary     *)
(* runs under the kernel's commit lock: it dispatches the commits since    *)
(* the dispatched cursor to the active subscriptions and then applies the  *)
(* register or cancel operation of its task.  Some commits are published   *)
(* without a boundary (staged commits, catalogue operations, endpoint      *)
(* facts) and are dispatched by the next one.                              *)
(*                                                                         *)
(* The kernel is modelled by what the dispatcher reads of it: one stored   *)
(* relation Base, derived relations whose single rule copies Base while it *)
(* is active, a policy relation, the commit history, and the relations     *)
(* whose derived rows the current snapshot maintains.                      *)
(***************************************************************************)
EXTENDS Integers, Sequences, FiniteSets, SequencesExt

CONSTANTS
    Sub,            \* subscription capabilities, each allocated once
    Mailbox,
    Request,        \* the request each subscription is allocated for
    Row,
    Base,           \* the stored relation
    Derived,        \* the derived relations
    Policy,         \* the read policy relation
    ResumeAt,         \* the resume cursors a request may give
    NoCursor,
    BaseHistory,    \* commits loaded from the store
    BasePast,       \* rows of Base at the versions up to the loaded one
    Reader,         \* threads that read derived relations
    Staging,        \* whether staged commits happen
    Closing,        \* who closes mailboxes: "task", "host" or both
    MaxVersion,     \* bound: no commit goes past this version
    MaxSent         \* bound: ordinary messages sent to a mailbox

Relation == {Base, Policy} \cup Derived

(* FactChange.                                                             *)
Change == [relation : Relation, row : Row, assert : BOOLEAN]

Commit == [version : Nat, catalog : BOOLEAN, changes : SUBSET Change,
           visible : SUBSET Change, settled : BOOLEAN]

(* SubscriptionRequest; rows are the rows that match the bindings.         *)
RequestType ==
    [subject : {"facts", "relation", "catalogue"}, relation : {Base} \cup Derived,
     rows : SUBSET Row, initial : {"snapshot", "changes"}, budget : Nat \ {0},
     root : BOOLEAN, mailbox : Mailbox]

BaseVersion == Len(BasePast) - 1

VARIABLES
    kernel,      \* the published snapshot
    history,     \* Snapshot.commits
    past,        \* rows and rules of every version, for the properties
    store,       \* SubscriptionStore, and the mailboxes it delivers to
    pending,     \* the operation a task holds for each subscription
    closing,     \* mailboxes whose host is between cancelling and closing
    open,        \* mailboxes that are not closed
    failed,      \* a boundary has failed to dispatch
    warming,     \* targets each reader has loaded, about to store
    client       \* what each consumer has made of its messages

vars == <<kernel, history, past, store, pending, closing, open, failed,
          warming, client>>

(* MailboxEntry, for a subscription's message or an ordinary one.          *)
Entry == [sub : Sub \cup {NoCursor}, kind : {"snapshot", "changes",
          "resynchronize", "revoked", "value"}, cursor : Nat,
          asserts : SUBSET Row, retracts : SUBSET Row]

Message(s, kind, v) ==
    [sub |-> s, kind |-> kind, cursor |-> v, asserts |-> {}, retracts |-> {}]

Markers == {"resynchronize", "revoked"}

TypeOK ==
    /\ kernel \in [version : Nat, facts : SUBSET Row, rules : SUBSET Derived,
                   granted : BOOLEAN, maintained : SUBSET Derived]
    /\ history \in Seq(Commit)
    /\ store.cursor \in 0..kernel.version \cup {NoCursor}
    /\ store.active \subseteq Sub
    /\ store.baseline \in [Sub -> SUBSET Row]
    /\ store.resync \subseteq Sub /\ store.revoked \subseteq Sub
    /\ store.caps \subseteq Sub
    /\ store.queue \in [Mailbox -> Seq(Entry)]
    /\ pending \in [Sub -> {"unused", "register", "none", "cancel", "done"}]
    /\ closing \subseteq Mailbox /\ open \subseteq Mailbox
    /\ failed \in BOOLEAN
    /\ warming \in [Reader -> SUBSET Derived]

Init ==
    /\ kernel = [version |-> BaseVersion, facts |-> BasePast[BaseVersion + 1],
                 rules |-> Derived, granted |-> TRUE, maintained |-> {}]
    /\ history = BaseHistory
    /\ past = [v \in 1..(BaseVersion + 1) |->
                 [facts |-> BasePast[v], rules |-> Derived]]
    /\ store = [cursor |-> NoCursor, active |-> {},
                baseline |-> [s \in Sub |-> {}], resync |-> {}, revoked |-> {},
                caps |-> {}, queue |-> [m \in Mailbox |-> <<>>],
                maintained |-> {}, error |-> FALSE]
    /\ pending = [s \in Sub |-> "unused"]
    /\ closing = {}
    /\ open = Mailbox
    /\ failed = FALSE
    /\ warming = [r \in Reader |-> {}]
    /\ client = [s \in Sub |-> [rows |-> {}, since |-> 0, cursors |-> {},
                               told |-> {}]]

-----------------------------------------------------------------------------
(* Reading the kernel.                                                     *)

RowsOf(facts, rules, r) ==
    IF r = Base \/ r \in rules THEN facts ELSE {}

(* scan_subject.                                                           *)
ScanSubject(k, s) ==
    IF Request[s].subject = "catalogue" THEN {}
    ELSE Request[s].rows \cap RowsOf(k.facts, k.rules, Request[s].relation)

(* Snapshot::scan warms the maintained state for an active rule head.      *)
Warmed(w, k, s) ==
    IF Request[s].subject = "relation" /\ Request[s].relation \in k.rules
      THEN [w EXCEPT !.maintained = @ \cup {Request[s].relation}]
      ELSE w

(* Mutant of MayRead: the authority of the registration is kept.           *)
MayReadOnce(k, s) == TRUE

(* refreshed_authority and can_read_relation.                              *)
MayRead(k, s) == Request[s].root \/ k.granted

(* CommitHistory::since.                                                   *)
CommitsSince(h, v) == SelectSeq(h, LAMBDA c : c.version > v)

(* matching_changes, and apply_baseline_changes of its result.             *)
Matching(changes, s, assert) ==
    {ch.row : ch \in {c \in changes : c.relation = Request[s].relation
                                      /\ c.assert = assert}} \cap Request[s].rows

-----------------------------------------------------------------------------
(* Delivery to mailboxes.  Every operator takes the store and returns it;  *)
(* error is set when the subscription's capability is gone.                *)

QueueOf(w, s) == w.queue[Request[s].mailbox]

Others(w, s) == SelectSeq(QueueOf(w, s), LAMBDA e : e.sub # s)

Entries(w, s) == SelectSeq(QueueOf(w, s), LAMBDA e : e.sub = s)

Failed(w) == [w EXCEPT !.error = TRUE]

(* The ? operator: an error leaves what was done before it as it is.       *)
Resynced(w, s) == IF w.error THEN w ELSE [w EXCEPT !.resync = @ \cup {s}]

Revoked(w, s) == IF w.error THEN w ELSE [w EXCEPT !.revoked = @ \cup {s}]

Activated(w, s) == IF w.error THEN w ELSE [w EXCEPT !.active = @ \cup {s}]

PushTo(w, s, queue, e) ==
    [w EXCEPT !.queue[Request[s].mailbox] = Append(queue, e)]

(* Mutants of Replace: the marker is not pushed, or the capability is not  *)
(* looked up.                                                              *)
ReplaceDropped(w, s, e) ==
    IF s \in w.caps THEN [w EXCEPT !.queue[Request[s].mailbox] = Others(w, s)]
    ELSE Failed(w)

ReplaceUnchecked(w, s, e) == PushTo(w, s, Others(w, s), e)

(* MailboxStore::replace_subscription_message.                             *)
Replace(w, s, e) ==
    IF s \in w.caps THEN PushTo(w, s, Others(w, s), e) ELSE Failed(w)

(* SubscriptionRuntimeHandle::resynchronize.                               *)
Resynchronize(w, s, v) ==
    Resynced(Replace(w, s, Message(s, "resynchronize", v)), s)

(* Mutant of Revoke: the flags are set, the messages left as they are.     *)
RevokeSilently(w, s, v) == [w EXCEPT !.resync = @ \cup {s}, !.revoked = @ \cup {s}]

Revoke(w, s, v) ==
    Revoked(Resynced(Replace(w, s, Message(s, "revoked", v)), s), s)

(* Mutant of QueueFull: the budget admits one message too many.            *)
QueueOverFull(w, s) == Len(Entries(w, s)) > Request[s].budget

QueueFull(w, s) == Len(Entries(w, s)) >= Request[s].budget

(* SubscriptionRuntimeHandle::enqueue and MailboxStore::                   *)
(* deliver_subscription.                                                   *)
Enqueue(w, s, e, count) ==
    IF count > Request[s].budget
      THEN Resynchronize(w, s, e.cursor)
    ELSE IF s \notin w.caps THEN Failed(w)
    ELSE IF QueueFull(w, s)
      THEN [PushTo(w, s, Others(w, s), Message(s, "resynchronize", e.cursor))
              EXCEPT !.resync = @ \cup {s}]
      ELSE [PushTo(w, s, QueueOf(w, s), e) EXCEPT !.resync = @ \ {s}]

Send(w, s, kind, v, asserts, retracts) ==
    Enqueue(w, s, [sub |-> s, kind |-> kind, cursor |-> v,
                   asserts |-> asserts, retracts |-> retracts],
            Cardinality(asserts) + Cardinality(retracts))

(* Catalogue messages: one entry for a catalogue commit, one for every     *)
(* relation and rule in a snapshot.                                        *)
SendCatalogue(w, s, kind, v, count) ==
    Enqueue(w, s, Message(s, kind, v), count)

CatalogueEntries == Cardinality(Relation) + Cardinality(Derived)

(* Rows to tell of: nothing is sent when there are none.                   *)
SendChanges(w, s, v, asserts, retracts) ==
    IF asserts = {} /\ retracts = {} THEN w
    ELSE Send(w, s, "changes", v, asserts, retracts)

-----------------------------------------------------------------------------
(* Delivering one commit to one subscription.                              *)

DeliverFacts(w, s, c) ==
    SendChanges(w, s, c.version, Matching(c.changes, s, TRUE),
                Matching(c.changes, s, FALSE))

(* Mutant of BaselineAfter: the baseline is not replaced by the scan.      *)
BaselineKept(w, k, s, c, asserts, retracts) ==
    IF c.catalog THEN w.baseline[s]
    ELSE (w.baseline[s] \ retracts) \cup asserts

BaselineAfter(w, k, s, c, asserts, retracts) ==
    IF c.catalog THEN ScanSubject(k, s)
    ELSE (w.baseline[s] \ retracts) \cup asserts

(* A catalogue commit is told by comparing a scan with the baseline, any   *)
(* other by its relation changes.                                          *)
DeliverRelation(w, k, s, c) ==
    LET asserts == IF c.catalog THEN ScanSubject(k, s) \ w.baseline[s]
                   ELSE Matching(c.visible, s, TRUE)
        retracts == IF c.catalog THEN w.baseline[s] \ ScanSubject(k, s)
                    ELSE Matching(c.visible, s, FALSE)
        scanned == IF c.catalog THEN Warmed(w, k, s) ELSE w
    IN  SendChanges([scanned EXCEPT !.baseline[s] =
                       BaselineAfter(w, k, s, c, asserts, retracts)],
                    s, c.version, asserts, retracts)

DeliverCatalogue(w, s, c) ==
    IF c.catalog THEN SendCatalogue(w, s, "changes", c.version, 1) ELSE w

(* SubscriptionRuntimeHandle::deliver_commit.                              *)
DeliverCommit(w, k, s, c) ==
    IF w.error \/ s \in w.revoked THEN w
    ELSE IF s \in w.resync THEN Resynchronize(w, s, c.version)
    ELSE IF ~ MayRead(k, s) THEN Revoke(w, s, c.version)
    ELSE CASE Request[s].subject = "facts" -> DeliverFacts(w, s, c)
           [] Request[s].subject = "relation" -> DeliverRelation(w, k, s, c)
           [] OTHER -> DeliverCatalogue(w, s, c)

-----------------------------------------------------------------------------
(* Dispatching the commits since the cursor.                               *)

(* SubscriptionStore::candidates_for_commit.                               *)
Candidate(w, c, s) ==
    LET touched == {ch.relation : ch \in c.changes \cup c.visible} IN
    /\ s \in w.active
    /\ \/ Request[s].subject # "catalogue" /\ Request[s].relation \in touched
       \/ c.catalog
       \/ Policy \in touched /\ ~ Request[s].root

(* Mutants of Advanced: the cursor is left behind, or goes too far.        *)
NotAdvanced(w, c) == w

AdvancedPast(w, c) ==
    IF w.error THEN w ELSE [w EXCEPT !.cursor = c.version + 1]

Advanced(w, c) == IF w.error THEN w ELSE [w EXCEPT !.cursor = c.version]

(* One commit; the candidates are visited in the order of a hash set, and  *)
(* an error ends the dispatch with the cursor at the commit before.        *)
DispatchCommit(w, k, c, order, several) ==
    LET visit(v, s) ==
          IF v.error \/ ~ Candidate(w, c, s) THEN v
          ELSE IF several /\ Request[s].subject = "relation"
            THEN Resynchronize(v, s, c.version)
            ELSE DeliverCommit(v, k, s, c)
    IN  Advanced(FoldLeft(visit, w, order), c)

Several(commits) ==
    Len(commits) > 1 /\ \E i \in 1..Len(commits) : commits[i].catalog

(* SubscriptionRuntimeHandle::dispatch_through.                            *)
DispatchThrough(w, k, h, order) ==
    LET commits == CommitsSince(h, w.cursor)
        all(v, s) == IF v.error \/ s \notin v.active THEN v
                     ELSE Resynchronize(v, s, k.version)
        one(v, c) == IF v.error THEN v ELSE DispatchCommit(v, k, c, order, Several(commits))
    IN  IF w.cursor = NoCursor THEN [w EXCEPT !.cursor = k.version]
        ELSE IF w.cursor >= k.version THEN w
        ELSE IF commits = <<>> \/ Head(commits).version # w.cursor + 1
          THEN FoldLeft(all, [w EXCEPT !.cursor = k.version], order)
        ELSE FoldLeft(one, w, commits)

-----------------------------------------------------------------------------
(* Registering and cancelling.                                             *)

Unsettled(s, commits) ==
    /\ Request[s].subject = "relation"
    /\ \E i \in 1..Len(commits) : ~ commits[i].settled \/ commits[i].catalog

(* SubscriptionRuntimeHandle::deliver_initial.                             *)
DeliverInitial(w, k, h, s, resume) ==
    LET commits == CommitsSince(h, resume)
        gap == /\ resume # k.version
               /\ commits = <<>> \/ Head(commits).version # resume + 1
        one(v, c) == DeliverCommit(v, k, s, c)
    IN  IF resume # NoCursor
          THEN IF resume > k.version \/ gap \/ Unsettled(s, commits)
                 THEN Resynchronize(w, s, k.version)
                 ELSE [FoldLeft(one, w, commits) EXCEPT !.baseline[s] = w.baseline[s]]
        ELSE IF Request[s].initial = "changes" THEN w
        ELSE IF Request[s].subject = "catalogue"
          THEN SendCatalogue(w, s, "snapshot", k.version, CatalogueEntries)
        ELSE Send(w, s, "snapshot", k.version, w.baseline[s], {})

(* SubscriptionOperation::Register.  A subscription whose authority is     *)
(* gone is registered as revoked; one that fails is not registered.        *)
Register(w, k, h, s, resume) ==
    LET needed == \/ Request[s].subject # "facts"
                  \/ resume # NoCursor
                  \/ Request[s].initial # "changes"
        baselined == IF needed
                       THEN [Warmed(w, k, s) EXCEPT !.baseline[s] = ScanSubject(k, s)]
                       ELSE w
        delivered == IF MayRead(k, s)
                       THEN DeliverInitial(baselined, k, h, s, resume)
                       ELSE Revoked(Replace(w, s, Message(s, "revoked", k.version)), s)
    IN  Activated(delivered, s)

(* Mutant of Removed: the capability is kept.                              *)
RemovedWithoutRelease(w, subs) ==
    [w EXCEPT !.active = @ \ subs, !.resync = @ \ subs, !.revoked = @ \ subs]

(* Removing subscriptions from the store and releasing their capabilities. *)
Removed(w, subs) ==
    [w EXCEPT !.active = @ \ subs, !.caps = @ \ subs, !.resync = @ \ subs,
              !.revoked = @ \ subs, !.baseline = [s \in Sub |->
                   IF s \in subs THEN {} ELSE w.baseline[s]]]

(* The operation of a boundary; an error of the dispatch leaves it undone. *)
ApplyOperation(w, k, h, op, s, resume) ==
    IF w.error \/ op = "none" THEN w
    ELSE IF op = "register" THEN Register(w, k, h, s, resume)
    ELSE Removed(w, {s})

Orders == {o \in [1..Cardinality(Sub) -> Sub] : \A i, j \in DOMAIN o :
              o[i] = o[j] => i = j}

-----------------------------------------------------------------------------
(* Commits.                                                                *)

Toggle(r, rows) ==
    {[relation |-> r, row |-> x, assert |-> x \notin kernel.facts] : x \in rows}

Toggled(facts, rows) == (facts \ rows) \cup (rows \ facts)

Published(k, c) ==
    /\ kernel.version < MaxVersion
    /\ history' = Append(history, c)
    /\ past' = Append(past, [facts |-> k.facts, rules |-> k.rules])

(* Transaction::build_next_snapshot: the changes of Base, and the changes  *)
(* of the derived relations that the snapshot maintains.                   *)
FactCommit(rows) ==
    [version |-> kernel.version + 1, catalog |-> FALSE,
     changes |-> Toggle(Base, rows),
     visible |-> Toggle(Base, rows) \cup
                 UNION {Toggle(d, rows) : d \in kernel.maintained \cap kernel.rules},
     settled |-> TRUE]

FactKernel(rows) ==
    [kernel EXCEPT !.version = @ + 1, !.facts = Toggled(@, rows)]

(* A change of the policy relation grants or withdraws read authority.     *)
PolicyCommit ==
    LET changes == {[relation |-> Policy, row |-> CHOOSE x \in Row : TRUE,
                     assert |-> ~ kernel.granted]}
    IN  [version |-> kernel.version + 1, catalog |-> FALSE, changes |-> changes,
         visible |-> changes, settled |-> TRUE]

PolicyKernel == [kernel EXCEPT !.version = @ + 1, !.granted = ~ @]

(* commit_staged_snapshot: relation changes are computed for the           *)
(* maintained derived relations only.                                      *)
StagedCommit(rows, catalog) ==
    [FactCommit(rows) EXCEPT !.catalog = catalog, !.visible =
        UNION {Toggle(d, rows) : d \in kernel.maintained \cap kernel.rules}]

(* create_relation, install_rule and disable_rule.  What is maintained is  *)
(* dropped by the first and kept for the remaining rule heads by the       *)
(* others.                                                                 *)
CatalogCommit ==
    [version |-> kernel.version + 1, catalog |-> TRUE, changes |-> {},
     visible |-> {}, settled |-> TRUE]

CreateKernel == [kernel EXCEPT !.version = @ + 1, !.maintained = {}]

RuleKernel(d) ==
    LET rules == IF d \in kernel.rules THEN kernel.rules \ {d}
                 ELSE kernel.rules \cup {d}
    IN  [kernel EXCEPT !.version = @ + 1, !.rules = rules,
                       !.maintained = @ \cap rules]

(* Commits published without a boundary.                                   *)
PublishOnly(k, c) ==
    /\ Published(k, c)
    /\ kernel' = k
    /\ warming' = [r \in Reader |-> {}]
    /\ UNCHANGED <<store, pending, closing, open, failed, client>>

PublishFacts(rows) == PublishOnly(FactKernel(rows), FactCommit(rows))

PublishPolicy == PublishOnly(PolicyKernel, PolicyCommit)

PublishStaged(rows, catalog) ==
    Staging /\ PublishOnly(FactKernel(rows), StagedCommit(rows, catalog))

CreateRelation == PublishOnly(CreateKernel, CatalogCommit)

ChangeRule(d) == PublishOnly(RuleKernel(d), CatalogCommit)

-----------------------------------------------------------------------------
(* Boundaries.                                                             *)

(* The rows a request matches at a version.                                *)
RowsAt(v, s) ==
    Request[s].rows \cap
        RowsOf(past[v + 1].facts, past[v + 1].rules, Request[s].relation)

(* What a consumer starts from: the rows at its resume cursor, nothing     *)
(* before a snapshot, or the rows at the registration.                     *)
StartRows(k, s, resume) ==
    IF resume # NoCursor /\ resume < k.version
      THEN RowsAt(resume, s)
    ELSE IF Request[s].initial = "snapshot" THEN {}
    ELSE ScanSubject(k, s)

(* SubscriptionRuntimeHandle::apply_boundary with at most one operation,   *)
(* its result and its bookkeeping.                                         *)
Boundary(k, h, op, s, resume, order) ==
    /\ op # "none" => pending[s] = op
    /\ resume # NoCursor => op = "register" /\ Request[s].initial = "changes"
    /\ \E dispatched \in {DispatchThrough([store EXCEPT !.maintained = k.maintained], k, h, order)} :
       \E w \in {ApplyOperation(dispatched, k, h, op, s, resume)} :
       /\ kernel' = [k EXCEPT !.maintained = w.maintained]
       /\ store' = [w EXCEPT !.error = FALSE, !.maintained = {}]
       /\ failed' = (failed \/ dispatched.error)
       /\ pending' = IF op = "none" THEN pending
                     ELSE [pending EXCEPT ![s] =
                             IF op = "cancel" /\ ~ w.error THEN "done"
                             ELSE IF op = "register" /\ w.error /\ s \notin w.active
                               THEN "done" ELSE "none"]
    /\ client' = IF op = "register"
                   THEN [client EXCEPT
                           ![s].rows = StartRows(k, s, resume),
                           ![s].since = IF resume = NoCursor THEN k.version
                                        ELSE resume]
                   ELSE client
    /\ UNCHANGED <<closing, open>>

(* Task::commit_boundary_with_disposition on a read-only transaction, and  *)
(* dispatch_subscriptions, register_subscription, cancel_subscription.     *)
ReadOnlyBoundary(op, s, resume, order) ==
    /\ op # "none" \/ store.cursor # kernel.version
    /\ Boundary(kernel, history, op, s, resume, order)
    /\ UNCHANGED <<history, past, warming>>

(* A task's commit: the snapshot is published and dispatched under one     *)
(* hold of the commit lock.                                                *)
TaskCommit(rows, order) ==
    \E k \in {FactKernel(rows)}, c \in {FactCommit(rows)} :
       /\ Published(k, c)
       /\ warming' = [r \in Reader |-> {}]
       /\ Boundary(k, Append(history, c), "none", CHOOSE s \in Sub : TRUE,
                   NoCursor, order)

PolicyTaskCommit(order) ==
    /\ Published(PolicyKernel, PolicyCommit)
    /\ warming' = [r \in Reader |-> {}]
    /\ Boundary(PolicyKernel, Append(history, PolicyCommit), "none",
                CHOOSE s \in Sub : TRUE, NoCursor, order)

-----------------------------------------------------------------------------
(* Capabilities and mailboxes.                                             *)

(* subscribe_changes: the capability is allocated while the task runs.     *)
Subscribe(s) ==
    /\ pending[s] = "unused"
    /\ Request[s].mailbox \in open
    /\ MayRead(kernel, s)
    /\ pending' = [pending EXCEPT ![s] = "register"]
    /\ store' = [store EXCEPT !.caps = @ \cup {s}]
    /\ UNCHANGED <<kernel, history, past, closing, open, failed, warming, client>>

(* Mutant of Discard: a cancellation's capability is released too.         *)
DiscardReleasing(s) ==
    /\ pending[s] \in {"register", "cancel"}
    /\ pending' = [pending EXCEPT ![s] =
                     IF pending[s] = "register" THEN "done" ELSE "none"]
    /\ store' = [store EXCEPT !.caps = @ \ {s}]
    /\ UNCHANGED <<kernel, history, past, closing, open, failed, warming, client>>

(* discard_pending_subscriptions after an abort or a retry.                *)
Discard(s) ==
    /\ pending[s] \in {"register", "cancel"}
    /\ pending' = [pending EXCEPT ![s] =
                     IF pending[s] = "register" THEN "done" ELSE "none"]
    /\ store' = IF pending[s] = "register"
                  THEN [store EXCEPT !.caps = @ \ {s}] ELSE store
    /\ UNCHANGED <<kernel, history, past, closing, open, failed, warming, client>>

(* cancel_subscription: the capability is checked while the task runs.     *)
Cancel(s) ==
    /\ pending[s] = "none"
    /\ s \in store.caps
    /\ pending' = [pending EXCEPT ![s] = "cancel"]
    /\ UNCHANGED <<kernel, history, past, store, closing, open, failed,
                   warming, client>>

(* MailboxStore::close_mailbox.                                            *)
Closed(w, m) ==
    [w EXCEPT !.caps = {s \in @ : Request[s].mailbox # m}, !.queue[m] = <<>>]

(* The mailbox_close builtin.                                              *)
TaskClose(m) ==
    /\ "task" \in Closing
    /\ m \in open
    /\ open' = open \ {m}
    /\ store' = Closed(store, m)
    /\ UNCHANGED <<kernel, history, past, pending, closing, failed, warming, client>>

(* SharedTaskManager::close_mailbox cancels the mailbox's subscriptions,   *)
(* unlocks, and then closes the mailbox.                                   *)
HostCancelMailbox(m) ==
    /\ "host" \in Closing
    /\ m \in open \ closing
    /\ closing' = closing \cup {m}
    /\ store' = Removed(store, {s \in store.active : Request[s].mailbox = m})
    /\ UNCHANGED <<kernel, history, past, pending, open, failed, warming, client>>

HostCloseMailbox(m) ==
    /\ m \in closing
    /\ closing' = closing \ {m}
    /\ open' = open \ {m}
    /\ store' = IF m \in open THEN Closed(store, m) ELSE store
    /\ UNCHANGED <<kernel, history, past, pending, failed, warming, client>>

(* cancel_all, and cancel_for_endpoint for the subscriptions of one        *)
(* endpoint.                                                               *)
CancelActive(subs) ==
    /\ subs # {}
    /\ subs \subseteq store.active
    /\ store' = Removed(store, subs)
    /\ UNCHANGED <<kernel, history, past, pending, closing, open, failed,
                   warming, client>>

(* MailboxStore::deliver of an ordinary message.                           *)
SendValue(m) ==
    /\ m \in open
    /\ Len(SelectSeq(store.queue[m], LAMBDA e : e.sub = NoCursor)) < MaxSent
    /\ store' = [store EXCEPT !.queue[m] = Append(@, Message(NoCursor, "value", 0))]
    /\ UNCHANGED <<kernel, history, past, pending, closing, open, failed,
                   warming, client>>

(* What a consumer makes of a message.                                     *)
Applied(rows, e) ==
    CASE e.kind = "snapshot" -> e.asserts
      [] e.kind = "changes" -> (rows \ e.retracts) \cup e.asserts
      [] OTHER -> rows

Replayed(rows, entries) == FoldLeft(Applied, rows, entries)

Cursors(entries) ==
    {entries[i].cursor : i \in {j \in 1..Len(entries) :
                                  entries[j].kind \in {"snapshot", "changes"}}}

(* Mutant of Took: the first message is lost.                              *)
TookTail(c, entries) ==
    [c EXCEPT !.rows = Replayed(@, SubSeq(entries, 2, Len(entries))),
              !.cursors = @ \cup Cursors(SubSeq(entries, 2, Len(entries)))]

Took(c, entries) ==
    [c EXCEPT !.rows = Replayed(@, entries),
              !.cursors = @ \cup Cursors(entries),
              !.told = @ \cup ({entries[i].kind : i \in 1..Len(entries)}
                               \cap Markers)]

(* MailboxStore::drain_receiver, and what the consumer does with it.       *)
Drain(m) ==
    /\ store.queue[m] # <<>>
    /\ store' = [store EXCEPT !.queue[m] = <<>>]
    /\ client' = [s \in Sub |-> IF Request[s].mailbox = m
                    THEN Took(client[s], Entries(store, s)) ELSE client[s]]
    /\ UNCHANGED <<kernel, history, past, pending, closing, open, failed,
                   warming>>

(* A reader of a derived relation loads the maintained targets of the      *)
(* snapshot, and stores them with its own added.                           *)
WarmLoad(r, d) ==
    /\ warming[r] = {}
    /\ d \in kernel.rules \ kernel.maintained
    /\ warming' = [warming EXCEPT ![r] = kernel.maintained \cup {d}]
    /\ UNCHANGED <<kernel, history, past, store, pending, closing, open,
                   failed, client>>

WarmStore(r) ==
    /\ warming[r] # {}
    /\ kernel' = [kernel EXCEPT !.maintained = warming[r]]
    /\ warming' = [warming EXCEPT ![r] = {}]
    /\ UNCHANGED <<history, past, store, pending, closing, open, failed, client>>

-----------------------------------------------------------------------------

Operation == {"register", "cancel"}

AnySub == CHOOSE s \in Sub : TRUE

Next ==
    \/ \E rows \in SUBSET Row \ {{}} :
         \/ PublishFacts(rows)
         \/ \E catalog \in BOOLEAN : PublishStaged(rows, catalog)
    \/ PublishPolicy
    \/ CreateRelation
    \/ \E d \in Derived : ChangeRule(d)
    \/ \E order \in Orders :
         \/ \E rows \in SUBSET Row \ {{}} : TaskCommit(rows, order)
         \/ PolicyTaskCommit(order)
         \/ ReadOnlyBoundary("none", AnySub, NoCursor, order)
         \/ \E op \in Operation, s \in Sub, resume \in ResumeAt \cup {NoCursor} :
              ReadOnlyBoundary(op, s, resume, order)
    \/ \E s \in Sub : Subscribe(s) \/ Discard(s) \/ Cancel(s)
    \/ \E m \in Mailbox :
         \/ TaskClose(m)
         \/ HostCancelMailbox(m)
         \/ HostCloseMailbox(m)
         \/ SendValue(m)
         \/ Drain(m)
    \/ \E subs \in SUBSET Sub : CancelActive(subs)
    \/ \E r \in Reader : WarmStore(r) \/ \E d \in Derived : WarmLoad(r, d)

Spec == Init /\ [][Next]_vars

-----------------------------------------------------------------------------
(* Properties.                                                             *)

Live == store.active \ (store.resync \cup store.revoked)

IsData(e) == e.kind \in {"snapshot", "changes"}

QueuedKinds(s) == {Entries(store, s)[i].kind : i \in 1..Len(Entries(store, s))}

CatalogueVersions(low, high) ==
    {history[i].version : i \in {j \in 1..Len(history) :
        history[j].catalog /\ history[j].version \in (low + 1)..high}}

(* While a subscription carries no marker, the messages it has taken and   *)
(* those still queued rebuild the rows of its subject at the dispatched    *)
(* cursor, or name every catalogue commit up to it: deliver_initial,       *)
(* dispatch_through and deliver_commit lose and invent nothing across      *)
(* commits, catalogue changes and resumption.                              *)
StreamComplete ==
    \A s \in Live :
        IF Request[s].subject = "catalogue"
          THEN CatalogueVersions(client[s].since, store.cursor) \subseteq
                 client[s].cursors \cup Cursors(Entries(store, s))
          ELSE Replayed(client[s].rows, Entries(store, s)) = RowsAt(store.cursor, s)

(* The data messages of a subscription carry strictly increasing cursors,  *)
(* in the queue and across what was taken: no commit is delivered twice.   *)
CursorsIncrease ==
    \A s \in store.active :
        LET data == SelectSeq(Entries(store, s), IsData) IN
        /\ \A i \in 1..(Len(data) - 1) : data[i].cursor < data[i + 1].cursor
        /\ data # <<>> => \A v \in client[s].cursors : v < data[1].cursor

(* A subscription that stopped delivering has said so: a marker is queued  *)
(* or was taken.                                                           *)
MarkerStands ==
    \A s \in store.active \cap (store.resync \cup store.revoked) :
        (QueuedKinds(s) \cup client[s].told) \cap Markers # {}

(* The loss of read permission reaches the subscriber as a revocation      *)
(* marker, queued or taken.                                                *)
RevocationTold ==
    \A s \in store.active \cap store.revoked :
        "revoked" \in QueuedKinds(s) \cup client[s].told

(* A revoked subscription has no rows in its mailbox, old or new.          *)
NoRowsAfterRevocation ==
    \A s \in store.active \cap store.revoked : QueuedKinds(s) \subseteq Markers

(* A step queues rows for a subscription without root authority only if    *)
(* the policy of the snapshot it delivers from grants the read.            *)
NoUnauthorizedRows ==
    [][\A s \in Sub :
         /\ ~ Request[s].root
         /\ \E i \in 1..Len(Entries(store', s)) :
               /\ IsData(Entries(store', s)[i])
               /\ \A j \in 1..Len(Entries(store, s)) :
                     Entries(store', s)[i] # Entries(store, s)[j]
         => kernel'.granted]_vars

(* A slow consumer holds at most its queue budget of messages.             *)
QueueBounded == \A s \in Sub : Len(Entries(store, s)) <= Request[s].budget

(* A closed mailbox holds nothing: no delivery recreates its queue.        *)
ClosedIsEmpty == \A m \in Mailbox \ open : store.queue[m] = <<>>

(* The capabilities in the mailbox store are those of the active           *)
(* subscriptions and of the registrations still pending: none leaks and    *)
(* none of an active subscription is missing.                              *)
CapabilitiesMatch ==
    store.caps = store.active \cup {s \in Sub : pending[s] = "register"}

(* No boundary fails on the subscriptions of others: a task that commits   *)
(* has its effects routed.                                                 *)
BoundariesSucceed == ~ failed
=============================================================================
