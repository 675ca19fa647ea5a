------------------------------- MODULE Buffers -------------------------------
(***************************************************************************)
(* Transactional buffers of the relation kernel: private edits, client     *)
(* applies with tokens, compaction and reversion, the commit that          *)
(* materialises, persists, publishes and records them, the results clients *)
(* ask for, the retained history, the buffer store and recovery.           *)
(***************************************************************************)
EXTENDS Deltas, FiniteSets

CONSTANTS
    Id, Tx, Token, None,
    NameOf,         \* name under which each identity is created
    Policy,         \* conflict policy of each identity
    Volatile,       \* identities of volatile buffers
    Existing,       \* identities that exist, with text, at the start
    Ops,            \* operations transactions use
    Strict,         \* the provider waits for the write
    MaxResults, MaxResultBytes, HistoryDepth, HistoryBuffers, MaxDeltas,
    MaxRevision,    \* bound on revisions reached by edits
    MaxBegins,      \* bound on transactions
    MaxRestarts     \* bound on crashes

VARIABLES
    buffers,        \* BufferStates of the published snapshot
    version,        \* its version
    tx,             \* open transactions
    commit,         \* the commit under the commit lock
    results,        \* ClientResults: entries and the order of completion
    history,        \* BufferHistory rings
    disk,           \* the buffer keyspace: checkpoint, deltas, counter
    queue,          \* commits the relaxed writer has not written
    begins,         \* transactions begun; also numbers their chunks
    restarts,
    named           \* ghost: texts every revision was published with

vars == <<buffers, version, tx, commit, results, history, disk, queue, begins, restarts, named>>
shared == <<buffers, version, commit, history, disk, queue, begins, restarts, named>>

NoTx == [open |-> FALSE]
NoCommit == [stage |-> "idle", tx |-> None]
State(r, t, d, e) == [revision |-> r, text |-> t, deleted |-> d, epoch |-> e]

Content(t) == [i \in DOMAIN t |-> t[i].ch]
Chunk(n, s) == [i \in DOMAIN s |-> [chunk |-> n, place |-> i, ch |-> s[i]]]
Weight(d) == FoldLeft(LAMBDA w, r : w + 1 + Len(r.text), 0, d)

Live(s) == s # None /\ ~s.deleted
Named(states, name) == {i \in Id : states[i] # None /\ NameOf[i] = name}

-----------------------------------------------------------------------------
(* Client results.                                                         *)
Final(e) == e # None /\ e.outcome # "pending"
Held(r) == Cardinality({k \in Token : r.entries[k] # None})
Bytes(r) ==
    FoldLeft(LAMBDA w, k : w + Weight(r.entries[k].applied), 0,
             SetToSeq({k \in Token : r.entries[k] # None}))

(* evict_completed n times.                                                *)
Evict(r, n) ==
    [entries |-> [k \in Token |-> IF \E i \in 1..n : r.completed[i] = k THEN None
                                  ELSE r.entries[k]],
     completed |-> SubSeq(r.completed, n + 1, Len(r.completed))]

(* Evicts the oldest completed results until the rest fit, or all of them; *)
(* `fits` has the numbers of evictions after which they do.                *)
Evictions(r) == 0..Len(r.completed)
MakeRoom(r, fits) == Evict(r, Min(fits \cup {Len(r.completed)}))

Result(id, revision, outcome, applied, from) ==
    [buffer |-> id, revision |-> revision, outcome |-> outcome, applied |-> applied,
     from |-> from]

(* ClientResults::reserve, after which a pending entry may still not fit.  *)
SpaceEager(r) == MakeRoom(r, {n \in Evictions(r) : Held(Evict(r, n)) + 1 < MaxResults})
Space(r) == MakeRoom(r, {n \in Evictions(r) : Held(Evict(r, n)) < MaxResults})
Reserve(r, k, id, revision) ==
    [Space(r) EXCEPT !.entries[k] = Result(id, revision, "pending", <<>>, <<>>)]

(* ClientResults::finish.                                                  *)
FinishTwice(r, k, result) ==
    [entries |-> [r.entries EXCEPT ![k] = result], completed |-> r.completed]
Finish(r, k, result) ==
    LET kept == IF Weight(result.applied) <= MaxResultBytes THEN result
                ELSE [result EXCEPT !.outcome = "resync", !.applied = <<>>]
        room == MakeRoom(r, {n \in Evictions(r) :
                               Bytes(Evict(r, n)) + Weight(kept.applied) <= MaxResultBytes})
    IN [entries |-> [room.entries EXCEPT ![k] = kept], completed |-> Append(room.completed, k)]

Tagged(writes) == {i \in Id : writes[i] # None /\ writes[i].token # None}

FinishAll(writes, ends) ==
    FoldLeft(LAMBDA r, i : Finish(r, writes[i].token, ends[i]), results, SetToSeq(DOMAIN ends))

-----------------------------------------------------------------------------
(* A transaction's private buffers.                                        *)
Pending(base, text) ==
    [base |-> base, text |-> text, deleted |-> FALSE, touched |-> FALSE, sealed |-> FALSE,
     token |-> None, compact |-> FALSE, reverted |-> FALSE]

View(t, i) ==
    IF tx[t].writes[i] # None THEN tx[t].writes[i]
    ELSE Pending(tx[t].base[i], tx[t].base[i].text)

(* buffer_metadata, ensure_buffer_mutable and the check of apply_buffer.   *)
Readable(t, i) ==
    IF tx[t].writes[i] # None THEN ~tx[t].writes[i].deleted ELSE Live(tx[t].base[i])
Mutable(t, i) == Readable(t, i) /\ ~View(t, i).sealed
Untouched(t, i) == Mutable(t, i) /\ ~View(t, i).touched
BaseRevision(t, i) == IF tx[t].base[i] = None THEN 0 ELSE tx[t].base[i].revision

Running(t) == tx[t].open /\ commit.tx # t
Write(t, i, p) == tx' = [tx EXCEPT ![t].writes[i] = p]

Begin(t) ==
    /\ ~tx[t].open /\ begins < MaxBegins
    /\ begins' = begins + 1
    /\ tx' = [tx EXCEPT ![t] = [open |-> TRUE, base |-> buffers, version |-> version,
                                serial |-> begins', writes |-> [i \in Id |-> None]]]
    /\ UNCHANGED <<buffers, version, commit, results, history, disk, queue, restarts, named>>

Create(t, i) ==
    /\ Running(t) /\ "create" \in Ops
    /\ tx[t].base[i] = None /\ tx[t].writes[i] = None
    /\ Named(tx[t].base, NameOf[i]) = {} /\ Named(tx[t].writes, NameOf[i]) = {}
    /\ Write(t, i, Pending(None, <<>>))
    /\ UNCHANGED <<shared, results>>

(* Replacements of at most one scalar by at most one.                      *)
Edits(t, i) ==
    LET fresh == Chunk(<<tx[t].serial, 0>>, <<tx[t].serial>>)
    IN {Replacement(p, q, s) : p \in 0..Len(View(t, i).text), q \in 0..Len(View(t, i).text),
                               s \in {<<>>, fresh}}
SmallEdits(t, i) == {e \in Edits(t, i) : e.from <= e.to /\ e.to <= e.from + 1}
Changes(e) == e.from < e.to \/ e.text # <<>>

(* replace_buffer; one local edit is enough to tell views apart.           *)
Replace(t, i) ==
    /\ Running(t) /\ "replace" \in Ops
    /\ Untouched(t, i)
    /\ BaseRevision(t, i) < MaxRevision
    /\ \E e \in SmallEdits(t, i) :
         Changes(e) /\ Write(t, i, [View(t, i) EXCEPT !.text = ReplaceText(@, e), !.touched = TRUE])
    /\ UNCHANGED <<shared, results>>

DeleteSealed(t, i) ==
    /\ Running(t) /\ "delete" \in Ops
    /\ Readable(t, i)
    /\ Write(t, i, [View(t, i) EXCEPT !.text = <<>>, !.touched = TRUE, !.deleted = TRUE])
    /\ UNCHANGED <<shared, results>>
DeleteBuffer(t, i) ==
    /\ Running(t) /\ "delete" \in Ops
    /\ Mutable(t, i)
    /\ Write(t, i, [View(t, i) EXCEPT !.text = <<>>, !.touched = TRUE, !.deleted = TRUE])
    /\ UNCHANGED <<shared, results>>

(* apply_buffer.  A call that names another revision than the base's is    *)
(* stale and changes nothing.                                              *)
ApplyBuffer(t, i, k) ==
    /\ Running(t) /\ "apply" \in Ops
    /\ Untouched(t, i)
    /\ BaseRevision(t, i) < MaxRevision
    /\ k # None => results.entries[k] = None /\ Held(Space(results)) < MaxResults
    /\ \E e \in SmallEdits(t, i) :
         Write(t, i, [View(t, i) EXCEPT !.text = ReplaceText(@, e), !.sealed = TRUE, !.token = k])
    /\ results' = IF k = None THEN results ELSE Reserve(results, k, i, BaseRevision(t, i))
    /\ UNCHANGED shared

CompactBuffer(t, i) ==
    /\ Running(t) /\ "compact" \in Ops
    /\ tx[t].base[i] # None /\ Untouched(t, i)
    /\ Write(t, i, [View(t, i) EXCEPT !.text = Chunk(<<tx[t].serial, 0>>, Content(@)),
                                      !.compact = TRUE, !.sealed = TRUE])
    /\ UNCHANGED <<shared, results>>

(* revert_buffer.  The history lock is held from publication until the     *)
(* commit has recorded its buffers.                                        *)
NeverLocked == FALSE
HistoryLocked == commit.stage = "recording"
Retained(i, revision) ==
    {k \in DOMAIN history.rings[i] : history.rings[i][k].revision = revision}
Revert(t, i, revision) ==
    /\ Running(t) /\ "revert" \in Ops
    /\ ~HistoryLocked
    /\ revision < BaseRevision(t, i) /\ BaseRevision(t, i) < MaxRevision
    /\ Untouched(t, i)
    /\ \E k \in Retained(i, revision) :
         Write(t, i, [View(t, i) EXCEPT
                        !.text = Chunk(<<tx[t].serial, 0>>, Content(history.rings[i][k].text)),
                        !.reverted = TRUE, !.sealed = TRUE])
    /\ UNCHANGED <<shared, results>>

-----------------------------------------------------------------------------
(* Recovery records.                                                       *)
Record(r, s, d) == [revision |-> r, text |-> s, deleted |-> d]

(* BufferStates::replay.                                                   *)
NeverEmpty(prev, c) == FALSE
EmptyCreation(prev, c) ==
    prev = None /\ c.base = 0 /\ c.revision = 0 /\ c.delta = <<>> /\ ~c.deleted
Follows(prev, c) ==
    LET last == IF prev = None THEN 0 ELSE prev.revision
    IN /\ EmptyCreation(prev, c) \/ (c.revision > last /\ c.base < c.revision)
       /\ prev = None => c.base = 0
       /\ c.base >= last
       /\ prev # None => ~prev.deleted
       /\ c.id \in Volatile \/ c.base = last
Replay(prev, c) ==
    Record(c.revision,
           IF c.deleted \/ c.id \in Volatile THEN <<>>
           ELSE Apply(c.delta, IF prev = None THEN <<>> ELSE prev.text),
           c.deleted)

(* load_buffer: the checkpoint, then its deltas; None when one is invalid. *)
Replayed(prev, c) == IF Follows(prev, c) THEN Replay(prev, c) ELSE None
Load(d) ==
    FoldLeft(LAMBDA s, c : IF s = None THEN None ELSE Replayed(s, c),
             Replayed(None, d.checkpoint), d.deltas)

(* write_changes, for one change: a checkpoint of the whole state, or one  *)
(* more delta.                                                             *)
Checkpoint(i, r) ==
    [id |-> i, base |-> 0, revision |-> r.revision, deleted |-> r.deleted,
     delta |-> Normal(<<Replacement(0, 0, r.text)>>)]
CheckpointedLate(d, c) == d = None \/ c.deleted \/ Len(d.deltas) + 1 > MaxDeltas
Checkpointed(d, c) == d = None \/ c.deleted \/ Len(d.deltas) + 1 >= MaxDeltas
LoadedBefore(d) == IF d = None THEN None ELSE Load(d)
MayWrite(d, c) ==
    LET last == IF d = None THEN 0 ELSE d.counter
    IN /\ d # None => c.revision > last
       /\ d = None => c.base = 0
       /\ c.base >= last
       /\ c.id \in Volatile \/ c.base = last
       /\ Checkpointed(d, c) => Follows(LoadedBefore(d), c)
WriteChangeKeeps(d, c) ==
    [checkpoint |-> IF Checkpointed(d, c) THEN Checkpoint(c.id, Replay(LoadedBefore(d), c))
                    ELSE d.checkpoint,
     deltas |-> IF d = None THEN <<>> ELSE Append(d.deltas, c),
     counter |-> c.revision]
WriteChange(d, c) ==
    IF Checkpointed(d, c)
      THEN [checkpoint |-> Checkpoint(c.id, Replay(LoadedBefore(d), c)),
            deltas |-> <<>>, counter |-> c.revision]
      ELSE [d EXCEPT !.deltas = Append(@, c), !.counter = c.revision]

(* persist_commit_against: a volatile buffer's change goes without text.   *)
Persisted(c) == IF c.id \in Volatile THEN [c EXCEPT !.delta = <<>>] ELSE c
Written(d, changes) ==
    FoldLeft(LAMBDA x, c : [x EXCEPT ![c.id] = WriteChange(@, Persisted(c))], d, changes)
Writable(d, changes) ==
    \A k \in DOMAIN changes : MayWrite(d[changes[k].id], changes[k])

(* BufferStates::restore.                                                  *)
RestoredSame(i, r) == State(r.revision, Chunk(<<0, 0>>, r.text), r.deleted, 0)
Restored(i, r) ==
    IF i \in Volatile /\ ~r.deleted /\ r.revision # 0
      THEN State(r.revision + 1, <<>>, FALSE, 0)
      ELSE State(r.revision, Chunk(<<0, 0>>, r.text), r.deleted, 0)

-----------------------------------------------------------------------------
(* materialize_buffers: one pending buffer against the states so far.      *)
Plain(s) == [k \in DOMAIN s |-> [s[k] EXCEPT !.text = Content(@)]]
Change(i, base, revision, d, deleted) ==
    [id |-> i, base |-> base, revision |-> revision, delta |-> Plain(d), deleted |-> deleted]

Failed(m, err) == [m EXCEPT !.err = err]

Concurrent(p, latest) == latest.revision # p.base.revision
ExclusiveEdits(p, i) == p.deleted \/ p.reverted \/ Policy[i] = "reject"
Exclusive(p, i) == p.deleted \/ p.compact \/ p.reverted \/ Policy[i] = "reject"
Refused(p, i, latest) == latest.deleted \/ (Concurrent(p, latest) /\ Exclusive(p, i))

Rechunk(d, serial) ==
    [k \in DOMAIN d |-> [d[k] EXCEPT !.text = Chunk(<<serial, k>>, Content(@))]]

(* The new text and its delta over the latest one.                         *)
WholeDeltaOwn(p, latest) ==
    LET n == IF Len(p.base.text) < Len(latest.text) THEN Len(p.base.text) ELSE Len(latest.text)
    IN Normal(<<Replacement(0, n, p.text)>>)
WholeDelta(p, latest) == Normal(<<Replacement(0, Len(latest.text), p.text)>>)
Applied(p, i, latest, serial) ==
    LET own == Between(p.base.text, p.text)
        concurrent == Between(p.base.text, latest.text)
        rebased == Rechunk(TransformAfter(own, concurrent), serial)
    IN IF p.compact THEN [text |-> p.text, delta |-> <<>>]
       ELSE IF ~Concurrent(p, latest) THEN [text |-> p.text, delta |-> own]
       ELSE IF Policy[i] = "whole"
         THEN [text |-> p.text, delta |-> WholeDelta(p, latest)]
       ELSE [text |-> Apply(rebased, latest.text), delta |-> rebased]

RebaseError(p, i, latest, over) ==
    CASE p.compact \/ ~Concurrent(p, latest) \/ Policy[i] = "whole" -> "none"
      [] Concurrent(p, latest) /\ over -> "budget"
      [] Walked(p.base.text, p.text).foreign \/ Walked(p.base.text, latest.text).foreign -> "foreign"
      [] Conflicts(Between(p.base.text, p.text), Between(p.base.text, latest.text)) -> "conflict"
      [] OTHER -> "none"

KeepsRevisionReverted(p, done) ==
    p.compact \/ p.reverted \/ (p.base = None /\ done.delta = <<>> /\ ~p.deleted)
KeepsRevision(p, done) == p.compact \/ (p.base = None /\ done.delta = <<>> /\ ~p.deleted)
Inserted(m, i, p, done, base) ==
    LET revision == IF KeepsRevision(p, done) THEN base ELSE base + 1
        epoch == IF m.states[i] = None THEN 0 ELSE m.states[i].epoch
        next == State(revision, done.text, p.deleted,
                      IF p.compact \/ p.reverted THEN epoch + 1 ELSE epoch)
    IN IF p.base # None /\ done.delta = <<>> /\ ~p.deleted /\ ~p.compact THEN m
       ELSE [m EXCEPT !.states[i] = next,
                      !.changes = IF p.compact THEN @
                                  ELSE Append(@, Change(i, base, revision, done.delta, p.deleted))]

TakenId(states, i) == states[i] # None
Taken(states, i) == states[i] # None \/ Named(states, NameOf[i]) # {}
MaterializeOne(m, i, p, serial, over) ==
    LET latest == m.states[i]
    IN IF p.base = None
         THEN IF Taken(m.states, i) THEN Failed(m, "conflict")
              ELSE Inserted(m, i, p, [text |-> p.text, delta |-> Between(<<>>, p.text)], 0)
       ELSE IF latest.epoch # p.base.epoch THEN Failed(m, "structure")
       ELSE IF Refused(p, i, latest) THEN Failed(m, "conflict")
       ELSE IF RebaseError(p, i, latest, over) # "none"
         THEN Failed(m, RebaseError(p, i, latest, over))
       ELSE Inserted(m, i, p, Applied(p, i, latest, serial), latest.revision)

Materialize(t, over) ==
    FoldLeft(LAMBDA m, i : IF m.err # "none" \/ tx[t].writes[i] = None THEN m
                           ELSE MaterializeOne(m, i, tx[t].writes[i], tx[t].serial, over),
             [err |-> "none", states |-> buffers, changes |-> <<>>], SetToSeq(Id))

-----------------------------------------------------------------------------
(* fail_buffer_applies.                                                    *)
OutcomeOf(err) ==
    CASE err = "conflict" -> "conflict"
      [] err \in {"budget", "foreign", "structure"} -> "resync"
      [] OTHER -> "aborted"
CurrentRevision(i) == IF buffers[i] = None THEN 0 ELSE buffers[i].revision

Fail(t, err) ==
    /\ results' = FinishAll(tx[t].writes,
         [i \in Tagged(tx[t].writes) |-> Result(i, CurrentRevision(i), OutcomeOf(err), <<>>, <<>>)])
    /\ tx' = [tx EXCEPT ![t] = NoTx]
    /\ commit' = NoCommit

(* commit_inner up to the provider.  Facts may conflict when the version   *)
(* has moved; a rebase may exceed its budget.                              *)
Commit(t) ==
    /\ tx[t].open /\ commit = NoCommit
    /\ \E i \in Id : tx[t].writes[i] # None
    /\ \E over \in BOOLEAN :
         LET m == Materialize(t, over)
         IN IF m.err # "none" THEN Fail(t, m.err)
            ELSE /\ commit' = [stage |-> "persisting", tx |-> t, states |-> m.states,
                               changes |-> m.changes]
                 /\ UNCHANGED <<tx, results>>
    /\ UNCHANGED <<buffers, version, history, disk, queue, begins, restarts, named>>

FactsConflict(t) ==
    /\ tx[t].open /\ commit = NoCommit
    /\ version # tx[t].version
    /\ Tagged(tx[t].writes) # {}
    /\ Fail(t, "conflict")
    /\ UNCHANGED <<buffers, version, history, disk, queue, begins, restarts, named>>

Persist ==
    /\ commit.stage = "persisting"
    /\ Strict => Writable(disk, commit.changes)
    /\ IF Strict THEN disk' = Written(disk, commit.changes) /\ UNCHANGED queue
                 ELSE queue' = Append(queue, commit.changes) /\ UNCHANGED disk
    /\ commit' = [commit EXCEPT !.stage = "publishing"]
    /\ UNCHANGED <<buffers, version, tx, results, history, begins, restarts, named>>

PersistFails ==
    /\ commit.stage = "persisting"
    /\ Fail(commit.tx, "persistence")
    /\ UNCHANGED <<buffers, version, history, disk, queue, begins, restarts, named>>

(* try_publish_with_buffer_history, in two steps under the history lock.   *)
PublishedAs(states) == [i \in Id |-> IF states[i] = None THEN {} ELSE
                                     {<<states[i].revision, Content(states[i].text)>>}]
Publish ==
    /\ commit.stage = "publishing"
    /\ buffers' = commit.states
    /\ version' = version + 1
    /\ named' = [i \in Id |-> named[i] \cup PublishedAs(commit.states)[i]]
    /\ commit' = [stage |-> "recording", tx |-> commit.tx, before |-> buffers]
    /\ UNCHANGED <<tx, results, history, disk, queue, begins, restarts>>

(* BufferHistory::record.                                                  *)
RingsFor(h, i) ==
    IF h.rings[i] = <<>> /\ Len(h.order) >= HistoryBuffers
      THEN [h EXCEPT !.rings[Head(h.order)] = <<>>, !.order = Tail(@)] ELSE h
Versions(ring, s) ==
    LET kept == IF ring # <<>> /\ Last(ring).revision = s.revision THEN Front(ring) ELSE ring
        all == Append(kept, s)
    IN IF Len(all) > HistoryDepth THEN Tail(all) ELSE all
Recorded(h, i, s) ==
    IF s = None THEN h
    ELSE IF s.deleted
      THEN [rings |-> [h.rings EXCEPT ![i] = <<>>], order |-> SelectSeq(h.order, LAMBDA x : x # i)]
    ELSE LET room == RingsFor(h, i)
         IN [rings |-> [room.rings EXCEPT ![i] = Versions(@, s)],
             order |-> Append(SelectSeq(room.order, LAMBDA x : x # i), i)]
RecordHistory ==
    /\ commit.stage = "recording"
    /\ history' =
         FoldLeft(LAMBDA h, i : IF tx[commit.tx].writes[i] = None \/ commit.before[i] = buffers[i] THEN h
                                ELSE Recorded(Recorded(h, i, commit.before[i]), i, buffers[i]),
                  history, SetToSeq(Id))
    /\ commit' = [stage |-> "completing", tx |-> commit.tx]
    /\ UNCHANGED <<buffers, version, tx, results, disk, queue, begins, restarts, named>>

(* complete_buffer_applies: the delta from the client's text to the        *)
(* published one.                                                          *)
CompletedOwn(p, i, over) ==
    LET from == IF p.base = None THEN <<>> ELSE p.base.text
    IN Result(i, buffers[i].revision, "ok", Plain(Between(from, p.text)), Content(from))
CompletedAs(p, i, over) ==
    LET from == IF p.base = None THEN <<>> ELSE p.base.text
        s == buffers[i]
    IN IF over \/ Walked(from, s.text).foreign
         THEN Result(i, s.revision, "resync", <<>>, <<>>)
         ELSE Result(i, s.revision, "ok", Plain(Between(from, s.text)), Content(from))
Complete ==
    /\ commit.stage = "completing"
    /\ \E over \in BOOLEAN :
         results' = FinishAll(tx[commit.tx].writes,
           [i \in Tagged(tx[commit.tx].writes) |-> CompletedAs(tx[commit.tx].writes[i], i, over)])
    /\ tx' = [tx EXCEPT ![commit.tx] = NoTx]
    /\ commit' = NoCommit
    /\ UNCHANGED <<buffers, version, history, disk, queue, begins, restarts, named>>

(* Transaction::drop.                                                      *)
Drop(t) ==
    /\ Running(t)
    /\ results' = FinishAll(tx[t].writes,
         [i \in Tagged(tx[t].writes) |-> Result(i, BaseRevision(t, i), "aborted", <<>>, <<>>)])
    /\ tx' = [tx EXCEPT ![t] = NoTx]
    /\ UNCHANGED shared

(* The relaxed writer.                                                     *)
WriterStep ==
    /\ queue # <<>>
    /\ Writable(disk, Head(queue))
    /\ disk' = Written(disk, Head(queue))
    /\ queue' = Tail(queue)
    /\ UNCHANGED <<buffers, version, tx, commit, results, history, begins, restarts, named>>

NoResults == [entries |-> [k \in Token |-> None], completed |-> <<>>]
NoHistory == [rings |-> [i \in Id |-> <<>>], order |-> <<>>]

(* The process stops; load_from_state brings it back.                      *)
Restart ==
    /\ restarts < MaxRestarts
    /\ restarts' = restarts + 1
    /\ buffers' = [i \in Id |-> IF disk[i] = None THEN None ELSE Restored(i, Load(disk[i]))]
    /\ named' = [i \in Id |-> named[i] \cup PublishedAs(buffers')[i]]
    /\ version' = 0 /\ queue' = <<>>
    /\ tx' = [t \in Tx |-> NoTx] /\ commit' = NoCommit
    /\ results' = NoResults /\ history' = NoHistory
    /\ UNCHANGED <<disk, begins>>

Seed == Chunk(<<0, 0>>, <<-1, -2>>)
Init ==
    /\ buffers = [i \in Id |-> IF i \in Existing THEN State(1, Seed, FALSE, 0) ELSE None]
    /\ disk = [i \in Id |->
                 IF i \notin Existing THEN None
                 ELSE [checkpoint |-> Checkpoint(i, Record(1, IF i \in Volatile THEN <<>> ELSE Content(Seed), FALSE)),
                       deltas |-> <<>>, counter |-> 1]]
    /\ named = PublishedAs(buffers)
    /\ version = 0 /\ queue = <<>> /\ begins = 0 /\ restarts = 0
    /\ tx = [t \in Tx |-> NoTx] /\ commit = NoCommit
    /\ results = NoResults /\ history = NoHistory

Local(t) ==
    \/ Begin(t) \/ Drop(t) \/ Commit(t) \/ FactsConflict(t)
    \/ \E i \in Id :
         \/ Create(t, i) \/ Replace(t, i) \/ DeleteBuffer(t, i) \/ CompactBuffer(t, i)
         \/ \E k \in Token \cup {None} : ApplyBuffer(t, i, k)
         \/ \E r \in 0..MaxRevision : Revert(t, i, r)

Next ==
    \/ \E t \in Tx : Local(t)
    \/ Persist \/ PersistFails \/ Publish \/ RecordHistory \/ Complete
    \/ WriterStep \/ Restart

Spec == Init /\ [][Next]_vars

-----------------------------------------------------------------------------
(* A revision number stands for one text, whatever commits, compactions    *)
(* and restarts happen: materialize_buffers advances it with every change  *)
(* of text, and restore advances a volatile buffer's past what clients saw.*)
RevisionNamesText ==
    \A i \in Id : \A a, b \in named[i] : a[1] = b[1] => a = b

(* Names stay unique, and reserved after deletion, however creations race. *)
NamesUnique ==
    \A i, j \in Id : buffers[i] # None /\ buffers[j] # None /\ NameOf[i] = NameOf[j] => i = j

(* A committed change keeps what others committed since its snapshot: under*)
(* Reject and Span (materialize_buffers) no commit drops a scalar that was *)
(* published after the transaction began.                                  *)
Scalars(s) == IF s = None THEN {} ELSE {s.text[k].ch : k \in DOMAIN s.text}
NoLostEdit ==
    commit.stage = "publishing" =>
       \A i \in {j \in Id : Policy[j] # "whole"} :
          (Scalars(buffers[i]) \ Scalars(tx[commit.tx].base[i])) \subseteq Scalars(commit.states[i])

(* The delta of an ok result rebuilds, from the text the client had, the   *)
(* text published at the revision the result names.                        *)
OkRebuilds ==
    \A k \in Token : LET e == results.entries[k]
      IN Final(e) /\ e.outcome = "ok" => <<e.revision, Apply(e.applied, e.from)>> \in named[e.buffer]

(* A token is pending exactly while an open transaction holds it, and the  *)
(* queue of completed results names every settled one once: no path of     *)
(* commit, failure or drop leaves a client waiting for ever.               *)
TokensSettle ==
    /\ \A k \in Token : (results.entries[k] # None /\ ~Final(results.entries[k])) <=>
         \E t \in Tx : tx[t].open /\ \E i \in Tagged(tx[t].writes) : tx[t].writes[i].token = k
    /\ {k \in Token : Final(results.entries[k])} = ToSet(results.completed)
    /\ IsInjective(results.completed)
    /\ Held(results) <= MaxResults /\ Bytes(results) <= MaxResultBytes

(* complete_buffer_applies finds every tagged buffer live, as it asserts.  *)
TaggedStaysLive ==
    commit.stage = "completing" =>
       \A i \in Tagged(tx[commit.tx].writes) : Live(buffers[i])

(* A settled result leaves only when room was needed, the oldest first.    *)
EvictionJustified ==
    restarts' = restarts =>
         \A k \in Token : Final(results.entries[k]) /\ results'.entries[k] = None =>
            /\ Held(results) = MaxResults \/ Bytes(results) + Weight(<<Replacement(0, 0, <<0>>)>>) > MaxResultBytes
            /\ \A n \in DOMAIN results.completed : results.completed[n] = k =>
                 \A m \in 1..n : results'.entries[results.completed[m]] = None
EvictedOnlyWhenFull == [][EvictionJustified]_vars

(* Whoever reads the published revision finds its predecessor in the       *)
(* history, unless it fell out of the ring or the process restarted, and   *)
(* what the ring holds is what was published.                              *)
ReadersSeePredecessor ==
    ~HistoryLocked =>
       \A i \in Id : LET ring == history.rings[i]
         IN ring # <<>> =>
              /\ Last(ring) = buffers[i]
              /\ \A k \in DOMAIN ring : <<ring[k].revision, Content(ring[k].text)>> \in named[i]
              /\ \A k \in 1..(Len(ring) - 1) : ring[k + 1].revision = ring[k].revision + 1

(* The store never refuses or fails to load what a commit wrote, and a     *)
(* restart gives back every durable buffer as last published.              *)
Eventual == FoldLeft(Written, disk, queue)
DiskAgrees ==
    /\ \A i \in Id : disk[i] # None => Load(disk[i]) # None /\ Len(disk[i].deltas) < MaxDeltas
    /\ commit.stage = "persisting" => Writable(Eventual, commit.changes)
    /\ commit.stage # "publishing" =>
         \A i \in Id \ Volatile :
            IF buffers[i] = None THEN Eventual[i] = None
            ELSE Load(Eventual[i]) = Record(buffers[i].revision, Content(buffers[i].text), buffers[i].deleted)
=============================================================================
