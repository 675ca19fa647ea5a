----------------------------- MODULE FjallWriter -----------------------------
(***************************************************************************)
(* The durable pipeline behind the kernel's commit lock: persist_commit    *)
(* and flush on the committing thread, the bounded queue, the commit       *)
(* writer thread, the Fjall journal, and what a restart loads.             *)
(*                                                                         *)
(* Every caller of the provider holds the kernel's commit lock, so there   *)
(* is one client at a time; pc says how far that client is.  The journal   *)
(* lists the states of the canonical keyspaces, one per applied batch; its *)
(* first synced entries survive a power failure, all of it a process       *)
(* crash.  Only changes to durable relations are modelled as facts.        *)
(***************************************************************************)
EXTENDS Integers, Sequences

CONSTANTS
    Fact,
    QueueCapacity, \* the bound of the writer's sync_channel
    MaxVersion,    \* bound: no commit goes past this version
    MaxFailures,   \* bound: batches or syncs that fail
    MaxOutages     \* bound: closes, crashes and power failures

ASSUME WriterAssumption ==
    /\ QueueCapacity \in Nat \ {0}
    /\ MaxVersion \in Nat
    /\ MaxFailures \in Nat
    /\ MaxOutages \in Nat

VARIABLES
    mode,          \* FjallDurabilityMode, chosen when the store is opened
    root,          \* version and durable facts of the published snapshot
    pc,            \* the thread that holds the commit lock
    pending,       \* the version and facts it is about to publish
    queue,         \* FjallCommitWriter.sender
    reply,         \* the reply channel of the last message
    queuedVersion, completedVersion,
    writeError,    \* FjallCommitWriter.write_error
    journal,       \* the keyspace states, one per batch
    synced,        \* how many of them are synced
    factsAt,       \* history: the durable facts of each version
    failures, outages

clientVars == <<root, pc, pending, factsAt>>
writerVars == <<completedVersion, writeError, journal, synced, failures>>
vars == <<mode, clientVars, queue, reply, queuedVersion, writerVars, outages>>

State == [version : Nat, facts : SUBSET Fact]

Batch == [kind : {"persist"}, version : Nat,
          asserts : SUBSET Fact, retracts : SUBSET Fact]

Message == Batch \cup [kind : {"flush", "shutdown"}]

(* idle: the lock is free.  down: the process is gone, the writer drained  *)
(* (closed) or not.                                                        *)
Pc == {"idle", "check", "send", "record", "wait", "publish",
       "flushCheck", "flushSend", "flushWait", "closing", "closed", "down"}

TypeOK ==
    /\ mode \in {"Relaxed", "Strict"}
    /\ root \in State
    /\ pc \in Pc
    /\ pending \in State
    /\ queue \in Seq(Message)
    /\ Len(queue) <= QueueCapacity
    /\ reply \in {"none", "ok", "error"}
    /\ queuedVersion \in Nat
    /\ completedVersion \in Nat
    /\ writeError \in BOOLEAN
    /\ journal \in Seq(State)
    /\ synced \in 1..Len(journal)
    /\ factsAt \in [0..MaxVersion -> SUBSET Fact]
    /\ failures \in 0..MaxFailures
    /\ outages \in 0..MaxOutages

Empty == [version |-> 0, facts |-> {}]

Init ==
    /\ mode \in {"Relaxed", "Strict"}
    /\ root = Empty
    /\ pc = "idle"
    /\ pending = Empty
    /\ queue = <<>>
    /\ reply = "none"
    /\ queuedVersion = 0
    /\ completedVersion = 0
    /\ writeError = FALSE
    /\ journal = <<Empty>>
    /\ synced = 1
    /\ factsAt = [v \in 0..MaxVersion |-> {}]
    /\ failures = 0
    /\ outages = 0

Up == pc \notin {"closed", "down"}

Last(s) == s[Len(s)]

Larger(m, n) == IF m > n THEN m ELSE n

-----------------------------------------------------------------------------
(* The committing thread, under the kernel's commit lock.                  *)

(* A validated commit that changes durable facts.                          *)
Commit(facts) ==
    /\ pc = "idle"
    /\ facts # root.facts
    /\ root.version < MaxVersion
    /\ pending' = [version |-> root.version + 1, facts |-> facts]
    /\ factsAt' = [factsAt EXCEPT ![root.version + 1] = facts]
    /\ pc' = "check"
    /\ UNCHANGED <<root, queue, reply, queuedVersion, writerVars, outages, mode>>

(* persist_commit_against returns at once when nothing durable changed.    *)
CommitVolatile ==
    /\ pc = "idle"
    /\ root.version < MaxVersion
    /\ root' = [root EXCEPT !.version = @ + 1]
    /\ factsAt' = [factsAt EXCEPT ![root.version + 1] = root.facts]
    /\ UNCHANGED <<pc, pending, queue, reply, queuedVersion, writerVars, outages, mode>>

(* check_writer_error, for a commit and for a flush.                       *)
CheckWriterError ==
    /\ pc \in {"check", "flushCheck"}
    /\ pc' = IF writeError THEN "idle"
             ELSE IF pc = "check" THEN "send" ELSE "flushSend"
    /\ UNCHANGED <<root, pending, factsAt, queue, reply, queuedVersion, writerVars, outages, mode>>

PersistMessage ==
    [kind |-> "persist", version |-> pending.version,
     asserts |-> pending.facts \ root.facts, retracts |-> root.facts \ pending.facts]

(* Mutants of Send: the channel is unbounded, or a message overtakes.      *)
SendUnbounded(message) ==
    /\ queue' = Append(queue, message)
    /\ reply' = "none"

SendFirst(message) ==
    /\ Len(queue) < QueueCapacity
    /\ queue' = <<message>> \o queue
    /\ reply' = "none"

(* SyncSender::send blocks while the channel is full.                      *)
Send(message) ==
    /\ Len(queue) < QueueCapacity
    /\ queue' = Append(queue, message)
    /\ reply' = "none"

SendCommit ==
    /\ pc = "send"
    /\ Send(PersistMessage)
    /\ pc' = "record"
    /\ UNCHANGED <<root, pending, factsAt, queuedVersion, writerVars, outages, mode>>

(* Mutant of RecordQueued: strict mode does not wait for the writer.       *)
RecordQueuedNoWait ==
    /\ pc = "record"
    /\ queuedVersion' = Larger(queuedVersion, pending.version)
    /\ pc' = "publish"
    /\ UNCHANGED <<root, pending, factsAt, queue, reply, writerVars, outages, mode>>

(* queued_version is raised after the send, when the writer may already    *)
(* have applied the commit.                                                *)
RecordQueued ==
    /\ pc = "record"
    /\ queuedVersion' = Larger(queuedVersion, pending.version)
    /\ pc' = IF mode = "Strict" THEN "wait" ELSE "publish"
    /\ UNCHANGED <<root, pending, factsAt, queue, reply, writerVars, outages, mode>>

(* Strict: the writer's reply decides whether the commit is published.     *)
ReceiveReply ==
    /\ pc = "wait"
    /\ reply # "none"
    /\ pc' = IF reply = "ok" THEN "publish" ELSE "idle"
    /\ UNCHANGED <<root, pending, factsAt, queue, reply, queuedVersion, writerVars, outages, mode>>

Publish ==
    /\ pc = "publish"
    /\ root' = pending
    /\ pc' = "idle"
    /\ UNCHANGED <<pending, factsAt, queue, reply, queuedVersion, writerVars, outages, mode>>

(* RelationKernel::flush_persistence.                                      *)
Flush ==
    /\ pc = "idle"
    /\ pc' = "flushCheck"
    /\ UNCHANGED <<root, pending, factsAt, queue, reply, queuedVersion, writerVars, outages, mode>>

SendFlush ==
    /\ pc = "flushSend"
    /\ Send([kind |-> "flush"])
    /\ pc' = "flushWait"
    /\ UNCHANGED <<root, pending, factsAt, queuedVersion, writerVars, outages, mode>>

FlushReturns ==
    /\ pc = "flushWait"
    /\ reply # "none"
    /\ pc' = "idle"
    /\ UNCHANGED <<root, pending, factsAt, queue, reply, queuedVersion, writerVars, outages, mode>>

(* FjallCommitWriter::drop: a shutdown message behind everything queued.   *)
Close ==
    /\ pc = "idle"
    /\ outages < MaxOutages
    /\ outages' = outages + 1
    /\ Send([kind |-> "shutdown"])
    /\ pc' = "closing"
    /\ UNCHANGED <<root, pending, factsAt, queuedVersion, writerVars, mode>>

-----------------------------------------------------------------------------
(* writer_loop: one message at a time, in order.                           *)

(* Mutant of Applied: removals are left out of the batch.                  *)
AppliedAsserts(batch) ==
    [version |-> batch.version, facts |-> Last(journal).facts \cup batch.asserts]

(* write_commit: one atomic batch with the changes and the state version.  *)
Applied(batch) ==
    [version |-> batch.version,
     facts |-> (Last(journal).facts \ batch.retracts) \cup batch.asserts]

Receive(kind) ==
    /\ Up
    /\ queue # <<>>
    /\ Head(queue).kind = kind
    /\ queue' = Tail(queue)

WriteCommit ==
    /\ Receive("persist")
    /\ journal' = Append(journal, Applied(Head(queue)))
    /\ synced' = IF mode = "Strict" THEN Len(journal) + 1 ELSE synced
    /\ completedVersion' = Larger(completedVersion, Head(queue).version)
    /\ reply' = IF mode = "Strict" THEN "ok" ELSE reply
    /\ UNCHANGED <<clientVars, queuedVersion, writeError, failures, outages, mode>>

(* Mutants of WriteFails: the waiting client gets no reply, or the error   *)
(* is not recorded.                                                        *)
WriteFailsSilently ==
    /\ Receive("persist")
    /\ failures < MaxFailures
    /\ failures' = failures + 1
    /\ writeError' = TRUE
    /\ UNCHANGED <<clientVars, reply, queuedVersion, completedVersion, journal,
                   synced, outages, mode>>

WriteFailsUnrecorded ==
    /\ Receive("persist")
    /\ failures < MaxFailures
    /\ failures' = failures + 1
    /\ reply' = IF mode = "Strict" THEN "error" ELSE reply
    /\ UNCHANGED <<clientVars, queuedVersion, completedVersion, writeError,
                   journal, synced, outages, mode>>

(* The batch fails and leaves the keyspaces alone.                         *)
WriteFails ==
    /\ Receive("persist")
    /\ failures < MaxFailures
    /\ failures' = failures + 1
    /\ writeError' = TRUE
    /\ reply' = IF mode = "Strict" THEN "error" ELSE reply
    /\ UNCHANGED <<clientVars, queuedVersion, completedVersion, journal, synced, outages, mode>>

(* Mutant of SyncJournal: an earlier write error is not looked at.         *)
SyncJournalUnchecked ==
    /\ Receive("flush")
    /\ synced' = Len(journal)
    /\ reply' = "ok"
    /\ UNCHANGED <<clientVars, queuedVersion, completedVersion, writeError, journal,
                   failures, outages, mode>>

SyncJournal ==
    /\ Receive("flush")
    /\ synced' = IF writeError THEN synced ELSE Len(journal)
    /\ reply' = IF writeError THEN "error" ELSE "ok"
    /\ UNCHANGED <<clientVars, queuedVersion, completedVersion, writeError, journal,
                   failures, outages, mode>>

SyncFails ==
    /\ Receive("flush")
    /\ failures < MaxFailures
    /\ failures' = failures + 1
    /\ reply' = "error"
    /\ UNCHANGED <<clientVars, queuedVersion, completedVersion, writeError, journal,
                   synced, outages, mode>>

(* Mutant of WriterStops: shutdown does not wait for its turn.             *)
WriterStopsAtOnce ==
    /\ pc = "closing"
    /\ queue' = <<>>
    /\ pc' = "closed"
    /\ UNCHANGED <<root, pending, factsAt, reply, queuedVersion, writerVars, outages, mode>>

WriterStops ==
    /\ Receive("shutdown")
    /\ pc' = "closed"
    /\ UNCHANGED <<root, pending, factsAt, reply, queuedVersion, writerVars, outages, mode>>

-----------------------------------------------------------------------------
(* Outages and the restart.                                                *)

(* The process dies: what was queued is gone, what was written stays.      *)
Crash ==
    /\ Up
    /\ outages < MaxOutages
    /\ outages' = outages + 1
    /\ queue' = <<>>
    /\ pc' = "down"
    /\ UNCHANGED <<root, pending, factsAt, reply, queuedVersion, writerVars, mode>>

(* The machine dies: the journal keeps at least its synced prefix.         *)
PowerFailure(n) ==
    /\ outages < MaxOutages
    /\ outages' = outages + 1
    /\ queue' = <<>>
    /\ pc' = "down"
    /\ journal' = SubSeq(journal, 1, n)
    /\ UNCHANGED <<root, pending, factsAt, reply, queuedVersion, completedVersion,
                   writeError, synced, failures, mode>>

(* Mutant of Restart: the journal position survives the restart.           *)
RestartAtOldPosition ==
    /\ ~ Up
    /\ pc' = "idle"
    /\ root' = Last(journal)
    /\ pending' = Last(journal)
    /\ journal' = <<Last(journal)>>
    /\ reply' = "none"
    /\ queuedVersion' = Last(journal).version
    /\ completedVersion' = Last(journal).version
    /\ writeError' = FALSE
    /\ UNCHANGED <<factsAt, queue, failures, outages, synced, mode>>

(* open_with_durability, load_state and load_from_state: the kernel starts *)
(* from the canonical keyspaces.                                           *)
Restart ==
    /\ ~ Up
    /\ pc' = "idle"
    /\ root' = Last(journal)
    /\ pending' = Last(journal)
    /\ journal' = <<Last(journal)>>
    /\ synced' = 1
    /\ reply' = "none"
    /\ queuedVersion' = Last(journal).version
    /\ completedVersion' = Last(journal).version
    /\ writeError' = FALSE
    /\ UNCHANGED <<factsAt, queue, failures, outages, mode>>

-----------------------------------------------------------------------------
(* What an operation of the kernel does once it has been started.          *)
ClientStep ==
    \/ CheckWriterError \/ SendCommit \/ RecordQueued \/ ReceiveReply
    \/ Publish \/ SendFlush \/ FlushReturns

WriterStep ==
    WriteCommit \/ WriteFails \/ SyncJournal \/ SyncFails \/ WriterStops

Next ==
    \/ \E facts \in SUBSET Fact : Commit(facts)
    \/ CommitVolatile
    \/ Flush
    \/ Close
    \/ ClientStep
    \/ WriterStep
    \/ Crash
    \/ \E n \in synced..Len(journal) : PowerFailure(n)
    \/ Restart

Spec == Init /\ [][Next]_vars

(* Neither the committing thread nor the writer thread stops on its own.   *)
FairSpec == Spec /\ WF_vars(ClientStep) /\ WF_vars(WriterStep)

-----------------------------------------------------------------------------
(* Properties.                                                             *)

(* Every state the journal can be cut back to is the durable state of the  *)
(* version it records: write_commit stores facts and version in one batch, *)
(* and no batch is applied on top of a missing one.                        *)
StateAtVersion ==
    \A i \in 1..Len(journal) : journal[i].facts = factsAt[journal[i].version]

(* A batch that is applied on top of all that came before it: only a       *)
(* failed batch can leave a hole in the middle.                            *)
HolesNeedFailure == failures = 0 => StateAtVersion

(* Orderly shutdown drains the queue: without a write error, all that was  *)
(* accepted has been applied when drop returns.                            *)
ShutdownDrains ==
    pc = "closed" /\ ~ writeError =>
        Last(journal).version = queuedVersion /\ Last(journal).facts = root.facts

(* In both modes, and so also in the relaxed one, an outage loses at most  *)
(* a suffix of the commits: what a restart loads is the state of one       *)
(* version unless a batch failed, and orderly shutdown loses nothing that  *)
(* persist_commit accepted unless it recorded a write error.               *)
RelaxedLosesSuffix == HolesNeedFailure /\ ShutdownDrains

(* Strict durability: whenever the process or the machine stops, what a    *)
(* restart loads is the published durable state, or the one of the commit  *)
(* in flight.  No acknowledged commit is lost, no refused one comes back.  *)
InFlight == pc \in {"send", "record", "wait", "publish"}

RecoversPublished ==
    mode = "Strict" /\ Up =>
        \A n \in synced..Len(journal) :
             \/ journal[n].facts = root.facts
             \/ InFlight /\ journal[n] = pending

(* A flush that succeeds has synced every published durable fact, in both  *)
(* modes, however many batches were queued or failed before it.            *)
FlushMeansDurable ==
    [][FlushReturns /\ reply = "ok" =>
          /\ journal[synced].facts = root.facts
          /\ journal[synced].version = queuedVersion]_vars

(* Nobody waits forever: a commit, a flush or a drop returns, with the     *)
(* queue full or empty, after a success or an error.                       *)
OperationsReturn == (pc # "idle" /\ Up) ~> (pc = "idle" \/ ~ Up)

(* Every accepted commit is eventually applied or its failure recorded.    *)
AcceptedCommitsSettle ==
    \A v \in 1..MaxVersion :
        (Up /\ queuedVersion = v) ~> (completedVersion >= v \/ writeError \/ ~ Up)
=============================================================================
