-------------------------- MODULE WriterCacheProofs --------------------------
(***************************************************************************)
(* Proofs about what hangs off a commit: the Fjall writer, for every set   *)
(* of facts, queue capacity and number of failures and outages, in both    *)
(* durability modes, and the caches of derived relations.                  *)
(***************************************************************************)
EXTENDS FjallWriter, TLAPS

USE WriterAssumption, ZenonT(5), SMTT(20)

LEMMA SendType ==
    ASSUME TypeOK, NEW message \in Message, Send(message)
    PROVE  /\ queue' \in Seq(Message)
           /\ Len(queue') <= QueueCapacity
           /\ reply' \in {"none", "ok", "error"}
<1>1. queue' = Append(queue, message) /\ Len(queue) < QueueCapacity /\ reply' = "none"
  BY DEF Send
<1>2. queue' \in Seq(Message) /\ Len(queue') = Len(queue) + 1
  BY <1>1 DEF TypeOK
<1> QED
  BY <1>1, <1>2 DEF TypeOK

LEMMA ReceiveType ==
    ASSUME TypeOK, NEW kind, Receive(kind)
    PROVE  /\ queue' \in Seq(Message)
           /\ Len(queue') <= QueueCapacity
           /\ Head(queue) \in Message
           /\ Head(queue).kind = kind
<1>1. queue \in Seq(Message) /\ queue # <<>> /\ queue' = Tail(queue) /\ Head(queue).kind = kind
  BY DEF TypeOK, Receive
<1>2. queue' \in Seq(Message) /\ Len(queue') = Len(queue) - 1 /\ Head(queue) \in Message
  BY <1>1
<1> QED
  BY <1>1, <1>2 DEF TypeOK

LEMMA LastType ==
    ASSUME TypeOK
    PROVE  /\ Len(journal) \in Nat /\ Len(journal) >= 1
           /\ Last(journal) \in State
           /\ Last(journal).version \in Nat /\ Last(journal).facts \subseteq Fact
<1>1. journal \in Seq(State) /\ synced \in 1..Len(journal)
  BY DEF TypeOK
<1>2. Len(journal) \in Nat /\ Len(journal) >= 1
  BY <1>1
<1>3. Last(journal) \in State
  BY <1>1, <1>2 DEF Last
<1> QED
  BY <1>2, <1>3 DEF State

LEMMA BatchType ==
    ASSUME TypeOK, NEW m \in Message, m.kind = "persist"
    PROVE  /\ m.version \in Nat
           /\ Applied(m) \in State
<1>1. m \in Batch
  BY DEF Message, Batch
<1>2. m.version \in Nat /\ m.asserts \subseteq Fact /\ m.retracts \subseteq Fact
  BY <1>1 DEF Batch
<1> QED
  BY <1>2, LastType DEF Applied, State

(* A store keeps the durability mode it was opened with.                   *)
LEMMA ModeFixed ==
    ASSUME [Next]_vars
    PROVE  mode' = mode
BY DEF Next, ClientStep, WriterStep, Commit, CommitVolatile, Flush, Close, CheckWriterError,
       SendCommit, RecordQueued, ReceiveReply, Publish, SendFlush, FlushReturns, WriteCommit,
       WriteFails, SyncJournal, SyncFails, WriterStops, Crash, PowerFailure, Restart, vars

LEMMA ClientType ==
    ASSUME TypeOK, ClientStep
    PROVE  TypeOK'
<1>1. CASE CheckWriterError
  BY <1>1 DEF CheckWriterError, TypeOK, Pc, writerVars
<1>2. CASE SendCommit
  <2>1. PersistMessage \in Message
    BY DEF PersistMessage, Message, Batch, TypeOK, State
  <2>2. Send(PersistMessage) /\ pc' = "record"
        /\ UNCHANGED <<root, pending, factsAt, queuedVersion, writerVars, outages, mode>>
    BY <1>2 DEF SendCommit
  <2> QED
    BY <2>1, <2>2, SendType DEF TypeOK, Pc, writerVars
<1>3. CASE RecordQueued
  BY <1>3 DEF RecordQueued, TypeOK, Pc, Larger, State, writerVars
<1>4. CASE ReceiveReply
  BY <1>4 DEF ReceiveReply, TypeOK, Pc, writerVars
<1>5. CASE Publish
  BY <1>5 DEF Publish, TypeOK, Pc, writerVars
<1>6. CASE SendFlush
  <2>1. [kind |-> "flush"] \in Message
    BY DEF Message
  <2>2. Send([kind |-> "flush"]) /\ pc' = "flushWait"
        /\ UNCHANGED <<root, pending, factsAt, queuedVersion, writerVars, outages, mode>>
    BY <1>6 DEF SendFlush
  <2> QED
    BY <2>1, <2>2, SendType DEF TypeOK, Pc, writerVars
<1>7. CASE FlushReturns
  BY <1>7 DEF FlushReturns, TypeOK, Pc, writerVars
<1> QED
  BY <1>1, <1>2, <1>3, <1>4, <1>5, <1>6, <1>7 DEF ClientStep

LEMMA WriterType ==
    ASSUME TypeOK, WriterStep
    PROVE  TypeOK'
<1>1. CASE WriteCommit
  <2>1. Receive("persist")
    BY <1>1 DEF WriteCommit
  <2>2. Head(queue).version \in Nat /\ Applied(Head(queue)) \in State
    BY <2>1, ReceiveType, BatchType
  <2>3. /\ journal' = Append(journal, Applied(Head(queue)))
        /\ synced' = IF mode = "Strict" THEN Len(journal) + 1 ELSE synced
        /\ completedVersion' = Larger(completedVersion, Head(queue).version)
        /\ reply' = IF mode = "Strict" THEN "ok" ELSE reply
        /\ UNCHANGED <<clientVars, queuedVersion, writeError, failures, outages, mode>>
    BY <1>1 DEF WriteCommit
  <2>4. journal' \in Seq(State) /\ Len(journal') = Len(journal) + 1
    BY <2>2, <2>3 DEF TypeOK
  <2>5. synced' \in 1..Len(journal')
    BY <2>3, <2>4, LastType DEF TypeOK
  <2>6. completedVersion' \in Nat /\ reply' \in {"none", "ok", "error"}
    BY <2>2, <2>3 DEF TypeOK, Larger
  <2> QED
    BY <2>1, <2>3, <2>4, <2>5, <2>6, ReceiveType DEF TypeOK, clientVars
<1>2. CASE WriteFails
  <2>1. Receive("persist")
    BY <1>2 DEF WriteFails
  <2> QED
    BY <1>2, <2>1, ReceiveType DEF WriteFails, TypeOK, clientVars
<1>3. CASE SyncJournal
  <2>1. Receive("flush")
    BY <1>3 DEF SyncJournal
  <2>2. synced' \in 1..Len(journal)
    BY <1>3, LastType DEF SyncJournal, TypeOK
  <2> QED
    BY <1>3, <2>1, <2>2, ReceiveType DEF SyncJournal, TypeOK, clientVars
<1>4. CASE SyncFails
  <2>1. Receive("flush")
    BY <1>4 DEF SyncFails
  <2> QED
    BY <1>4, <2>1, ReceiveType DEF SyncFails, TypeOK, clientVars
<1>5. CASE WriterStops
  <2>1. Receive("shutdown")
    BY <1>5 DEF WriterStops
  <2> QED
    BY <1>5, <2>1, ReceiveType DEF WriterStops, TypeOK, Pc, writerVars
<1> QED
  BY <1>1, <1>2, <1>3, <1>4, <1>5 DEF WriterStep

LEMMA NextType ==
    ASSUME TypeOK, [Next]_vars
    PROVE  TypeOK'
<1>1. ASSUME NEW facts \in SUBSET Fact, Commit(facts)
      PROVE  TypeOK'
  BY <1>1 DEF Commit, TypeOK, State, Pc, writerVars
<1>2. CASE CommitVolatile
  <2>0. root' = [root EXCEPT !.version = @ + 1] /\ root \in State
    BY <1>2 DEF CommitVolatile, TypeOK
  <2>1. root' \in State
    BY <2>0 DEF State
  <2>2. factsAt' \in [0..MaxVersion -> SUBSET Fact]
    BY <1>2 DEF CommitVolatile, TypeOK, State
  <2> QED
    BY <1>2, <2>1, <2>2 DEF CommitVolatile, TypeOK, writerVars
<1>3. CASE Flush
  BY <1>3 DEF Flush, TypeOK, Pc, writerVars
<1>4. CASE Close
  <2>1. [kind |-> "shutdown"] \in Message
    BY DEF Message
  <2>2. /\ Send([kind |-> "shutdown"]) /\ pc' = "closing"
        /\ outages < MaxOutages /\ outages' = outages + 1
        /\ UNCHANGED <<root, pending, factsAt, queuedVersion, writerVars, mode>>
    BY <1>4 DEF Close
  <2> QED
    BY <2>1, <2>2, SendType DEF TypeOK, Pc, writerVars
<1>5. CASE Crash
  BY <1>5 DEF Crash, TypeOK, Pc, writerVars
<1>6. ASSUME NEW n \in synced..Len(journal), PowerFailure(n)
      PROVE  TypeOK'
  <2>1. n \in 1..Len(journal) /\ synced \in 1..n
    BY LastType DEF TypeOK
  <2>2. journal' = SubSeq(journal, 1, n)
    BY <1>6 DEF PowerFailure
  <2>3. journal' \in Seq(State) /\ Len(journal') = n
    BY <2>1, <2>2 DEF TypeOK
  <2> QED
    BY <1>6, <2>1, <2>3 DEF PowerFailure, TypeOK, Pc
<1>7. CASE Restart
  <2> DEFINE last == Last(journal)
  <2>1. last \in State /\ last.version \in Nat
    BY LastType
  <2>2. /\ pc' = "idle" /\ root' = last /\ pending' = last /\ journal' = <<last>>
        /\ synced' = 1 /\ reply' = "none" /\ writeError' = FALSE
        /\ queuedVersion' = last.version /\ completedVersion' = last.version
        /\ UNCHANGED <<factsAt, queue, failures, outages, mode>>
    BY <1>7 DEF Restart
  <2> HIDE DEF last
  <2>3. journal' \in Seq(State) /\ Len(journal') = 1
    BY <2>1, <2>2
  <2>4. synced' \in 1..Len(journal')
    BY <2>2, <2>3
  <2>5. writeError' \in BOOLEAN
    BY <2>2
  <2>6. pc' \in Pc /\ reply' \in {"none", "ok", "error"}
    BY <2>2 DEF Pc
  <2> QED
    BY <2>1, <2>2, <2>3, <2>4, <2>5, <2>6 DEF TypeOK
<1>8. CASE UNCHANGED vars
  BY <1>8 DEF TypeOK, vars, clientVars, writerVars
<1> QED
  BY <1>1, <1>2, <1>3, <1>4, <1>5, <1>6, <1>7, <1>8, ClientType, WriterType DEF Next

LEMMA InitType == Init => TypeOK
<1> SUFFICES ASSUME Init
             PROVE  TypeOK
  OBVIOUS
<1>1. Empty \in State
  BY DEF Empty, State
<1>2. journal \in Seq(State) /\ Len(journal) = 1
  BY <1>1 DEF Init
<1> QED
  BY <1>1, <1>2 DEF Init, TypeOK, Pc

(* The pipeline stays in its types; above all, the bounded channel of      *)
(* FjallCommitWriter never holds more than its capacity.                   *)
THEOREM TypeCorrect == Spec => []TypeOK
BY InitType, NextType, PTL DEF Spec

-----------------------------------------------------------------------------
(* Strict durability.  The committing thread waits for the writer, so the  *)
(* queue holds at most the one message it waits for, and the journal's     *)
(* last state, always synced, is the published one until that message is   *)
(* applied.                                                                *)

AtPublished == Last(journal).facts = root.facts

StrictInv ==
    /\ synced = Len(journal)
    /\ pc \notin {"record", "wait", "flushWait", "closing"} => queue = <<>>
    /\ pc \in {"record", "wait"} =>
          \/ queue = <<PersistMessage>> /\ reply = "none" /\ AtPublished
          \/ queue = <<>> /\ reply = "ok" /\ Last(journal) = pending
          \/ queue = <<>> /\ reply = "error" /\ AtPublished
    /\ pc = "flushWait" =>
          \/ queue = <<>>
          \/ queue = <<[kind |-> "flush"]>> /\ reply = "none"
    /\ pc = "closing" => queue = <<[kind |-> "shutdown"]>>
    /\ pc = "publish" => Last(journal) = pending
    /\ pc \notin {"record", "wait", "publish", "closed", "down"} => AtPublished

Strictly == mode = "Strict" => StrictInv

LEMMA StrictInit == Init => StrictInv
<1> SUFFICES ASSUME Init
             PROVE  StrictInv
  OBVIOUS
<1>1. /\ pc = "idle" /\ queue = <<>> /\ journal = <<Empty>> /\ synced = 1 /\ root = Empty
  BY DEF Init
<1>2. Len(journal) = 1 /\ Last(journal) = Empty
  BY <1>1 DEF Last
<1> QED
  BY <1>1, <1>2 DEF StrictInv, AtPublished

LEMMA StrictClient ==
    ASSUME TypeOK, StrictInv, mode = "Strict", ClientStep
    PROVE  StrictInv'
<1>1. UNCHANGED <<journal, synced>>
  BY DEF ClientStep, CheckWriterError, SendCommit, RecordQueued, ReceiveReply, Publish,
         SendFlush, FlushReturns, writerVars
<1>2. Last(journal)' = Last(journal)
  BY <1>1 DEF Last
<1>3. CASE CheckWriterError
  BY <1>1, <1>2, <1>3 DEF CheckWriterError, StrictInv, AtPublished, PersistMessage
<1>4. CASE SendCommit
  <2>1. /\ pc = "send" /\ pc' = "record" /\ reply' = "none"
        /\ queue' = Append(queue, PersistMessage)
        /\ UNCHANGED <<root, pending>>
    BY <1>4 DEF SendCommit, Send
  <2>2. queue = <<>> /\ AtPublished
    BY <2>1 DEF StrictInv
  <2>3. queue' = <<PersistMessage>>
    BY <2>1, <2>2
  <2>4. PersistMessage' = PersistMessage /\ AtPublished'
    BY <1>2, <2>1, <2>2 DEF PersistMessage, AtPublished
  <2> QED
    BY <1>1, <2>1, <2>3, <2>4 DEF StrictInv
<1>5. CASE RecordQueued
  <2>1. pc = "record" /\ pc' = "wait" /\ UNCHANGED <<root, pending, queue, reply>>
    BY <1>5 DEF RecordQueued
  <2> QED
    BY <1>1, <1>2, <2>1 DEF StrictInv, AtPublished, PersistMessage
<1>6. CASE ReceiveReply
  <2>1. /\ pc = "wait" /\ reply # "none" /\ pc' = IF reply = "ok" THEN "publish" ELSE "idle"
        /\ UNCHANGED <<root, pending, queue, reply>>
    BY <1>6 DEF ReceiveReply
  <2> QED
    BY <1>1, <1>2, <2>1 DEF StrictInv, AtPublished
<1>7. CASE Publish
  <2>1. /\ pc = "publish" /\ pc' = "idle" /\ root' = pending
        /\ UNCHANGED <<pending, queue, reply>>
    BY <1>7 DEF Publish
  <2> QED
    BY <1>1, <1>2, <2>1 DEF StrictInv, AtPublished
<1>8. CASE SendFlush
  <2>1. /\ pc = "flushSend" /\ pc' = "flushWait" /\ reply' = "none"
        /\ queue' = Append(queue, [kind |-> "flush"])
        /\ UNCHANGED <<root, pending>>
    BY <1>8 DEF SendFlush, Send
  <2>2. queue = <<>> /\ AtPublished
    BY <2>1 DEF StrictInv
  <2>3. queue' = <<[kind |-> "flush"]>> /\ AtPublished'
    BY <1>2, <2>1, <2>2 DEF AtPublished
  <2> QED
    BY <1>1, <2>1, <2>3 DEF StrictInv
<1>9. CASE FlushReturns
  <2>1. /\ pc = "flushWait" /\ reply # "none" /\ pc' = "idle"
        /\ UNCHANGED <<root, pending, queue, reply>>
    BY <1>9 DEF FlushReturns
  <2>2. queue = <<>> /\ AtPublished
    BY <2>1 DEF StrictInv
  <2> QED
    BY <1>1, <1>2, <2>1, <2>2 DEF StrictInv, AtPublished
<1> QED
  BY <1>3, <1>4, <1>5, <1>6, <1>7, <1>8, <1>9 DEF ClientStep

(* The batch of the commit in flight turns the published state into the    *)
(* pending one.                                                            *)
LEMMA AppliedPending ==
    ASSUME TypeOK, AtPublished
    PROVE  Applied(PersistMessage) = pending
<1>1. pending \in State /\ root \in State
  BY DEF TypeOK
<1>2. (root.facts \ (root.facts \ pending.facts)) \cup (pending.facts \ root.facts) = pending.facts
  OBVIOUS
<1>3. Applied(PersistMessage) = [version |-> pending.version, facts |-> pending.facts]
  BY <1>2 DEF Applied, PersistMessage, AtPublished
<1> QED
  BY <1>1, <1>3 DEF State

LEMMA SingleMessage ==
    ASSUME NEW m, queue = <<m>>
    PROVE  Head(queue) = m /\ Tail(queue) = <<>>
OBVIOUS

LEMMA StrictWriter ==
    ASSUME TypeOK, StrictInv, mode = "Strict", WriterStep
    PROVE  StrictInv'
<1>1. Up /\ queue # <<>>
  BY DEF WriterStep, WriteCommit, WriteFails, SyncJournal, SyncFails, WriterStops, Receive
<1>2. \/ pc \in {"record", "wait"} /\ queue = <<PersistMessage>> /\ AtPublished
      \/ pc = "flushWait" /\ queue = <<[kind |-> "flush"]>> /\ AtPublished
      \/ pc = "closing" /\ queue = <<[kind |-> "shutdown"]>> /\ AtPublished
  BY <1>1 DEF StrictInv, Up
<1>3. /\ queue = <<PersistMessage>> =>
            Head(queue) = PersistMessage /\ Head(queue).kind = "persist" /\ Tail(queue) = <<>>
      /\ queue = <<[kind |-> "flush"]>> => Head(queue).kind = "flush" /\ Tail(queue) = <<>>
      /\ queue = <<[kind |-> "shutdown"]>> => Head(queue).kind = "shutdown" /\ Tail(queue) = <<>>
  <2>1. /\ PersistMessage.kind = "persist"
        /\ [kind |-> "flush"].kind = "flush"
        /\ [kind |-> "shutdown"].kind = "shutdown"
    BY DEF PersistMessage
  <2>2. ASSUME NEW m, queue = <<m>>
        PROVE  Head(queue) = m /\ Tail(queue) = <<>>
    BY <2>2, SingleMessage
  <2> HIDE DEF PersistMessage
  <2>3. CASE queue = <<PersistMessage>>
    BY <2>1, <2>2, <2>3
  <2>4. CASE queue = <<[kind |-> "flush"]>>
    BY <2>1, <2>2, <2>4
  <2>5. CASE queue = <<[kind |-> "shutdown"]>>
    BY <2>1, <2>2, <2>5
  <2> QED
    BY <2>3, <2>4, <2>5
<1>4. Len(journal) \in Nat
  BY LastType
<1>5. CASE WriteCommit
  <2>1. /\ Head(queue).kind = "persist" /\ queue' = Tail(queue)
        /\ journal' = Append(journal, Applied(Head(queue)))
        /\ synced' = Len(journal) + 1
        /\ reply' = "ok"
        /\ UNCHANGED <<root, pc, pending>>
    BY <1>5 DEF WriteCommit, Receive, clientVars
  <2>2. pc \in {"record", "wait"} /\ Head(queue) = PersistMessage /\ queue' = <<>> /\ AtPublished
    BY <1>2, <1>3, <2>1
  <2>3. journal' = Append(journal, pending)
    BY <2>1, <2>2, AppliedPending
  <2>4. Len(journal') = Len(journal) + 1 /\ journal'[Len(journal) + 1] = pending
    BY <2>3 DEF TypeOK
  <2>5. Last(journal)' = pending
    BY <2>4 DEF Last
  <2> QED
    BY <2>1, <2>2, <2>4, <2>5 DEF StrictInv
<1>6. CASE WriteFails
  <2>1. /\ Head(queue).kind = "persist" /\ queue' = Tail(queue)
        /\ reply' = "error"
        /\ UNCHANGED <<root, pc, pending, journal, synced>>
    BY <1>6 DEF WriteFails, Receive, clientVars
  <2>2. pc \in {"record", "wait"} /\ queue' = <<>> /\ AtPublished
    BY <1>2, <1>3, <2>1
  <2>3. AtPublished'
    BY <2>1, <2>2 DEF AtPublished, Last
  <2> QED
    BY <2>1, <2>2, <2>3 DEF StrictInv
<1>7. CASE SyncJournal \/ SyncFails
  <2>1. /\ Head(queue).kind = "flush" /\ queue' = Tail(queue)
        /\ UNCHANGED <<root, pc, pending, journal>>
        /\ synced' \in {synced, Len(journal)}
    BY <1>7 DEF SyncJournal, SyncFails, Receive, clientVars
  <2>2. pc' = "flushWait" /\ queue' = <<>> /\ AtPublished
    BY <1>2, <1>3, <2>1
  <2>3. AtPublished'
    BY <2>1, <2>2 DEF AtPublished, Last
  <2>4. synced' = Len(journal')
    BY <2>1 DEF StrictInv
  <2>5. pc' \notin {"record", "wait", "closing", "publish"}
    BY <2>2
  <2> QED
    BY <2>2, <2>3, <2>4, <2>5 DEF StrictInv
<1>8. CASE WriterStops
  <2>1. /\ Head(queue).kind = "shutdown" /\ queue' = Tail(queue)
        /\ pc' = "closed"
        /\ UNCHANGED <<root, journal, synced>>
    BY <1>8 DEF WriterStops, Receive, writerVars
  <2>2. queue' = <<>>
    BY <1>2, <1>3, <2>1
  <2> QED
    BY <2>1, <2>2 DEF StrictInv
<1> QED
  BY <1>5, <1>6, <1>7, <1>8 DEF WriterStep

LEMMA StrictNext ==
    ASSUME TypeOK, StrictInv, mode = "Strict", [Next]_vars
    PROVE  StrictInv'
<1>1. ASSUME NEW facts \in SUBSET Fact, Commit(facts)
      PROVE  StrictInv'
  BY <1>1 DEF Commit, StrictInv, AtPublished, Last, writerVars
<1>2. CASE CommitVolatile
  <2>1. root'.facts = root.facts
    BY <1>2 DEF CommitVolatile, TypeOK, State
  <2> QED
    BY <1>2, <2>1 DEF CommitVolatile, StrictInv, AtPublished, Last, writerVars
<1>3. CASE Flush
  BY <1>3 DEF Flush, StrictInv, AtPublished, Last, writerVars
<1>4. CASE Close
  <2>1. /\ pc = "idle" /\ pc' = "closing" /\ queue' = Append(queue, [kind |-> "shutdown"])
        /\ UNCHANGED <<root, journal, synced>>
    BY <1>4 DEF Close, Send, writerVars
  <2>2. queue' = <<[kind |-> "shutdown"]>>
    BY <2>1 DEF StrictInv
  <2> QED
    BY <2>1, <2>2 DEF StrictInv, AtPublished, Last
<1>5. CASE Crash
  BY <1>5 DEF Crash, StrictInv, writerVars
<1>6. ASSUME NEW n \in synced..Len(journal), PowerFailure(n)
      PROVE  StrictInv'
  <2>1. n = Len(journal) /\ n \in Nat
    BY LastType DEF StrictInv
  <2>2. Len(journal') = n
    BY <1>6, <2>1 DEF PowerFailure, TypeOK
  <2> QED
    BY <1>6, <2>1, <2>2 DEF PowerFailure, StrictInv
<1>7. CASE Restart
  <2>1. /\ pc' = "idle" /\ root' = Last(journal) /\ journal' = <<Last(journal)>>
        /\ synced' = 1 /\ queue' = queue
    BY <1>7 DEF Restart
  <2>2. queue = <<>>
    BY <1>7 DEF Restart, Up, StrictInv
  <2>3. Len(journal') = 1 /\ Last(journal)' = Last(journal)
    BY <2>1 DEF Last
  <2> QED
    BY <2>1, <2>2, <2>3 DEF StrictInv, AtPublished
<1>8. CASE UNCHANGED vars
  BY <1>8 DEF StrictInv, AtPublished, Last, PersistMessage, vars, clientVars, writerVars
<1> QED
  BY <1>1, <1>2, <1>3, <1>4, <1>5, <1>6, <1>7, <1>8, StrictClient, StrictWriter DEF Next

(* In strict mode a restart after any crash or power failure loads the     *)
(* published durable state or that of the commit in flight: a commit that  *)
(* FjallCommitWriter::persist_commit acknowledged is never lost, and one   *)
(* it refused never comes back.                                            *)
THEOREM StrictRecovers == Spec => []RecoversPublished
<1>1. TypeOK /\ Strictly /\ [Next]_vars => Strictly'
  BY StrictNext, ModeFixed DEF Strictly
<1>2. TypeOK /\ Strictly => RecoversPublished
  <2> SUFFICES ASSUME TypeOK, StrictInv, Up, NEW n \in synced..Len(journal)
               PROVE  \/ journal[n].facts = root.facts
                      \/ InFlight /\ journal[n] = pending
    BY DEF RecoversPublished, Strictly
  <2>1. n = Len(journal)
    BY LastType DEF StrictInv
  <2> QED
    BY <2>1 DEF StrictInv, AtPublished, Last, Up, InFlight
<1>3. Init => Strictly
  BY StrictInit DEF Strictly
<1> QED
  BY <1>1, <1>2, <1>3, TypeCorrect, PTL DEF Spec
-----------------------------------------------------------------------------
(* Both modes.  Without a write error, the queued batches lead from the    *)
(* journal's last state to the newest state persist_commit accepted: there *)
(* is a chain of states, one per message of the queue, that begins in the  *)
(* journal and ends there.  Without any failure, every state of the chain  *)
(* and of the journal is the durable state of the version it records.      *)

Sent == pc \in {"record", "wait", "publish"}

Newest == IF Sent THEN pending ELSE root

NewestVersion == IF pc = "record" THEN pending.version ELSE queuedVersion

After(state, m) ==
    IF m.kind = "persist"
      THEN [version |-> m.version, facts |-> (state.facts \ m.retracts) \cup m.asserts]
      ELSE state

AtVersion(state) ==
    /\ state.version \in 0..MaxVersion
    /\ state.facts = factsAt[state.version]
    /\ Up => state.version <= Newest.version

Chain(c) ==
    /\ c[0] = Last(journal)
    /\ \A i \in 1..Len(queue) : c[i] = After(c[i - 1], queue[i])
    /\ c[Len(queue)].facts = Newest.facts
    /\ c[Len(queue)].version = NewestVersion
    /\ failures = 0 => \A i \in 0..Len(queue) : AtVersion(c[i])

Chained == \E c \in [0..Len(queue) -> State] : Chain(c)

(* The flush and the shutdown message stand behind every batch, and their  *)
(* sender waits.                                                           *)
QueueInv ==
    /\ \A i \in 1..Len(queue) :
          queue[i].kind # "persist" =>
              i = Len(queue) /\ ((pc = "flushWait" /\ reply = "none") \/ pc = "closing")
    /\ ~ Up => queue = <<>>
    /\ pc = "flushWait" /\ reply # "none" => queue = <<>>

ReplyInv ==
    /\ pc \in {"record", "wait"} /\ reply = "error" => writeError
    /\ pc = "flushWait" /\ reply = "ok" => ~ writeError /\ synced = Len(journal)

(* queued_version is behind a commit until RecordQueued.                   *)
VersionInv ==
    /\ pc \in {"check", "send"} \/ Sent => pending.version = root.version + 1
    /\ ~ writeError /\ pc # "down" =>
          IF pc \in {"wait", "publish"} THEN queuedVersion = pending.version
          ELSE queuedVersion <= root.version

FaultlessInv ==
    failures = 0 =>
        /\ ~ writeError
        /\ \A i \in 1..Len(journal) : AtVersion(journal[i])
        /\ root.version \in 0..MaxVersion /\ factsAt[root.version] = root.facts
        /\ pc \in {"check", "send"} \/ Sent =>
              pending.version \in 0..MaxVersion /\ factsAt[pending.version] = pending.facts

LogInv ==
    /\ QueueInv
    /\ ReplyInv
    /\ VersionInv
    /\ FaultlessInv
    /\ ~ writeError /\ pc # "down" => Chained
LEMMA NewestType ==
    ASSUME TypeOK
    PROVE  /\ Newest \in State /\ Newest.version \in Nat
           /\ NewestVersion \in Nat
           /\ root.version \in Nat /\ pending.version \in Nat
BY DEF TypeOK, State, Newest, NewestVersion

LEMMA SequencesType ==
    /\ TypeOK => queue \in Seq(Message) /\ journal \in Seq(State)
    /\ TypeOK' => queue' \in Seq(Message) /\ journal' \in Seq(State)
BY DEF TypeOK

LEMMA LogInit == Init => LogInv
<1> SUFFICES ASSUME Init
             PROVE  LogInv
  OBVIOUS
<1>1. /\ pc = "idle" /\ queue = <<>> /\ reply = "none" /\ queuedVersion = 0
      /\ journal = <<Empty>> /\ root = Empty /\ factsAt = [v \in 0..MaxVersion |-> {}]
      /\ writeError = FALSE
  BY DEF Init
<1>2. /\ Len(queue) = 0 /\ Len(journal) = 1 /\ journal[1] = Empty /\ Last(journal) = Empty
      /\ Empty \in State /\ Empty.version = 0 /\ Empty.facts = {}
  BY <1>1 DEF Last, Empty, State
<1>3. ~ Sent /\ Newest = Empty /\ NewestVersion = 0
  BY <1>1 DEF Sent, Newest, NewestVersion
<1>4. AtVersion(Empty)
  BY <1>1, <1>2, <1>3 DEF AtVersion
<1>5. Chained
  <2> DEFINE c == [i \in 0..0 |-> Empty]
  <2>1. c \in [0..Len(queue) -> State] /\ c[0] = Empty
    BY <1>2
  <2>2. Chain(c)
    BY <1>2, <1>3, <1>4, <2>1 DEF Chain
  <2> QED
    BY <2>1, <2>2 DEF Chained
<1>6. FaultlessInv
  BY <1>1, <1>2, <1>3, <1>4 DEF FaultlessInv
<1>7. QueueInv /\ ReplyInv /\ VersionInv
  BY <1>1, <1>2, <1>3 DEF QueueInv, ReplyInv, VersionInv, Up
<1> QED
  BY <1>5, <1>6, <1>7 DEF LogInv

(* A state that was right for its version stays so while the history does  *)
(* not change and the newest version does not go back.                     *)
LEMMA VersionKept ==
    ASSUME TypeOK, TypeOK', UNCHANGED factsAt, Up' => Up /\ Newest.version <= Newest'.version,
           NEW s \in State, AtVersion(s)
    PROVE  AtVersion(s)'
<1>1. s.version \in Nat
  BY DEF State
<1>2. Newest.version \in Nat
  BY NewestType
<1>3. Newest'.version \in Nat
  BY DEF TypeOK, State, Newest
<1> QED
  BY <1>1, <1>2, <1>3 DEF AtVersion

LEMMA JournalKept ==
    ASSUME TypeOK, UNCHANGED journal,
           \A i \in 1..Len(journal) : AtVersion(journal[i]),
           \A s \in State : AtVersion(s) => AtVersion(s)'
    PROVE  \A i \in 1..Len(journal') : AtVersion(journal[i])'
<1> SUFFICES ASSUME NEW i \in 1..Len(journal)
             PROVE  AtVersion(journal[i])'
  OBVIOUS
<1>1. journal[i] \in State
  BY DEF TypeOK
<1>2. PICK s \in State : s = journal[i]
  BY <1>1
<1>3. AtVersion(s)'
  BY <1>2
<1> QED
  BY <1>2, <1>3 DEF AtVersion

(* The client moves between two messages.                                  *)
LEMMA ChainKept ==
    ASSUME TypeOK, Chained, UNCHANGED <<queue, journal, failures>>,
           Newest'.facts = Newest.facts, NewestVersion' = NewestVersion,
           failures = 0 => \A s \in State : AtVersion(s) => AtVersion(s)'
    PROVE  Chained'
<1>1. PICK c \in [0..Len(queue) -> State] : Chain(c)
  BY DEF Chained
<1>2. Last(journal)' = Last(journal)
  BY DEF Last
<1>3. Chain(c)'
  <2>1. failures = 0 => \A i \in 0..Len(queue) : AtVersion(c[i])'
    BY <1>1 DEF Chain
  <2> QED
    BY <1>1, <1>2, <2>1 DEF Chain
<1> QED
  BY <1>1, <1>3 DEF Chained

(* A message is queued: the chain grows by the state it leads to.          *)
LEMMA ChainAppend ==
    ASSUME TypeOK, NEW m \in Message, queue' = Append(queue, m), UNCHANGED <<journal, failures>>,
           NEW c \in [0..Len(queue) -> State], Chain(c),
           NEW s \in State, s = After(c[Len(queue)], m),
           Newest'.facts = s.facts, NewestVersion' = s.version,
           failures = 0 => AtVersion(s)' /\ \A r \in State : AtVersion(r) => AtVersion(r)'
    PROVE  Chained'
<1> DEFINE n == Len(queue)
<1>1. n \in Nat /\ Len(queue') = n + 1 /\ queue'[n + 1] = m
      /\ \A i \in 1..n : queue'[i] = queue[i]
  BY DEF TypeOK
<1>2. Last(journal)' = Last(journal)
  BY DEF Last
<1>3. c[0] = Last(journal) /\ \A i \in 1..n : c[i] = After(c[i - 1], queue[i])
  BY DEF Chain
<1>4. failures = 0 => \A i \in 0..n : AtVersion(c[i])'
  BY DEF Chain
<1> HIDE DEF n
<1>5. PICK d \in [0..(n + 1) -> State] : d[n + 1] = s /\ \A i \in 0..n : d[i] = c[i]
  <2> DEFINE longer == [i \in 0..(n + 1) |-> IF i = n + 1 THEN s ELSE c[i]]
  <2>1. longer \in [0..(n + 1) -> State] /\ longer[n + 1] = s /\ \A i \in 0..n : longer[i] = c[i]
    BY <1>1 DEF n
  <2> QED
    BY <2>1
<1>6. \A i \in 1..(n + 1) : d[i] = After(d[i - 1], queue'[i])
  <2> SUFFICES ASSUME NEW i \in 1..(n + 1)
               PROVE  d[i] = After(d[i - 1], queue'[i])
    OBVIOUS
  <2>1. CASE i = n + 1
    <3>1. d[i] = s /\ d[i - 1] = c[n] /\ queue'[i] = m
      BY <1>1, <1>5, <2>1
    <3> QED
      BY <3>1 DEF n
  <2>2. CASE i # n + 1
    <3>1. i \in 1..n /\ i - 1 \in 0..n /\ i \in 0..n
      BY <1>1, <2>2
    <3>2. d[i] = c[i] /\ d[i - 1] = c[i - 1] /\ queue'[i] = queue[i]
      BY <1>1, <1>5, <3>1
    <3> QED
      BY <1>3, <3>1, <3>2
  <2> QED
    BY <2>1, <2>2
<1>7. failures = 0 => \A i \in 0..(n + 1) : AtVersion(d[i])'
  <2> SUFFICES ASSUME failures = 0, NEW i \in 0..(n + 1)
               PROVE  AtVersion(d[i])'
    OBVIOUS
  <2>1. i = n + 1 \/ i \in 0..n
    BY <1>1
  <2> QED
    BY <1>4, <1>5, <2>1
<1>8. Chain(d)'
  BY <1>1, <1>2, <1>3, <1>5, <1>6, <1>7 DEF Chain
<1> QED
  BY <1>1, <1>5, <1>8 DEF Chained

(* The writer takes the first message: the chain begins one state later.   *)
LEMMA ChainTail ==
    ASSUME TypeOK, Chained, queue # <<>>, queue' = Tail(queue), failures' = 0 => failures = 0,
           Last(journal)' = After(Last(journal), Head(queue)),
           Newest'.facts = Newest.facts, NewestVersion' = NewestVersion,
           failures = 0 => \A s \in State : AtVersion(s) => AtVersion(s)'
    PROVE  /\ Chained'
           /\ failures = 0 => AtVersion(Last(journal))'
<1> DEFINE n == Len(queue)
<1>1. PICK c \in [0..n -> State] : Chain(c)
  BY DEF Chained
<1>2. /\ n \in Nat /\ n >= 1 /\ Len(queue') = n - 1 /\ Head(queue) = queue[1]
      /\ \A i \in 1..(n - 1) : queue'[i] = queue[i + 1]
  BY DEF TypeOK
<1>3. /\ c[0] = Last(journal) /\ \A i \in 1..n : c[i] = After(c[i - 1], queue[i])
      /\ c[n].facts = Newest.facts /\ c[n].version = NewestVersion
      /\ failures = 0 => \A i \in 0..n : AtVersion(c[i])
  BY <1>1 DEF Chain
<1> HIDE DEF n
<1>4. PICK d \in [0..(n - 1) -> State] :
          \A i \in 0..(n - 1) : d[i] = c[i + 1] /\ c[i + 1] \in State
  <2> DEFINE later == [i \in 0..(n - 1) |-> c[i + 1]]
  <2>1. /\ later \in [0..(n - 1) -> State]
        /\ \A i \in 0..(n - 1) : later[i] = c[i + 1] /\ c[i + 1] \in State
    BY <1>2
  <2> QED
    BY <2>1
<1>5. d[0] = Last(journal)' /\ d[n - 1] = c[n] /\ c[1] = Last(journal)'
  <2>0. 0 \in 0..(n - 1) /\ n - 1 \in 0..(n - 1) /\ (n - 1) + 1 = n /\ 0 + 1 = 1
    BY <1>2
  <2>1. d[0] = c[1] /\ d[n - 1] = c[n]
    BY <1>4, <2>0
  <2>2. c[1] = After(c[0], queue[1])
    BY <1>2, <1>3
  <2> QED
    BY <1>2, <1>3, <2>1, <2>2
<1>6. \A i \in 1..(n - 1) : d[i] = After(d[i - 1], queue'[i])
  <2> SUFFICES ASSUME NEW i \in 1..(n - 1)
               PROVE  d[i] = After(d[i - 1], queue'[i])
    OBVIOUS
  <2>1. i + 1 \in 1..n /\ i - 1 \in 0..(n - 1) /\ i \in 0..(n - 1)
        /\ (i - 1) + 1 = i /\ (i + 1) - 1 = i
    BY <1>2
  <2>2. d[i] = c[i + 1] /\ d[i - 1] = c[i] /\ queue'[i] = queue[i + 1]
    BY <1>2, <1>4, <2>1
  <2>3. c[i + 1] = After(c[i], queue[i + 1])
    BY <1>3, <2>1
  <2> QED
    BY <2>2, <2>3
<1>7. failures = 0 => \A i \in 0..(n - 1) : AtVersion(d[i])'
  <2> SUFFICES ASSUME failures = 0, NEW i \in 0..(n - 1)
               PROVE  AtVersion(d[i])'
    OBVIOUS
  <2>1. AtVersion(c[i + 1]) /\ c[i + 1] \in State
    BY <1>2, <1>3, <1>4
  <2>2. AtVersion(c[i + 1])'
    BY <2>1
  <2> QED
    BY <1>4, <2>2
<1>8. Chain(d)'
  BY <1>2, <1>3, <1>5, <1>6, <1>7 DEF Chain
<1>9. failures = 0 => AtVersion(Last(journal))'
  <2>0. 0 \in 0..(n - 1)
    BY <1>2
  <2>1. failures = 0 => AtVersion(d[0])'
    BY <1>7, <2>0
  <2> QED
    BY <1>5, <2>1 DEF AtVersion
<1> QED
  BY <1>2, <1>4, <1>8, <1>9 DEF Chained
(* A step of the client that sends nothing and leaves the writer alone.    *)
LEMMA ClientQuiet ==
    ASSUME TypeOK, TypeOK', LogInv, UNCHANGED <<factsAt, queue, reply, writerVars>>,
           Up, Up', pc # "flushWait" \/ queue = <<>>, pc # "closing",
           pc' \notin {"flushWait", "closing", "record"}, VersionInv',
           pc' = "wait" => pc \in {"record", "wait"},
           ~ writeError => /\ Newest'.facts = Newest.facts /\ NewestVersion' = NewestVersion
                           /\ Newest.version <= Newest'.version,
           failures = 0 =>
               /\ root'.version \in 0..MaxVersion /\ factsAt[root'.version] = root'.facts
               /\ pc' \in {"check", "send"} \/ Sent' =>
                     pending'.version \in 0..MaxVersion
                     /\ factsAt[pending'.version] = pending'.facts
    PROVE  LogInv'
<1>1. UNCHANGED <<journal, failures, writeError, synced>>
  BY DEF writerVars
<1>2. failures = 0 => ~ writeError
  BY DEF LogInv, FaultlessInv
<1>3. failures = 0 => \A s \in State : AtVersion(s) => AtVersion(s)'
  BY <1>2, VersionKept
<1>4. QueueInv'
  <2>1. \A i \in 1..Len(queue) : queue[i].kind = "persist"
    <3> SUFFICES ASSUME NEW i \in 1..Len(queue), queue[i].kind # "persist"
                 PROVE  FALSE
      OBVIOUS
    <3>1. queue # <<>> /\ pc \in {"flushWait", "closing"}
      BY DEF LogInv, QueueInv
    <3> QED
      BY <3>1
  <2> QED
    BY <2>1 DEF QueueInv
<1>5. ReplyInv'
  BY <1>1 DEF LogInv, ReplyInv
<1>6. FaultlessInv'
  <2>1. failures = 0 => \A i \in 1..Len(journal') : AtVersion(journal[i])'
    BY <1>1, <1>3, JournalKept DEF LogInv, FaultlessInv
  <2> QED
    BY <1>1, <1>2, <2>1 DEF FaultlessInv
<1>7. ~ writeError' /\ pc' # "down" => Chained'
  BY <1>1, <1>3, ChainKept DEF LogInv, Up
<1> QED
  BY <1>4, <1>5, <1>6, <1>7 DEF LogInv

LEMMA LogCommit ==
    ASSUME TypeOK, TypeOK', LogInv, NEW facts \in SUBSET Fact, Commit(facts)
    PROVE  LogInv'
<1> DEFINE v == root.version + 1
<1>1. /\ pc = "idle" /\ pc' = "check" /\ v \in 1..MaxVersion /\ root.version \in Nat
      /\ pending' = [version |-> v, facts |-> facts]
      /\ factsAt' = [factsAt EXCEPT ![v] = facts]
      /\ UNCHANGED <<root, queue, reply, queuedVersion, journal, failures, writeError, synced>>
  BY DEF Commit, TypeOK, State, writerVars
<1>2. pending'.version = v /\ pending'.facts = facts
  BY <1>1
<1>3. /\ factsAt'[v] = facts /\ \A u \in 0..MaxVersion : u # v => factsAt'[u] = factsAt[u]
  BY <1>1 DEF TypeOK
<1>4. ~ Sent /\ ~ Sent' /\ Newest' = Newest /\ Newest = root /\ NewestVersion' = NewestVersion
      /\ Up /\ Up'
  BY <1>1 DEF Sent, Newest, NewestVersion, Up
<1>5. \A s \in State : AtVersion(s) => AtVersion(s)'
  <2> SUFFICES ASSUME NEW s \in State, AtVersion(s)
               PROVE  AtVersion(s)'
    OBVIOUS
  <2>1. s.version \in 0..MaxVersion /\ s.version # v
    BY <1>1, <1>4 DEF AtVersion
  <2> QED
    BY <1>3, <1>4, <2>1 DEF AtVersion
<1>6. QueueInv' /\ ReplyInv'
  <2>1. \A i \in 1..Len(queue) : queue[i].kind = "persist"
    BY <1>1 DEF LogInv, QueueInv, TypeOK
  <2> QED
    BY <1>1, <2>1 DEF QueueInv, ReplyInv, Up
<1>7. VersionInv'
  BY <1>1, <1>2, <1>4 DEF LogInv, VersionInv
<1>8. FaultlessInv'
  <2>1. failures = 0 => \A i \in 1..Len(journal') : AtVersion(journal[i])'
    BY <1>1, <1>5, JournalKept DEF LogInv, FaultlessInv
  <2>2. failures = 0 => root.version \in 0..MaxVersion /\ factsAt'[root.version] = root.facts
    BY <1>1, <1>3 DEF LogInv, FaultlessInv
  <2> QED
    BY <1>1, <1>2, <1>3, <2>1, <2>2 DEF LogInv, FaultlessInv
<1>9. ~ writeError' /\ pc' # "down" => Chained'
  BY <1>1, <1>4, <1>5, ChainKept DEF LogInv
<1> QED
  BY <1>6, <1>7, <1>8, <1>9 DEF LogInv

LEMMA LogVolatile ==
    ASSUME TypeOK, TypeOK', LogInv, CommitVolatile
    PROVE  LogInv'
<1> DEFINE v == root.version + 1
<1>1. /\ pc = "idle" /\ pc' = "idle" /\ v \in 1..MaxVersion /\ root.version \in Nat
      /\ root'.version = v /\ root'.facts = root.facts
      /\ factsAt' = [factsAt EXCEPT ![v] = root.facts]
      /\ UNCHANGED <<pending, queue, reply, queuedVersion, journal, failures, writeError, synced>>
  BY DEF CommitVolatile, TypeOK, State, writerVars
<1>2. factsAt'[v] = root.facts /\ \A u \in 0..MaxVersion : u # v => factsAt'[u] = factsAt[u]
  BY <1>1 DEF TypeOK
<1>3. /\ ~ Sent /\ ~ Sent' /\ Newest = root /\ Newest' = root' /\ NewestVersion' = NewestVersion
      /\ Up /\ Up'
  BY <1>1 DEF Sent, Newest, NewestVersion, Up
<1>4. \A s \in State : AtVersion(s) => AtVersion(s)'
  <2> SUFFICES ASSUME NEW s \in State, AtVersion(s)
               PROVE  AtVersion(s)'
    OBVIOUS
  <2>1. s.version \in 0..MaxVersion /\ s.version # v /\ s.version <= v
    BY <1>1, <1>3 DEF AtVersion
  <2> QED
    BY <1>1, <1>2, <1>3, <2>1 DEF AtVersion
<1>5. QueueInv' /\ ReplyInv'
  BY <1>1 DEF LogInv, QueueInv, ReplyInv, Up
<1>6. VersionInv'
  BY <1>1, <1>3 DEF LogInv, VersionInv, TypeOK
<1>7. FaultlessInv'
  <2>1. failures = 0 => \A i \in 1..Len(journal') : AtVersion(journal[i])'
    BY <1>1, <1>4, JournalKept DEF LogInv, FaultlessInv
  <2> QED
    BY <1>1, <1>2, <1>3, <2>1 DEF LogInv, FaultlessInv
<1>8. ~ writeError' /\ pc' # "down" => Chained'
  BY <1>1, <1>3, <1>4, ChainKept DEF LogInv
<1> QED
  BY <1>5, <1>6, <1>7, <1>8 DEF LogInv
(* A flush or a shutdown message goes behind all that is queued.           *)
LEMMA LogControl ==
    ASSUME TypeOK, TypeOK', LogInv, NEW m \in Message, m.kind # "persist", Send(m),
           UNCHANGED <<root, pending, factsAt, queuedVersion, writerVars>>,
           \/ pc = "flushSend" /\ pc' = "flushWait"
           \/ pc = "idle" /\ pc' = "closing"
    PROVE  LogInv'
<1>1. /\ queue' = Append(queue, m) /\ reply' = "none"
      /\ UNCHANGED <<journal, failures, writeError, synced>>
  BY DEF Send, writerVars
<1>2. /\ ~ Sent /\ ~ Sent' /\ Newest = root /\ Newest' = root /\ NewestVersion = queuedVersion
      /\ NewestVersion' = queuedVersion /\ Up /\ Up' /\ root.version \in Nat
  BY NewestType DEF Sent, Newest, NewestVersion, Up
<1>3. \A s \in State : AtVersion(s) => AtVersion(s)'
  BY <1>2, VersionKept
<1>4. QueueInv'
  <2>1. \A i \in 1..Len(queue) : queue[i].kind = "persist"
    BY DEF LogInv, QueueInv, TypeOK
  <2>2. \A i \in 1..Len(queue') : queue'[i].kind = "persist" \/ i = Len(queue')
    BY <1>1, <2>1 DEF TypeOK
  <2> QED
    BY <1>1, <1>2, <2>2 DEF QueueInv
<1>5. ReplyInv' /\ VersionInv'
  BY <1>1, <1>2 DEF LogInv, ReplyInv, VersionInv
<1>6. FaultlessInv'
  <2>1. failures = 0 => \A i \in 1..Len(journal') : AtVersion(journal[i])'
    BY <1>1, <1>3, JournalKept DEF LogInv, FaultlessInv
  <2> QED
    BY <1>1, <1>2, <2>1 DEF LogInv, FaultlessInv
<1>7. ~ writeError' /\ pc' # "down" => Chained'
  <2> SUFFICES ASSUME ~ writeError
               PROVE  Chained'
    BY <1>1
  <2>1. PICK c \in [0..Len(queue) -> State] : Chain(c)
    BY <1>2 DEF LogInv, Chained, Up
  <2>2. PICK s \in State : s = c[Len(queue)]
    BY DEF TypeOK
  <2>3. s = After(c[Len(queue)], m)
    BY <2>2 DEF After
  <2>4. s.facts = Newest'.facts /\ s.version = NewestVersion'
    BY <1>2, <2>1, <2>2 DEF Chain
  <2>5. failures = 0 => AtVersion(s)
    BY <2>1, <2>2 DEF Chain, TypeOK
  <2> QED
    BY <1>1, <1>3, <2>1, <2>3, <2>4, <2>5, ChainAppend
<1> QED
  BY <1>4, <1>5, <1>6, <1>7 DEF LogInv

(* persist_commit queues the batch that leads from the published state to  *)
(* the pending one.                                                        *)
LEMMA LogSend ==
    ASSUME TypeOK, TypeOK', LogInv, SendCommit
    PROVE  LogInv'
<1>1. /\ pc = "send" /\ pc' = "record" /\ reply' = "none"
      /\ queue' = Append(queue, PersistMessage)
      /\ UNCHANGED <<root, pending, factsAt, queuedVersion, journal, failures, writeError, synced>>
  BY DEF SendCommit, Send, writerVars
<1>2. /\ ~ Sent /\ Sent' /\ Newest = root /\ Newest' = pending /\ NewestVersion = queuedVersion
      /\ NewestVersion' = pending.version /\ Up /\ Up'
      /\ root.version \in Nat /\ pending.version = root.version + 1
  BY <1>1, NewestType DEF Sent, Newest, NewestVersion, Up, LogInv, VersionInv
<1>3. \A s \in State : AtVersion(s) => AtVersion(s)'
  BY <1>1, <1>2, VersionKept
<1>4. QueueInv'
  <2>1. \A i \in 1..Len(queue) : queue[i].kind = "persist"
    BY <1>1 DEF LogInv, QueueInv, TypeOK
  <2>2. PersistMessage.kind = "persist"
    BY DEF PersistMessage
  <2> HIDE DEF PersistMessage
  <2>3. \A i \in 1..Len(queue') : queue'[i].kind = "persist"
    BY <1>1, <2>1, <2>2 DEF TypeOK
  <2> QED
    BY <1>1, <1>2, <2>3 DEF QueueInv
<1>5. ReplyInv' /\ VersionInv'
  BY <1>1, <1>2 DEF LogInv, ReplyInv, VersionInv
<1>6. FaultlessInv'
  <2>1. failures = 0 => \A i \in 1..Len(journal') : AtVersion(journal[i])'
    BY <1>1, <1>3, JournalKept DEF LogInv, FaultlessInv
  <2> QED
    BY <1>1, <1>2, <2>1 DEF LogInv, FaultlessInv
<1>7. ~ writeError' /\ pc' # "down" => Chained'
  <2> SUFFICES ASSUME ~ writeError
               PROVE  Chained'
    BY <1>1
  <2>1. PICK c \in [0..Len(queue) -> State] : Chain(c)
    BY <1>1 DEF LogInv, Chained
  <2>2. PICK s \in State : s = pending
    BY DEF TypeOK
  <2>3. PICK m \in Message : m = PersistMessage
    BY DEF PersistMessage, Message, Batch, TypeOK, State
  <2>4. c[Len(queue)].facts = root.facts
    BY <1>2, <2>1 DEF Chain
  <2>5. s = After(c[Len(queue)], m)
    <3>1. (root.facts \ (root.facts \ pending.facts)) \cup (pending.facts \ root.facts) = pending.facts
      OBVIOUS
    <3>2. After(c[Len(queue)], m) = [version |-> pending.version, facts |-> pending.facts]
      BY <2>3, <2>4, <3>1 DEF After, PersistMessage
    <3> QED
      BY <2>2, <3>2 DEF State
  <2>6. failures = 0 => AtVersion(s)'
    BY <1>1, <1>2, <2>2 DEF LogInv, FaultlessInv, AtVersion
  <2>7. Newest'.facts = s.facts /\ NewestVersion' = s.version
    BY <1>2, <2>2
  <2> QED
    BY <1>1, <1>3, <2>1, <2>3, <2>5, <2>6, <2>7, ChainAppend
<1> QED
  BY <1>4, <1>5, <1>6, <1>7 DEF LogInv

LEMMA LogClient ==
    ASSUME TypeOK, TypeOK', LogInv, ClientStep
    PROVE  LogInv'
<1>0. /\ root.version \in Nat /\ pending.version \in Nat /\ queuedVersion \in Nat
  BY NewestType DEF TypeOK
<1>1. CASE CheckWriterError
  <2>1. /\ pc \in {"check", "flushCheck"} /\ pc' \in {"idle", "send", "flushSend"}
        /\ pc' = "send" => pc = "check"
        /\ UNCHANGED <<root, pending, factsAt, queue, reply, queuedVersion, writerVars>>
    BY <1>1 DEF CheckWriterError
  <2>2. /\ Up /\ Up' /\ ~ Sent /\ ~ Sent' /\ Newest' = Newest /\ NewestVersion' = NewestVersion
    BY <2>1 DEF Up, Sent, Newest, NewestVersion
  <2>3. VersionInv'
    BY <2>1, <2>2 DEF LogInv, VersionInv, writerVars
  <2>4. failures = 0 =>
            /\ root'.version \in 0..MaxVersion /\ factsAt[root'.version] = root'.facts
            /\ pc' \in {"check", "send"} \/ Sent' =>
                  pending'.version \in 0..MaxVersion /\ factsAt[pending'.version] = pending'.facts
    BY <2>1, <2>2 DEF LogInv, FaultlessInv
  <2>5. Newest.version <= Newest'.version
    BY <2>2, NewestType
  <2> QED
    BY <2>1, <2>2, <2>3, <2>4, <2>5, ClientQuiet
<1>2. CASE SendCommit
  BY <1>2, LogSend
<1>3. CASE RecordQueued
  <2>1. /\ pc = "record" /\ pc' \in {"wait", "publish"}
        /\ queuedVersion' = Larger(queuedVersion, pending.version)
        /\ UNCHANGED <<root, pending, factsAt, queue, reply, writerVars>>
    BY <1>3 DEF RecordQueued
  <2>2. Up /\ Up' /\ Sent /\ Sent' /\ Newest = pending /\ Newest' = pending
    BY <2>1 DEF Up, Sent, Newest
  <2>3. ~ writeError => queuedVersion' = pending.version
    BY <1>0, <2>1, <2>2 DEF LogInv, VersionInv, Larger
  <2>4. VersionInv'
    BY <2>1, <2>2, <2>3 DEF LogInv, VersionInv, writerVars
  <2>5. ~ writeError => NewestVersion' = NewestVersion
    BY <2>1, <2>3 DEF NewestVersion
  <2>6. failures = 0 =>
            /\ root'.version \in 0..MaxVersion /\ factsAt[root'.version] = root'.facts
            /\ pc' \in {"check", "send"} \/ Sent' =>
                  pending'.version \in 0..MaxVersion /\ factsAt[pending'.version] = pending'.facts
    BY <2>1, <2>2 DEF LogInv, FaultlessInv
  <2> QED
    BY <1>0, <2>1, <2>2, <2>4, <2>5, <2>6, ClientQuiet
<1>4. CASE ReceiveReply
  <2>1. /\ pc = "wait" /\ reply # "none" /\ pc' = IF reply = "ok" THEN "publish" ELSE "idle"
        /\ UNCHANGED <<root, pending, factsAt, queue, reply, queuedVersion, writerVars>>
    BY <1>4 DEF ReceiveReply
  <2>2. Up /\ Up' /\ Sent
    BY <2>1 DEF Up, Sent
  <2>3. ~ writeError => pc' = "publish" /\ Sent' /\ Newest' = Newest /\ NewestVersion' = NewestVersion
    BY <2>1 DEF LogInv, ReplyInv, Sent, Newest, NewestVersion, TypeOK
  <2>4. VersionInv'
    BY <2>1, <2>2, <2>3 DEF LogInv, VersionInv, writerVars, Sent
  <2>5. failures = 0 =>
            /\ root'.version \in 0..MaxVersion /\ factsAt[root'.version] = root'.facts
            /\ pc' \in {"check", "send"} \/ Sent' =>
                  pending'.version \in 0..MaxVersion /\ factsAt[pending'.version] = pending'.facts
    BY <2>1, <2>2 DEF LogInv, FaultlessInv
  <2>6. ~ writeError => Newest.version <= Newest'.version
    BY <2>3, NewestType
  <2> QED
    BY <2>1, <2>2, <2>3, <2>4, <2>5, <2>6, ClientQuiet
<1>5. CASE Publish
  <2>1. /\ pc = "publish" /\ pc' = "idle" /\ root' = pending
        /\ UNCHANGED <<pending, factsAt, queue, reply, queuedVersion, writerVars>>
    BY <1>5 DEF Publish
  <2>2. /\ Up /\ Up' /\ Sent /\ ~ Sent' /\ Newest' = Newest /\ NewestVersion' = NewestVersion
    BY <2>1 DEF Up, Sent, Newest, NewestVersion
  <2>3. VersionInv'
    BY <1>0, <2>1, <2>2 DEF LogInv, VersionInv, writerVars
  <2>4. failures = 0 =>
            /\ root'.version \in 0..MaxVersion /\ factsAt[root'.version] = root'.facts
            /\ pc' \in {"check", "send"} \/ Sent' =>
                  pending'.version \in 0..MaxVersion /\ factsAt[pending'.version] = pending'.facts
    BY <2>1, <2>2 DEF LogInv, FaultlessInv
  <2>5. Newest.version <= Newest'.version
    BY <2>2, NewestType
  <2> QED
    BY <2>1, <2>2, <2>3, <2>4, <2>5, ClientQuiet
<1>6. CASE SendFlush
  <2>1. [kind |-> "flush"] \in Message /\ [kind |-> "flush"].kind # "persist"
    BY DEF Message
  <2>2. /\ Send([kind |-> "flush"]) /\ pc = "flushSend" /\ pc' = "flushWait"
        /\ UNCHANGED <<root, pending, factsAt, queuedVersion, writerVars>>
    BY <1>6 DEF SendFlush
  <2> QED
    BY <2>1, <2>2, LogControl
<1>7. CASE FlushReturns
  <2>1. /\ pc = "flushWait" /\ reply # "none" /\ pc' = "idle"
        /\ UNCHANGED <<root, pending, factsAt, queue, reply, queuedVersion, writerVars>>
    BY <1>7 DEF FlushReturns
  <2>2. /\ Up /\ Up' /\ ~ Sent /\ ~ Sent' /\ Newest' = Newest /\ NewestVersion' = NewestVersion
        /\ queue = <<>>
    BY <2>1 DEF Up, Sent, Newest, NewestVersion, LogInv, QueueInv
  <2>3. VersionInv'
    BY <2>1, <2>2 DEF LogInv, VersionInv, writerVars
  <2>4. failures = 0 => root'.version \in 0..MaxVersion /\ factsAt[root'.version] = root'.facts
    BY <2>1, <2>2 DEF LogInv, FaultlessInv
  <2>5. Newest.version <= Newest'.version
    BY <2>2, NewestType
  <2> QED
    BY <2>1, <2>2, <2>3, <2>4, <2>5, ClientQuiet
<1> QED
  BY <1>1, <1>2, <1>3, <1>4, <1>5, <1>6, <1>7 DEF ClientStep
(* The writer takes a message.  The three cases of its effect on the       *)
(* journal are in LogWriter.                                               *)
LEMMA LogReceive ==
    ASSUME TypeOK, TypeOK', Strictly, LogInv,
           NEW kind \in {"persist", "flush", "shutdown"}, Receive(kind),
           UNCHANGED <<root, pending, factsAt, queuedVersion>>,
           pc' = pc \/ (kind = "shutdown" /\ pc' = "closed"),
           kind = "persist" => mode = "Strict" \/ reply' = reply,
           kind = "shutdown" => reply' = reply
    PROVE  /\ QueueInv'
           /\ queue # <<>> /\ queue' = Tail(queue) /\ Head(queue).kind = kind /\ Up
           /\ kind # "persist" => pc \in {"flushWait", "closing"}
           /\ kind = "persist" /\ mode = "Strict" => pc \in {"record", "wait"}
           /\ kind = "persist" /\ pc = "flushWait" => reply = "none" /\ reply' = "none"
           /\ Newest' = Newest /\ NewestVersion' = NewestVersion
           /\ \A s \in State : AtVersion(s) => AtVersion(s)'
<1>1. queue # <<>> /\ queue' = Tail(queue) /\ Head(queue).kind = kind /\ Up
  BY DEF Receive
<1>2. /\ Len(queue) \in Nat /\ Len(queue) >= 1 /\ Len(queue') = Len(queue) - 1
      /\ Head(queue) = queue[1]
      /\ \A i \in 1..Len(queue') : i + 1 \in 1..Len(queue) /\ queue'[i] = queue[i + 1]
  BY <1>1 DEF TypeOK
<1>3. kind # "persist" => pc \in {"flushWait", "closing"} /\ Len(queue) = 1
  <2>1. 1 \in 1..Len(queue) /\ queue[1].kind = kind
    BY <1>1, <1>2
  <2> QED
    BY <2>1 DEF LogInv, QueueInv
<1>4. kind # "persist" => queue' = <<>>
  <2> SUFFICES ASSUME kind # "persist"
               PROVE  queue' = <<>>
    OBVIOUS
  <2>1. queue \in Seq(Message) /\ Len(queue) = 1
    BY <1>3, SequencesType
  <2> QED
    BY <1>1, <2>1
<1>5. kind = "persist" /\ mode = "Strict" => pc \in {"record", "wait"}
  <2> SUFFICES ASSUME kind = "persist", mode = "Strict"
               PROVE  pc \in {"record", "wait"}
    OBVIOUS
  <2>1. StrictInv
    BY DEF Strictly
  <2>2. \/ pc \in {"record", "wait"}
        \/ queue = <<[kind |-> "flush"]>>
        \/ queue = <<[kind |-> "shutdown"]>>
    BY <1>1, <2>1 DEF StrictInv, Up
  <2>3. queue # <<[kind |-> "flush"]>> /\ queue # <<[kind |-> "shutdown"]>>
    BY <1>1
  <2> QED
    BY <2>2, <2>3
<1>6. kind = "persist" /\ pc = "flushWait" => reply = "none" /\ reply' = "none"
  BY <1>1, <1>5 DEF LogInv, QueueInv
<1>7. Newest' = Newest /\ NewestVersion' = NewestVersion
  BY <1>3 DEF Newest, Sent, NewestVersion
<1>8. \A s \in State : AtVersion(s) => AtVersion(s)'
  BY <1>1, <1>7, NewestType, VersionKept
<1>9. QueueInv'
  <2>1. CASE kind # "persist"
    <3>1. queue' = <<>> /\ Len(queue') = 0
      BY <1>3, <1>4, <1>2, <2>1
    <3> QED
      BY <3>1 DEF QueueInv
  <2>2. CASE kind = "persist"
    <3>1. pc' = pc /\ Up'
      BY <1>1, <2>2 DEF Up
    <3>2. ASSUME NEW i \in 1..Len(queue'), queue'[i].kind # "persist"
          PROVE  i = Len(queue') /\ ((pc' = "flushWait" /\ reply' = "none") \/ pc' = "closing")
      <4>1. i + 1 \in 1..Len(queue) /\ queue[i + 1].kind # "persist"
        BY <1>2, <3>2
      <4>2. i + 1 = Len(queue) /\ pc \in {"flushWait", "closing"}
        BY <4>1 DEF LogInv, QueueInv
      <4> QED
        BY <1>2, <1>6, <2>2, <3>1, <4>2
    <3> QED
      BY <1>6, <2>2, <3>1, <3>2 DEF QueueInv
  <2> QED
    BY <2>1, <2>2
<1> QED
  BY <1>1, <1>3, <1>5, <1>6, <1>7, <1>8, <1>9

LEMMA LogWriter ==
    ASSUME TypeOK, TypeOK', Strictly, LogInv, WriterStep
    PROVE  LogInv'
<1>1. CASE WriteCommit
  <2>1. /\ Receive("persist") /\ journal' = Append(journal, Applied(Head(queue)))
        /\ reply' = (IF mode = "Strict" THEN "ok" ELSE reply)
        /\ UNCHANGED <<root, pc, pending, factsAt, queuedVersion, writeError, failures>>
    BY <1>1 DEF WriteCommit, clientVars
  <2>2. /\ QueueInv' /\ queue # <<>> /\ queue' = Tail(queue) /\ Head(queue).kind = "persist" /\ Up
        /\ mode = "Strict" => pc \in {"record", "wait"}
        /\ pc = "flushWait" => reply = "none" /\ reply' = "none"
        /\ Newest' = Newest /\ NewestVersion' = NewestVersion
        /\ \A s \in State : AtVersion(s) => AtVersion(s)'
    BY <2>1, LogReceive
  <2>3. /\ Applied(Head(queue)) = After(Last(journal), Head(queue))
        /\ Len(journal) \in Nat /\ Len(journal') = Len(journal) + 1
        /\ Last(journal)' = Applied(Head(queue))
        /\ journal'[Len(journal) + 1] = Last(journal)'
        /\ \A i \in 1..Len(journal) : journal'[i] = journal[i]
    BY <2>1, <2>2, LastType, ReceiveType, BatchType DEF Applied, After, Last, TypeOK
  <2>4. ~ writeError => Chained' /\ (failures = 0 => AtVersion(Last(journal))')
    BY <2>1, <2>2, <2>3, ChainTail DEF LogInv, Up
  <2>5. ReplyInv'
    BY <2>1, <2>2 DEF LogInv, ReplyInv
  <2>6. VersionInv'
    BY <2>1 DEF LogInv, VersionInv, Sent
  <2>7. FaultlessInv'
    <3> SUFFICES ASSUME failures = 0
                 PROVE  FaultlessInv'
      BY <2>1 DEF FaultlessInv
    <3>1. ~ writeError
      BY DEF LogInv, FaultlessInv
    <3>2. \A i \in 1..Len(journal') : AtVersion(journal[i])'
      <4> SUFFICES ASSUME NEW i \in 1..Len(journal')
                   PROVE  AtVersion(journal[i])'
        OBVIOUS
      <4>1. CASE i = Len(journal) + 1
        BY <2>3, <2>4, <3>1, <4>1 DEF AtVersion
      <4>2. CASE i \in 1..Len(journal)
        <5>0. journal[i] \in State
          BY <4>2, SequencesType
        <5>1. PICK s \in State : s = journal[i]
          BY <5>0
        <5>2. AtVersion(s)'
          BY <2>2, <4>2, <5>1 DEF LogInv, FaultlessInv
        <5> QED
          BY <2>3, <4>2, <5>1, <5>2 DEF AtVersion
      <4> QED
        BY <2>3, <4>1, <4>2
    <3> QED
      BY <2>1, <3>1, <3>2 DEF LogInv, FaultlessInv, Sent
  <2> QED
    BY <2>1, <2>2, <2>4, <2>5, <2>6, <2>7 DEF LogInv
<1>2. CASE WriteFails
  <2>1. /\ Receive("persist") /\ failures' = failures + 1 /\ writeError'
        /\ reply' = (IF mode = "Strict" THEN "error" ELSE reply)
        /\ UNCHANGED <<root, pc, pending, factsAt, queuedVersion, journal, synced>>
    BY <1>2 DEF WriteFails, clientVars
  <2>2. QueueInv' /\ (pc = "flushWait" => reply' = "none")
    BY <2>1, LogReceive
  <2>3. failures' # 0
    BY <2>1 DEF TypeOK
  <2>4. ReplyInv' /\ VersionInv' /\ FaultlessInv'
    BY <2>1, <2>2, <2>3 DEF LogInv, ReplyInv, VersionInv, FaultlessInv, Sent
  <2> QED
    BY <2>1, <2>2, <2>4 DEF LogInv
<1>3. CASE SyncJournal \/ SyncFails
  <2>1. /\ Receive("flush")
        /\ UNCHANGED <<root, pc, pending, factsAt, queuedVersion, journal, writeError>>
        /\ reply' = "ok" => ~ writeError /\ synced' = Len(journal)
        /\ failures' = failures \/ failures' = failures + 1
    BY <1>3 DEF SyncJournal, SyncFails, clientVars
  <2>2. /\ QueueInv' /\ queue # <<>> /\ queue' = Tail(queue) /\ Head(queue).kind = "flush" /\ Up
        /\ pc \in {"flushWait", "closing"}
        /\ Newest' = Newest /\ NewestVersion' = NewestVersion
        /\ \A s \in State : AtVersion(s) => AtVersion(s)'
    BY <2>1, LogReceive
  <2>3. ReplyInv' /\ VersionInv'
    BY <2>1, <2>2 DEF LogInv, ReplyInv, VersionInv, Sent
  <2>4. failures' # 0 \/ failures' = failures
    BY <2>1 DEF TypeOK
  <2>5. FaultlessInv'
    <3> SUFFICES ASSUME failures' = 0, failures = 0
                 PROVE  FaultlessInv'
      BY <2>4 DEF FaultlessInv
    <3>1. \A i \in 1..Len(journal') : AtVersion(journal[i])'
      BY <2>1, <2>2, JournalKept DEF LogInv, FaultlessInv
    <3> QED
      BY <2>1, <3>1 DEF LogInv, FaultlessInv, Sent
  <2>6. ~ writeError' /\ pc' # "down" => Chained'
    <3> SUFFICES ASSUME ~ writeError
                 PROVE  Chained'
      BY <2>1
    <3>1. Last(journal)' = After(Last(journal), Head(queue))
      BY <2>1, <2>2 DEF After, Last
    <3>2. Chained
      BY <2>2 DEF LogInv, Up
    <3> QED
      BY <2>1, <2>2, <2>4, <3>1, <3>2, ChainTail
  <2> QED
    BY <2>2, <2>3, <2>5, <2>6 DEF LogInv
<1>4. CASE WriterStops
  <2>1. /\ Receive("shutdown") /\ pc' = "closed"
        /\ UNCHANGED <<root, pending, factsAt, reply, queuedVersion, journal, writeError, failures>>
    BY <1>4 DEF WriterStops, writerVars
  <2>2. /\ QueueInv' /\ queue # <<>> /\ queue' = Tail(queue) /\ Head(queue).kind = "shutdown" /\ Up
        /\ pc \in {"flushWait", "closing"}
        /\ Newest' = Newest /\ NewestVersion' = NewestVersion
        /\ \A s \in State : AtVersion(s) => AtVersion(s)'
    BY <2>1, LogReceive
  <2>3. ReplyInv' /\ VersionInv'
    BY <2>1, <2>2 DEF LogInv, ReplyInv, VersionInv, Sent
  <2>4. FaultlessInv'
    <3>1. failures = 0 => \A i \in 1..Len(journal') : AtVersion(journal[i])'
      BY <2>1, <2>2, JournalKept DEF LogInv, FaultlessInv
    <3> QED
      BY <2>1, <3>1 DEF LogInv, FaultlessInv, Sent
  <2>5. ~ writeError' /\ pc' # "down" => Chained'
    <3>1. Last(journal)' = After(Last(journal), Head(queue))
      BY <2>1, <2>2 DEF After, Last
    <3> QED
      BY <2>1, <2>2, <3>1, ChainTail DEF LogInv, Up
  <2> QED
    BY <2>2, <2>3, <2>4, <2>5 DEF LogInv
<1> QED
  BY <1>1, <1>2, <1>3, <1>4 DEF WriterStep
LEMMA LogOutage ==
    ASSUME TypeOK, TypeOK', LogInv, queue' = <<>>, pc' = "down",
           NEW n \in 1..Len(journal), journal' = SubSeq(journal, 1, n),
           UNCHANGED <<root, pending, factsAt, writeError, failures>>
    PROVE  LogInv'
<1>1. /\ Len(journal) \in Nat /\ Len(journal') = n
      /\ \A i \in 1..n : i \in 1..Len(journal) /\ journal'[i] = journal[i]
  BY SequencesType
<1>2. ~ Up' /\ ~ Sent' /\ Len(queue') = 0
  BY DEF Up, Sent
<1>3. FaultlessInv'
  <2>1. failures = 0 => \A i \in 1..Len(journal') : AtVersion(journal[i])'
    BY <1>1, <1>2 DEF LogInv, FaultlessInv, AtVersion
  <2> QED
    BY <1>2, <2>1 DEF LogInv, FaultlessInv
<1>4. QueueInv' /\ ReplyInv' /\ VersionInv'
  BY <1>2 DEF QueueInv, ReplyInv, VersionInv
<1> QED
  BY <1>3, <1>4 DEF LogInv

LEMMA LogRestart ==
    ASSUME TypeOK, TypeOK', LogInv, Restart
    PROVE  LogInv'
<1>1. PICK last \in State : last = Last(journal)
  BY LastType
<1>2. /\ ~ Up /\ pc' = "idle" /\ root' = last /\ journal' = <<last>> /\ reply' = "none"
      /\ queuedVersion' = last.version /\ writeError' = FALSE
      /\ UNCHANGED <<factsAt, queue, failures>>
  BY <1>1 DEF Restart
<1>3. queue = <<>> /\ Len(queue') = 0 /\ last.version \in Nat
  BY <1>2 DEF LogInv, QueueInv, State
<1>4. /\ ~ Sent' /\ Newest' = last /\ NewestVersion' = last.version
      /\ Len(journal') = 1 /\ journal'[1] = last /\ Last(journal)' = last
  BY <1>2 DEF Sent, Newest, NewestVersion, Last
<1>5. failures = 0 => AtVersion(last)'
  <2>1. failures = 0 => AtVersion(journal[Len(journal)])
    BY LastType DEF LogInv, FaultlessInv
  <2> QED
    BY <1>1, <1>2, <1>3, <1>4, <2>1 DEF AtVersion, Last
<1>6. FaultlessInv'
  <2>1. failures = 0 => \A i \in 1..Len(journal') : AtVersion(journal[i])'
    BY <1>4, <1>5 DEF AtVersion
  <2>2. failures = 0 => last.version \in 0..MaxVersion /\ factsAt[last.version] = last.facts
    BY <1>2, <1>5 DEF AtVersion
  <2> QED
    BY <1>2, <1>4, <2>1, <2>2 DEF FaultlessInv
<1>7. Chained'
  <2>1. PICK c \in [0..0 -> State] : c[0] = last
    <3>1. [i \in 0..0 |-> last] \in [0..0 -> State] /\ [i \in 0..0 |-> last][0] = last
      OBVIOUS
    <3> QED
      BY <3>1
  <2>2. failures = 0 => \A i \in 0..0 : AtVersion(c[i])'
    BY <1>5, <2>1 DEF AtVersion
  <2>3. Chain(c)'
    BY <1>2, <1>3, <1>4, <2>1, <2>2 DEF Chain
  <2> QED
    BY <1>3, <2>1, <2>3 DEF Chained
<1>8. QueueInv' /\ ReplyInv' /\ VersionInv'
  BY <1>2, <1>3, <1>4 DEF QueueInv, ReplyInv, VersionInv, Up
<1> QED
  BY <1>6, <1>7, <1>8 DEF LogInv

LEMMA LogNext ==
    ASSUME TypeOK, TypeOK', Strictly, LogInv, [Next]_vars
    PROVE  LogInv'
<1>1. ASSUME NEW facts \in SUBSET Fact, Commit(facts)
      PROVE  LogInv'
  BY <1>1, LogCommit
<1>2. CASE CommitVolatile
  BY <1>2, LogVolatile
<1>3. CASE Flush
  <2>1. /\ pc = "idle" /\ pc' = "flushCheck"
        /\ UNCHANGED <<root, pending, factsAt, queue, reply, queuedVersion, writerVars>>
    BY <1>3 DEF Flush
  <2>2. /\ Up /\ Up' /\ ~ Sent /\ ~ Sent' /\ Newest' = Newest /\ NewestVersion' = NewestVersion
    BY <2>1 DEF Up, Sent, Newest, NewestVersion
  <2>3. VersionInv'
    BY <2>1, <2>2 DEF LogInv, VersionInv, writerVars
  <2>4. failures = 0 => root'.version \in 0..MaxVersion /\ factsAt[root'.version] = root'.facts
    BY <2>1, <2>2 DEF LogInv, FaultlessInv
  <2>5. Newest.version <= Newest'.version
    BY <2>2, NewestType
  <2> QED
    BY <2>1, <2>2, <2>3, <2>4, <2>5, ClientQuiet
<1>4. CASE Close
  <2>1. [kind |-> "shutdown"] \in Message /\ [kind |-> "shutdown"].kind # "persist"
    BY DEF Message
  <2>2. /\ Send([kind |-> "shutdown"]) /\ pc = "idle" /\ pc' = "closing"
        /\ UNCHANGED <<root, pending, factsAt, queuedVersion, writerVars>>
    BY <1>4 DEF Close
  <2> QED
    BY <2>1, <2>2, LogControl
<1>5. CASE Crash
  <2>1. /\ queue' = <<>> /\ pc' = "down"
        /\ UNCHANGED <<root, pending, factsAt, writeError, failures, journal>>
    BY <1>5 DEF Crash, writerVars
  <2>2. Len(journal) \in 1..Len(journal) /\ journal' = SubSeq(journal, 1, Len(journal))
    BY <2>1, LastType, SequencesType
  <2> QED
    BY <2>1, <2>2, LogOutage
<1>6. ASSUME NEW n \in synced..Len(journal), PowerFailure(n)
      PROVE  LogInv'
  <2>1. n \in 1..Len(journal)
    BY DEF TypeOK
  <2> QED
    BY <1>6, <2>1, LogOutage DEF PowerFailure
<1>7. CASE Restart
  BY <1>7, LogRestart
<1>8. CASE UNCHANGED vars
  <2>1. UNCHANGED <<mode, root, pc, pending, factsAt, queue, reply, queuedVersion, writeError,
                    journal, synced, failures>>
    BY <1>8 DEF vars, clientVars, writerVars
  <2>2. /\ Newest' = Newest /\ NewestVersion' = NewestVersion /\ Sent' = Sent /\ Up' = Up
        /\ Newest.version \in Nat
    BY <2>1, NewestType DEF Newest, NewestVersion, Sent, Up
  <2>3. \A s \in State : AtVersion(s) => AtVersion(s)'
    BY <2>1, <2>2, VersionKept
  <2>4. QueueInv' /\ ReplyInv' /\ VersionInv'
    BY <2>1, <2>2 DEF LogInv, QueueInv, ReplyInv, VersionInv
  <2>5. FaultlessInv'
    <3>1. failures = 0 => \A i \in 1..Len(journal') : AtVersion(journal[i])'
      BY <2>1, <2>3, JournalKept DEF LogInv, FaultlessInv
    <3> QED
      BY <2>1, <2>2, <3>1 DEF LogInv, FaultlessInv
  <2>6. ~ writeError' /\ pc' # "down" => Chained'
    BY <2>1, <2>2, <2>3, ChainKept DEF LogInv
  <2> QED
    BY <2>4, <2>5, <2>6 DEF LogInv
<1> QED
  BY <1>1, <1>2, <1>3, <1>4, <1>5, <1>6, <1>7, <1>8, LogClient, LogWriter DEF Next

LEMMA LogAlways == Spec => [](TypeOK /\ Strictly /\ LogInv)
<1>1. Init => TypeOK /\ Strictly /\ LogInv
  BY InitType, StrictInit, LogInit DEF Strictly
<1>2. TypeOK /\ Strictly /\ LogInv /\ [Next]_vars => (TypeOK /\ Strictly /\ LogInv)'
  <2> SUFFICES ASSUME TypeOK, Strictly, LogInv, [Next]_vars
               PROVE  (TypeOK /\ Strictly /\ LogInv)'
    OBVIOUS
  <2>1. TypeOK'
    BY NextType
  <2>2. Strictly'
    BY StrictNext, ModeFixed DEF Strictly
  <2> QED
    BY <2>1, <2>2, LogNext
<1> QED
  BY <1>1, <1>2, PTL DEF Spec

LEMMA JournalHead ==
    ASSUME TypeOK, LogInv, ~ writeError, pc # "down", queue = <<>>
    PROVE  Last(journal).facts = Newest.facts /\ Last(journal).version = NewestVersion
<1>1. PICK c \in [0..Len(queue) -> State] : Chain(c)
  BY DEF LogInv, Chained
<1>2. Len(queue) = 0
  OBVIOUS
<1> QED
  BY <1>1, <1>2 DEF Chain

(* In either mode, whatever is lost is a suffix: unless a batch failed,    *)
(* every state the journal of writer_loop can be cut back to is the        *)
(* durable state of the version it records, and after FjallCommitWriter's  *)
(* drop nothing that persist_commit accepted is missing unless the writer  *)
(* recorded an error.                                                      *)
THEOREM OnlySuffixesLost == Spec => []RelaxedLosesSuffix
<1>1. TypeOK /\ LogInv => RelaxedLosesSuffix
  <2> SUFFICES ASSUME TypeOK, LogInv
               PROVE  RelaxedLosesSuffix
    OBVIOUS
  <2>1. HolesNeedFailure
    BY DEF LogInv, FaultlessInv, AtVersion, HolesNeedFailure, StateAtVersion
  <2>2. ShutdownDrains
    <3> SUFFICES ASSUME pc = "closed", ~ writeError
                 PROVE  Last(journal).version = queuedVersion /\ Last(journal).facts = root.facts
      BY DEF ShutdownDrains
    <3>1. queue = <<>>
      BY DEF LogInv, QueueInv, Up
    <3>2. Newest = root /\ NewestVersion = queuedVersion
      BY DEF Newest, NewestVersion, Sent
    <3> QED
      BY <3>1, <3>2, JournalHead
  <2> QED
    BY <2>1, <2>2 DEF RelaxedLosesSuffix
<1> QED
  BY <1>1, LogAlways, PTL

(* A flush_persistence that returns without an error has synced every      *)
(* published durable fact, in either mode, however many batches were       *)
(* queued before it and whichever of them failed.                          *)
THEOREM FlushesDurable == Spec => FlushMeansDurable
<1>1. TypeOK /\ LogInv /\ FlushReturns /\ reply = "ok" =>
          journal[synced].facts = root.facts /\ journal[synced].version = queuedVersion
  <2> SUFFICES ASSUME TypeOK, LogInv, FlushReturns, reply = "ok"
               PROVE  journal[synced].facts = root.facts /\ journal[synced].version = queuedVersion
    OBVIOUS
  <2>1. pc = "flushWait"
    BY DEF FlushReturns
  <2>2. queue = <<>> /\ ~ writeError /\ synced = Len(journal)
    BY <2>1 DEF LogInv, QueueInv, ReplyInv
  <2>3. Newest = root /\ NewestVersion = queuedVersion
    BY <2>1 DEF Newest, NewestVersion, Sent
  <2> QED
    BY <2>1, <2>2, <2>3, JournalHead DEF Last
<1>2. TypeOK /\ LogInv /\ [Next]_vars =>
          [FlushReturns /\ reply = "ok" =>
             /\ journal[synced].facts = root.facts
             /\ journal[synced].version = queuedVersion]_vars
  BY <1>1
<1> QED
  BY <1>2, LogAlways, PTL DEF Spec, FlushMeansDurable

-----------------------------------------------------------------------------
(* The caches of derived relations.  The two caches of a snapshot agree    *)
(* whenever nobody reads it, and what is maintained always compiles, for   *)
(* every number of threads, derived relations and snapshots.               *)

CONSTANTS Thread, Derived, Needs, Unmaintained, MaxSnapshot

VARIABLES head, cache, maintained, threadPc, snap, wanted, cached, targets

Cache == INSTANCE DerivedCache WITH pc <- threadPc

(* A thread reads a snapshot that is published; a copy it holds as         *)
(* complete came from a cache that is complete, and stays so.              *)
CopyInv ==
    \A t \in Thread :
        /\ snap[t] \in 1..head
        /\ cached[t].complete => cache[snap[t]].complete
        /\ threadPc[t] = "store" => ~ cached[t].complete

(* The state a thread is about to store compiles.                          *)
TargetsInv ==
    /\ \A s \in 1..MaxSnapshot : Cache!Compiles(maintained[s])
    /\ \A t \in Thread : threadPc[t] = "warmStore" => Cache!Compiles(targets[t])

(* Where the maintained state claims more than the cache holds, a thread   *)
(* is about to store a complete cache.                                     *)
Covered(s) ==
    \/ cache[s].complete
    \/ Cache!Program(maintained[s]) \subseteq cache[s].relations
    \/ \E t \in Thread : snap[t] = s /\ threadPc[t] = "store"

CoverInv == \A s \in 1..MaxSnapshot : Covered(s)

CacheInv == Cache!TypeOK /\ CopyInv /\ TargetsInv /\ CoverInv

-----------------------------------------------------------------------------
(* A program names derived relations, and no request no program.           *)
LEMMA ProgramTyped ==
    ASSUME Cache!CacheAssumption, NEW S \in SUBSET Derived
    PROVE  Cache!Program(S) \in SUBSET Derived
BY DEF Cache!CacheAssumption, Cache!Program

LEMMA EmptyProgram == Cache!Program({}) = {} /\ Cache!Compiles({})
BY DEF Cache!Program, Cache!Compiles

LEMMA CacheInitInv ==
    ASSUME Cache!CacheAssumption, Cache!Init
    PROVE  CacheInv
<1>1. Cache!TypeOK
  <2>1. (CHOOSE r \in Derived : TRUE) \in Derived
    BY DEF Cache!CacheAssumption
  <2> QED BY <2>1 DEF Cache!CacheAssumption, Cache!Init, Cache!TypeOK, Cache!Entry, Cache!NoEntry, Cache!Pc
<1>2. CopyInv
  BY DEF Cache!CacheAssumption, Cache!Init, CopyInv, Cache!NoEntry
<1>3. TargetsInv
  BY EmptyProgram DEF Cache!Init, TargetsInv
<1>4. CoverInv
  BY EmptyProgram DEF Cache!Init, CoverInv, Covered, Cache!NoEntry
<1> QED BY <1>1, <1>2, <1>3, <1>4 DEF CacheInv

-----------------------------------------------------------------------------
(* A step of a reader that leaves the two caches alone and stands at no    *)
(* store it has not finished keeps every snapshot covered.                 *)
LEMMA CoverKept ==
    ASSUME CoverInv, Cache!TypeOK, NEW t \in Thread, cache' = cache, maintained' = maintained,
           \A u \in Thread \ {t} : threadPc'[u] = threadPc[u] /\ snap'[u] = snap[u],
           threadPc[t] # "store"
    PROVE  CoverInv'
BY DEF CoverInv, Covered

LEMMA CacheStepInv ==
    ASSUME Cache!CacheAssumption, CacheInv, NEW t \in Thread, Cache!Step(t)
    PROVE  CacheInv'
<1> USE DEF CacheInv
<1>1. ASSUME NEW r \in Derived, Cache!LoadCache(t, r) PROVE CacheInv'
  <2>1. Cache!TypeOK'
    BY <1>1 DEF Cache!LoadCache, Cache!TypeOK, Cache!Pc
  <2>2. CopyInv'
    BY <1>1 DEF Cache!LoadCache, Cache!TypeOK, CopyInv
  <2>3. TargetsInv'
    BY <1>1 DEF Cache!LoadCache, Cache!TypeOK, TargetsInv
  <2>4. CoverInv'
    BY <1>1, CoverKept DEF Cache!LoadCache, Cache!TypeOK
  <2> QED BY <2>1, <2>2, <2>3, <2>4
<1>2. CASE Cache!UseMaintained(t) \/ Cache!UseComplete(t)
  <2>1. Cache!TypeOK'
    BY <1>2 DEF Cache!UseMaintained, Cache!UseComplete, Cache!TypeOK, Cache!Pc
  <2>2. CopyInv'
    BY <1>2 DEF Cache!UseMaintained, Cache!UseComplete, Cache!TypeOK, CopyInv
  <2>3. TargetsInv'
    BY <1>2 DEF Cache!UseMaintained, Cache!UseComplete, Cache!TypeOK, TargetsInv
  <2>4. CoverInv'
    BY <1>2, CoverKept DEF Cache!UseMaintained, Cache!UseComplete, Cache!TypeOK
  <2> QED BY <2>1, <2>2, <2>3, <2>4
<1>3. CASE Cache!Evaluate(t)
  <2>0. /\ cached[t] \in Cache!Entry
        /\ cached' = [cached EXCEPT ![t] = [cached[t] EXCEPT !.relations = Derived]]
    BY <1>3 DEF Cache!Evaluate, Cache!TypeOK
  <2>1. Cache!TypeOK'
    <3>1. [cached[t] EXCEPT !.relations = Derived] \in Cache!Entry
      BY <2>0 DEF Cache!Entry
    <3>2. cached' \in [Thread -> Cache!Entry]
      BY <2>0, <3>1 DEF Cache!TypeOK
    <3> QED BY <1>3, <3>2 DEF Cache!Evaluate, Cache!TypeOK, Cache!Pc
  <2>2. CopyInv'
    BY <1>3, <2>0 DEF Cache!Evaluate, Cache!TypeOK, CopyInv, Cache!Entry
  <2>3. TargetsInv'
    BY <1>3 DEF Cache!Evaluate, Cache!TypeOK, TargetsInv
  <2>4. CoverInv'
    BY <1>3, CoverKept DEF Cache!Evaluate, Cache!TypeOK
  <2> QED BY <2>1, <2>2, <2>3, <2>4
<1>4. CASE Cache!WarmLoad(t)
  <2>0. /\ maintained[snap[t]] \cup {wanted[t]} \in SUBSET Derived
        /\ Cache!AfterWarm(t) \in {"done", "store"}
        /\ Cache!AfterWarm(t) = "store" => ~ cached[t].complete
    BY DEF Cache!TypeOK, Cache!AfterWarm
  <2>1. Cache!TypeOK'
    BY <1>4, <2>0 DEF Cache!WarmLoad, Cache!TypeOK, Cache!Pc
  <2>2. CopyInv'
    BY <1>4, <2>0 DEF Cache!WarmLoad, Cache!TypeOK, CopyInv
  <2>3. TargetsInv'
    BY <1>4, <2>0 DEF Cache!WarmLoad, Cache!TypeOK, TargetsInv
  <2>4. CoverInv'
    BY <1>4, CoverKept DEF Cache!WarmLoad, Cache!TypeOK
  <2> QED BY <2>1, <2>2, <2>3, <2>4
<1>5. CASE Cache!WarmStore(t)
  <2>0. /\ Cache!AfterWarm(t) \in {"done", "store"}
        /\ Cache!AfterWarm(t) = "store" <=> ~ cached[t].complete
    BY DEF Cache!AfterWarm
  <2>1. Cache!TypeOK'
    BY <1>5, <2>0 DEF Cache!WarmStore, Cache!TypeOK, Cache!Pc
  <2>2. CopyInv'
    BY <1>5, <2>0 DEF Cache!WarmStore, Cache!TypeOK, CopyInv
  <2>3. TargetsInv'
    BY <1>5, <2>0 DEF Cache!WarmStore, Cache!TypeOK, TargetsInv
  <2>4. ASSUME NEW s \in 1..MaxSnapshot PROVE Covered(s)'
    <3>1. CASE s # snap[t]
      BY <1>5, <2>0, <3>1 DEF Cache!WarmStore, Cache!TypeOK, CoverInv, Covered
    <3>2. CASE s = snap[t]
      BY <1>5, <2>0, <3>2 DEF Cache!WarmStore, Cache!TypeOK, CopyInv, Covered
    <3> QED BY <3>1, <3>2
  <2> QED BY <2>1, <2>2, <2>3, <2>4 DEF CoverInv
<1>6. CASE Cache!StoreComplete(t)
  <2>1. Cache!TypeOK'
    BY <1>6 DEF Cache!StoreComplete, Cache!TypeOK, Cache!Pc, Cache!Entry, Cache!CompleteEntry
  <2>2. CopyInv'
    BY <1>6 DEF Cache!StoreComplete, Cache!TypeOK, CopyInv, Cache!CompleteEntry
  <2>3. TargetsInv'
    BY <1>6 DEF Cache!StoreComplete, Cache!TypeOK, TargetsInv
  <2>4. CoverInv'
    BY <1>6 DEF Cache!StoreComplete, Cache!TypeOK, CoverInv, Covered, Cache!CompleteEntry
  <2> QED BY <2>1, <2>2, <2>3, <2>4
<1>7. CASE Cache!Return(t)
  <2>1. Cache!TypeOK'
    BY <1>7 DEF Cache!Return, Cache!TypeOK, Cache!Pc, Cache!Entry, Cache!NoEntry
  <2>2. CopyInv'
    BY <1>7 DEF Cache!Return, Cache!TypeOK, CopyInv, Cache!NoEntry
  <2>3. TargetsInv'
    BY <1>7 DEF Cache!Return, Cache!TypeOK, TargetsInv
  <2>4. CoverInv'
    BY <1>7, CoverKept DEF Cache!Return, Cache!TypeOK
  <2> QED BY <2>1, <2>2, <2>3, <2>4
<1> QED BY <1>1, <1>2, <1>3, <1>4, <1>5, <1>6, <1>7 DEF Cache!Step

(* A snapshot published with a cache that holds what is maintained.        *)
LEMMA CachePublishInv ==
    ASSUME Cache!CacheAssumption, CacheInv, NEW entry \in Cache!Entry, NEW requested \in SUBSET Derived,
           Cache!Compiles(requested), Cache!Program(requested) \subseteq entry.relations,
           Cache!Publish(entry, requested)
    PROVE  CacheInv'
<1> USE DEF CacheInv
<1>0. head + 1 \in 1..MaxSnapshot /\ head + 1 \notin 1..head
  BY DEF Cache!CacheAssumption, Cache!Publish, Cache!TypeOK
<1>1. Cache!TypeOK'
  BY <1>0 DEF Cache!Publish, Cache!TypeOK
<1>2. CopyInv'
  BY <1>0 DEF Cache!CacheAssumption, Cache!Publish, Cache!TypeOK, CopyInv
<1>3. TargetsInv'
  BY <1>0 DEF Cache!Publish, Cache!TypeOK, TargetsInv
<1>4. CoverInv'
  BY <1>0 DEF Cache!Publish, Cache!TypeOK, CoverInv, Covered
<1> QED BY <1>1, <1>2, <1>3, <1>4

LEMMA CacheNextInv ==
    ASSUME Cache!CacheAssumption, CacheInv, [Cache!Next]_(Cache!vars)
    PROVE  CacheInv'
<1>0. maintained[head] \in SUBSET Derived /\ Cache!Compiles(maintained[head])
  BY DEF CacheInv, Cache!TypeOK, TargetsInv
<1>1. ASSUME NEW t \in Thread, Cache!Step(t) PROVE CacheInv'
  BY <1>1, CacheStepInv
<1>2. CASE Cache!CommitFacts
  <2>1. [complete |-> FALSE, relations |-> Cache!Program(maintained[head])] \in Cache!Entry
    BY <1>0, ProgramTyped DEF Cache!Entry
  <2> QED BY <1>0, <1>2, <2>1, CachePublishInv DEF Cache!CommitFacts
<1>3. CASE Cache!CommitCatalog
  BY <1>3, CachePublishInv, EmptyProgram DEF Cache!CommitCatalog, Cache!NoEntry, Cache!Entry
<1>4. CASE Cache!CommitSettled
  <2> DEFINE entry == IF maintained[head] = {} THEN Cache!NoEntry ELSE Cache!CompleteEntry
  <2>1. entry \in Cache!Entry
    BY DEF Cache!NoEntry, Cache!CompleteEntry, Cache!Entry
  <2>2. Cache!Program(maintained[head]) \subseteq entry.relations
    BY <1>0, ProgramTyped, EmptyProgram DEF Cache!NoEntry, Cache!CompleteEntry
  <2> QED BY <1>0, <1>4, <2>1, <2>2, CachePublishInv DEF Cache!CommitSettled
<1>5. CASE UNCHANGED Cache!vars
  BY <1>5 DEF Cache!vars, CacheInv, Cache!TypeOK, CopyInv, TargetsInv, CoverInv, Covered
<1> QED BY <1>1, <1>2, <1>3, <1>4, <1>5 DEF Cache!Next

-----------------------------------------------------------------------------
(* Whatever threads warm, evaluate and store while commits publish further *)
(* snapshots, a snapshot nobody is reading has a derived cache that holds  *)
(* every relation its maintained state serves, and what is maintained      *)
(* never reads a computed relation.                                        *)
THEOREM CachesAlwaysCoherent ==
    Cache!CacheAssumption => (Cache!Spec => [](Cache!CachesAgreeAtRest /\ Cache!MaintainedCompiles))
<1> SUFFICES ASSUME Cache!CacheAssumption
             PROVE  Cache!Spec => [](Cache!CachesAgreeAtRest /\ Cache!MaintainedCompiles)
  OBVIOUS
<1>1. Cache!Init => CacheInv
  BY CacheInitInv
<1>2. CacheInv /\ [Cache!Next]_(Cache!vars) => CacheInv'
  BY CacheNextInv
<1>3. CacheInv => Cache!CachesAgreeAtRest /\ Cache!MaintainedCompiles
  BY DEF CacheInv, CoverInv, Covered, Cache!CachesAgreeAtRest, Cache!AtRest, TargetsInv, Cache!MaintainedCompiles
<1> QED BY <1>1, <1>2, <1>3, PTL DEF Cache!Spec
=============================================================================
