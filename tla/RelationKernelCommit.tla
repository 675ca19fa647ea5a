------------------------ MODULE RelationKernelCommit ------------------------
(***************************************************************************)
(* What a publication of RelationKernel does: it implements a commit of    *)
(* SnapshotStore, and what it validated still holds when it is published.  *)
(***************************************************************************)
EXTENDS RelationKernelProofs

USE ZenonT(5), SMTT(20)

-----------------------------------------------------------------------------
(* Refinement: only Publish is a Commit of the abstract store, Begin is a  *)
(* Read, and the end of a transaction is a Release.                        *)

LEMMA RefinesInit == Init => Store!Init
BY DEF Init, Store!Init, Store!BaseState, Store!State, BaseSnapshot

LEMMA PublishRefines ==
    ASSUME IInv, NEW a \in Actor, Publish(a)
    PROVE  Store!Commit
<1>1. TypeOK /\ TypeOK'
  BY CommitStepType DEF IInv, CommitStep
<1>2. /\ root' = prepared[a].next
      /\ history' = Append(history, prepared[a].commit)
      /\ Succeeds(prepared[a])
  BY PublishesPrepared
<1>3. /\ root'.version = root.version + 1
      /\ root.relations \subseteq root'.relations
      /\ UniqueKeys(root'.facts)
      /\ history' = Append(history, [version |-> root.version + 1,
                                     asserts |-> root'.facts \ root.facts,
                                     retracts |-> root.facts \ root'.facts,
                                     created |-> root'.relations \ root.relations])
  BY <1>2 DEF Succeeds
<1>4. root'.facts \in SUBSET Fact /\ root'.relations \in SUBSET Relation
  BY <1>1 DEF TypeOK, Snapshot
<1>5. base' = base \/ \E t \in Txn : base' = [base EXCEPT ![t] = BaseSnapshot]
  BY DEF Publish, Finish, Reset, txnVars
<1> QED
  BY <1>3, <1>4, <1>5 DEF Store!Commit, Store!BaseState, Store!State, BaseSnapshot

LEMMA RefinesNext ==
    ASSUME IInv, [Next]_vars
    PROVE  [Store!Next]_(Store!storeVars)
<1>1. TypeOK
  BY DEF IInv
<1>2. root = [version |-> root.version, relations |-> root.relations, facts |-> root.facts]
  BY <1>1 DEF TypeOK, Snapshot
<1>3. ASSUME UNCHANGED <<root, history, base>>
      PROVE  UNCHANGED Store!storeVars
  BY <1>3 DEF Store!storeVars
<1>4. ASSUME NEW t \in Txn, Reset(t), UNCHANGED <<root, history>>
      PROVE  Store!Release(t)
  BY <1>4 DEF Reset, Store!Release, Store!BaseState, Store!State, BaseSnapshot
<1>5. ASSUME NEW t \in Txn, TransactionStep(t)
      PROVE  [Store!Next]_(Store!storeVars)
  <2>1. CASE Begin(t)
    <3>1. Store!Read(t)
      BY <1>2, <2>1, ZenonT(30) DEF Begin, Store!Read, Store!State
    <3> QED
      BY <3>1 DEF Store!Next
  <2>2. CASE CommitConflict(t) \/ Rollback(t)
    <3>1. Store!Release(t)
      BY <1>4, <2>2 DEF CommitConflict, Rollback
    <3> QED
      BY <3>1 DEF Store!Next
  <2>3. CASE CommitTransaction(t) \/ \E f \in Fact :
                AssertTuple(t, f) \/ AssertRefused(t, f) \/ RetractTuple(t, f) \/ ReplaceFunctional(t, f)
    <3>1. UNCHANGED <<root, history, base>>
      BY <2>3 DEF CommitTransaction, AssertTuple, AssertRefused, RetractTuple, ReplaceFunctional, txnVars
    <3> QED
      BY <1>3, <3>1
  <2> QED
    BY <1>5, <2>1, <2>2, <2>3 DEF TransactionStep
<1>6. ASSUME NEW s \in Stage, StageStep(s)
      PROVE  UNCHANGED <<root, history, base>>
  BY <1>6 DEF StageStep, StageOpen, ForkInMemory, ForkReplace, ForkRetract, ForkPublish,
              ForkCreateRelation, CommitStaged, CommitStagedStale, txnVars
<1>7. ASSUME NEW a \in Admin, NEW r \in Relation, CreateRelation(a, r)
      PROVE  UNCHANGED <<root, history, base>>
  BY <1>7 DEF CreateRelation, txnVars
<1>8. ASSUME NEW a \in Actor, CommitStep(a)
      PROVE  [Store!Next]_(Store!storeVars)
  <2>1. CASE Persist(a)
    BY <1>3, <2>1 DEF Persist, txnVars
  <2>2. CASE PersistRefused(a)
    <3>1. CASE a \in Txn
      <4>1. Store!Release(a)
        BY <1>4, <2>2, <3>1 DEF PersistRefused, Finish
      <4> QED
        BY <3>1, <4>1 DEF Store!Next
    <3>2. CASE a \notin Txn
      BY <1>3, <2>2, <3>2 DEF PersistRefused, Finish, txnVars
    <3> QED
      BY <3>1, <3>2
  <2>3. CASE Publish(a)
    BY <2>3, PublishRefines DEF Store!Next
  <2> QED
    BY <1>8, <2>1, <2>2, <2>3 DEF CommitStep
<1>9. CASE UNCHANGED vars
  BY <1>3, <1>9 DEF vars, txnVars
<1> QED
  BY <1>3, <1>5, <1>6, <1>7, <1>8, <1>9 DEF Next

(* The kernel implements the atomic snapshot store: transactions, forks,   *)
(* the commit lock, persistence and publication together behave as one     *)
(* sequence of atomic commits of consistent states.                        *)
THEOREM Refinement == Spec => ImplementsSnapshotStore
BY RefinesInit, RefinesNext, Inductive, PTL DEF Spec, ImplementsSnapshotStore, Store!Spec

-----------------------------------------------------------------------------
(* Validation runs before persisting, publication after it.  What the lock *)
(* holder validated still holds when it publishes, because nobody else can *)
(* move the root: its prepared work is still the one its overlay gives.    *)

ValidatedInv ==
    \A t \in Txn : Committing(t) =>
        /\ prepared[t] = TransactionWork(t)
        /\ ~ SetConflict(t)
        /\ ~ FunctionalConflict(t)

LEMMA InitValidated == Init => ValidatedInv
BY DEF Init, ValidatedInv, Committing, Actor

LEMMA ValidatedKept ==
    ASSUME ValidatedInv, NEW t \in Txn, Committing(t)' => Committing(t), root' = root,
           Committing(t) => /\ prepared'[t] = prepared[t] /\ base'[t] = base[t]
                            /\ writes'[t] = writes[t] /\ built'[t] = built[t]
                            /\ tracked'[t] = tracked[t]
    PROVE  Committing(t)' => /\ prepared'[t] = TransactionWork(t)'
                             /\ ~ SetConflict(t)'
                             /\ ~ FunctionalConflict(t)'
<1> SUFFICES ASSUME Committing(t)'
             PROVE  /\ prepared'[t] = TransactionWork(t)'
                    /\ ~ SetConflict(t)'
                    /\ ~ FunctionalConflict(t)'
  OBVIOUS
<1>1. /\ prepared[t] = TransactionWork(t) /\ ~ SetConflict(t) /\ ~ FunctionalConflict(t)
  BY DEF ValidatedInv
<1>2. Asserted(t)' = Asserted(t) /\ Retracted(t)' = Retracted(t) /\ Written(t)' = Written(t)
  BY DEF Asserted, Retracted, Written
<1>3. NextFacts(t)' = NextFacts(t)
  BY <1>2 DEF NextFacts
<1>4. TouchedKeys(t)' = TouchedKeys(t)
  BY <1>2 DEF TouchedKeys, Functional
<1>5. prepared'[t] = TransactionWork(t)'
  BY <1>1, <1>2, <1>3, ZenonT(30) DEF TransactionWork
<1>6. ~ SetConflict(t)'
  BY <1>1, <1>2 DEF SetConflict
<1>7. ~ FunctionalConflict(t)'
  BY <1>1, <1>4 DEF FunctionalConflict, TupleForKey, Functional
<1> QED
  BY <1>5, <1>6, <1>7

LEMMA CommitValidated ==
    ASSUME IInv, NEW t \in Txn, CommitTransaction(t)
    PROVE  /\ prepared'[t] = TransactionWork(t)'
           /\ ~ SetConflict(t)'
           /\ ~ FunctionalConflict(t)'
<1>1. /\ status[t] = "active" /\ ~ Conflict(t) /\ prepared' = [prepared EXCEPT ![t] = TransactionWork(t)]
      /\ UNCHANGED <<root, base, writes, built, tracked, visible>>
  BY DEF CommitTransaction, TakeLock, txnVars
<1>2. prepared'[t] = TransactionWork(t)
  BY <1>1 DEF IInv, TypeOK, Actor
<1>3. ~ SetConflict(t) /\ ~ FunctionalConflict(t)
  <2>1. CASE root.version # base[t].version
    BY <1>1, <2>1 DEF Conflict
  <2>2. CASE root.version = base[t].version
    <3>1. base[t].facts = root.facts
      BY <1>1, <2>2 DEF IInv, TransactionInv, BaseOK
    <3> QED
      BY <3>1 DEF SetConflict, FunctionalConflict
  <2> QED
    BY <2>1, <2>2
<1>4. Asserted(t)' = Asserted(t) /\ Retracted(t)' = Retracted(t) /\ Written(t)' = Written(t)
  BY <1>1 DEF Asserted, Retracted, Written
<1>5. NextFacts(t)' = NextFacts(t) /\ TouchedKeys(t)' = TouchedKeys(t)
  BY <1>1, <1>4 DEF NextFacts, TouchedKeys, Functional
<1>6. TransactionWork(t)' = TransactionWork(t)
  BY <1>1, <1>4, <1>5 DEF TransactionWork
<1>7. ~ SetConflict(t)'
  BY <1>1, <1>3, <1>4 DEF SetConflict
<1>8. ~ FunctionalConflict(t)'
  <2>1. base'[t].facts = base[t].facts /\ root'.facts = root.facts
    BY <1>1
  <2> QED
    BY <1>3, <1>5, <2>1 DEF FunctionalConflict, TupleForKey, Functional
<1> QED
  BY <1>2, <1>6, <1>7, <1>8

LEMMA NextValidated ==
    ASSUME IInv, ValidatedInv, [Next]_vars
    PROVE  ValidatedInv'
<1> SUFFICES ASSUME NEW t \in Txn
             PROVE  Committing(t)' => /\ prepared'[t] = TransactionWork(t)'
                                      /\ ~ SetConflict(t)'
                                      /\ ~ FunctionalConflict(t)'
  BY DEF ValidatedInv
<1>1. TypeOK /\ LockInv
  BY DEF IInv
<1>2. t \in Actor /\ t \notin Stage /\ t \notin Admin
  BY ActorAssumption DEF Actor
<1>3. CASE UNCHANGED vars
  BY <1>3, ValidatedKept DEF vars, txnVars, Committing
<1>4. ASSUME NEW u \in Txn, TransactionStep(u)
      PROVE  Committing(t)' => /\ prepared'[t] = TransactionWork(t)'
                               /\ ~ SetConflict(t)'
                               /\ ~ FunctionalConflict(t)'
  <2>1. CASE t = u /\ CommitTransaction(u)
    BY <2>1, CommitValidated
  <2>2. CASE t = u /\ ~ CommitTransaction(u)
    <3>1. ~ Committing(t)'
      BY <1>1, <1>2, <1>4, <2>2, ZenonT(30)
         DEF TransactionStep, Begin, AssertTuple, AssertRefused, RetractTuple, ReplaceFunctional,
             CommitConflict, Rollback, CanWrite, Committing, TypeOK
    <3> QED
      BY <3>1
  <2>3. CASE t # u
    <3>1. root' = root
      BY <1>4 DEF TransactionStep, Begin, AssertTuple, AssertRefused, RetractTuple, ReplaceFunctional,
             CommitTransaction, CommitConflict, Rollback
    <3>2. status'[t] = status[t] /\ prepared'[t] = prepared[t]
      BY <1>1, <1>2, <1>4, <2>3 DEF TransactionStep, Begin, AssertTuple, AssertRefused, RetractTuple,
             ReplaceFunctional, CommitTransaction, CommitConflict, Rollback, TakeLock, TypeOK
    <3>3. base'[t] = base[t] /\ writes'[t] = writes[t] /\ built'[t] = built[t] /\ tracked'[t] = tracked[t]
      BY ActorAssumption, <1>1, <1>4, <2>3, SMTT(30) DEF TransactionStep, Begin, AssertTuple, AssertRefused, RetractTuple,
             ReplaceFunctional, CommitTransaction, CommitConflict, Rollback, Reset, txnVars, TypeOK
    <3> QED
      BY <3>1, <3>2, <3>3, ValidatedKept DEF Committing
  <2> QED
    BY <2>1, <2>2, <2>3
<1>5. ASSUME NEW s \in Stage, StageStep(s)
      PROVE  Committing(t)' => /\ prepared'[t] = TransactionWork(t)'
                               /\ ~ SetConflict(t)'
                               /\ ~ FunctionalConflict(t)'
  <2>1. root' = root /\ UNCHANGED txnVars
    BY <1>5 DEF StageStep, StageOpen, ForkInMemory, ForkReplace, ForkRetract, ForkPublish,
                ForkCreateRelation, CommitStaged, CommitStagedStale
  <2>2. status'[t] = status[t] /\ prepared'[t] = prepared[t]
    BY <1>1, <1>2, <1>5 DEF StageStep, StageOpen, ForkInMemory, ForkReplace, ForkRetract, ForkPublish,
                ForkCreateRelation, CommitStaged, CommitStagedStale, TakeLock, TypeOK
  <2> QED
    BY <2>1, <2>2, ValidatedKept, ZenonT(30) DEF Committing, txnVars
<1>6. ASSUME NEW a \in Admin, NEW r \in Relation, CreateRelation(a, r)
      PROVE  Committing(t)' => /\ prepared'[t] = TransactionWork(t)'
                               /\ ~ SetConflict(t)'
                               /\ ~ FunctionalConflict(t)'
  <2>1. root' = root /\ UNCHANGED txnVars
    BY <1>6 DEF CreateRelation
  <2>2. status'[t] = status[t] /\ prepared'[t] = prepared[t]
    BY <1>1, <1>2, <1>6 DEF CreateRelation, TakeLock, TypeOK
  <2> QED
    BY <2>1, <2>2, ValidatedKept DEF Committing, txnVars
<1>7. ASSUME NEW a \in Actor, CommitStep(a)
      PROVE  Committing(t)' => /\ prepared'[t] = TransactionWork(t)'
                               /\ ~ SetConflict(t)'
                               /\ ~ FunctionalConflict(t)'
  <2>1. Committing(a)
    BY <1>7 DEF CommitStep, Persist, PersistRefused, Publish, Committing
  <2>2. CASE Persist(a)
    <3>1. root' = root /\ UNCHANGED <<txnVars, prepared>>
          /\ status' = [status EXCEPT ![a] = "publish"] /\ status[a] = "persist"
      BY <2>2 DEF Persist
    <3>2. Committing(t)' => Committing(t)
      BY <1>1, <1>2, <3>1 DEF Committing, TypeOK
    <3> QED
      BY <3>1, <3>2, ValidatedKept DEF txnVars
  <2>3. CASE PersistRefused(a) \/ Publish(a)
    <3>1. Finish(a)
      BY <2>3 DEF PersistRefused, Publish
    <3>2. status'[a] = "idle" /\ \A b \in Actor : b # a => status'[b] = status[b] /\ ~ Committing(b)
      BY <1>1, <2>1, <3>1, LockReleasedInv
    <3>3. ~ Committing(t)'
      BY <1>2, <3>2 DEF Committing
    <3> QED
      BY <3>3
  <2> QED
    BY <1>7, <2>2, <2>3 DEF CommitStep
<1> QED
  BY <1>3, <1>4, <1>5, <1>6, <1>7 DEF Next

LEMMA Validated == Spec => []ValidatedInv
BY InitValidated, NextValidated, Inductive, PTL DEF Spec

(* First committer wins: a transaction publishes only if every functional  *)
(* key it wrote still holds, at publication, what it held in its base      *)
(* snapshot (validate_functional_conflicts under the commit lock).         *)
THEOREM FirstCommitterAlwaysWins == Spec => FirstCommitterWins
<1>1. ASSUME IInv, ValidatedInv, NEW t \in Txn, Publish(t), NEW f \in Written(t), Functional(f)
      PROVE  TupleForKey(base[t].facts, KeyOf[f]) = TupleForKey(root.facts, KeyOf[f])
  <2>1. ~ FunctionalConflict(t)
    BY <1>1 DEF ValidatedInv, Publish, Committing
  <2>2. KeyOf[f] \in TouchedKeys(t)
    BY <1>1, WrittenKeysTouched DEF IInv, TransactionInv
  <2> QED
    BY <2>1, <2>2 DEF FunctionalConflict
<1>2. IInv /\ ValidatedInv =>
        [\A t \in Txn : Publish(t) =>
          \A f \in Written(t) : Functional(f) =>
              TupleForKey(base[t].facts, KeyOf[f]) = TupleForKey(root.facts, KeyOf[f])]_vars
  BY <1>1
<1> QED
  BY <1>2, Inductive, Validated, PTL DEF FirstCommitterWins

(* Isolation: publishing applies the transaction's own writes to the state *)
(* the earlier committers left, and changes nothing else.                  *)
THEOREM PublicationIsolated == Spec => PublishIsolated
<1>1. ASSUME IInv, ValidatedInv, NEW t \in Txn, Publish(t), NEW f \in Fact
      PROVE  f \in root'.facts <=> CASE writes[t][f] = "assert" -> TRUE
                                     [] writes[t][f] = "none" -> f \in root.facts
                                     [] writes[t][f] = "retract" ->
                                            f \in root.facts /\ f \notin base[t].facts
  <2>1. prepared[t] = TransactionWork(t)
    BY <1>1 DEF ValidatedInv, Publish, Committing
  <2>2. root' = prepared[t].next
    BY <1>1, PublishesPrepared DEF Actor
  <2>3. root'.facts = NextFacts(t)
    BY <2>1, <2>2 DEF TransactionWork
  <2>4. writes[t][f] \in LocalChange
    BY <1>1 DEF IInv, TypeOK
  <2> QED
    BY <2>3, <2>4, ZenonT(30) DEF NextFacts, Asserted, Retracted, LocalChange
<1>2. IInv /\ ValidatedInv =>
        [\A t \in Txn : Publish(t) =>
          \A f \in Fact :
              f \in root'.facts <=> CASE writes[t][f] = "assert" -> TRUE
                                     [] writes[t][f] = "none" -> f \in root.facts
                                     [] writes[t][f] = "retract" ->
                                            f \in root.facts /\ f \notin base[t].facts]_vars
  BY <1>1, ZenonT(30)
<1> QED
  BY <1>2, Inductive, Validated, PTL DEF PublishIsolated

(* A Set fact that a transaction read and asserts again is still there     *)
(* when the transaction publishes (validate_set_conflicts).                *)
THEOREM ConfirmedFactKept == Spec => ConfirmedFactStillThere
<1>1. ASSUME IInv, ValidatedInv, NEW t \in Txn, Publish(t), NEW f \in Asserted(t),
             Policy[RelationOf[f]] = "Set", f \in base[t].facts
      PROVE  f \in root.facts
  <2>1. ~ SetConflict(t)
    BY <1>1 DEF ValidatedInv, Publish, Committing
  <2> QED
    BY <1>1, <2>1 DEF SetConflict
<1>2. IInv /\ ValidatedInv =>
        [\A t \in Txn : Publish(t) =>
          \A f \in Asserted(t) :
              Policy[RelationOf[f]] = "Set" /\ f \in base[t].facts => f \in root.facts]_vars
  BY <1>1
<1> QED
  BY <1>2, Inductive, Validated, PTL DEF ConfirmedFactStillThere

-----------------------------------------------------------------------------
(* The two logs.  The published history and the log of the provider are    *)
(* replayed in the same way; both grow by one commit at a time, and each   *)
(* commit is the exact difference of two consecutive snapshots.            *)

LEMMA ReplayAppend ==
    ASSUME NEW facts \in SUBSET Fact, NEW log \in Seq(Commit), NEW c \in Commit,
           NEW after \in Nat, c.version > after, c.asserts \cap c.retracts = {}
    PROVE  Replay(facts, Append(log, c), after) =
               (Replay(facts, log, after) \ c.retracts) \cup c.asserts
<1> DEFINE more == Append(log, c)
           n == Len(log)
<1>1. /\ n \in Nat /\ DOMAIN log = 1 .. n /\ DOMAIN more = 1 .. (n + 1)
      /\ more[n + 1] = c /\ \A i \in 1 .. n : more[i] = log[i]
  OBVIOUS
<1>2. c.asserts \subseteq Fact
  BY DEF Commit
<1> HIDE DEF more, n
<1>3. ASSUME NEW f \in Fact
      PROVE  f \in Replay(facts, more, after) <=>
                 f \in c.asserts \/ (f \in Replay(facts, log, after) /\ f \notin c.retracts)
  <2>1. CASE f \in c.asserts
    <3>1. more[n + 1].version > after /\ f \in more[n + 1].asserts
          /\ \A j \in DOMAIN more : j > n + 1 => ~ Names(more[j], f)
      BY <1>1, <2>1
    <3> QED
      BY <1>1, <2>1, <3>1 DEF Replay
  <2>2. CASE f \in c.retracts
    <3>1. Names(more[n + 1], f) /\ n + 1 \in DOMAIN more /\ more[n + 1].version > after
          /\ f \notin more[n + 1].asserts
      BY <1>1, <2>2 DEF Names
    <3>2. \A i \in DOMAIN more : i # n + 1 => n + 1 > i
      BY <1>1
    <3> QED
      BY <2>2, <3>1, <3>2 DEF Replay
  <2>3. CASE ~ Names(c, f)
    <3>1. f \notin c.asserts /\ f \notin c.retracts /\ ~ Names(more[n + 1], f)
      BY <1>1, <2>3 DEF Names
    <3>2. ASSUME NEW i \in DOMAIN log, \A j \in DOMAIN log : j > i => ~ Names(log[j], f)
          PROVE  \A j \in DOMAIN more : j > i => ~ Names(more[j], f)
      BY <1>1, <3>1, <3>2
    <3>3. ASSUME NEW i \in DOMAIN log, \A j \in DOMAIN more : j > i => ~ Names(more[j], f)
          PROVE  \A j \in DOMAIN log : j > i => ~ Names(log[j], f)
      BY <1>1, <3>3
    <3>4. (\A i \in DOMAIN log : log[i].version > after => ~ Names(log[i], f)) <=>
          (\A i \in DOMAIN more : more[i].version > after => ~ Names(more[i], f))
      BY <1>1, <3>1
    <3>5. f \notin more[n + 1].asserts
      BY <1>1, <3>1
    <3>6. f \in Replay(facts, log, after) => f \in Replay(facts, more, after)
      BY <1>1, <3>2, <3>4 DEF Replay
    <3>7. f \in Replay(facts, more, after) => f \in Replay(facts, log, after)
      BY <1>1, <3>3, <3>4, <3>5 DEF Replay
    <3> QED
      BY <3>1, <3>6, <3>7
  <2> QED
    BY <2>1, <2>2, <2>3 DEF Names
<1>4. Replay(facts, more, after) \subseteq Fact /\ Replay(facts, log, after) \subseteq Fact
  BY DEF Replay
<1> QED
  BY <1>2, <1>3, <1>4 DEF more

(* Nothing of a log is newer than the snapshot that lists it.              *)
LEMMA ReplayNothing ==
    ASSUME NEW facts \in SUBSET Fact, NEW log \in Seq(Commit), NEW after \in Nat,
           \A i \in DOMAIN log : log[i].version <= after
    PROVE  Replay(facts, log, after) = facts
<1>1. \A i \in DOMAIN log : ~ (log[i].version > after)
  <2> TAKE i \in DOMAIN log
  <2>1. log[i] \in Commit
    OBVIOUS
  <2>2. log[i].version \in Nat
    BY <2>1 DEF Commit
  <2> QED
    BY <2>2
<1> QED
  BY <1>1 DEF Replay

(* Both logs replay, and list no commit of the future.                     *)
LogInv ==
    /\ root.version >= BaseVersion
    /\ \A i \in DOMAIN history : history[i].version <= root.version
    /\ CommitsReplay
    /\ AcceptedReplays

LEMMA InitLogs == Init => LogInv
<1> SUFFICES ASSUME Init
             PROVE  LogInv
  OBVIOUS
<1>1. TypeOK
  BY InitType
<1>2. /\ root = BaseSnapshot /\ history = <<>> /\ accepted = <<>> /\ lock = Free
      /\ \A t \in Txn : status[t] = "idle"
  BY DEF Init, Actor
<1>3. root.version >= BaseVersion /\ \A i \in DOMAIN history : history[i].version <= root.version
  BY BaseAssumption, <1>2 DEF BaseSnapshot
<1>4. DurableFacts(BaseFacts) \in SUBSET Fact
  BY BaseAssumption DEF DurableFacts
<1>5. Replay(DurableFacts(BaseFacts), accepted, BaseVersion) = DurableFacts(BaseFacts)
  BY <1>2, <1>4 DEF Replay
<1>6. UNION {accepted[i].created : i \in DOMAIN accepted} = {}
  BY <1>2
<1>7. RecoverableSnapshot = BaseSnapshot
  BY <1>2 DEF RecoverableSnapshot
<1>8. AcceptedReplays
  BY <1>5, <1>6, <1>7 DEF AcceptedReplays, BaseSnapshot
<1> QED
  BY <1>2, <1>3, <1>8 DEF LogInv, CommitsReplay

(* A step that writes no log: a transaction that is open afterwards kept   *)
(* its base, or has just taken the root for it.                            *)
LEMMA LogsUnwritten ==
    ASSUME TypeOK, LogInv, root' = root, history' = history, accepted' = accepted,
           RecoverableSnapshot' = RecoverableSnapshot,
           \A t \in Txn : status'[t] # "idle" =>
               \/ base'[t] = root
               \/ base'[t] = base[t] /\ status[t] # "idle"
    PROVE  LogInv'
<1>1. Replay(root.facts, history, root.version) = root.facts
  <2>1. root.facts \in SUBSET Fact /\ root.version \in Nat /\ history \in Seq(Commit)
    BY DEF TypeOK, Snapshot
  <2>2. \A i \in DOMAIN history : history[i].version <= root.version
    BY DEF LogInv
  <2> QED
    BY <2>1, <2>2, ReplayNothing
<1>2. ASSUME NEW t \in Txn, status'[t] # "idle"
      PROVE  Replay(base'[t].facts, history', base'[t].version) = root'.facts
  BY <1>1, <1>2 DEF LogInv, CommitsReplay
<1>3. CommitsReplay'
  BY <1>2 DEF CommitsReplay
<1>4. AcceptedReplays'
  BY DEF LogInv, AcceptedReplays
<1> QED
  BY <1>3, <1>4 DEF LogInv

(* The snapshot to recover stays with the lock holder's status and work.   *)
LEMMA SameRecoverable ==
    ASSUME TypeOK, root' = root, lock' = lock,
           \A a \in Actor : lock = a => status'[a] = status[a] /\ prepared'[a] = prepared[a]
    PROVE  RecoverableSnapshot' = RecoverableSnapshot
BY DEF TypeOK, RecoverableSnapshot

LEMMA LockTakenRecoverable ==
    ASSUME TypeOK, NEW a \in Actor, NEW w, TakeLock(a, w), root' = root
    PROVE  RecoverableSnapshot' = RecoverableSnapshot
<1>1. lock = Free /\ lock' = a /\ status'[a] = "persist"
  BY DEF TakeLock, TypeOK
<1> QED
  BY <1>1 DEF RecoverableSnapshot

LEMMA TransactionStepLogs ==
    ASSUME IInv, LogInv, NEW t \in Txn, TransactionStep(t)
    PROVE  LogInv'
<1>1. TypeOK /\ LockInv /\ t \in Actor
  BY DEF IInv, Actor
<1>2. UNCHANGED <<root, history, accepted>>
  BY DEF TransactionStep, Begin, AssertTuple, AssertRefused, RetractTuple, ReplaceFunctional,
         CommitTransaction, CommitConflict, Rollback
<1>3. \A u \in Txn : status'[u] # "idle" =>
          \/ base'[u] = root
          \/ base'[u] = base[u] /\ status[u] # "idle"
  <2>1. CASE Begin(t)
    BY <1>1, <2>1 DEF Begin, TypeOK
  <2>2. CASE CommitConflict(t) \/ Rollback(t)
    <3>1. status' = [status EXCEPT ![t] = "idle"] /\ base' = [base EXCEPT ![t] = BaseSnapshot]
      BY <2>2 DEF CommitConflict, Rollback, Reset
    <3> QED
      BY <1>1, <3>1 DEF TypeOK, Actor
  <2>3. CASE CommitTransaction(t)
    BY <1>1, <2>3 DEF CommitTransaction, TakeLock, txnVars, TypeOK, Actor
  <2>4. CASE \E f \in Fact : AssertTuple(t, f) \/ AssertRefused(t, f)
                             \/ RetractTuple(t, f) \/ ReplaceFunctional(t, f)
    BY <2>4 DEF AssertTuple, AssertRefused, RetractTuple, ReplaceFunctional
  <2> QED
    BY <2>1, <2>2, <2>3, <2>4 DEF TransactionStep
<1>4. RecoverableSnapshot' = RecoverableSnapshot
  <2>1. CASE CommitTransaction(t)
    BY <1>1, <1>2, <2>1, LockTakenRecoverable DEF CommitTransaction
  <2>2. CASE ~ CommitTransaction(t)
    <3>1. /\ lock' = lock /\ prepared' = prepared
          /\ status' = status \/ \E v \in {"idle", "active"} : status' = [status EXCEPT ![t] = v]
          /\ status[t] \in {"idle", "active"}
      BY <2>2 DEF TransactionStep, Begin, AssertTuple, AssertRefused, RetractTuple,
                  ReplaceFunctional, CanWrite, CommitConflict, Rollback
    <3>2. lock # t
      BY <1>1, <3>1 DEF LockInv, Committing
    <3>3. \A a \in Actor : lock = a => status'[a] = status[a] /\ prepared'[a] = prepared[a]
      BY <1>1, <3>1, <3>2 DEF TypeOK
    <3> QED
      BY <1>1, <1>2, <3>1, <3>3, SameRecoverable
  <2> QED
    BY <2>1, <2>2
<1> QED
  BY <1>1, <1>2, <1>3, <1>4, LogsUnwritten

LEMMA StageStepLogs ==
    ASSUME IInv, LogInv, NEW s \in Stage, StageStep(s)
    PROVE  LogInv'
<1>1. TypeOK /\ LockInv /\ s \in Actor /\ s \notin Txn /\ Txn \subseteq Actor
  BY ActorAssumption DEF IInv, Actor
<1>2. UNCHANGED <<root, history, accepted, txnVars>>
  BY DEF StageStep, StageOpen, ForkInMemory, ForkReplace, ForkRetract, ForkPublish,
         ForkCreateRelation, CommitStaged, CommitStagedStale
<1>3. status' = status \/ \E v \in Status : status' = [status EXCEPT ![s] = v]
  BY DEF StageStep, StageOpen, ForkInMemory, ForkReplace, ForkRetract, ForkPublish,
         ForkCreateRelation, CommitStaged, CommitStagedStale, TakeLock, Status
<1>4. \A a \in Actor : a # s => status'[a] = status[a]
  BY <1>1, <1>3 DEF TypeOK
<1>5. RecoverableSnapshot' = RecoverableSnapshot
  <2>1. CASE CommitStaged(s)
    BY <1>1, <1>2, <2>1, LockTakenRecoverable DEF CommitStaged
  <2>2. CASE ~ CommitStaged(s)
    <3>1. lock' = lock /\ prepared' = prepared /\ status[s] \in {"idle", "open", "active"}
      BY <2>2 DEF StageStep, StageOpen, ForkInMemory, ForkReplace, ForkRetract, ForkPublish,
                  ForkCanWrite, ForkCreateRelation, CommitStagedStale
    <3>2. lock # s
      BY <1>1, <3>1 DEF LockInv, Committing
    <3> QED
      BY <1>1, <1>2, <1>4, <3>1, <3>2, SameRecoverable
  <2> QED
    BY <2>1, <2>2
<1>6. \A t \in Txn : status'[t] = status[t] /\ base'[t] = base[t]
  BY <1>1, <1>2, <1>4 DEF txnVars
<1> QED
  BY <1>1, <1>2, <1>5, <1>6, LogsUnwritten

LEMMA CreateRelationLogs ==
    ASSUME IInv, LogInv, NEW a \in Admin, NEW r \in Relation, CreateRelation(a, r)
    PROVE  LogInv'
<1>1. TypeOK /\ a \in Actor /\ a \notin Txn /\ Txn \subseteq Actor
  BY ActorAssumption DEF IInv, Actor
<1>2. UNCHANGED <<root, history, accepted, txnVars>> /\ TakeLock(a, CreateWork(r))
  BY DEF CreateRelation
<1>3. RecoverableSnapshot' = RecoverableSnapshot
  BY <1>1, <1>2, LockTakenRecoverable
<1>4. \A t \in Txn : status'[t] = status[t] /\ base'[t] = base[t]
  BY <1>1, <1>2 DEF TakeLock, TypeOK, txnVars
<1> QED
  BY <1>1, <1>2, <1>3, <1>4, LogsUnwritten

(* What persist_commit_against hands to the provider is a commit, and the  *)
(* exact difference of the durable facts.                                  *)
LEMMA DurableDifference ==
    ASSUME TypeOK, NEW a \in Actor, Succeeds(prepared[a])
    PROVE  LET c == DurablePart(prepared[a].commit) IN
           /\ c \in Commit
           /\ c.version = root.version + 1
           /\ c.asserts \cap c.retracts = {}
           /\ c.created = prepared[a].next.relations \ root.relations
           /\ DurableFacts(prepared[a].next.facts) =
                  (DurableFacts(root.facts) \ c.retracts) \cup c.asserts
<1> DEFINE w == prepared[a]
           c == DurablePart(w.commit)
<1>1. w.commit \in Commit /\ w.next \in Snapshot /\ root \in Snapshot
  BY DEF TypeOK
<1>2. w.commit = [version |-> root.version + 1,
                  asserts |-> w.next.facts \ root.facts,
                  retracts |-> root.facts \ w.next.facts,
                  created |-> w.next.relations \ root.relations]
  BY DEF Succeeds
<1>3. c \in Commit /\ c.version = w.commit.version /\ c.created = w.commit.created
  BY <1>1 DEF DurablePart, Commit
<1>4. /\ c.asserts = {f \in w.commit.asserts : RelationOf[f] \in Durable}
      /\ c.retracts = {f \in w.commit.retracts : RelationOf[f] \in Durable}
  BY <1>1 DEF DurablePart, Commit
<1> HIDE DEF w, c
<1>5. /\ c.version = root.version + 1
      /\ c.created = w.next.relations \ root.relations
      /\ c.asserts = {f \in w.next.facts \ root.facts : RelationOf[f] \in Durable}
      /\ c.retracts = {f \in root.facts \ w.next.facts : RelationOf[f] \in Durable}
  BY <1>2, <1>3, <1>4
<1>6. DurableFacts(w.next.facts) = (DurableFacts(root.facts) \ c.retracts) \cup c.asserts
  BY <1>5 DEF DurableFacts
<1>7. c.asserts \cap c.retracts = {}
  BY <1>5
<1> QED
  BY <1>3, <1>5, <1>6, <1>7 DEF w, c

LEMMA PersistLogs ==
    ASSUME IInv, LogInv, NEW a \in Actor, Persist(a)
    PROVE  LogInv'
<1> DEFINE w == prepared[a]
           c == DurablePart(w.commit)
<1>1. TypeOK /\ LockInv /\ TypeOK'
  BY CommitStepType DEF IInv, CommitStep
<1>2. /\ status[a] = "persist" /\ status' = [status EXCEPT ![a] = "publish"]
      /\ UNCHANGED <<root, history, lock, txnVars, prepared>>
      /\ accepted' = IF NeedsPersisting(w.commit) THEN Append(accepted, c) ELSE accepted
  BY DEF Persist
<1>3. lock = a /\ a # Free /\ status'[a] = "publish"
  BY ActorAssumption, <1>1, <1>2 DEF LockInv, Committing, TypeOK
<1>4. RecoverableSnapshot = root /\ RecoverableSnapshot' = w.next
  BY <1>2, <1>3 DEF RecoverableSnapshot
<1>5. Succeeds(w)
  BY <1>2 DEF IInv, PreparedInv, Committing
<1>6. /\ c \in Commit /\ c.version = root.version + 1 /\ c.asserts \cap c.retracts = {}
      /\ c.created = w.next.relations \ root.relations
      /\ DurableFacts(w.next.facts) = (DurableFacts(root.facts) \ c.retracts) \cup c.asserts
  BY <1>1, <1>5, DurableDifference
<1>7. root.version \in Nat /\ accepted \in Seq(Commit) /\ DurableFacts(BaseFacts) \in SUBSET Fact
      /\ root.relations \subseteq w.next.relations
  BY BaseAssumption, <1>1, <1>5 DEF TypeOK, Snapshot, DurableFacts, Succeeds
<1>8. /\ Replay(DurableFacts(BaseFacts), accepted, BaseVersion) = DurableFacts(root.facts)
      /\ BaseRelations \cup UNION {accepted[i].created : i \in DOMAIN accepted} = root.relations
  BY <1>4 DEF LogInv, AcceptedReplays
<1> HIDE DEF w, c
<1>9. AcceptedReplays'
  <2>1. CASE NeedsPersisting(w.commit)
    <3>1. accepted' = Append(accepted, c)
      BY <1>2, <2>1
    <3>2. c.version > BaseVersion
      BY BaseAssumption, <1>6, <1>7 DEF LogInv
    <3>3. Replay(DurableFacts(BaseFacts), accepted', BaseVersion) = DurableFacts(w.next.facts)
      <4>1. Replay(DurableFacts(BaseFacts), Append(accepted, c), BaseVersion)
              = (Replay(DurableFacts(BaseFacts), accepted, BaseVersion) \ c.retracts) \cup c.asserts
        BY BaseAssumption, <1>6, <1>7, <3>2, ReplayAppend
      <4> QED
        BY <1>6, <1>8, <3>1, <4>1
    <3>4. UNION {accepted'[i].created : i \in DOMAIN accepted'}
            = (UNION {accepted[i].created : i \in DOMAIN accepted}) \cup c.created
      <4>1. /\ DOMAIN accepted' = 1 .. (Len(accepted) + 1) /\ DOMAIN accepted = 1 .. Len(accepted)
            /\ accepted'[Len(accepted) + 1] = c
            /\ \A i \in 1 .. Len(accepted) : accepted'[i] = accepted[i]
            /\ Len(accepted) \in Nat
        BY <1>6, <1>7, <3>1
      <4>2. \A i \in DOMAIN accepted' : i \in DOMAIN accepted \/ i = Len(accepted) + 1
        BY <4>1
      <4>3. Len(accepted) + 1 \in DOMAIN accepted' /\ DOMAIN accepted \subseteq DOMAIN accepted'
        BY <4>1
      <4> QED
        BY <4>1, <4>2, <4>3
    <3>5. BaseRelations \cup UNION {accepted'[i].created : i \in DOMAIN accepted'} = w.next.relations
      BY <1>6, <1>7, <1>8, <3>4
    <3> QED
      BY <1>4, <3>3, <3>5 DEF AcceptedReplays
  <2>2. CASE ~ NeedsPersisting(w.commit)
    <3>1. accepted' = accepted
      BY <1>2, <2>2
    <3>2. c.asserts = {} /\ c.retracts = {} /\ w.commit.created = {}
      BY <2>2 DEF NeedsPersisting, c
    <3>3. w.next.relations = root.relations
      <4>1. w.commit.created = w.next.relations \ root.relations
        BY <1>5 DEF Succeeds
      <4> QED
        BY <1>7, <3>2, <4>1, ZenonT(30)
    <3>4. DurableFacts(w.next.facts) = DurableFacts(root.facts)
      BY <1>6, <3>2
    <3> QED
      BY <1>4, <1>8, <3>1, <3>3, <3>4 DEF AcceptedReplays
  <2> QED
    BY <2>1, <2>2
<1>10. CommitsReplay'
  <2>1. \A t \in Txn : status'[t] # "idle" => status[t] # "idle"
    BY <1>1, <1>2 DEF TypeOK, Actor
  <2> QED
    BY <1>2, <2>1 DEF LogInv, CommitsReplay, txnVars
<1> QED
  BY <1>2, <1>9, <1>10 DEF LogInv

LEMMA PublishLogs ==
    ASSUME IInv, LogInv, NEW a \in Actor, Publish(a)
    PROVE  LogInv'
<1> DEFINE c == prepared[a].commit
<1>1. TypeOK /\ LockInv /\ TypeOK'
  BY CommitStepType DEF IInv, CommitStep
<1>2. /\ status[a] = "publish" /\ Finish(a) /\ accepted' = accepted
      /\ root' = prepared[a].next /\ history' = Append(history, c) /\ Succeeds(prepared[a])
  BY PublishesPrepared DEF Publish
<1>3. lock = a /\ lock' = Free /\ a # Free
  BY ActorAssumption, <1>1, <1>2 DEF LockInv, Committing, Finish
<1>4. RecoverableSnapshot' = RecoverableSnapshot
  BY <1>2, <1>3 DEF RecoverableSnapshot
<1>5. AcceptedReplays'
  BY <1>2, <1>4 DEF LogInv, AcceptedReplays
<1>0. /\ root.version >= BaseVersion /\ CommitsReplay
      /\ \A i \in DOMAIN history : history[i].version <= root.version
  BY DEF LogInv
<1>6. /\ c \in Commit /\ c.version = root.version + 1 /\ root'.version = root.version + 1
      /\ c.asserts = root'.facts \ root.facts /\ c.retracts = root.facts \ root'.facts
      /\ root.version \in Nat /\ history \in Seq(Commit)
  BY <1>1, <1>2 DEF TypeOK, Snapshot, Succeeds
<1> HIDE DEF c
<1>7. root'.version >= BaseVersion
  BY BaseAssumption, <1>0, <1>6
<1>8. \A i \in DOMAIN history' : history'[i].version <= root'.version
  <2> SUFFICES ASSUME NEW i \in DOMAIN history'
               PROVE  history'[i].version <= root'.version
    OBVIOUS
  <2>1. CASE i \in DOMAIN history
    <3>1. history'[i] = history[i] /\ history[i] \in Commit /\ history[i].version <= root.version
      BY <1>0, <1>2, <1>6, <2>1
    <3> QED
      BY <1>6, <3>1 DEF Commit
  <2>2. CASE i \notin DOMAIN history
    BY <1>2, <1>6, <2>2
  <2> QED
    BY <2>1, <2>2
<1>9. CommitsReplay'
  <2> SUFFICES ASSUME NEW t \in Txn, status'[t] # "idle"
               PROVE  Replay(base[t].facts, history, base[t].version)' = root'.facts
    BY DEF CommitsReplay
  <2>1. t \in Actor /\ t # a /\ status[t] = status'[t] /\ ~ Committing(t)
    BY <1>1, <1>2, LockReleasedInv DEF Actor, Committing
  <2>2. status[t] = "active"
    BY <1>1, <2>1 DEF TypeOK, Status, LockInv, Committing
  <2>3. base'[t] = base[t]
    BY <1>1, <1>2, <2>1 DEF Finish, Reset, txnVars, TypeOK
  <2>4. base[t].version <= root.version /\ base[t].version \in Nat /\ base[t].facts \in SUBSET Fact
    BY <1>1, <2>2 DEF IInv, TransactionInv, BaseOK, TypeOK, Snapshot
  <2>5. Replay(base[t].facts, history, base[t].version) = root.facts
    BY <1>0, <2>2 DEF CommitsReplay
  <2>6. c.version > base[t].version /\ c.asserts \cap c.retracts = {}
    BY <1>6, <2>4
  <2>7. Replay(base[t].facts, history', base[t].version) = (root.facts \ c.retracts) \cup c.asserts
    <3>1. Replay(base[t].facts, Append(history, c), base[t].version)
            = (Replay(base[t].facts, history, base[t].version) \ c.retracts) \cup c.asserts
      BY <1>6, <2>4, <2>6, ReplayAppend
    <3> QED
      BY <1>2, <2>5, <3>1
  <2>8. (root.facts \ c.retracts) \cup c.asserts = root'.facts
    BY <1>6
  <2> QED
    BY <2>3, <2>7, <2>8
<1> QED
  BY <1>5, <1>7, <1>8, <1>9 DEF LogInv

LEMMA RefusedLogs ==
    ASSUME IInv, LogInv, NEW a \in Actor, PersistRefused(a)
    PROVE  LogInv'
<1>1. TypeOK /\ LockInv
  BY DEF IInv
<1>2. status[a] = "persist" /\ Finish(a) /\ UNCHANGED <<root, history, accepted>>
  BY DEF PersistRefused
<1>3. lock = a /\ lock' = Free
  BY <1>1, <1>2 DEF LockInv, Committing, Finish
<1>4. RecoverableSnapshot' = RecoverableSnapshot
  BY <1>2, <1>3 DEF RecoverableSnapshot
<1>5. \A t \in Txn : status'[t] # "idle" => base'[t] = base[t] /\ status[t] # "idle"
  BY <1>1, <1>2 DEF Finish, Reset, txnVars, TypeOK, Actor
<1> QED
  BY <1>1, <1>2, <1>4, <1>5, LogsUnwritten

LEMMA NextLogs ==
    ASSUME IInv, LogInv, [Next]_vars
    PROVE  LogInv'
<1>1. CASE UNCHANGED vars
  BY <1>1, LogsUnwritten DEF vars, txnVars, RecoverableSnapshot, IInv
<1> QED
  BY <1>1, TransactionStepLogs, StageStepLogs, CreateRelationLogs, PersistLogs, RefusedLogs,
     PublishLogs DEF Next, CommitStep

(* The logs tell the truth: Snapshot::commits_since gives the exact        *)
(* difference between a held snapshot and the current one, what the        *)
(* provider accepted replays to what is published, and a commit that was   *)
(* persisted is published, whatever transactions, forks, new relations and *)
(* refusals interleave.                                                    *)
THEOREM LogsAlwaysReplay == Spec => []LogsReplay
<1>1. IInv /\ LogInv => CommitsReplay /\ AcceptedReplays
  BY DEF LogInv
<1>2. Spec => [](CommitsReplay /\ AcceptedReplays)
  BY <1>1, InitLogs, NextLogs, Inductive, PTL DEF Spec
<1>3. CommitsReplay /\ AcceptedReplays /\ PublishNeverLoses => LogsReplay
  BY DEF LogsReplay
<1> QED
  BY <1>2, <1>3, PublishSucceeds, PTL
=============================================================================
