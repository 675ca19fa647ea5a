------------------------ MODULE RelationKernelProofs ------------------------
(***************************************************************************)
(* The inductive invariant of RelationKernel: type correctness, lemmas     *)
(* about overlays, visibility maps and prepared commits, every step keeps  *)
(* it, and what follows for the states (unique functional keys, an exact   *)
(* visibility map, validation of all written keys, no lost publication).   *)
(* Everything holds for every set of transactions, forks, facts, relations *)
(* and keys.                                                               *)
(***************************************************************************)
EXTENDS RelationKernel, TLAPS

Committing(a) == status[a] \in {"persist", "publish"}

(* The lock is held by the one actor that persists or publishes; only      *)
(* transactions and forks have private work before that.                   *)
LockInv ==
    /\ \A a \in Actor : Committing(a) <=> lock = a
    /\ \A t \in Txn : status[t] # "open"
    /\ \A a \in Admin : status[a] \notin {"open", "active"}

(* The work w succeeds the root, and its commit is the exact difference.   *)
Succeeds(w) ==
    /\ w.next.version = root.version + 1
    /\ root.relations \subseteq w.next.relations
    /\ UniqueKeys(w.next.facts)
    /\ w.commit = [version |-> root.version + 1,
                   asserts |-> w.next.facts \ root.facts,
                   retracts |-> root.facts \ w.next.facts,
                   created |-> w.next.relations \ root.relations]

(* What the lock holder is about to publish succeeds the root.             *)
PreparedInv == \A a \in Actor : Committing(a) => Succeeds(prepared[a])

(* A base snapshot is no newer than the root, and is the root's state when *)
(* their versions agree.                                                   *)
BaseOK(t) ==
    /\ UniqueKeys(base[t].facts)
    /\ status[t] = "active" =>
          /\ base[t].version <= root.version
          /\ base[t].version = root.version => base[t].facts = root.facts

(* The overlay of a transaction and its visibility map.  An idle           *)
(* transaction has neither.                                                *)
OverlayOK(t) ==
    /\ UniqueKeys(View(t))
    /\ \A k \in tracked[t] : visible[t][k] = TupleForKey(View(t), k)
    /\ \A f \in Fact : KeyOf[f] \in tracked[t] => RelationOf[f] \in built[t]
    /\ \A r \in built[t] : Policy[r] = "Functional"
    /\ \A f \in Written(t) : RelationOf[f] \in built[t] => KeyOf[f] \in tracked[t]
    /\ \A f \in Asserted(t) : Functional(f) => RelationOf[f] \in built[t]

IdleOK(t) ==
    status[t] = "idle" =>
        /\ writes[t] = [f \in Fact |-> "none"]
        /\ built[t] = {}
        /\ tracked[t] = {}

(* A fork whose expected version is still the root's differs from the root *)
(* only in the facts its own commits named.                                *)
ForkOK(s) ==
    /\ UniqueKeys(fork[s].facts)
    /\ status[s] \in {"idle", "open"} => touched[s] = {}
    /\ status[s] \in {"open", "active"} => expected[s] <= root.version
    /\ status[s] = "active" /\ expected[s] = root.version =>
          /\ root.relations \subseteq fork[s].relations
          /\ \A f \in Fact \ touched[s] : f \in fork[s].facts <=> f \in root.facts

TransactionInv == \A t \in Txn : BaseOK(t) /\ OverlayOK(t) /\ IdleOK(t)

StageInv == \A s \in Stage : ForkOK(s)

IInv ==
    /\ TypeOK
    /\ UniqueKeys(root.facts)
    /\ LockInv
    /\ PreparedInv
    /\ TransactionInv
    /\ StageInv

-----------------------------------------------------------------------------
USE ZenonT(5), SMTT(20)

(* The overlay and the visibility map stay in their types.                 *)
LEMMA OverlayTypes ==
    ASSUME TypeOK, NEW t \in Txn, NEW f \in Fact, NEW r \in Relation
    PROVE  /\ Asserted(t) \subseteq Fact
           /\ Retracted(t) \subseteq Fact
           /\ Written(t) \subseteq Fact
           /\ MapKeys(t, r) \subseteq Key
           /\ MapVisible(t, r) \in [Key -> SUBSET Fact]
           /\ VisibleTupleForKey(t, f) \subseteq Fact
           /\ \A k \in Key : TupleForKey(base[t].facts, k) \subseteq Fact
<1>1. base[t].facts \subseteq Fact
  BY DEF TypeOK, Snapshot
<1>2. \A k \in Key : TupleForKey(base[t].facts, k) \subseteq Fact
  BY <1>1 DEF TupleForKey
<1>3. /\ Asserted(t) \subseteq Fact
      /\ Retracted(t) \subseteq Fact
      /\ Written(t) \subseteq Fact
  BY DEF Asserted, Retracted, Written
<1>4. MapKeys(t, r) \subseteq Key
  BY CatalogAssumption, <1>3 DEF TypeOK, MapKeys
<1>5. \A q \in Relation : MapVisible(t, q) \in [Key -> SUBSET Fact]
  BY <1>2 DEF TypeOK, MapVisible
<1>6. VisibleTupleForKey(t, f) \subseteq Fact
  BY CatalogAssumption, <1>2, <1>5 DEF VisibleTupleForKey
<1> QED
  BY <1>2, <1>3, <1>4, <1>5, <1>6

(* Recording one change keeps a visibility map a function on the keys.     *)
LEMMA RecordChangeType ==
    ASSUME TypeOK, NEW t \in Txn, NEW f \in Fact, NEW ks \in SUBSET Key,
           NEW vs \in [Key -> SUBSET Fact], NEW change \in LocalChange
    PROVE  RecordChange(t, ks, vs, f, change) \in [Key -> SUBSET Fact]
<1>1. TupleForKey(base[t].facts, KeyOf[f]) \subseteq Fact
  BY DEF TypeOK, Snapshot, TupleForKey
<1> QED
  BY <1>1 DEF RecordChange, VisibleAfterChange

LEMMA ResetType ==
    ASSUME TypeOK, NEW t \in Txn, Reset(t)
    PROVE  /\ base' \in [Txn -> Snapshot]
           /\ writes' \in [Txn -> [Fact -> LocalChange]]
           /\ built' \in [Txn -> SUBSET Relation]
           /\ tracked' \in [Txn -> SUBSET Key]
           /\ visible' \in [Txn -> [Key -> SUBSET Fact]]
BY BaseAssumption DEF TypeOK, Reset, Snapshot, BaseSnapshot, LocalChange

LEMMA StageResetType ==
    ASSUME TypeOK, NEW s \in Stage, StageReset(s)
    PROVE  /\ expected' \in [Stage -> Nat]
           /\ fork' \in [Stage -> Snapshot]
           /\ touched' \in [Stage -> SUBSET Fact]
BY BaseAssumption DEF TypeOK, StageReset, Snapshot, BaseSnapshot

(* Finishing a commit, published or refused, keeps the private state typed.*)
LEMMA FinishType ==
    ASSUME TypeOK, NEW a \in Actor, Finish(a)
    PROVE  /\ lock' \in Actor \cup {Free}
           /\ status' \in [Actor -> Status]
           /\ base' \in [Txn -> Snapshot]
           /\ writes' \in [Txn -> [Fact -> LocalChange]]
           /\ built' \in [Txn -> SUBSET Relation]
           /\ tracked' \in [Txn -> SUBSET Key]
           /\ visible' \in [Txn -> [Key -> SUBSET Fact]]
           /\ expected' \in [Stage -> Nat]
           /\ fork' \in [Stage -> Snapshot]
           /\ touched' \in [Stage -> SUBSET Fact]
           /\ prepared' \in [Actor -> [next : Snapshot, commit : Commit]]
<1>1. /\ lock' \in Actor \cup {Free}
      /\ status' \in [Actor -> Status]
  BY DEF TypeOK, Finish, Status
<1>2. prepared' \in [Actor -> [next : Snapshot, commit : Commit]]
  BY BaseAssumption DEF TypeOK, Finish, NoWork, BaseSnapshot, EmptyCommit, Snapshot, Commit
<1>3. /\ base' \in [Txn -> Snapshot]
      /\ writes' \in [Txn -> [Fact -> LocalChange]]
      /\ built' \in [Txn -> SUBSET Relation]
      /\ tracked' \in [Txn -> SUBSET Key]
      /\ visible' \in [Txn -> [Key -> SUBSET Fact]]
  <2>1. CASE a \in Txn
    BY <2>1, ResetType DEF Finish
  <2>2. CASE a \notin Txn
    BY <2>2 DEF TypeOK, Finish, txnVars
  <2> QED
    BY <2>1, <2>2
<1>4. /\ expected' \in [Stage -> Nat]
      /\ fork' \in [Stage -> Snapshot]
      /\ touched' \in [Stage -> SUBSET Fact]
  <2>1. CASE a \in Stage
    BY <2>1, StageResetType DEF Finish
  <2>2. CASE a \notin Stage
    BY <2>2 DEF TypeOK, Finish, stageVars
  <2> QED
    BY <2>1, <2>2
<1> QED
  BY <1>1, <1>2, <1>3, <1>4

(* The work of each kind of committer is a snapshot and a commit.          *)
LEMMA WorkType ==
    ASSUME TypeOK
    PROVE  /\ \A t \in Txn : TransactionWork(t) \in [next : Snapshot, commit : Commit]
           /\ \A s \in Stage : StagedWork(s) \in [next : Snapshot, commit : Commit]
           /\ \A r \in Relation : CreateWork(r) \in [next : Snapshot, commit : Commit]
<1>1. root.version + 1 \in Nat /\ root.facts \subseteq Fact /\ root.relations \subseteq Relation
  BY DEF TypeOK, Snapshot
<1>2. ASSUME NEW t \in Txn
      PROVE  TransactionWork(t) \in [next : Snapshot, commit : Commit]
  <2>1. Asserted(t) \subseteq Fact /\ Retracted(t) \subseteq Fact
    BY DEF Asserted, Retracted
  <2> QED
    BY <1>1, <2>1 DEF TransactionWork, NextFacts, Snapshot, Commit
<1>3. ASSUME NEW s \in Stage
      PROVE  StagedWork(s) \in [next : Snapshot, commit : Commit]
  <2>1. fork[s] \in Snapshot /\ touched[s] \subseteq Fact
    BY DEF TypeOK
  <2> QED
    BY <1>1, <2>1 DEF StagedWork, Snapshot, Commit
<1>4. ASSUME NEW r \in Relation
      PROVE  CreateWork(r) \in [next : Snapshot, commit : Commit]
  BY <1>1 DEF CreateWork, Snapshot, Commit
<1> QED
  BY <1>2, <1>3, <1>4

LEMMA TakeLockType ==
    ASSUME TypeOK, NEW a \in Actor, NEW w \in [next : Snapshot, commit : Commit],
           TakeLock(a, w)
    PROVE  /\ lock' \in Actor \cup {Free}
           /\ status' \in [Actor -> Status]
           /\ prepared' \in [Actor -> [next : Snapshot, commit : Commit]]
BY DEF TypeOK, TakeLock, Status

(* One step of a transaction keeps the types.                              *)
LEMMA TransactionStepType ==
    ASSUME TypeOK, NEW t \in Txn, TransactionStep(t)
    PROVE  TypeOK'
<1> t \in Actor
  BY DEF Actor
<1>1. CASE Begin(t)
  BY <1>1 DEF TypeOK, Begin, Status, stageVars
<1>2. ASSUME NEW f \in Fact, AssertTuple(t, f)
      PROVE  TypeOK'
  <2>1. RelationOf[f] \in Relation /\ KeyOf[f] \in Key
    BY CatalogAssumption
  <2>2. writes' \in [Txn -> [Fact -> LocalChange]]
    BY <1>2 DEF TypeOK, AssertTuple, LocalChange
  <2>3. CASE Functional(f)
    <3>1. RecordChange(t, MapKeys(t, RelationOf[f]), MapVisible(t, RelationOf[f]), f, "assert")
            \in [Key -> SUBSET Fact]
      BY <2>1, OverlayTypes, RecordChangeType, ZenonT(30) DEF LocalChange
    <3>2. MapKeys(t, RelationOf[f]) \subseteq Key
      BY <2>1, OverlayTypes
    <3>3. /\ built' \in [Txn -> SUBSET Relation]
          /\ tracked' \in [Txn -> SUBSET Key]
      <4>1. /\ built' = [built EXCEPT ![t] = @ \cup {RelationOf[f]}]
            /\ tracked' = [tracked EXCEPT ![t] = MapKeys(t, RelationOf[f]) \cup {KeyOf[f]}]
        BY <1>2, <2>3 DEF AssertTuple
      <4> QED
        BY <2>1, <3>2, <4>1 DEF TypeOK
    <3>4. visible' \in [Txn -> [Key -> SUBSET Fact]]
      BY <1>2, <2>3, <3>1, ZenonT(30) DEF TypeOK, AssertTuple
    <3> QED
      BY <1>2, <2>2, <3>3, <3>4 DEF TypeOK, AssertTuple, stageVars
  <2>4. CASE ~ Functional(f)
    BY <1>2, <2>2, <2>4 DEF TypeOK, AssertTuple, stageVars
  <2> QED
    BY <2>3, <2>4
<1>3. ASSUME NEW f \in Fact, AssertRefused(t, f)
      PROVE  TypeOK'
  <2>1. RelationOf[f] \in Relation
    BY CatalogAssumption
  <2>2. /\ MapKeys(t, RelationOf[f]) \subseteq Key
        /\ MapVisible(t, RelationOf[f]) \in [Key -> SUBSET Fact]
    BY <2>1, OverlayTypes
  <2> QED
    BY <1>3, <2>1, <2>2 DEF TypeOK, AssertRefused, stageVars
<1>4. ASSUME NEW f \in Fact, RetractTuple(t, f)
      PROVE  TypeOK'
  <2>1. writes' \in [Txn -> [Fact -> LocalChange]]
    BY <1>4 DEF TypeOK, RetractTuple, LocalChange
  <2>2. CASE RelationOf[f] \in built[t]
    <3>1. /\ tracked[t] \subseteq Key
          /\ visible[t] \in [Key -> SUBSET Fact]
          /\ KeyOf[f] \in Key
      BY CatalogAssumption DEF TypeOK
    <3>2. RecordChange(t, tracked[t], visible[t], f, "retract") \in [Key -> SUBSET Fact]
      BY <3>1, RecordChangeType, ZenonT(30) DEF LocalChange
    <3>3. tracked' \in [Txn -> SUBSET Key]
      <4>1. tracked' = [tracked EXCEPT ![t] = @ \cup {KeyOf[f]}]
        BY <1>4, <2>2 DEF RetractTuple
      <4> QED
        BY <3>1, <4>1 DEF TypeOK
    <3>4. visible' \in [Txn -> [Key -> SUBSET Fact]]
      BY <1>4, <2>2, <3>2, ZenonT(30) DEF TypeOK, RetractTuple
    <3> QED
      BY <1>4, <2>1, <3>3, <3>4 DEF TypeOK, RetractTuple, stageVars
  <2>3. CASE RelationOf[f] \notin built[t]
    BY <1>4, <2>1, <2>3 DEF TypeOK, RetractTuple, stageVars
  <2> QED
    BY <2>2, <2>3
<1>5. ASSUME NEW f \in Fact, ReplaceFunctional(t, f)
      PROVE  TypeOK'
  <2>1. RelationOf[f] \in Relation /\ KeyOf[f] \in Key
    BY CatalogAssumption
  <2>2. /\ MapKeys(t, RelationOf[f]) \subseteq Key
        /\ MapVisible(t, RelationOf[f]) \in [Key -> SUBSET Fact]
    BY <2>1, OverlayTypes
  <2>3. writes' \in [Txn -> [Fact -> LocalChange]]
    BY <1>5 DEF TypeOK, ReplaceFunctional, LocalChange
  <2> QED
    BY <1>5, <2>1, <2>2, <2>3 DEF TypeOK, ReplaceFunctional, stageVars
<1>6. CASE CommitTransaction(t)
  <2>1. TransactionWork(t) \in [next : Snapshot, commit : Commit]
    BY WorkType
  <2> QED
    BY <1>6, <2>1, TakeLockType DEF TypeOK, CommitTransaction, txnVars, stageVars
<1>7. CASE CommitConflict(t)
  BY <1>7, ResetType DEF TypeOK, CommitConflict, stageVars, Status
<1>8. CASE Rollback(t)
  BY <1>8, ResetType DEF TypeOK, Rollback, stageVars, Status
<1> QED
  BY <1>1, <1>2, <1>3, <1>4, <1>5, <1>6, <1>7, <1>8 DEF TransactionStep

(* One step of a staged fork keeps the types.                              *)
LEMMA StageStepType ==
    ASSUME TypeOK, NEW s \in Stage, StageStep(s)
    PROVE  TypeOK'
<1> s \in Actor
  BY DEF Actor
<1>1. CASE StageOpen(s)
  BY <1>1 DEF TypeOK, StageOpen, Status, Snapshot, txnVars
<1>2. CASE ForkInMemory(s)
  BY <1>2 DEF TypeOK, ForkInMemory, Status, txnVars
<1>3. ASSUME NEW facts \in SUBSET Fact, ForkPublish(s, facts)
      PROVE  TypeOK'
  <2>1. fork[s] \in Snapshot /\ touched[s] \subseteq Fact
    BY DEF TypeOK
  <2>2. [fork[s] EXCEPT !.facts = facts] \in Snapshot
    BY <2>1 DEF Snapshot
  <2>3. fork' \in [Stage -> Snapshot]
    BY <1>3, <2>2 DEF TypeOK, ForkPublish
  <2>4. touched' \in [Stage -> SUBSET Fact]
    BY <1>3, <2>1 DEF TypeOK, ForkPublish, Snapshot
  <2> QED
    BY <1>3, <2>3, <2>4 DEF TypeOK, ForkPublish, txnVars
<1>4. ASSUME NEW f \in Fact, ForkReplace(s, f)
      PROVE  TypeOK'
  BY <1>3, <1>4, ZenonT(30) DEF TypeOK, Snapshot, ForkReplace
<1>5. ASSUME NEW f \in Fact, ForkRetract(s, f)
      PROVE  TypeOK'
  BY <1>3, <1>5, ZenonT(30) DEF TypeOK, Snapshot, ForkRetract
<1>6. ASSUME NEW r \in Relation, ForkCreateRelation(s, r)
      PROVE  TypeOK'
  <2>1. fork[s] \in Snapshot
    BY DEF TypeOK
  <2>2. [fork[s] EXCEPT !.relations = fork[s].relations \cup {r}] \in Snapshot
    BY <2>1 DEF Snapshot
  <2>3. fork' \in [Stage -> Snapshot]
    BY <1>6, <2>2 DEF TypeOK, ForkCreateRelation
  <2> QED
    BY <1>6, <2>3 DEF TypeOK, ForkCreateRelation, txnVars
<1>7. CASE CommitStaged(s)
  <2>1. StagedWork(s) \in [next : Snapshot, commit : Commit]
    BY WorkType
  <2> QED
    BY <1>7, <2>1, TakeLockType DEF TypeOK, CommitStaged, txnVars, stageVars
<1>8. CASE CommitStagedStale(s)
  BY <1>8, StageResetType DEF TypeOK, CommitStagedStale, txnVars, Status
<1> QED
  BY <1>1, <1>2, <1>4, <1>5, <1>6, <1>7, <1>8 DEF StageStep

LEMMA CreateRelationType ==
    ASSUME TypeOK, NEW a \in Admin, NEW r \in Relation, CreateRelation(a, r)
    PROVE  TypeOK'
<1>1. a \in Actor
  BY DEF Actor
<1>2. CreateWork(r) \in [next : Snapshot, commit : Commit]
  BY WorkType
<1> QED
  BY <1>1, <1>2, TakeLockType DEF TypeOK, CreateRelation, txnVars, stageVars

(* Persisting, refusing and publishing keep the types.                     *)
LEMMA CommitStepType ==
    ASSUME TypeOK, NEW a \in Actor, CommitStep(a)
    PROVE  TypeOK'
<1>1. prepared[a].next \in Snapshot /\ prepared[a].commit \in Commit
  BY DEF TypeOK
<1>2. CASE Persist(a)
  <2>1. DurablePart(prepared[a].commit) \in Commit
    BY <1>1, ZenonT(30) DEF DurablePart, Commit
  <2>2. accepted' \in Seq(Commit)
    BY <1>1, <1>2, <2>1 DEF Persist, TypeOK
  <2>3. status' \in [Actor -> Status]
    BY <1>2 DEF TypeOK, Persist, Status
  <2>4. UNCHANGED <<root, history, lock, txnVars, stageVars, prepared>>
    BY <1>2 DEF Persist
  <2> QED
    BY <2>2, <2>3, <2>4 DEF TypeOK, txnVars, stageVars
<1>3. CASE PersistRefused(a)
  BY <1>3, FinishType DEF TypeOK, PersistRefused
<1>4. CASE Publish(a)
  <2>1. root' \in Snapshot /\ history' \in Seq(Commit)
    <3>1. \/ root' = root /\ history' = history
          \/ root' = prepared[a].next /\ history' = Append(history, prepared[a].commit)
      BY <1>4 DEF Publish
    <3>2. root \in Snapshot /\ history \in Seq(Commit)
      BY DEF TypeOK
    <3>3. Append(history, prepared[a].commit) \in Seq(Commit)
      BY <1>1, <3>2
    <3> QED
      BY <1>1, <3>1, <3>2, <3>3
  <2> QED
    BY <1>4, <2>1, FinishType DEF TypeOK, Publish
<1> QED
  BY <1>2, <1>3, <1>4 DEF CommitStep

LEMMA InitType == Init => TypeOK
BY BaseAssumption DEF Init, TypeOK, Snapshot, Commit, BaseSnapshot, NoWork, EmptyCommit,
       Status, LocalChange

LEMMA NextType == TypeOK /\ [Next]_vars => TypeOK'
<1> SUFFICES ASSUME TypeOK, [Next]_vars
             PROVE  TypeOK'
  OBVIOUS
<1>1. CASE Next
  BY <1>1, TransactionStepType, StageStepType, CreateRelationType, CommitStepType DEF Next
<1>2. CASE UNCHANGED vars
  BY <1>2 DEF TypeOK, vars, txnVars, stageVars
<1> QED
  BY <1>1, <1>2

(* Every variable of the kernel keeps its type: snapshots stay snapshots,  *)
(* the overlay maps facts to local changes and the visibility map maps     *)
(* keys to facts.                                                          *)
THEOREM TypeCorrect == Spec => []TypeOK
BY InitType, NextType, PTL DEF Spec

-----------------------------------------------------------------------------
(* The visibility map of a functional relation, freshly built or not, is   *)
(* the overlay's view of every key it holds; a key it does not hold has no *)
(* local writes.                                                           *)
LEMMA MapExact ==
    ASSUME TypeOK, NEW t \in Txn, OverlayOK(t),
           NEW r \in Relation, Policy[r] = "Functional"
    PROVE  /\ \A k \in MapKeys(t, r) : MapVisible(t, r)[k] = TupleForKey(View(t), k)
           /\ \A f \in Written(t) : RelationOf[f] = r => KeyOf[f] \in MapKeys(t, r)
           /\ \A f \in Fact : KeyOf[f] \in MapKeys(t, r) => RelationOf[f] \in built[t] \cup {r}
           /\ \A f \in Fact : RelationOf[f] = r /\ KeyOf[f] \notin MapKeys(t, r) =>
                 TupleForKey(View(t), KeyOf[f]) = TupleForKey(base[t].facts, KeyOf[f])
<1>1. base[t].facts \subseteq Fact /\ tracked[t] \subseteq Key
  BY DEF TypeOK, Snapshot
<1>2. Asserted(t) \subseteq Written(t) /\ Retracted(t) \subseteq Written(t)
  BY DEF Asserted, Retracted, Written
<1>3. Written(t) \subseteq Fact
  BY DEF Written
<1>4. \A f \in Written(t) : RelationOf[f] = r => KeyOf[f] \in MapKeys(t, r)
  BY DEF OverlayOK, MapKeys
<1>5. \A f \in Fact : KeyOf[f] \in MapKeys(t, r) => RelationOf[f] \in built[t] \cup {r}
  BY CatalogAssumption, <1>3 DEF OverlayOK, MapKeys
<1>6. ASSUME NEW k \in MapKeys(t, r)
      PROVE  MapVisible(t, r)[k] = TupleForKey(View(t), k)
  <2>1. k \in Key
    BY CatalogAssumption, <1>1, <1>3 DEF MapKeys
  <2>2. CASE k \in tracked[t]
    BY <2>1, <2>2 DEF MapVisible, OverlayOK
  <2>3. CASE k \notin tracked[t]
    <3>1. r \notin built[t]
      BY <1>6, <2>3 DEF MapKeys
    <3>2. \A f \in Fact : KeyOf[f] = k => RelationOf[f] = r
      BY CatalogAssumption, <1>3, <1>6, <2>3 DEF MapKeys
    <3>3. MapVisible(t, r)[k] = TupleForKey(base[t].facts, k) \ Retracted(t)
      BY <1>6, <2>1, <2>3, <3>1 DEF MapVisible
    <3>4. \A f \in Asserted(t) : KeyOf[f] # k \/ ~ Functional(f)
      BY <1>2, <1>3, <3>1, <3>2 DEF OverlayOK
    <3> QED
      BY <3>3, <3>4 DEF TupleForKey, View
  <2> QED
    BY <2>2, <2>3
<1>7. ASSUME NEW f \in Fact, RelationOf[f] = r, KeyOf[f] \notin MapKeys(t, r)
      PROVE  TupleForKey(View(t), KeyOf[f]) = TupleForKey(base[t].facts, KeyOf[f])
  <2>1. \A g \in Written(t) : KeyOf[g] # KeyOf[f]
    BY CatalogAssumption, <1>3, <1>4, <1>7
  <2> QED
    BY <1>2, <2>1 DEF TupleForKey, View
<1> QED
  BY <1>4, <1>5, <1>6, <1>7

(* What apply_local_change compares an assert with is what the transaction *)
(* sees under the key.                                                     *)
LEMMA VisibleExact ==
    ASSUME TypeOK, NEW t \in Txn, OverlayOK(t), NEW f \in Fact, Functional(f)
    PROVE  VisibleTupleForKey(t, f) = TupleForKey(View(t), KeyOf[f])
<1>1. RelationOf[f] \in Relation /\ Policy[RelationOf[f]] = "Functional"
  BY CatalogAssumption DEF Functional
<1> QED
  BY <1>1, MapExact DEF VisibleTupleForKey

(* A transaction whose private state did not change keeps its overlay.     *)
LEMMA OverlayUnchanged ==
    ASSUME NEW t \in Txn, OverlayOK(t),
           base'[t].facts = base[t].facts, writes'[t] = writes[t],
           built'[t] = built[t], tracked'[t] = tracked[t], visible'[t] = visible[t]
    PROVE  OverlayOK(t)'
<1>1. Asserted(t)' = Asserted(t) /\ Retracted(t)' = Retracted(t) /\ Written(t)' = Written(t)
  BY DEF Asserted, Retracted, Written
<1>2. View(t)' = View(t)
  BY <1>1 DEF View
<1>3. UniqueKeys(View(t))'
  BY <1>2 DEF OverlayOK, UniqueKeys, Functional
<1>4. \A k \in tracked[t] : visible[t][k] = TupleForKey(View(t)', k)
  BY <1>2 DEF OverlayOK
<1> QED
  BY <1>1, <1>3, <1>4 DEF OverlayOK, TupleForKey, Functional

(* Back to idle, the overlay is empty over the loaded state.               *)
LEMMA ResetOverlay ==
    ASSUME TypeOK, NEW t \in Txn, Reset(t)
    PROVE  /\ OverlayOK(t)'
           /\ IdleOK(t)'
           /\ UniqueKeys(base'[t].facts)
<1>1. /\ base'[t] = BaseSnapshot
      /\ writes'[t] = [f \in Fact |-> "none"]
      /\ built'[t] = {}
      /\ tracked'[t] = {}
  BY DEF TypeOK, Reset
<1>2. base'[t].facts = BaseFacts
  BY <1>1 DEF BaseSnapshot
<1>3. Written(t)' = {} /\ Asserted(t)' = {} /\ Retracted(t)' = {}
  BY <1>1 DEF Written, Asserted, Retracted
<1>4. View(t)' = BaseFacts
  BY <1>2, <1>3 DEF View
<1> QED
  BY BaseAssumption, <1>1, <1>2, <1>3, <1>4 DEF OverlayOK, IdleOK

LEMMA ResetOthers ==
    ASSUME TypeOK, NEW t \in Txn, Reset(t), NEW u \in Txn, u # t
    PROVE  /\ base'[u] = base[u]
           /\ writes'[u] = writes[u]
           /\ built'[u] = built[u]
           /\ tracked'[u] = tracked[u]
           /\ visible'[u] = visible[u]
BY DEF TypeOK, Reset

(* Transaction::assert keeps the overlay and its map in step.              *)
LEMMA AssertOverlay ==
    ASSUME TypeOK, NEW t \in Txn, OverlayOK(t), NEW f \in Fact, AssertTuple(t, f)
    PROVE  OverlayOK(t)'
<1> DEFINE r == RelationOf[f]
           k == KeyOf[f]
<1>1. r \in Relation /\ k \in Key
  BY CatalogAssumption
<1>2. writes'[t] = [writes[t] EXCEPT ![f] = "assert"] /\ base' = base
  BY DEF TypeOK, AssertTuple
<1>3. /\ Asserted(t)' = Asserted(t) \cup {f}
      /\ Retracted(t)' = Retracted(t) \ {f}
      /\ Written(t)' = Written(t) \cup {f}
  BY <1>2 DEF TypeOK, Asserted, Retracted, Written
<1>4. View(t)' = View(t) \cup {f}
  BY <1>2, <1>3 DEF View
<1>5. CASE ~ Functional(f)
  <2>1. built' = built /\ tracked' = tracked /\ visible' = visible
    BY <1>5 DEF AssertTuple
  <2>2. \A j : TupleForKey(View(t) \cup {f}, j) = TupleForKey(View(t), j)
    BY <1>5 DEF TupleForKey
  <2>3. UniqueKeys(View(t) \cup {f})
    BY <1>5 DEF OverlayOK, UniqueKeys
  <2>4. RelationOf[f] \notin built[t]
    BY <1>5 DEF OverlayOK, Functional
  <2> QED
    BY <1>3, <1>4, <1>5, <2>1, <2>2, <2>3, <2>4, ZenonT(30) DEF OverlayOK, Functional
<1>6. CASE Functional(f)
  <2>1. TupleForKey(View(t), k) \subseteq {f}
    BY <1>6, VisibleExact DEF AssertTuple
  <2>2. UniqueKeys(View(t) \cup {f})
    BY <2>1 DEF OverlayOK, UniqueKeys, TupleForKey
  <2>3. TupleForKey(View(t) \cup {f}, k) = {f}
    BY <1>6, <2>1 DEF TupleForKey
  <2>4. \A j : j # k => TupleForKey(View(t) \cup {f}, j) = TupleForKey(View(t), j)
    BY DEF TupleForKey
  <2>5. /\ built'[t] = built[t] \cup {r}
        /\ tracked'[t] = MapKeys(t, r) \cup {k}
        /\ visible'[t] = RecordChange(t, MapKeys(t, r), MapVisible(t, r), f, "assert")
    BY <1>6 DEF TypeOK, AssertTuple
  <2>6. MapVisible(t, r) \in [Key -> SUBSET Fact] /\ MapKeys(t, r) \subseteq Key
    BY <1>1, OverlayTypes
  <2>7. visible'[t] = [MapVisible(t, r) EXCEPT ![k] = {f}]
    BY <2>5 DEF RecordChange, VisibleAfterChange
  <2>8. Policy[r] = "Functional"
    BY <1>6 DEF Functional
  <2>9. ASSUME NEW j \in tracked'[t]
        PROVE  visible'[t][j] = TupleForKey(View(t)', j)
    <3>1. CASE j = k
      BY <1>1, <1>4, <2>3, <2>6, <2>7, <3>1, ZenonT(30)
    <3>2. CASE j # k
      <4>1. j \in MapKeys(t, r) /\ j \in Key
        BY <2>5, <2>6, <3>2
      <4>2. visible'[t][j] = MapVisible(t, r)[j]
        BY <2>6, <2>7, <3>2, <4>1
      <4>3. MapVisible(t, r)[j] = TupleForKey(View(t), j)
        BY <1>1, <2>8, <4>1, MapExact
      <4> QED
        BY <1>4, <2>4, <3>2, <4>2, <4>3, ZenonT(30)
    <3> QED
      BY <3>1, <3>2
  <2>10. /\ \A g \in Fact : KeyOf[g] \in tracked'[t] => RelationOf[g] \in built'[t]
         /\ \A q \in built'[t] : Policy[q] = "Functional"
    BY CatalogAssumption, <1>1, <2>5, <2>8, MapExact DEF OverlayOK
  <2>11. \A g \in Written(t)' : RelationOf[g] \in built'[t] => KeyOf[g] \in tracked'[t]
    <3>1. tracked[t] \subseteq MapKeys(t, r)
      BY DEF MapKeys
    <3> QED
      BY <1>1, <1>3, <2>5, <2>8, <3>1, MapExact DEF OverlayOK
  <2>12. \A g \in Asserted(t)' : Functional(g) => RelationOf[g] \in built'[t]
    BY <1>3, <2>5 DEF OverlayOK
  <2> QED
    BY <1>4, <2>2, <2>9, <2>10, <2>11, <2>12, ZenonT(30) DEF OverlayOK, Functional
<1> QED
  BY <1>5, <1>6

(* A refused assert has only built the map.                                *)
LEMMA RefusedOverlay ==
    ASSUME TypeOK, NEW t \in Txn, OverlayOK(t), NEW f \in Fact, AssertRefused(t, f)
    PROVE  OverlayOK(t)'
<1> DEFINE r == RelationOf[f]
<1>1. r \in Relation /\ Policy[r] = "Functional"
  BY CatalogAssumption DEF AssertRefused, Functional
<1>2. /\ built'[t] = built[t] \cup {r}
      /\ tracked'[t] = MapKeys(t, r)
      /\ visible'[t] = MapVisible(t, r)
      /\ writes' = writes
      /\ base' = base
  BY DEF TypeOK, AssertRefused
<1>3. /\ View(t)' = View(t)
      /\ Written(t)' = Written(t)
      /\ Asserted(t)' = Asserted(t)
  BY <1>2 DEF View, Written, Asserted, Retracted
<1> HIDE DEF r
<1>4. /\ \A k \in MapKeys(t, r) : MapVisible(t, r)[k] = TupleForKey(View(t), k)
      /\ \A g \in Written(t) : RelationOf[g] = r => KeyOf[g] \in MapKeys(t, r)
      /\ \A g \in Fact : KeyOf[g] \in MapKeys(t, r) => RelationOf[g] \in built[t] \cup {r}
  BY <1>1, MapExact
<1>5. tracked[t] \subseteq MapKeys(t, r)
  BY DEF MapKeys
<1>6. \A g \in Written(t) : RelationOf[g] \in built'[t] => KeyOf[g] \in tracked'[t]
  BY <1>2, <1>4, <1>5 DEF OverlayOK
<1>7. /\ \A k \in tracked'[t] : visible'[t][k] = TupleForKey(View(t), k)
      /\ \A g \in Fact : KeyOf[g] \in tracked'[t] => RelationOf[g] \in built'[t]
  BY <1>2, <1>4
<1>8. \A k : TupleForKey(View(t), k)' = TupleForKey(View(t), k)
  BY <1>3 DEF TupleForKey
<1>9. UniqueKeys(View(t))'
  BY <1>3 DEF OverlayOK, UniqueKeys, Functional
<1>10. \A q \in built'[t] : Policy[q] = "Functional"
  BY <1>1, <1>2 DEF OverlayOK
<1>11. \A g \in Asserted(t)' : Functional(g) => RelationOf[g] \in built'[t]
  BY <1>2, <1>3 DEF OverlayOK
<1> QED
  BY <1>3, <1>6, <1>7, <1>8, <1>9, <1>10, <1>11 DEF OverlayOK, Functional

(* Transaction::retract keeps the overlay and its map in step.             *)
LEMMA RetractOverlay ==
    ASSUME TypeOK, NEW t \in Txn, OverlayOK(t), NEW f \in Fact, RetractTuple(t, f)
    PROVE  OverlayOK(t)'
<1> DEFINE r == RelationOf[f]
           k == KeyOf[f]
<1>1. r \in Relation /\ k \in Key
  BY CatalogAssumption
<1>2. writes'[t] = [writes[t] EXCEPT ![f] = "retract"] /\ base' = base /\ built' = built
  BY DEF TypeOK, RetractTuple
<1>3. /\ Asserted(t)' = Asserted(t) \ {f}
      /\ Retracted(t)' = Retracted(t) \cup {f}
      /\ Written(t)' = Written(t) \cup {f}
  BY <1>2 DEF TypeOK, Asserted, Retracted, Written
<1>4. View(t)' = View(t) \ {f}
  BY <1>2, <1>3 DEF View
<1>5. UniqueKeys(View(t) \ {f})
  BY DEF OverlayOK, UniqueKeys
<1>6. \A j : TupleForKey(View(t) \ {f}, j) = TupleForKey(View(t), j) \ {f}
  BY DEF TupleForKey
<1>7. \A j : j # k => TupleForKey(View(t), j) \ {f} = TupleForKey(View(t), j)
  BY DEF TupleForKey
<1>8. CASE r \notin built[t]
  <2>1. tracked' = tracked /\ visible' = visible
    BY <1>8 DEF RetractTuple
  <2>2. k \notin tracked[t]
    BY <1>8 DEF OverlayOK
  <2>3. \A j \in tracked[t] : visible[t][j] = TupleForKey(View(t)', j)
    BY <1>4, <1>6, <1>7, <2>2, ZenonT(30) DEF OverlayOK
  <2> QED
    BY <1>2, <1>3, <1>4, <1>5, <1>8, <2>1, <2>3, ZenonT(30) DEF OverlayOK, Functional
<1>9. CASE r \in built[t]
  <2>1. Policy[r] = "Functional" /\ MapKeys(t, r) = tracked[t]
    BY <1>9 DEF OverlayOK, MapKeys
  <2>2. /\ tracked'[t] = tracked[t] \cup {k}
        /\ visible'[t] = RecordChange(t, tracked[t], visible[t], f, "retract")
    BY <1>9 DEF TypeOK, RetractTuple
  <2>3. visible'[t] = [visible[t] EXCEPT ![k] = TupleForKey(View(t), k) \ {f}]
    <3>1. CASE k \in tracked[t]
      BY <2>2, <3>1, ZenonT(30) DEF OverlayOK, RecordChange, VisibleAfterChange
    <3>2. CASE k \notin tracked[t]
      <4>1. TupleForKey(View(t), k) = TupleForKey(base[t].facts, k)
        BY <1>1, <2>1, <3>2, MapExact
      <4> QED
        BY <2>2, <3>2, <4>1 DEF RecordChange, VisibleAfterChange
    <3> QED
      BY <3>1, <3>2
  <2>4. visible[t] \in [Key -> SUBSET Fact] /\ tracked[t] \subseteq Key
    BY DEF TypeOK
  <2>5. ASSUME NEW j \in tracked'[t]
        PROVE  visible'[t][j] = TupleForKey(View(t)', j)
    <3>1. CASE j = k
      <4>1. visible'[t][k] = TupleForKey(View(t), k) \ {f}
        BY <1>1, <2>3, <2>4
      <4>2. TupleForKey(View(t)', k) = TupleForKey(View(t), k) \ {f}
        BY <1>4, <1>6, ZenonT(30)
      <4> QED
        BY <3>1, <4>1, <4>2
    <3>2. CASE j # k
      <4>1. j \in tracked[t] /\ visible'[t][j] = visible[t][j]
        BY <2>2, <2>3, <2>4, <3>2
      <4> QED
        BY <1>4, <1>6, <1>7, <3>2, <4>1, ZenonT(30) DEF OverlayOK
    <3> QED
      BY <3>1, <3>2
  <2>6. \A g \in Fact : KeyOf[g] \in tracked'[t] => RelationOf[g] \in built[t]
    BY CatalogAssumption, <1>9, <2>2 DEF OverlayOK
  <2>7. \A g \in Written(t)' : RelationOf[g] \in built[t] => KeyOf[g] \in tracked'[t]
    BY <1>3, <2>2 DEF OverlayOK
  <2>8. \A g \in Asserted(t)' : Functional(g) => RelationOf[g] \in built[t]
    BY <1>3 DEF OverlayOK
  <2> QED
    BY <1>2, <1>4, <1>5, <2>5, <2>6, <2>7, <2>8, ZenonT(30) DEF OverlayOK, Functional
<1> QED
  BY <1>8, <1>9

(* Transaction::replace_functional keeps the overlay and its map in step.  *)
LEMMA ReplaceOverlay ==
    ASSUME TypeOK, NEW t \in Txn, OverlayOK(t), NEW f \in Fact, ReplaceFunctional(t, f)
    PROVE  OverlayOK(t)'
<1> DEFINE r == RelationOf[f]
           k == KeyOf[f]
           old == TupleForKey(View(t), k)
<1>1. r \in Relation /\ k \in Key /\ Functional(f) /\ Policy[r] = "Functional"
  BY CatalogAssumption DEF ReplaceFunctional, Functional
<1>2. VisibleTupleForKey(t, f) = old
  BY <1>1, VisibleExact
<1>3. /\ writes'[t] = [g \in Fact |-> IF g = f THEN "assert"
                                      ELSE IF g \in old THEN "retract" ELSE writes[t][g]]
      /\ base' = base
  BY <1>2 DEF TypeOK, ReplaceFunctional
<1>4. old \subseteq Fact
  BY DEF TypeOK, Snapshot, TupleForKey, View, Asserted
<1>5. /\ Asserted(t)' = (Asserted(t) \ old) \cup {f}
      /\ Retracted(t)' = (Retracted(t) \cup old) \ {f}
      /\ Written(t)' = Written(t) \cup old \cup {f}
  BY <1>3, <1>4 DEF Asserted, Retracted, Written
<1>6. View(t)' = (View(t) \ old) \cup {f}
  BY <1>3, <1>5 DEF View
<1>7. UniqueKeys(View(t)')
  BY <1>1, <1>6 DEF OverlayOK, UniqueKeys, TupleForKey
<1>8. TupleForKey(View(t)', k) = {f}
  BY <1>1, <1>6 DEF TupleForKey
<1>9. \A j : j # k => TupleForKey(View(t)', j) = TupleForKey(View(t), j)
  BY <1>6 DEF TupleForKey
<1>10. /\ built'[t] = built[t] \cup {r}
       /\ tracked'[t] = MapKeys(t, r) \cup {k}
       /\ visible'[t] = [MapVisible(t, r) EXCEPT ![k] = {f}]
  BY DEF TypeOK, ReplaceFunctional
<1>11. /\ MapVisible(t, r) \in [Key -> SUBSET Fact]
       /\ MapKeys(t, r) \subseteq Key
       /\ tracked[t] \subseteq MapKeys(t, r)
  BY <1>1, OverlayTypes DEF MapKeys
<1>12. \A j \in tracked'[t] : visible'[t][j] = TupleForKey(View(t)', j)
  BY <1>1, <1>8, <1>9, <1>10, <1>11, MapExact
<1>13. /\ \A g \in Fact : KeyOf[g] \in tracked'[t] => RelationOf[g] \in built'[t]
       /\ \A q \in built'[t] : Policy[q] = "Functional"
  BY CatalogAssumption, <1>1, <1>10, MapExact DEF OverlayOK
<1>14. \A g \in old : KeyOf[g] = k /\ RelationOf[g] = r
  BY CatalogAssumption, <1>4 DEF TupleForKey
<1>15. \A g \in Written(t)' : RelationOf[g] \in built'[t] => KeyOf[g] \in tracked'[t]
  BY <1>1, <1>5, <1>10, <1>11, <1>14, MapExact DEF OverlayOK
<1>16. \A g \in Asserted(t)' : Functional(g) => RelationOf[g] \in built'[t]
  BY <1>5, <1>10 DEF OverlayOK
<1> QED
  BY <1>7, <1>12, <1>13, <1>15, <1>16 DEF OverlayOK, Functional

-----------------------------------------------------------------------------
(* The commit-time check looks at every functional key that is written.    *)
LEMMA WrittenKeysTouched ==
    ASSUME NEW t \in Txn, OverlayOK(t), NEW f \in Written(t), Functional(f)
    PROVE  KeyOf[f] \in TouchedKeys(t)
BY DEF OverlayOK, TouchedKeys

(* A transaction that passes validation merges into a state whose          *)
(* functional keys are unique: a touched key holds what the transaction    *)
(* saw, an untouched one what the root holds.                              *)
LEMMA ValidatedUnique ==
    ASSUME TypeOK, UniqueKeys(root.facts), NEW t \in Txn, OverlayOK(t), BaseOK(t),
           status[t] = "active", ~ Conflict(t)
    PROVE  UniqueKeys(NextFacts(t))
<1>1. /\ root.facts \subseteq Fact
      /\ Asserted(t) \subseteq Fact
      /\ Asserted(t) \subseteq Written(t)
  BY DEF TypeOK, Snapshot, Asserted, Written
<1>2. \A k \in TouchedKeys(t) :
         TupleForKey(base[t].facts, k) = TupleForKey(root.facts, k)
  BY DEF Conflict, FunctionalConflict, BaseOK
<1>3. SUFFICES ASSUME NEW f \in NextFacts(t), NEW g \in NextFacts(t),
                      Functional(f), Functional(g), KeyOf[f] = KeyOf[g]
               PROVE  f = g
  BY DEF UniqueKeys
<1>4. CASE KeyOf[f] \in TouchedKeys(t)
  <2>1. ASSUME NEW h \in NextFacts(t), Functional(h), KeyOf[h] = KeyOf[f]
        PROVE  h \in View(t)
    <3>1. CASE h \in Asserted(t)
      BY <3>1 DEF View
    <3>2. CASE h \notin Asserted(t)
      <4>1. h \in TupleForKey(root.facts, KeyOf[f])
        BY <2>1, <3>2 DEF NextFacts, TupleForKey
      <4>2. h \in base[t].facts
        BY <1>2, <1>4, <4>1 DEF TupleForKey
      <4> QED
        BY <3>2, <4>2 DEF NextFacts, View
    <3> QED
      BY <3>1, <3>2
  <2> QED
    BY <1>3, <2>1 DEF OverlayOK, UniqueKeys
<1>5. CASE KeyOf[f] \notin TouchedKeys(t)
  <2>1. f \notin Asserted(t) /\ g \notin Asserted(t)
    BY <1>1, <1>3, <1>5, WrittenKeysTouched
  <2>2. f \in root.facts /\ g \in root.facts
    BY <2>1 DEF NextFacts
  <2> QED
    BY <1>3, <2>2 DEF UniqueKeys
<1> QED
  BY <1>4, <1>5

LEMMA TransactionWorkSucceeds ==
    ASSUME TypeOK, UniqueKeys(root.facts), NEW t \in Txn, OverlayOK(t), BaseOK(t),
           status[t] = "active", ~ Conflict(t)
    PROVE  Succeeds(TransactionWork(t))
<1> DEFINE w == TransactionWork(t)
<1>1. UniqueKeys(w.next.facts)
  BY ValidatedUnique, ZenonT(30) DEF TransactionWork
<1>2. Asserted(t) \cap Retracted(t) = {}
  BY DEF Asserted, Retracted
<1>3. /\ Asserted(t) \ root.facts = NextFacts(t) \ root.facts
      /\ (Retracted(t) \cap base[t].facts) \cap root.facts = root.facts \ NextFacts(t)
  BY <1>2 DEF NextFacts
<1>4. root.relations \ root.relations = {}
  OBVIOUS
<1> QED
  BY <1>1, <1>3, <1>4, ZenonT(30) DEF Succeeds, TransactionWork

LEMMA StagedWorkSucceeds ==
    ASSUME TypeOK, NEW s \in Stage, ForkOK(s), status[s] = "active",
           root.version = expected[s]
    PROVE  Succeeds(StagedWork(s))
<1>1. root.facts \subseteq Fact /\ fork[s].facts \subseteq Fact
  BY DEF TypeOK, Snapshot
<1>2. /\ {f \in touched[s] : f \notin root.facts /\ f \in fork[s].facts} = fork[s].facts \ root.facts
      /\ {f \in touched[s] : f \in root.facts /\ f \notin fork[s].facts} = root.facts \ fork[s].facts
  BY <1>1 DEF ForkOK
<1> QED
  BY <1>2, ZenonT(30) DEF Succeeds, StagedWork, ForkOK

LEMMA CreateWorkSucceeds ==
    ASSUME TypeOK, UniqueKeys(root.facts), NEW r \in Relation, r \notin root.relations
    PROVE  Succeeds(CreateWork(r))
<1>1. /\ root.facts \ root.facts = {}
      /\ (root.relations \cup {r}) \ root.relations = {r}
  OBVIOUS
<1> QED
  BY <1>1, ZenonT(30) DEF Succeeds, CreateWork
-----------------------------------------------------------------------------
(* The lock and the prepared work through each kind of step.               *)

LEMMA SameCommitter ==
    ASSUME LockInv, PreparedInv, root' = root, lock' = lock, prepared' = prepared,
           \A a \in Actor : Committing(a)' <=> Committing(a),
           \A t \in Txn : status'[t] # "open",
           \A a \in Admin : status'[a] \notin {"open", "active"}
    PROVE  LockInv' /\ PreparedInv'
BY DEF LockInv, PreparedInv, Succeeds, UniqueKeys, Functional

LEMMA LockTaken ==
    ASSUME TypeOK, LockInv, NEW a \in Actor, NEW w \in [next : Snapshot, commit : Commit],
           TakeLock(a, w), Succeeds(w), root' = root
    PROVE  LockInv' /\ PreparedInv'
<1>1. /\ lock = Free /\ lock' = a /\ a # Free
      /\ status' = [status EXCEPT ![a] = "persist"]
      /\ prepared' = [prepared EXCEPT ![a] = w]
  BY ActorAssumption DEF TakeLock
<1>2. status'[a] = "persist" /\ prepared'[a] = w
  BY <1>1 DEF TypeOK
<1>3. \A b \in Actor : b # a => status'[b] = status[b] /\ b # Free /\ ~ Committing(b)
  BY ActorAssumption, <1>1 DEF TypeOK, LockInv
<1>4. \A b \in Actor : Committing(b)' <=> lock' = b
  BY <1>1, <1>2, <1>3 DEF Committing
<1>5. Txn \subseteq Actor /\ Admin \subseteq Actor
  BY DEF Actor
<1>6. LockInv'
  BY <1>1, <1>2, <1>3, <1>4, <1>5 DEF LockInv
<1>7. Succeeds(prepared[a])'
  BY <1>2 DEF Succeeds, UniqueKeys, Functional
<1> QED
  BY <1>1, <1>4, <1>6, <1>7 DEF PreparedInv

(* After its commit no actor is committing.                                *)
LEMMA LockReleasedInv ==
    ASSUME TypeOK, LockInv, NEW a \in Actor, Committing(a), Finish(a)
    PROVE  /\ LockInv'
           /\ PreparedInv'
           /\ \A b \in Actor : b # a => status'[b] = status[b] /\ ~ Committing(b)
           /\ status'[a] = "idle"
<1>1. lock = a /\ lock' = Free /\ status' = [status EXCEPT ![a] = "idle"]
  BY DEF LockInv, Finish
<1>2. \A b \in Actor : b # a => status'[b] = status[b] /\ ~ Committing(b)
  BY <1>1 DEF TypeOK, LockInv
<1>3. status'[a] = "idle"
  BY <1>1 DEF TypeOK
<1>4. \A b \in Actor : ~ Committing(b)' /\ b # Free
  BY ActorAssumption, <1>2, <1>3 DEF Committing
<1>5. Txn \subseteq Actor /\ Admin \subseteq Actor
  BY DEF Actor
<1>6. LockInv'
  BY <1>1, <1>2, <1>3, <1>4, <1>5 DEF LockInv
<1> QED
  BY <1>2, <1>3, <1>4, <1>6 DEF PreparedInv

-----------------------------------------------------------------------------
(* Transactions and forks that take no part in a step.                     *)

(* The root stays, or is replaced by its successor.                        *)
RootAdvances == root' = root \/ root'.version = root.version + 1

LEMMA TransactionUntouched ==
    ASSUME TypeOK, NEW t \in Txn, BaseOK(t), OverlayOK(t), IdleOK(t),
           status'[t] = status[t], base'[t] = base[t], writes'[t] = writes[t],
           built'[t] = built[t], tracked'[t] = tracked[t], visible'[t] = visible[t],
           RootAdvances
    PROVE  BaseOK(t)' /\ OverlayOK(t)' /\ IdleOK(t)'
<1>1. OverlayOK(t)'
  BY OverlayUnchanged
<1>2. root.version \in Nat /\ base[t].version \in Nat
  BY DEF TypeOK, Snapshot
<1>3. BaseOK(t)'
  BY <1>2 DEF BaseOK, RootAdvances, UniqueKeys, Functional
<1> QED
  BY <1>1, <1>3 DEF IdleOK

LEMMA TransactionsUntouched ==
    ASSUME TypeOK, TransactionInv, RootAdvances, UNCHANGED txnVars,
           \A t \in Txn : status'[t] = status[t]
    PROVE  TransactionInv'
<1>1. ASSUME NEW t \in Txn
      PROVE  BaseOK(t)' /\ OverlayOK(t)' /\ IdleOK(t)'
  BY TransactionUntouched DEF TransactionInv, txnVars
<1> QED
  BY <1>1 DEF TransactionInv

LEMMA ForkUntouched ==
    ASSUME TypeOK, NEW s \in Stage, ForkOK(s),
           status'[s] = status[s], expected'[s] = expected[s], fork'[s] = fork[s],
           touched'[s] = touched[s], RootAdvances
    PROVE  ForkOK(s)'
<1>1. root.version \in Nat /\ expected[s] \in Nat
  BY DEF TypeOK, Snapshot
<1> QED
  BY <1>1 DEF ForkOK, RootAdvances, UniqueKeys, Functional

LEMMA ForksUntouched ==
    ASSUME TypeOK, StageInv, RootAdvances, UNCHANGED stageVars,
           \A s \in Stage : status'[s] = status[s]
    PROVE  StageInv'
BY ForkUntouched DEF StageInv, stageVars

(* One transaction changes its private state, the others do not.           *)
LEMMA OneTransaction ==
    ASSUME TypeOK, TransactionInv, NEW t \in Txn, RootAdvances,
           BaseOK(t)', OverlayOK(t)', IdleOK(t)',
           \A u \in Txn : u # t =>
              /\ status'[u] = status[u] /\ base'[u] = base[u] /\ writes'[u] = writes[u]
              /\ built'[u] = built[u] /\ tracked'[u] = tracked[u] /\ visible'[u] = visible[u]
    PROVE  TransactionInv'
<1>1. ASSUME NEW u \in Txn
      PROVE  BaseOK(u)' /\ OverlayOK(u)' /\ IdleOK(u)'
  <2>1. CASE u = t
    BY <2>1
  <2>2. CASE u # t
    BY <2>2, TransactionUntouched DEF TransactionInv
  <2> QED
    BY <2>1, <2>2
<1> QED
  BY <1>1 DEF TransactionInv

LEMMA OneFork ==
    ASSUME TypeOK, StageInv, NEW s \in Stage, RootAdvances, ForkOK(s)',
           \A u \in Stage : u # s =>
              /\ status'[u] = status[u] /\ expected'[u] = expected[u]
              /\ fork'[u] = fork[u] /\ touched'[u] = touched[u]
    PROVE  StageInv'
<1>1. ASSUME NEW u \in Stage
      PROVE  ForkOK(u)'
  <2>1. CASE u = s
    BY <2>1
  <2>2. CASE u # s
    BY <2>2, ForkUntouched DEF StageInv
  <2> QED
    BY <2>1, <2>2
<1> QED
  BY <1>1 DEF StageInv

(* A transaction that ends, and a fork that ends.                          *)
LEMMA TransactionEnds ==
    ASSUME TypeOK, TransactionInv, NEW t \in Txn, Reset(t), RootAdvances,
           status'[t] = "idle", \A u \in Txn : u # t => status'[u] = status[u]
    PROVE  TransactionInv'
<1>1. OverlayOK(t)' /\ IdleOK(t)' /\ UniqueKeys(base'[t].facts)
  BY ResetOverlay
<1>2. BaseOK(t)'
  BY <1>1 DEF BaseOK, UniqueKeys, Functional
<1> QED
  BY <1>1, <1>2, ResetOthers, OneTransaction

LEMMA ForkEnds ==
    ASSUME TypeOK, StageInv, NEW s \in Stage, StageReset(s), RootAdvances,
           status'[s] = "idle", \A u \in Stage : u # s => status'[u] = status[u]
    PROVE  StageInv'
<1>1. /\ fork'[s] = BaseSnapshot
      /\ touched'[s] = {}
      /\ \A u \in Stage : u # s => expected'[u] = expected[u] /\ fork'[u] = fork[u] /\ touched'[u] = touched[u]
  BY DEF TypeOK, StageReset
<1>2. fork'[s].facts = BaseFacts
  BY <1>1 DEF BaseSnapshot
<1>3. ForkOK(s)'
  BY BaseAssumption, <1>1, <1>2 DEF ForkOK, UniqueKeys, Functional
<1> QED
  BY <1>1, <1>3, OneFork

-----------------------------------------------------------------------------
(* The inductive invariant.                                                *)

LEMMA InitInv == Init => IInv
<1> SUFFICES ASSUME Init
             PROVE  IInv
  OBVIOUS
<1>1. TypeOK
  BY InitType
<1>2. /\ root.facts = BaseFacts /\ root.version = BaseVersion
      /\ \A a \in Actor : status[a] = "idle" /\ a # Free
      /\ lock = Free
  BY ActorAssumption DEF Init, BaseSnapshot
<1>3. Txn \subseteq Actor /\ Stage \subseteq Actor /\ Admin \subseteq Actor
  BY DEF Actor
<1>4. LockInv /\ PreparedInv
  BY <1>2, <1>3 DEF LockInv, PreparedInv, Committing
<1>5. ASSUME NEW t \in Txn
      PROVE  BaseOK(t) /\ OverlayOK(t) /\ IdleOK(t)
  <2>1. /\ base[t].facts = BaseFacts
        /\ writes[t] = [f \in Fact |-> "none"]
        /\ built[t] = {}
        /\ tracked[t] = {}
    BY DEF Init, BaseSnapshot
  <2>2. Written(t) = {} /\ Asserted(t) = {} /\ Retracted(t) = {}
    BY <2>1 DEF Written, Asserted, Retracted
  <2>3. View(t) = BaseFacts
    BY <2>1, <2>2 DEF View
  <2> QED
    BY BaseAssumption, <1>2, <1>3, <2>1, <2>2, <2>3 DEF BaseOK, OverlayOK, IdleOK
<1>6. ASSUME NEW s \in Stage
      PROVE  ForkOK(s)
  <2>1. fork[s].facts = BaseFacts /\ touched[s] = {}
    BY DEF Init, BaseSnapshot
  <2> QED
    BY BaseAssumption, <1>2, <1>3, <2>1 DEF ForkOK
<1> QED
  BY BaseAssumption, <1>1, <1>2, <1>4, <1>5, <1>6 DEF IInv, TransactionInv, StageInv

(* A local write of a transaction.                                         *)
LEMMA WriteInv ==
    ASSUME IInv, TypeOK', NEW t \in Txn, OverlayOK(t)', status[t] = "active",
           UNCHANGED <<root, history, accepted, lock, status, base, stageVars, prepared>>,
           \A u \in Txn : u # t =>
              /\ writes'[u] = writes[u] /\ built'[u] = built[u]
              /\ tracked'[u] = tracked[u] /\ visible'[u] = visible[u]
    PROVE  IInv'
<1>1. LockInv' /\ PreparedInv'
  BY SameCommitter DEF IInv, Committing, LockInv
<1>2. RootAdvances
  BY DEF RootAdvances
<1>3. BaseOK(t)' /\ IdleOK(t)'
  <2>1. BaseOK(t) /\ base'[t] = base[t] /\ root' = root /\ status'[t] = "active"
    BY DEF IInv, TransactionInv
  <2>2. UniqueKeys(base[t].facts)'
    BY <2>1 DEF BaseOK, UniqueKeys, Functional
  <2> QED
    BY <2>1, <2>2 DEF BaseOK, IdleOK
<1>4. TransactionInv'
  BY <1>2, <1>3, OneTransaction DEF IInv
<1>5. StageInv'
  BY <1>2, ForksUntouched DEF IInv
<1> QED
  BY <1>1, <1>4, <1>5 DEF IInv, UniqueKeys, Functional

LEMMA TransactionStepInv ==
    ASSUME IInv, NEW t \in Txn, TransactionStep(t)
    PROVE  IInv'
<1>1. TypeOK /\ TypeOK'
  BY TransactionStepType DEF IInv
<1>2. /\ t \in Actor
      /\ Txn \subseteq Actor /\ Stage \subseteq Actor /\ Admin \subseteq Actor
      /\ t \notin Stage /\ t \notin Admin
  BY ActorAssumption DEF Actor
<1>3. OverlayOK(t) /\ BaseOK(t) /\ IdleOK(t)
  BY DEF IInv, TransactionInv
<1>4. CASE Begin(t)
  <2>1. /\ status' = [status EXCEPT ![t] = "active"] /\ status[t] = "idle"
        /\ base' = [base EXCEPT ![t] = root]
        /\ UNCHANGED <<root, lock, writes, built, tracked, visible, stageVars, prepared>>
    BY <1>4 DEF Begin
  <2>2. /\ status'[t] = "active" /\ base'[t] = root
        /\ \A u \in Txn : u # t => status'[u] = status[u] /\ base'[u] = base[u]
        /\ \A a \in Actor : a # t => status'[a] = status[a]
    BY <1>1, <1>2, <2>1 DEF TypeOK
  <2>3. LockInv' /\ PreparedInv'
    BY <1>2, <2>1, <2>2, SameCommitter DEF IInv, Committing, LockInv
  <2>4. RootAdvances
    BY <2>1 DEF RootAdvances
  <2>5. Written(t) = {} /\ Asserted(t) = {} /\ Retracted(t) = {} /\ tracked[t] = {} /\ built[t] = {}
    BY <1>3, <2>1 DEF IdleOK, Written, Asserted, Retracted
  <2>6. Written(t)' = {} /\ Asserted(t)' = {} /\ Retracted(t)' = {} /\ tracked'[t] = {} /\ built'[t] = {}
    BY <2>1, <2>5 DEF Written, Asserted, Retracted
  <2>7. View(t)' = root.facts
    BY <2>2, <2>6 DEF View
  <2>8. UniqueKeys(root.facts)
    BY DEF IInv
  <2>9. OverlayOK(t)'
    BY <2>6, <2>7, <2>8 DEF OverlayOK
  <2>10. BaseOK(t)' /\ IdleOK(t)'
    <3>1. UniqueKeys(base[t].facts)'
      BY <2>2, <2>8 DEF UniqueKeys, Functional
    <3>2. root.version \in Nat /\ root' = root
      BY <1>1, <2>1 DEF TypeOK, Snapshot
    <3> QED
      BY <2>2, <3>1, <3>2 DEF BaseOK, IdleOK
  <2>11. TransactionInv'
    BY <1>1, <2>1, <2>2, <2>4, <2>9, <2>10, OneTransaction DEF IInv
  <2>12. StageInv'
    BY <1>1, <1>2, <2>1, <2>2, <2>4, ForksUntouched DEF IInv
  <2> QED
    BY <1>1, <2>1, <2>3, <2>8, <2>11, <2>12 DEF IInv
<1>5. ASSUME NEW f \in Fact, AssertTuple(t, f)
      PROVE  IInv'
  <2>1. OverlayOK(t)'
    BY <1>1, <1>3, <1>5, AssertOverlay
  <2>2. /\ UNCHANGED <<root, history, accepted, lock, status, base, stageVars, prepared>>
        /\ status[t] = "active"
    BY <1>5 DEF AssertTuple, CanWrite
  <2>3. \A u \in Txn : u # t =>
              /\ writes'[u] = writes[u] /\ built'[u] = built[u]
              /\ tracked'[u] = tracked[u] /\ visible'[u] = visible[u]
    BY <1>1, <1>5 DEF AssertTuple, TypeOK
  <2> QED
    BY <1>1, <2>1, <2>2, <2>3, WriteInv
<1>6. ASSUME NEW f \in Fact, AssertRefused(t, f)
      PROVE  IInv'
  <2>1. OverlayOK(t)'
    BY <1>1, <1>3, <1>6, RefusedOverlay
  <2>2. /\ UNCHANGED <<root, history, accepted, lock, status, base, stageVars, prepared>>
        /\ status[t] = "active"
    BY <1>6 DEF AssertRefused, CanWrite
  <2>3. \A u \in Txn : u # t =>
              /\ writes'[u] = writes[u] /\ built'[u] = built[u]
              /\ tracked'[u] = tracked[u] /\ visible'[u] = visible[u]
    BY <1>1, <1>6 DEF AssertRefused, TypeOK
  <2> QED
    BY <1>1, <2>1, <2>2, <2>3, WriteInv
<1>7. ASSUME NEW f \in Fact, RetractTuple(t, f)
      PROVE  IInv'
  <2>1. OverlayOK(t)'
    BY <1>1, <1>3, <1>7, RetractOverlay
  <2>2. /\ UNCHANGED <<root, history, accepted, lock, status, base, stageVars, prepared>>
        /\ status[t] = "active"
    BY <1>7 DEF RetractTuple, CanWrite
  <2>3. \A u \in Txn : u # t =>
              /\ writes'[u] = writes[u] /\ built'[u] = built[u]
              /\ tracked'[u] = tracked[u] /\ visible'[u] = visible[u]
    BY <1>1, <1>7 DEF RetractTuple, TypeOK
  <2> QED
    BY <1>1, <2>1, <2>2, <2>3, WriteInv
<1>8. ASSUME NEW f \in Fact, ReplaceFunctional(t, f)
      PROVE  IInv'
  <2>1. OverlayOK(t)'
    BY <1>1, <1>3, <1>8, ReplaceOverlay
  <2>2. /\ UNCHANGED <<root, history, accepted, lock, status, base, stageVars, prepared>>
        /\ status[t] = "active"
    BY <1>8 DEF ReplaceFunctional, CanWrite
  <2>3. \A u \in Txn : u # t =>
              /\ writes'[u] = writes[u] /\ built'[u] = built[u]
              /\ tracked'[u] = tracked[u] /\ visible'[u] = visible[u]
    BY <1>1, <1>8 DEF ReplaceFunctional, TypeOK
  <2> QED
    BY <1>1, <2>1, <2>2, <2>3, WriteInv
<1>9. CASE CommitTransaction(t)
  <2>1. /\ status[t] = "active" /\ ~ Conflict(t)
        /\ TakeLock(t, TransactionWork(t))
        /\ UNCHANGED <<root, txnVars, stageVars>>
    BY <1>9 DEF CommitTransaction
  <2>2. UniqueKeys(root.facts) /\ LockInv /\ TransactionInv /\ StageInv
    BY DEF IInv
  <2>3. Succeeds(TransactionWork(t)) /\ TransactionWork(t) \in [next : Snapshot, commit : Commit]
    BY <1>1, <1>3, <2>1, <2>2, TransactionWorkSucceeds, WorkType
  <2>4. LockInv' /\ PreparedInv'
    BY <1>1, <1>2, <2>1, <2>2, <2>3, LockTaken
  <2>5. /\ status'[t] = "persist"
        /\ \A a \in Actor : a # t => status'[a] = status[a]
    BY <1>1, <1>2, <2>1, ZenonT(30) DEF TypeOK, TakeLock
  <2>6. RootAdvances
    BY <2>1 DEF RootAdvances
  <2>7. OverlayOK(t)'
    BY <1>3, <2>1, OverlayUnchanged, ZenonT(30) DEF txnVars
  <2>8. BaseOK(t)' /\ IdleOK(t)'
    BY <1>3, <2>1, <2>5 DEF BaseOK, IdleOK, UniqueKeys, Functional, txnVars
  <2>9. TransactionInv'
    BY <1>1, <1>2, <2>1, <2>2, <2>5, <2>6, <2>7, <2>8, OneTransaction, ZenonT(30) DEF txnVars
  <2>10. StageInv'
    BY <1>1, <1>2, <2>1, <2>2, <2>5, <2>6, ForksUntouched, ZenonT(30)
  <2> QED
    BY <1>1, <2>1, <2>2, <2>4, <2>9, <2>10 DEF IInv
<1>10. ASSUME CommitConflict(t) \/ Rollback(t)
       PROVE  IInv'
  <2>1. /\ status[t] = "active" /\ status' = [status EXCEPT ![t] = "idle"]
        /\ Reset(t)
        /\ UNCHANGED <<root, lock, stageVars, prepared>>
    BY <1>10 DEF CommitConflict, Rollback
  <2>2. /\ status'[t] = "idle"
        /\ \A a \in Actor : a # t => status'[a] = status[a]
    BY <1>1, <1>2, <2>1, ZenonT(30) DEF TypeOK
  <2>3. LockInv' /\ PreparedInv'
    BY <1>2, <2>1, <2>2, SameCommitter DEF IInv, Committing, LockInv
  <2>4. RootAdvances
    BY <2>1 DEF RootAdvances
  <2>5. TransactionInv'
    BY <1>1, <1>2, <2>1, <2>2, <2>4, TransactionEnds DEF IInv
  <2>6. StageInv'
    BY <1>1, <1>2, <2>1, <2>2, <2>4, ForksUntouched DEF IInv
  <2> QED
    BY <1>1, <2>1, <2>3, <2>5, <2>6, ZenonT(30) DEF IInv
<1> QED
  BY <1>4, <1>5, <1>6, <1>7, <1>8, <1>9, <1>10 DEF TransactionStep

(* A step of a fork that leaves the kernel and its own commit alone.       *)
LEMMA ForkStepInv ==
    ASSUME IInv, TypeOK', NEW s \in Stage, ForkOK(s)',
           UNCHANGED <<root, lock, txnVars, prepared>>,
           status[s] \in {"idle", "open", "active"},
           status'[s] \in {"idle", "open", "active"},
           \A a \in Actor : a # s => status'[a] = status[a],
           \A u \in Stage : u # s =>
              expected'[u] = expected[u] /\ fork'[u] = fork[u] /\ touched'[u] = touched[u]
    PROVE  IInv'
<1>1. /\ Txn \subseteq Actor /\ Stage \subseteq Actor /\ Admin \subseteq Actor
      /\ s \notin Txn /\ s \notin Admin
  BY ActorAssumption, ZenonT(30) DEF Actor
<1>2. RootAdvances
  BY DEF RootAdvances
<1>3. LockInv' /\ PreparedInv'
  BY <1>1, SameCommitter DEF IInv, Committing, LockInv
<1>4. TransactionInv'
  BY <1>1, <1>2, TransactionsUntouched DEF IInv
<1>5. StageInv'
  BY <1>1, <1>2, OneFork DEF IInv
<1> QED
  BY <1>3, <1>4, <1>5 DEF IInv, UniqueKeys, Functional

LEMMA StageStepInv ==
    ASSUME IInv, NEW s \in Stage, StageStep(s)
    PROVE  IInv'
<1>1. TypeOK /\ TypeOK'
  BY StageStepType DEF IInv
<1>2. /\ s \in Actor
      /\ Txn \subseteq Actor /\ Stage \subseteq Actor /\ Admin \subseteq Actor
      /\ s \notin Txn /\ s \notin Admin
  BY ActorAssumption DEF Actor
<1>3. ForkOK(s) /\ UniqueKeys(root.facts)
  BY DEF IInv, StageInv
<1>4. root.version \in Nat /\ expected[s] \in Nat
  BY <1>1 DEF TypeOK, Snapshot
<1>5. CASE StageOpen(s)
  <2>1. /\ status' = [status EXCEPT ![s] = "open"] /\ status[s] = "idle"
        /\ expected' = [expected EXCEPT ![s] = root.version]
        /\ UNCHANGED <<root, lock, txnVars, fork, touched, prepared>>
    BY <1>5 DEF StageOpen
  <2>2. /\ status'[s] = "open" /\ expected'[s] = root.version
        /\ \A a \in Actor : a # s => status'[a] = status[a]
        /\ \A u \in Stage : u # s => expected'[u] = expected[u]
    BY <1>1, <1>2, <2>1, ZenonT(30) DEF TypeOK
  <2>3. ForkOK(s)'
    <3>1. UniqueKeys(fork[s].facts)'
      BY <1>3, <2>1 DEF ForkOK, UniqueKeys, Functional
    <3> QED
      BY <1>3, <1>4, <2>1, <2>2, <3>1 DEF ForkOK
  <2>4. /\ status[s] \in {"idle", "open", "active"} /\ status'[s] \in {"idle", "open", "active"}
        /\ \A u \in Stage : u # s =>
              expected'[u] = expected[u] /\ fork'[u] = fork[u] /\ touched'[u] = touched[u]
    BY <2>1, <2>2
  <2> QED
    BY <1>1, <2>1, <2>2, <2>3, <2>4, ForkStepInv
<1>6. CASE ForkInMemory(s)
  <2>1. /\ status' = [status EXCEPT ![s] = "active"] /\ status[s] = "open"
        /\ fork' = [fork EXCEPT ![s] = root]
        /\ UNCHANGED <<root, lock, txnVars, expected, touched, prepared>>
    BY <1>6 DEF ForkInMemory
  <2>2. /\ status'[s] = "active" /\ fork'[s] = root
        /\ \A a \in Actor : a # s => status'[a] = status[a]
        /\ \A u \in Stage : u # s => fork'[u] = fork[u]
    BY <1>1, <1>2, <2>1, ZenonT(30) DEF TypeOK
  <2>3. ForkOK(s)'
    BY <1>3, <1>4, <2>1, <2>2 DEF ForkOK, UniqueKeys, Functional
  <2> QED
    BY <1>1, <2>1, <2>2, <2>3, ForkStepInv
<1>7. ASSUME NEW facts, ForkPublish(s, facts), status[s] = "active", UniqueKeys(facts)
      PROVE  IInv'
  <2>1. /\ fork' = [fork EXCEPT ![s].facts = facts]
        /\ touched' = [touched EXCEPT ![s] =
              @ \cup (facts \ fork[s].facts) \cup (fork[s].facts \ facts)]
        /\ UNCHANGED <<root, lock, status, txnVars, expected, prepared>>
    BY <1>7 DEF ForkPublish
  <2>2. /\ fork'[s].facts = facts /\ fork'[s].relations = fork[s].relations
        /\ touched'[s] = touched[s] \cup (facts \ fork[s].facts) \cup (fork[s].facts \ facts)
        /\ \A u \in Stage : u # s => fork'[u] = fork[u] /\ touched'[u] = touched[u]
    BY <1>1, <2>1 DEF TypeOK, Snapshot
  <2>3. facts \subseteq Fact /\ fork[s].facts \subseteq Fact
    BY <1>1, <2>2 DEF TypeOK, Snapshot
  <2>4. ForkOK(s)'
    BY <1>3, <1>4, <1>7, <2>1, <2>2, <2>3 DEF ForkOK, UniqueKeys, Functional
  <2> QED
    BY <1>1, <1>7, <2>1, <2>2, <2>4, ForkStepInv
<1>8. ASSUME NEW f \in Fact, ForkReplace(s, f)
      PROVE  IInv'
  <2> DEFINE facts == {g \in fork[s].facts :
            ~ (Functional(f) /\ g \in TupleForKey(fork[s].facts, KeyOf[f]))} \cup {f}
  <2>1. ForkPublish(s, facts) /\ status[s] = "active"
    BY <1>8 DEF ForkReplace, ForkCanWrite
  <2>2. UniqueKeys(fork[s].facts)
    BY <1>3 DEF ForkOK
  <2>3. UniqueKeys(facts)
    BY <2>2 DEF UniqueKeys, TupleForKey
  <2> HIDE DEF facts
  <2> QED
    BY <1>7, <2>1, <2>3
<1>9. ASSUME NEW f \in Fact, ForkRetract(s, f)
      PROVE  IInv'
  <2>1. ForkPublish(s, fork[s].facts \ {f}) /\ status[s] = "active"
    BY <1>9 DEF ForkRetract, ForkCanWrite
  <2>2. UniqueKeys(fork[s].facts \ {f})
    BY <1>3 DEF ForkOK, UniqueKeys
  <2> QED
    BY <1>7, <2>1, <2>2
<1>10. ASSUME NEW r \in Relation, ForkCreateRelation(s, r)
       PROVE  IInv'
  <2>1. /\ fork' = [fork EXCEPT ![s].relations = @ \cup {r}]
        /\ status[s] = "active"
        /\ UNCHANGED <<root, lock, status, txnVars, expected, touched, prepared>>
    BY <1>10 DEF ForkCreateRelation
  <2>2. /\ fork'[s].facts = fork[s].facts
        /\ fork'[s].relations = fork[s].relations \cup {r}
        /\ \A u \in Stage : u # s => fork'[u] = fork[u]
    BY <1>1, <2>1 DEF TypeOK, Snapshot
  <2>3. ForkOK(s)'
    BY <1>3, <2>1, <2>2 DEF ForkOK, UniqueKeys, Functional
  <2> QED
    BY <1>1, <2>1, <2>2, <2>3, ForkStepInv
<1>11. CASE CommitStaged(s)
  <2>1. /\ status[s] = "active" /\ root.version = expected[s]
        /\ TakeLock(s, StagedWork(s))
        /\ UNCHANGED <<root, txnVars, stageVars>>
    BY <1>11 DEF CommitStaged
  <2>2. LockInv /\ TransactionInv /\ StageInv
    BY DEF IInv
  <2>3. Succeeds(StagedWork(s)) /\ StagedWork(s) \in [next : Snapshot, commit : Commit]
    BY <1>1, <1>3, <2>1, StagedWorkSucceeds, WorkType
  <2>4. LockInv' /\ PreparedInv'
    BY <1>1, <1>2, <2>1, <2>2, <2>3, LockTaken
  <2>5. /\ status'[s] = "persist"
        /\ \A a \in Actor : a # s => status'[a] = status[a]
    BY <1>1, <1>2, <2>1, ZenonT(30) DEF TypeOK, TakeLock
  <2>6. RootAdvances
    BY <2>1, ZenonT(30) DEF RootAdvances
  <2>7. TransactionInv'
    BY <1>1, <1>2, <2>1, <2>2, <2>5, <2>6, TransactionsUntouched, ZenonT(30)
  <2>8. ForkOK(s)'
    BY <1>3, <2>1, <2>5 DEF ForkOK, UniqueKeys, Functional, stageVars
  <2>9. StageInv'
    BY <1>1, <1>2, <2>1, <2>2, <2>5, <2>6, <2>8, OneFork DEF stageVars
  <2> QED
    BY <1>1, <1>3, <2>1, <2>4, <2>7, <2>9 DEF IInv
<1>12. CASE CommitStagedStale(s)
  <2>1. /\ status[s] = "active" /\ status' = [status EXCEPT ![s] = "idle"]
        /\ StageReset(s)
        /\ UNCHANGED <<root, lock, txnVars, prepared>>
    BY <1>12, ZenonT(30) DEF CommitStagedStale
  <2>2. /\ status'[s] = "idle"
        /\ \A a \in Actor : a # s => status'[a] = status[a]
    BY <1>1, <1>2, <2>1, ZenonT(30) DEF TypeOK
  <2>3. RootAdvances
    BY <2>1 DEF RootAdvances
  <2>4. StageInv'
    BY <1>1, <1>2, <2>1, <2>2, <2>3, ForkEnds DEF IInv
  <2>5. TransactionInv'
    BY <1>1, <1>2, <2>1, <2>2, <2>3, TransactionsUntouched DEF IInv
  <2>6. LockInv' /\ PreparedInv'
    BY <1>2, <2>1, <2>2, SameCommitter DEF IInv, Committing, LockInv
  <2> QED
    BY <1>1, <1>3, <2>1, <2>4, <2>5, <2>6 DEF IInv
<1> QED
  BY <1>5, <1>6, <1>8, <1>9, <1>10, <1>11, <1>12 DEF StageStep

LEMMA CreateRelationInv ==
    ASSUME IInv, NEW a \in Admin, NEW r \in Relation, CreateRelation(a, r)
    PROVE  IInv'
<1>1. TypeOK /\ TypeOK'
  BY CreateRelationType DEF IInv
<1>2. /\ a \in Actor
      /\ Txn \subseteq Actor /\ Stage \subseteq Actor
      /\ a \notin Txn /\ a \notin Stage
  BY ActorAssumption DEF Actor
<1>3. /\ r \notin root.relations
      /\ TakeLock(a, CreateWork(r))
      /\ UNCHANGED <<root, txnVars, stageVars>>
  BY DEF CreateRelation
<1>4. UniqueKeys(root.facts) /\ LockInv /\ TransactionInv /\ StageInv
  BY DEF IInv
<1>5. Succeeds(CreateWork(r)) /\ CreateWork(r) \in [next : Snapshot, commit : Commit]
  BY <1>1, <1>3, <1>4, CreateWorkSucceeds, WorkType
<1>6. LockInv' /\ PreparedInv'
  BY <1>1, <1>2, <1>3, <1>4, <1>5, LockTaken
<1>7. \A b \in Actor : b # a => status'[b] = status[b]
  BY <1>1, <1>2, <1>3, ZenonT(30) DEF TypeOK, TakeLock
<1>8. RootAdvances
  BY <1>3, ZenonT(30) DEF RootAdvances
<1>9. TransactionInv' /\ StageInv'
  BY <1>1, <1>2, <1>3, <1>4, <1>7, <1>8, TransactionsUntouched, ForksUntouched
<1> QED
  BY <1>1, <1>3, <1>4, <1>6, <1>9, ZenonT(30) DEF IInv

(* The end of a commit, refused or published: the root stays or takes its  *)
(* successor, and the committer's private state is dropped.                *)
LEMMA FinishInv ==
    ASSUME IInv, TypeOK', NEW a \in Actor, Committing(a), Finish(a), RootAdvances,
           UniqueKeys(root'.facts)
    PROVE  IInv'
<1>1. Txn \subseteq Actor /\ Stage \subseteq Actor
  BY DEF Actor
<1>2. TypeOK /\ LockInv /\ TransactionInv /\ StageInv
  BY DEF IInv
<1>3. /\ LockInv' /\ PreparedInv'
      /\ \A b \in Actor : b # a => status'[b] = status[b]
      /\ status'[a] = "idle"
  BY <1>2, LockReleasedInv
<1>4. TransactionInv'
  <2>1. CASE a \in Txn
    <3>1. Reset(a)
      BY <2>1 DEF Finish
    <3> QED
      BY <1>1, <1>2, <1>3, <2>1, <3>1, TransactionEnds
  <2>2. CASE a \notin Txn
    <3>1. UNCHANGED txnVars
      BY <2>2 DEF Finish
    <3> QED
      BY <1>1, <1>2, <1>3, <2>2, <3>1, TransactionsUntouched
  <2> QED
    BY <2>1, <2>2
<1>5. StageInv'
  <2>1. CASE a \in Stage
    <3>1. StageReset(a)
      BY <2>1 DEF Finish
    <3> QED
      BY <1>1, <1>2, <1>3, <2>1, <3>1, ForkEnds
  <2>2. CASE a \notin Stage
    <3>1. UNCHANGED stageVars
      BY <2>2 DEF Finish
    <3> QED
      BY <1>1, <1>2, <1>3, <2>2, <3>1, ForksUntouched
  <2> QED
    BY <2>1, <2>2
<1>6. UniqueKeys(root.facts)'
  BY DEF UniqueKeys, Functional
<1> QED
  BY <1>3, <1>4, <1>5, <1>6 DEF IInv

(* A publishing actor replaces the root by the work it prepared.           *)
LEMMA PublishesPrepared ==
    ASSUME IInv, NEW a \in Actor, Publish(a)
    PROVE  /\ root' = prepared[a].next
           /\ history' = Append(history, prepared[a].commit)
           /\ Succeeds(prepared[a])
           /\ RootAdvances
<1>1. Succeeds(prepared[a])
  BY DEF IInv, PreparedInv, Committing, Publish
<1>2. prepared[a].next.version = root.version + 1
  BY <1>1 DEF Succeeds
<1>3. /\ root' = prepared[a].next
      /\ history' = Append(history, prepared[a].commit)
  BY <1>2 DEF Publish
<1>4. RootAdvances
  BY <1>1, <1>2, <1>3 DEF RootAdvances, Succeeds
<1> QED
  BY <1>1, <1>3, <1>4

LEMMA CommitStepInv ==
    ASSUME IInv, NEW a \in Actor, CommitStep(a)
    PROVE  IInv'
<1>1. TypeOK /\ TypeOK'
  BY CommitStepType DEF IInv
<1>2. Txn \subseteq Actor /\ Stage \subseteq Actor /\ Admin \subseteq Actor
  BY DEF Actor
<1>3. CASE Persist(a)
  <2>1. /\ status[a] = "persist" /\ status' = [status EXCEPT ![a] = "publish"]
        /\ UNCHANGED <<root, lock, txnVars, stageVars, prepared>>
    BY <1>3 DEF Persist
  <2>2. /\ status'[a] = "publish"
        /\ \A b \in Actor : b # a => status'[b] = status[b]
    BY <1>1, <2>1, ZenonT(30) DEF TypeOK
  <2>3. RootAdvances
    BY <2>1 DEF RootAdvances
  <2>4. \A b \in Actor : Committing(b)' <=> Committing(b)
    BY <2>1, <2>2 DEF Committing
  <2>5. LockInv' /\ PreparedInv'
    BY <1>2, <2>1, <2>2, <2>4, SameCommitter, ZenonT(30) DEF IInv, LockInv
  <2>6. ASSUME NEW t \in Txn
        PROVE  BaseOK(t)' /\ OverlayOK(t)' /\ IdleOK(t)'
    <3>1. CASE t = a
      <4>1. BaseOK(t) /\ OverlayOK(t)
        BY DEF IInv, TransactionInv
      <4>2. OverlayOK(t)'
        BY <2>1, <4>1, OverlayUnchanged, ZenonT(30) DEF txnVars
      <4> QED
        BY <2>1, <2>2, <3>1, <4>1, <4>2 DEF BaseOK, IdleOK, UniqueKeys, Functional, txnVars
    <3>2. CASE t # a
      BY <1>1, <1>2, <2>1, <2>2, <2>3, <3>2, TransactionUntouched DEF IInv, TransactionInv, txnVars
    <3> QED
      BY <3>1, <3>2
  <2>7. ASSUME NEW s \in Stage
        PROVE  ForkOK(s)'
    <3>1. CASE s = a
      <4>1. ForkOK(s) /\ fork' = fork /\ status'[s] = "publish"
        BY <2>1, <2>2, <3>1 DEF IInv, StageInv, stageVars
      <4>2. UniqueKeys(fork[s].facts)'
        BY <4>1 DEF ForkOK, UniqueKeys, Functional
      <4> QED
        BY <4>1, <4>2 DEF ForkOK
    <3>2. CASE s # a
      BY <1>1, <1>2, <2>1, <2>2, <2>3, <3>2, ForkUntouched DEF IInv, StageInv, stageVars
    <3> QED
      BY <3>1, <3>2
  <2> QED
    BY <1>1, <2>1, <2>5, <2>6, <2>7, ZenonT(30) DEF IInv, TransactionInv, StageInv, UniqueKeys, Functional
<1>4. CASE PersistRefused(a)
  <2>1. Committing(a) /\ Finish(a) /\ root' = root
    BY <1>4 DEF PersistRefused, Committing
  <2>2. RootAdvances /\ UniqueKeys(root'.facts)
    BY <2>1 DEF RootAdvances, IInv
  <2> QED
    BY <1>1, <2>1, <2>2, FinishInv
<1>5. CASE Publish(a)
  <2>1. Committing(a) /\ Finish(a)
    BY <1>5 DEF Publish, Committing
  <2>2. RootAdvances /\ UniqueKeys(root'.facts)
    BY <1>5, PublishesPrepared, ZenonT(30) DEF Succeeds
  <2> QED
    BY <1>1, <2>1, <2>2, FinishInv
<1> QED
  BY <1>3, <1>4, <1>5 DEF CommitStep

LEMMA NextInv ==
    ASSUME IInv, [Next]_vars
    PROVE  IInv'
<1>1. CASE UNCHANGED vars
  <2>1. UNCHANGED <<root, history, accepted, lock, status, base, writes, built, tracked,
                    visible, expected, fork, touched, prepared>>
    BY <1>1 DEF vars, txnVars, stageVars
  <2>2. RootAdvances
    BY <2>1 DEF RootAdvances
  <2>3. TypeOK /\ TransactionInv /\ StageInv /\ LockInv /\ PreparedInv
    BY DEF IInv
  <2>4. TypeOK'
    BY <2>1, <2>3 DEF TypeOK
  <2>5. TransactionInv' /\ StageInv'
    BY <2>1, <2>2, <2>3, TransactionsUntouched, ForksUntouched DEF txnVars, stageVars
  <2>6. LockInv' /\ PreparedInv'
    BY <2>1, <2>3, SameCommitter DEF Committing, LockInv
  <2> QED
    BY <2>1, <2>4, <2>5, <2>6 DEF IInv, UniqueKeys, Functional
<1> QED
  BY <1>1, TransactionStepInv, StageStepInv, CreateRelationInv, CommitStepInv DEF Next

LEMMA Inductive == Spec => []IInv
BY InitInv, NextInv, PTL DEF Spec

(* Functional keys stay unique: no interleaving of transactions, staged    *)
(* commits and relation creation, and no refusal by the provider, lets     *)
(* RelationKernel::try_publish install a snapshot with two facts under one *)
(* functional key.                                                         *)
THEOREM KeysUnique == Spec => []FunctionalKeysUnique
<1>1. IInv => FunctionalKeysUnique
  BY DEF IInv, FunctionalKeysUnique
<1> QED
  BY <1>1, Inductive, PTL

(* The functional visibility map of every open transaction agrees with the *)
(* transaction's overlay over its base snapshot.                           *)
THEOREM MapAgrees == Spec => []VisibilityMapExact
<1>1. IInv => VisibilityMapExact
  BY ZenonT(30) DEF IInv, TransactionInv, OverlayOK, VisibilityMapExact
<1> QED
  BY <1>1, Inductive, PTL

(* validate_functional_conflicts compares every functional key that the    *)
(* transaction has written.                                                *)
THEOREM AllWrittenKeysValidated == Spec => []WrittenKeysValidated
<1>1. IInv => WrittenKeysValidated
  <2> SUFFICES ASSUME IInv, NEW t \in Txn
               PROVE  \A f \in Written(t) : Functional(f) => KeyOf[f] \in TouchedKeys(t)
    BY DEF WrittenKeysValidated
  <2>1. OverlayOK(t)
    BY DEF IInv, TransactionInv
  <2> QED
    BY <2>1, WrittenKeysTouched
<1> QED
  BY <1>1, Inductive, PTL

(* A persisted commit is always published: the root never moves between    *)
(* the validation of a commit and its publication.                         *)
THEOREM PublishSucceeds == Spec => []PublishNeverLoses
<1>1. IInv => PublishNeverLoses
  BY ZenonT(30) DEF IInv, PreparedInv, Committing, Succeeds, PublishNeverLoses
<1> QED
  BY <1>1, Inductive, PTL

=============================================================================
