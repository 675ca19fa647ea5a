--------------------------- MODULE RelationKernel ---------------------------
(***************************************************************************)
(* The multi-version core of the relation kernel: immutable snapshots      *)
(* published through one root pointer, optimistic transactions over a      *)
(* base snapshot, forks published as one staged commit, and relation       *)
(* creation.  Every committer validates, persists and publishes while it   *)
(* holds the commit lock; readers load the root without the lock.          *)
(*                                                                         *)
(* A fact stands for a tuple of one relation.  A functional relation       *)
(* allows one fact per key; the key of a fact is its relation together     *)
(* with the projection of the tuple on the relation's key positions.  An   *)
(* Option<Tuple> is a set of at most one fact.                             *)
(***************************************************************************)
EXTENDS Integers, Sequences

CONSTANTS
    Txn,              \* transactions that may be open at the same time
    Stage,            \* staged forks that may be open at the same time
    Admin,            \* callers of create_relation
    Relation, Fact, Key,
    RelationOf,       \* the relation of each fact
    KeyOf,            \* the functional key of each fact
    Policy,           \* the conflict policy of each relation
    Durable,          \* the relations whose facts are persisted
    BaseVersion,      \* the version the kernel was loaded at
    BaseRelations,    \* the relations it was loaded with
    BaseFacts,        \* the facts it was loaded with
    MaxVersion,       \* bound: no commit goes past this version
    Free              \* the commit lock is not held

Actor == Txn \cup Stage \cup Admin

Functional(f) == Policy[RelationOf[f]] = "Functional"

(* RelationState::tuple_for_key: the fact stored under a functional key.   *)
TupleForKey(facts, k) == {f \in facts : Functional(f) /\ KeyOf[f] = k}

(* At most one fact under each functional key.                             *)
UniqueKeys(facts) ==
    \A f, g \in facts :
        Functional(f) /\ Functional(g) /\ KeyOf[f] = KeyOf[g] => f = g

ASSUME ActorAssumption ==
    /\ Txn \cap Stage = {}
    /\ Txn \cap Admin = {}
    /\ Stage \cap Admin = {}
    /\ Free \notin Actor

ASSUME CatalogAssumption ==
    /\ RelationOf \in [Fact -> Relation]
    /\ KeyOf \in [Fact -> Key]
    /\ Policy \in [Relation -> {"Set", "Functional", "EventAppend"}]
    /\ \A f, g \in Fact : KeyOf[f] = KeyOf[g] => RelationOf[f] = RelationOf[g]
    /\ Durable \subseteq Relation

ASSUME BaseAssumption ==
    /\ BaseVersion \in Nat
    /\ MaxVersion \in Nat
    /\ BaseRelations \subseteq Relation
    /\ BaseFacts \subseteq {f \in Fact : RelationOf[f] \in BaseRelations}
    /\ UniqueKeys(BaseFacts)

VARIABLES
    root,        \* RelationKernel.root: the published snapshot
    history,     \* Snapshot.commits of the published snapshot
    accepted,    \* the commits the provider has accepted, in order
    lock,        \* RelationKernel.commit_lock
    status,      \* where each actor is in its commit
    base,        \* Transaction.base, or the snapshot a fork started from
    writes,      \* Transaction.writes: the last local change of each fact
    built,       \* relations that have an entry in Transaction.functional_visible
    tracked,     \* the keys those entries hold
    visible,     \* the visible fact recorded under each tracked key
    expected,    \* the version a staged commit expects
    fork,        \* the snapshot of a fork's own kernel
    touched,     \* facts named by the changes of the fork's own commits
    prepared     \* the snapshot and commit an actor is about to publish

txnVars == <<base, writes, built, tracked, visible>>
stageVars == <<expected, fork, touched>>
vars == <<root, history, accepted, lock, status, txnVars, stageVars, prepared>>

-----------------------------------------------------------------------------
Snapshot == [version : Nat, relations : SUBSET Relation, facts : SUBSET Fact]

Commit == [version : Nat, asserts : SUBSET Fact, retracts : SUBSET Fact,
           created : SUBSET Relation]

LocalChange == {"none", "assert", "retract"}

Status == {"idle", "open", "active", "persist", "publish"}

BaseSnapshot == [version |-> BaseVersion, relations |-> BaseRelations,
                 facts |-> BaseFacts]

EmptyCommit == [version |-> BaseVersion, asserts |-> {}, retracts |-> {},
                created |-> {}]

NoWork == [next |-> BaseSnapshot, commit |-> EmptyCommit]

TypeOK ==
    /\ root \in Snapshot
    /\ history \in Seq(Commit)
    /\ accepted \in Seq(Commit)
    /\ lock \in Actor \cup {Free}
    /\ status \in [Actor -> Status]
    /\ base \in [Txn -> Snapshot]
    /\ writes \in [Txn -> [Fact -> LocalChange]]
    /\ built \in [Txn -> SUBSET Relation]
    /\ tracked \in [Txn -> SUBSET Key]
    /\ visible \in [Txn -> [Key -> SUBSET Fact]]
    /\ expected \in [Stage -> Nat]
    /\ fork \in [Stage -> Snapshot]
    /\ touched \in [Stage -> SUBSET Fact]
    /\ prepared \in [Actor -> [next : Snapshot, commit : Commit]]

Init ==
    /\ root = BaseSnapshot
    /\ history = <<>>
    /\ accepted = <<>>
    /\ lock = Free
    /\ status = [a \in Actor |-> "idle"]
    /\ base = [t \in Txn |-> BaseSnapshot]
    /\ writes = [t \in Txn |-> [f \in Fact |-> "none"]]
    /\ built = [t \in Txn |-> {}]
    /\ tracked = [t \in Txn |-> {}]
    /\ visible = [t \in Txn |-> [k \in Key |-> {}]]
    /\ expected = [s \in Stage |-> BaseVersion]
    /\ fork = [s \in Stage |-> BaseSnapshot]
    /\ touched = [s \in Stage |-> {}]
    /\ prepared = [a \in Actor |-> NoWork]

-----------------------------------------------------------------------------
(* Transactions: local writes over the base snapshot.                      *)

Asserted(t) == {f \in Fact : writes[t][f] = "assert"}
Retracted(t) == {f \in Fact : writes[t][f] = "retract"}
Written(t) == {f \in Fact : writes[t][f] # "none"}

(* Transaction::scan_extensional_rows: the base under the local overlay.   *)
View(t) == (base[t].facts \ Retracted(t)) \cup Asserted(t)

(* visible_after_change: one local change to the visible fact of a key.    *)
VisibleAfterChange(current, f, change) ==
    IF change = "assert" THEN {f} ELSE current \ {f}

(* Mutant of MapKeys: the map is keyed by the tuple, not by its key.       *)
MapKeysByTuple(t, r) ==
    IF r \in built[t]
      THEN tracked[t]
      ELSE tracked[t] \cup {g \in Written(t) : RelationOf[g] = r}

(* FunctionalVisibleMap::from_writes runs when a relation's visibility is  *)
(* first asked for.  The overlay then holds retracts of that relation      *)
(* only, because asserting asks for the visibility first.                  *)
MapKeys(t, r) ==
    IF r \in built[t]
      THEN tracked[t]
      ELSE tracked[t] \cup {KeyOf[f] : f \in {g \in Written(t) : RelationOf[g] = r}}

MapVisible(t, r) ==
    [k \in Key |->
        IF r \notin built[t] /\ k \in MapKeys(t, r) \ tracked[t]
          THEN TupleForKey(base[t].facts, k) \ Retracted(t)
          ELSE visible[t][k]]

(* Transaction::visible_tuple_for_key.                                     *)
VisibleTupleForKey(t, f) ==
    IF KeyOf[f] \in MapKeys(t, RelationOf[f])
      THEN MapVisible(t, RelationOf[f])[KeyOf[f]]
      ELSE TupleForKey(base[t].facts, KeyOf[f])

(* FunctionalVisibleMap::record_change_with_base_lookup on the map with    *)
(* keys ks and values vs.                                                  *)
RecordChange(t, ks, vs, f, change) ==
    LET current == IF KeyOf[f] \in ks THEN vs[KeyOf[f]]
                   ELSE IF change = "assert" THEN {}
                   ELSE TupleForKey(base[t].facts, KeyOf[f])
    IN  [vs EXCEPT ![KeyOf[f]] = VisibleAfterChange(current, f, change)]

(* RelationKernel::begin.                                                  *)
Begin(t) ==
    /\ status[t] = "idle"
    /\ status' = [status EXCEPT ![t] = "active"]
    /\ base' = [base EXCEPT ![t] = root]
    /\ UNCHANGED <<root, history, accepted, lock, writes, built, tracked,
                   visible, stageVars, prepared>>

CanWrite(t, f) == status[t] = "active" /\ RelationOf[f] \in base[t].relations

(* Transaction::assert, accepted by apply_local_change.                    *)
AssertTuple(t, f) ==
    LET r == RelationOf[f] IN
    /\ CanWrite(t, f)
    /\ Functional(f) => VisibleTupleForKey(t, f) \subseteq {f}
    /\ writes' = [writes EXCEPT ![t][f] = "assert"]
    /\ IF Functional(f)
         THEN /\ built' = [built EXCEPT ![t] = @ \cup {r}]
              /\ tracked' = [tracked EXCEPT ![t] = MapKeys(t, r) \cup {KeyOf[f]}]
              /\ visible' = [visible EXCEPT ![t] =
                    RecordChange(t, MapKeys(t, r), MapVisible(t, r), f, "assert")]
         ELSE UNCHANGED <<built, tracked, visible>>
    /\ UNCHANGED <<root, history, accepted, lock, status, base, stageVars,
                   prepared>>

(* Transaction::assert, refused with FunctionalKeyViolation: the           *)
(* visibility map has been built, the overlay is untouched.                *)
AssertRefused(t, f) ==
    LET r == RelationOf[f] IN
    /\ CanWrite(t, f)
    /\ Functional(f)
    /\ ~ (VisibleTupleForKey(t, f) \subseteq {f})
    /\ built' = [built EXCEPT ![t] = @ \cup {r}]
    /\ tracked' = [tracked EXCEPT ![t] = MapKeys(t, r)]
    /\ visible' = [visible EXCEPT ![t] = MapVisible(t, r)]
    /\ UNCHANGED <<root, history, accepted, lock, status, base, writes,
                   stageVars, prepared>>

(* Mutant of RetractTuple: an existing map is not told of the retract.     *)
RetractUnrecorded(t, f) ==
    /\ CanWrite(t, f)
    /\ writes' = [writes EXCEPT ![t][f] = "retract"]
    /\ UNCHANGED <<root, history, accepted, lock, status, base, built, tracked,
                   visible, stageVars, prepared>>

(* Transaction::retract: recorded in the map only when the map exists.     *)
RetractTuple(t, f) ==
    /\ CanWrite(t, f)
    /\ writes' = [writes EXCEPT ![t][f] = "retract"]
    /\ IF RelationOf[f] \in built[t]
         THEN /\ tracked' = [tracked EXCEPT ![t] = @ \cup {KeyOf[f]}]
              /\ visible' = [visible EXCEPT ![t] =
                    RecordChange(t, tracked[t], visible[t], f, "retract")]
         ELSE UNCHANGED <<tracked, visible>>
    /\ UNCHANGED <<root, history, accepted, lock, status, base, built,
                   stageVars, prepared>>

(* Transaction::replace_functional: retract the visible fact of the key,   *)
(* then assert the new one.                                                *)
ReplaceFunctional(t, f) ==
    LET r == RelationOf[f]
        old == VisibleTupleForKey(t, f)
    IN  /\ CanWrite(t, f)
        /\ Functional(f)
        /\ writes' = [writes EXCEPT ![t] = [g \in Fact |->
                        IF g = f THEN "assert"
                        ELSE IF g \in old THEN "retract"
                        ELSE writes[t][g]]]
        /\ built' = [built EXCEPT ![t] = @ \cup {r}]
        /\ tracked' = [tracked EXCEPT ![t] = MapKeys(t, r) \cup {KeyOf[f]}]
        /\ visible' = [visible EXCEPT ![t] =
              [MapVisible(t, r) EXCEPT ![KeyOf[f]] = {f}]]
        /\ UNCHANGED <<root, history, accepted, lock, status, base, stageVars,
                       prepared>>

-----------------------------------------------------------------------------
(* Transaction::commit_inner: validate and build under the commit lock.    *)

(* Mutants of TouchedKeys: the overlay's keys are forgotten, or only       *)
(* asserts count as touching a key.                                        *)
TouchedKeysOfMapOnly(t) == tracked[t]

TouchedKeysOfAsserts(t) == {KeyOf[f] : f \in {g \in Asserted(t) : Functional(g)}}

(* The keys validate_functional_conflicts looks at: the visibility map's   *)
(* entries where a relation has one, the overlay's projected keys where it *)
(* has none.                                                               *)
TouchedKeys(t) ==
    tracked[t] \cup {KeyOf[f] : f \in {g \in Written(t) :
                        Functional(g) /\ RelationOf[g] \notin built[t]}}

(* Mutant of SetConflict: the wrong kind of change is checked.             *)
SetConflictOnRetract(t) ==
    \E f \in Retracted(t) :
        /\ Policy[RelationOf[f]] = "Set"
        /\ f \in base[t].facts
        /\ f \notin root.facts

SetConflict(t) ==
    \E f \in Asserted(t) :
        /\ Policy[RelationOf[f]] = "Set"
        /\ f \in base[t].facts
        /\ f \notin root.facts

(* Mutant of FunctionalConflict: compares only whether the key is taken.   *)
FunctionalConflictIfTaken(t) ==
    \E k \in TouchedKeys(t) :
        (TupleForKey(base[t].facts, k) = {}) # (TupleForKey(root.facts, k) = {})

FunctionalConflict(t) ==
    \E k \in TouchedKeys(t) :
        TupleForKey(base[t].facts, k) # TupleForKey(root.facts, k)

(* Transaction::validate_conflicts, skipped when nothing was published     *)
(* since the base snapshot.                                                *)
Conflict(t) ==
    root.version # base[t].version /\ (SetConflict(t) \/ FunctionalConflict(t))

(* Mutant of NextFacts: the transaction's own view is published.           *)
NextFactsFromBase(t) == View(t)

(* RelationState::apply_ordered_changes on the current relation states: a  *)
(* retract counts only for a fact of the base snapshot.                    *)
NextFacts(t) ==
    (root.facts \ (Retracted(t) \cap base[t].facts)) \cup Asserted(t)

(* Mutant of TransactionWork: the log lists retractions that changed       *)
(* nothing, because another transaction had retracted the fact before.     *)
TransactionWorkLogsAll(t) ==
    [next |-> [version |-> root.version + 1,
               relations |-> root.relations,
               facts |-> NextFacts(t)],
     commit |-> [version |-> root.version + 1,
                 asserts |-> Asserted(t) \ root.facts,
                 retracts |-> Retracted(t) \cap base[t].facts,
                 created |-> {}]]

TransactionWork(t) ==
    [next |-> [version |-> root.version + 1,
               relations |-> root.relations,
               facts |-> NextFacts(t)],
     commit |-> [version |-> root.version + 1,
                 asserts |-> Asserted(t) \ root.facts,
                 retracts |-> (Retracted(t) \cap base[t].facts) \cap root.facts,
                 created |-> {}]]

(* Mutant of TakeLock: the commit lock is not awaited.                     *)
TakeLockUnguarded(a, work) ==
    /\ root.version < MaxVersion
    /\ lock' = a
    /\ status' = [status EXCEPT ![a] = "persist"]
    /\ prepared' = [prepared EXCEPT ![a] = work]

TakeLock(a, work) ==
    /\ lock = Free
    /\ root.version < MaxVersion
    /\ lock' = a
    /\ status' = [status EXCEPT ![a] = "persist"]
    /\ prepared' = [prepared EXCEPT ![a] = work]

CommitTransaction(t) ==
    /\ status[t] = "active"
    /\ ~ Conflict(t)
    /\ TakeLock(t, TransactionWork(t))
    /\ UNCHANGED <<root, history, accepted, txnVars, stageVars>>

(* Back to idle: the Transaction value is consumed or dropped.             *)
Reset(t) ==
    /\ base' = [base EXCEPT ![t] = BaseSnapshot]
    /\ writes' = [writes EXCEPT ![t] = [f \in Fact |-> "none"]]
    /\ built' = [built EXCEPT ![t] = {}]
    /\ tracked' = [tracked EXCEPT ![t] = {}]
    /\ visible' = [visible EXCEPT ![t] = [k \in Key |-> {}]]

CommitConflict(t) ==
    /\ status[t] = "active"
    /\ lock = Free
    /\ Conflict(t)
    /\ status' = [status EXCEPT ![t] = "idle"]
    /\ Reset(t)
    /\ UNCHANGED <<root, history, accepted, lock, stageVars, prepared>>

Rollback(t) ==
    /\ status[t] = "active"
    /\ status' = [status EXCEPT ![t] = "idle"]
    /\ Reset(t)
    /\ UNCHANGED <<root, history, accepted, lock, stageVars, prepared>>

-----------------------------------------------------------------------------
(* Staged commits.  The caller reads the expected version and then forks,  *)
(* two loads of the root; work on the fork commits to the fork's own       *)
(* in-memory kernel, one transaction at a time.                            *)

StageOpen(s) ==
    /\ status[s] = "idle"
    /\ status' = [status EXCEPT ![s] = "open"]
    /\ expected' = [expected EXCEPT ![s] = root.version]
    /\ UNCHANGED <<root, history, accepted, lock, txnVars, fork, touched,
                   prepared>>

(* RelationKernel::fork_in_memory.                                         *)
ForkInMemory(s) ==
    /\ status[s] = "open"
    /\ status' = [status EXCEPT ![s] = "active"]
    /\ fork' = [fork EXCEPT ![s] = root]
    /\ UNCHANGED <<root, history, accepted, lock, txnVars, expected, touched,
                   prepared>>

(* One transaction of the fork: it leaves facts as the fork's extensional  *)
(* state, having changed one fact, or one functional key.                  *)
ForkPublish(s, facts) ==
    /\ fork' = [fork EXCEPT ![s].facts = facts]
    /\ touched' = [touched EXCEPT ![s] =
            @ \cup (facts \ fork[s].facts) \cup (fork[s].facts \ facts)]
    /\ UNCHANGED <<root, history, accepted, lock, status, txnVars, expected,
                   prepared>>

ForkCanWrite(s, f) == status[s] = "active" /\ RelationOf[f] \in fork[s].relations

ForkReplace(s, f) ==
    /\ ForkCanWrite(s, f)
    /\ ForkPublish(s, {g \in fork[s].facts :
            ~ (Functional(f) /\ g \in TupleForKey(fork[s].facts, KeyOf[f]))} \cup {f})

ForkRetract(s, f) ==
    /\ ForkCanWrite(s, f)
    /\ ForkPublish(s, fork[s].facts \ {f})

ForkCreateRelation(s, r) ==
    /\ status[s] = "active"
    /\ r \notin fork[s].relations
    /\ fork' = [fork EXCEPT ![s].relations = @ \cup {r}]
    /\ UNCHANGED <<root, history, accepted, lock, status, txnVars, expected,
                   touched, prepared>>

(* validate_staged_snapshot, staged_fact_changes, staged_catalog_changes.  *)
ValidateStaged(s) == root.relations \subseteq fork[s].relations

(* Mutant of StagedWork: retracted facts are left out of the commit.       *)
StagedWorkAssertsOnly(s) ==
    [next |-> [version |-> root.version + 1,
               relations |-> fork[s].relations,
               facts |-> fork[s].facts],
     commit |-> [version |-> root.version + 1,
                 asserts |-> {f \in touched[s] : f \notin root.facts /\ f \in fork[s].facts},
                 retracts |-> {},
                 created |-> fork[s].relations \ root.relations]]

StagedWork(s) ==
    [next |-> [version |-> root.version + 1,
               relations |-> fork[s].relations,
               facts |-> fork[s].facts],
     commit |-> [version |-> root.version + 1,
                 asserts |-> {f \in touched[s] : f \notin root.facts /\ f \in fork[s].facts},
                 retracts |-> {f \in touched[s] : f \in root.facts /\ f \notin fork[s].facts},
                 created |-> fork[s].relations \ root.relations]]

(* Mutant of CommitStaged: the expected version is not compared.           *)
CommitStagedUnchecked(s) ==
    /\ status[s] = "active"
    /\ ValidateStaged(s)
    /\ TakeLock(s, StagedWork(s))
    /\ UNCHANGED <<root, history, accepted, txnVars, stageVars>>

CommitStaged(s) ==
    /\ status[s] = "active"
    /\ root.version = expected[s]
    /\ ValidateStaged(s)
    /\ TakeLock(s, StagedWork(s))
    /\ UNCHANGED <<root, history, accepted, txnVars, stageVars>>

StageReset(s) ==
    /\ expected' = [expected EXCEPT ![s] = BaseVersion]
    /\ fork' = [fork EXCEPT ![s] = BaseSnapshot]
    /\ touched' = [touched EXCEPT ![s] = {}]

(* StaleStagedSnapshot: the kernel advanced since the expected version.    *)
CommitStagedStale(s) ==
    /\ status[s] = "active"
    /\ lock = Free
    /\ root.version # expected[s]
    /\ status' = [status EXCEPT ![s] = "idle"]
    /\ StageReset(s)
    /\ UNCHANGED <<root, history, accepted, lock, txnVars, prepared>>

-----------------------------------------------------------------------------
(* RelationKernel::create_relation.                                        *)

CreateWork(r) ==
    [next |-> [version |-> root.version + 1,
               relations |-> root.relations \cup {r},
               facts |-> root.facts],
     commit |-> [version |-> root.version + 1,
                 asserts |-> {}, retracts |-> {}, created |-> {r}]]

CreateRelation(a, r) ==
    /\ status[a] = "idle"
    /\ r \notin root.relations
    /\ TakeLock(a, CreateWork(r))
    /\ UNCHANGED <<root, history, accepted, txnVars, stageVars>>

-----------------------------------------------------------------------------
(* Persisting and publishing, the lock still held.                         *)

(* persist_commit_against keeps the changes to durable relations.          *)
DurablePart(c) ==
    [c EXCEPT !.asserts = {f \in @ : RelationOf[f] \in Durable},
              !.retracts = {f \in @ : RelationOf[f] \in Durable}]

(* Mutant of NeedsPersisting: a commit that only retracts is skipped.      *)
NeedsPersistingAsserts(c) == c.created # {} \/ DurablePart(c).asserts # {}

NeedsPersisting(c) ==
    c.created # {} \/ DurablePart(c).asserts # {} \/ DurablePart(c).retracts # {}

(* The provider accepts the commit, or there is nothing to persist.        *)
Persist(a) ==
    LET c == prepared[a].commit IN
    /\ status[a] = "persist"
    /\ accepted' = IF NeedsPersisting(c) THEN Append(accepted, DurablePart(c))
                   ELSE accepted
    /\ status' = [status EXCEPT ![a] = "publish"]
    /\ UNCHANGED <<root, history, lock, txnVars, stageVars, prepared>>

(* Mutant of Finish: the commit lock stays held.                           *)
FinishLocked(a) ==
    /\ lock' = lock
    /\ status' = [status EXCEPT ![a] = "idle"]
    /\ prepared' = [prepared EXCEPT ![a] = NoWork]
    /\ IF a \in Txn THEN Reset(a) ELSE UNCHANGED txnVars
    /\ IF a \in Stage THEN StageReset(a) ELSE UNCHANGED stageVars

(* The actor is done: it releases the lock and drops its private state.    *)
Finish(a) ==
    /\ lock' = Free
    /\ status' = [status EXCEPT ![a] = "idle"]
    /\ prepared' = [prepared EXCEPT ![a] = NoWork]
    /\ IF a \in Txn THEN Reset(a) ELSE UNCHANGED txnVars
    /\ IF a \in Stage THEN StageReset(a) ELSE UNCHANGED stageVars

(* The provider refuses the commit: nothing is published.                  *)
PersistRefused(a) ==
    /\ status[a] = "persist"
    /\ NeedsPersisting(prepared[a].commit)
    /\ Finish(a)
    /\ UNCHANGED <<root, history, accepted>>

(* try_publish swaps the root only while it is still the snapshot the next *)
(* one was built from; otherwise the commit fails after it was persisted.  *)
Publish(a) ==
    /\ status[a] = "publish"
    /\ IF prepared[a].next.version = root.version + 1
         THEN /\ root' = prepared[a].next
              /\ history' = Append(history, prepared[a].commit)
         ELSE UNCHANGED <<root, history>>
    /\ Finish(a)
    /\ UNCHANGED accepted

-----------------------------------------------------------------------------
TransactionStep(t) ==
    \/ Begin(t)
    \/ \E f \in Fact : \/ AssertTuple(t, f)
                       \/ AssertRefused(t, f)
                       \/ RetractTuple(t, f)
                       \/ ReplaceFunctional(t, f)
    \/ CommitTransaction(t)
    \/ CommitConflict(t)
    \/ Rollback(t)

StageStep(s) ==
    \/ StageOpen(s)
    \/ ForkInMemory(s)
    \/ \E f \in Fact : ForkReplace(s, f) \/ ForkRetract(s, f)
    \/ \E r \in Relation : ForkCreateRelation(s, r)
    \/ CommitStaged(s)
    \/ CommitStagedStale(s)

CommitStep(a) == Persist(a) \/ PersistRefused(a) \/ Publish(a)

Next ==
    \/ \E t \in Txn : TransactionStep(t)
    \/ \E s \in Stage : StageStep(s)
    \/ \E a \in Admin, r \in Relation : CreateRelation(a, r)
    \/ \E a \in Actor : CommitStep(a)

Spec == Init /\ [][Next]_vars

(* A committer that holds the lock runs straight on to its release.        *)
FairSpec == Spec /\ \A a \in Actor : WF_vars(CommitStep(a))
-----------------------------------------------------------------------------
(* Properties.                                                             *)

(* Every published snapshot holds at most one fact under each functional   *)
(* key, whatever transactions and staged commits raced to publish: the     *)
(* overlay check of apply_local_change and the commit-time check of        *)
(* validate_functional_conflicts together keep the key functional.         *)
FunctionalKeysUnique == UniqueKeys(root.facts)

(* What a transaction reads through its own overlay also keeps functional  *)
(* keys unique, and the lazily built, incrementally updated visibility map *)
(* (FunctionalVisibleMap) agrees with that overlay on every key it tracks. *)
VisibilityMapExact ==
    \A t \in Txn :
        /\ UniqueKeys(View(t))
        /\ \A k \in tracked[t] : visible[t][k] = TupleForKey(View(t), k)

(* The keys compared at commit cover every functional key the transaction  *)
(* writes, whichever of its two sources validate_functional_conflicts uses.*)
WrittenKeysValidated ==
    \A t \in Txn : \A f \in Written(t) : Functional(f) => KeyOf[f] \in TouchedKeys(t)

(* The facts that result from applying the commits of a log to some facts: *)
(* the last commit that names a fact decides.                              *)
Names(c, f) == f \in c.asserts \/ f \in c.retracts

Replay(facts, log, after) ==
    {f \in Fact :
        \/ /\ f \in facts
           /\ \A i \in DOMAIN log : log[i].version > after => ~ Names(log[i], f)
        \/ \E i \in DOMAIN log :
              /\ log[i].version > after
              /\ f \in log[i].asserts
              /\ \A j \in DOMAIN log : j > i => ~ Names(log[j], f)}

(* Snapshot::commits_since loses nothing: applying the commits published   *)
(* since any snapshot a transaction still holds to that snapshot's facts   *)
(* gives exactly the current facts, staged commits included.               *)
CommitsReplay ==
    \A t \in Txn : status[t] # "idle" =>
        Replay(base[t].facts, history, base[t].version) = root.facts

DurableFacts(facts) == {f \in facts : RelationOf[f] \in Durable}

(* The snapshot the provider should be able to recover: the published one, *)
(* or the one being published once its commit has been accepted.           *)
RecoverableSnapshot ==
    IF lock # Free /\ status[lock] = "publish" THEN prepared[lock].next ELSE root

(* What the provider accepted, replayed from the loaded state, is the      *)
(* durable part of the published state: nothing is published before it is  *)
(* accepted, a refused commit leaves no trace, and the order of acceptance *)
(* is the order of publication.                                            *)
AcceptedReplays ==
    /\ Replay(DurableFacts(BaseFacts), accepted, BaseVersion)
         = DurableFacts(RecoverableSnapshot.facts)
    /\ BaseRelations \cup UNION {accepted[i].created : i \in DOMAIN accepted}
         = RecoverableSnapshot.relations

(* A commit that was persisted is published: try_publish never finds       *)
(* another snapshot at the root, so the error "commit publish failed after *)
(* serialized persistence" never leaves a persisted, unpublished commit.   *)
PublishNeverLoses ==
    \A a \in Actor : status[a] \in {"persist", "publish"} =>
        prepared[a].next.version = root.version + 1

(* The two logs tell the truth whatever transactions, forks and new        *)
(* relations were committed: the commits a snapshot lists since an older   *)
(* one, replayed, lead from that one to it, what the provider accepted     *)
(* replays to what was published, and what it accepted is published.       *)
LogsReplay == CommitsReplay /\ AcceptedReplays /\ PublishNeverLoses

(* First committer wins on functional keys: when a transaction publishes,  *)
(* every functional key it wrote still holds what it held in the snapshot  *)
(* the transaction read, although the validation ran before persisting.    *)
FirstCommitterWins ==
    [][\A t \in Txn : Publish(t) =>
          \A f \in Written(t) : Functional(f) =>
              TupleForKey(base[t].facts, KeyOf[f]) = TupleForKey(root.facts, KeyOf[f])]_vars

(* A transaction's publication applies its own writes and nothing else:    *)
(* asserted facts are in, facts it retracted from its base are out, and    *)
(* every other fact is as the transactions that published before left it.  *)
PublishIsolated ==
    [][\A t \in Txn : Publish(t) =>
          \A f \in Fact :
              f \in root'.facts <=> CASE writes[t][f] = "assert" -> TRUE
                                     [] writes[t][f] = "none" -> f \in root.facts
                                     [] writes[t][f] = "retract" ->
                                            f \in root.facts /\ f \notin base[t].facts]_vars

(* A transaction that confirms a Set fact it read publishes only if the    *)
(* fact was not retracted in the meantime by anybody.                      *)
ConfirmedFactStillThere ==
    [][\A t \in Txn : Publish(t) =>
          \A f \in Asserted(t) :
              Policy[RelationOf[f]] = "Set" /\ f \in base[t].facts => f \in root.facts]_vars

(* A committer never keeps the commit lock: every other committer gets its *)
(* turn, whether the provider accepts the commit or refuses it.            *)
LockReleased == (lock # Free) ~> (lock = Free)

Store == INSTANCE SnapshotStore WITH
            Reader <- Txn,
            Consistent <- UniqueKeys,
            version <- root.version,
            relations <- root.relations,
            facts <- root.facts,
            log <- history,
            view <- base

(* The kernel implements SnapshotStore: published states follow one        *)
(* another by atomic commits with consecutive versions, the commit log is  *)
(* the exact difference of consecutive states, and a transaction's base is *)
(* a published state that never changes under it.                          *)
ImplementsSnapshotStore == Store!Spec
=============================================================================
