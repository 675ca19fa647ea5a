SPECIFICATION KernelSpec
CONSTANTS
    f1 = f1
    f2 = f2
    s1 = s1
    e1 = e1
    t1 = t1
    t2 = t2
    g1 = g1
    a1 = a1
    Free = Free
    Txn = {t1, t2}
    Stage = {g1}
    Admin = {a1}
    Fact = {f1, f2, s1, e1}
    Relation <- MCRelation
    Key <- MCKey
    RelationOf <- MCRelationOf
    KeyOf <- MCKeyOf
    Policy <- MCPolicy
    Durable <- MCDurable
    BaseVersion = 3
    BaseRelations <- MCBaseRelations
    BaseFacts = {f1, s1}
    MaxVersion = 5
SYMMETRY TxnSymmetry
INVARIANTS
    FunctionalKeysUnique
    VisibilityMapExact
    LogsReplay
PROPERTIES
    FirstCommitterWins
    ConfirmedFactStillThere
    ImplementsSnapshotStore
    StagedLockReleased
