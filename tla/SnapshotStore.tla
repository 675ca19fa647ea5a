---------------------------- MODULE SnapshotStore ----------------------------
(***************************************************************************)
(* What the relation kernel promises its callers, without locks, overlays, *)
(* validation or forks: a sequence of consistent states, each produced     *)
(* from the one before by a single atomic commit whose log entry is the    *)
(* exact difference between the two, and readers that hold one state of    *)
(* the sequence until they let it go.                                      *)
(***************************************************************************)
EXTENDS Integers, Sequences

CONSTANTS
    Reader,           \* holders of a snapshot
    Fact, Relation,
    BaseVersion, BaseRelations, BaseFacts,
    Consistent(_)     \* the states that may be published

VARIABLES
    version, relations, facts,   \* the published state
    log,                         \* the commits since the base state
    view                         \* the state each reader holds

storeVars == <<version, relations, facts, log, view>>

State(v, rs, fs) == [version |-> v, relations |-> rs, facts |-> fs]

BaseState == State(BaseVersion, BaseRelations, BaseFacts)

Init ==
    /\ version = BaseVersion
    /\ relations = BaseRelations
    /\ facts = BaseFacts
    /\ log = <<>>
    /\ view = [r \in Reader |-> BaseState]

(* A reader takes the published state.                                     *)
Read(r) ==
    /\ view' = [view EXCEPT ![r] = State(version, relations, facts)]
    /\ UNCHANGED <<version, relations, facts, log>>

(* A reader lets its state go.                                             *)
Release(r) ==
    /\ view' = [view EXCEPT ![r] = BaseState]
    /\ UNCHANGED <<version, relations, facts, log>>

(* One commit replaces the state; the committer may be a reader, whose     *)
(* view ends with its commit.                                              *)
Commit ==
    /\ facts' \in SUBSET Fact
    /\ Consistent(facts')
    /\ relations' \in SUBSET Relation
    /\ relations \subseteq relations'
    /\ version' = version + 1
    /\ log' = Append(log, [version |-> version + 1,
                           asserts |-> facts' \ facts,
                           retracts |-> facts \ facts',
                           created |-> relations' \ relations])
    /\ \/ view' = view
       \/ \E r \in Reader : view' = [view EXCEPT ![r] = BaseState]

Next == Commit \/ \E r \in Reader : Read(r) \/ Release(r)

Spec == Init /\ [][Next]_storeVars
=============================================================================
