---------------------------- MODULE DerivedCache ----------------------------
(***************************************************************************)
(* The derived-relation caches of published snapshots, shared by all the   *)
(* threads that read a snapshot.  A snapshot has a derived cache (the rows *)
(* of some or of all derived relations) and a maintained state (targets    *)
(* whose rows later commits advance), each behind a lock of its own that   *)
(* is held for one load or one store only.                                 *)
(*                                                                         *)
(* Rows are not modelled: a cache is the set of derived relations whose    *)
(* rows it holds, and a read of r answers fully when the cache it is given *)
(* holds r, because scan adds no derived rows for a missing relation.      *)
(***************************************************************************)
EXTENDS Integers, FiniteSets

CONSTANTS
    Thread,
    Derived,       \* the relations that are heads of active rules
    Needs,         \* derived relations each one's rules use, transitively closed
    Unmaintained,  \* derived relations whose rules use a computed relation
    MaxSnapshot    \* bound: snapshots published

VARIABLES
    head,        \* the published snapshot
    cache,       \* Snapshot.derived_cache
    maintained,  \* requested targets of Snapshot.maintained_cache, {} for None
    pc,          \* where each thread is in derived_relations
    snap,        \* the snapshot it reads
    wanted,      \* the relation it reads
    cached,      \* its copy of the derived cache, then the rows it returns
    targets      \* the targets it is about to store

(* The program has rules, each needs derived relations only, and there is  *)
(* a first snapshot.                                                       *)
CacheAssumption ==
    /\ Derived # {}
    /\ Needs \in [Derived -> SUBSET Derived]
    /\ MaxSnapshot \in Nat \ {0}

vars == <<head, cache, maintained, pc, snap, wanted, cached, targets>>

(* DerivedCacheEntry; a missing entry holds nothing and is not complete.   *)
Entry == [complete : BOOLEAN, relations : SUBSET Derived]

NoEntry == [complete |-> FALSE, relations |-> {}]

CompleteEntry == [complete |-> TRUE, relations |-> Derived]

(* MaintainedProgram::compile: the requested targets and all they need.    *)
Program(requested) == requested \cup UNION {Needs[r] : r \in requested}

(* compile gives up on a program that reads a computed relation.           *)
Compiles(requested) == Program(requested) \cap Unmaintained = {}

(* MaintainedState::serves.                                                *)
Serves(requested, r) == r \in Program(requested)

Pc == {"idle", "cached", "warm", "warmStore", "store", "done"}

TypeOK ==
    /\ head \in 1..MaxSnapshot
    /\ cache \in [1..MaxSnapshot -> Entry]
    /\ maintained \in [1..MaxSnapshot -> SUBSET Derived]
    /\ pc \in [Thread -> Pc]
    /\ snap \in [Thread -> 1..MaxSnapshot]
    /\ wanted \in [Thread -> Derived]
    /\ cached \in [Thread -> Entry]
    /\ targets \in [Thread -> SUBSET Derived]

Init ==
    /\ head = 1
    /\ cache = [s \in 1..MaxSnapshot |-> NoEntry]
    /\ maintained = [s \in 1..MaxSnapshot |-> {}]
    /\ pc = [t \in Thread |-> "idle"]
    /\ snap = [t \in Thread |-> 1]
    /\ wanted = [t \in Thread |-> CHOOSE r \in Derived : TRUE]
    /\ cached = [t \in Thread |-> NoEntry]
    /\ targets = [t \in Thread |-> {}]

-----------------------------------------------------------------------------
(* Snapshot::derived_relations.                                            *)

(* The derived cache is cloned under its lock.  An idle thread first moves *)
(* to the snapshot its transaction begins on.                              *)
LoadCache(t, r) ==
    /\ pc[t] = "idle"
    /\ pc' = [pc EXCEPT ![t] = "cached"]
    /\ snap' = [snap EXCEPT ![t] = head]
    /\ wanted' = [wanted EXCEPT ![t] = r]
    /\ cached' = [cached EXCEPT ![t] = cache[head]]
    /\ UNCHANGED <<head, cache, maintained, targets>>

(* A partial cache serves a maintained relation as it is.                  *)
UseMaintained(t) ==
    /\ pc[t] = "cached"
    /\ cached[t] # NoEntry
    /\ ~ cached[t].complete
    /\ Serves(maintained[snap[t]], wanted[t])
    /\ pc' = [pc EXCEPT ![t] = "done"]
    /\ UNCHANGED <<head, cache, maintained, snap, wanted, cached, targets>>

(* A complete cache is used; otherwise all rules are evaluated.            *)
UseComplete(t) ==
    /\ pc[t] = "cached"
    /\ cached[t].complete
    /\ pc' = [pc EXCEPT ![t] = "warm"]
    /\ UNCHANGED <<head, cache, maintained, snap, wanted, cached, targets>>

Evaluate(t) ==
    /\ pc[t] = "cached"
    /\ ~ cached[t].complete
    /\ cached[t] = NoEntry \/ ~ Serves(maintained[snap[t]], wanted[t])
    /\ cached' = [cached EXCEPT ![t].relations = Derived]
    /\ pc' = [pc EXCEPT ![t] = "warm"]
    /\ UNCHANGED <<head, cache, maintained, snap, wanted, targets>>

(* After warming, an evaluation is stored, a complete cache is returned.   *)
AfterWarm(t) == IF cached[t].complete THEN "done" ELSE "store"

(* Mutants of WarmLoad: the program is not checked, or warming is tried    *)
(* again until the relation is served.                                     *)
WarmLoadUnchecked(t) ==
    LET requested == maintained[snap[t]] \cup {wanted[t]}
        skip == Serves(maintained[snap[t]], wanted[t])
    IN  /\ pc[t] = "warm"
        /\ pc' = [pc EXCEPT ![t] = IF skip THEN AfterWarm(t) ELSE "warmStore"]
        /\ targets' = [targets EXCEPT ![t] = IF skip THEN {} ELSE requested]
        /\ UNCHANGED <<head, cache, maintained, snap, wanted, cached>>

WarmLoadRetry(t) ==
    LET requested == maintained[snap[t]] \cup {wanted[t]}
    IN  /\ pc[t] = "warm"
        /\ pc' = [pc EXCEPT ![t] =
                    IF Serves(maintained[snap[t]], wanted[t]) THEN AfterWarm(t)
                    ELSE IF Compiles(requested) THEN "warmStore" ELSE "warm"]
        /\ targets' = [targets EXCEPT ![t] = requested]
        /\ UNCHANGED <<head, cache, maintained, snap, wanted, cached>>

(* warm_maintained_relation: load the state, add the relation, ...         *)
WarmLoad(t) ==
    LET requested == maintained[snap[t]] \cup {wanted[t]}
        skip == Serves(maintained[snap[t]], wanted[t]) \/ ~ Compiles(requested)
    IN  /\ pc[t] = "warm"
        /\ pc' = [pc EXCEPT ![t] = IF skip THEN AfterWarm(t) ELSE "warmStore"]
        /\ targets' = [targets EXCEPT ![t] = IF skip THEN {} ELSE requested]
        /\ UNCHANGED <<head, cache, maintained, snap, wanted, cached>>

(* ... and store the state built in the meantime without the lock.         *)
WarmStore(t) ==
    /\ pc[t] = "warmStore"
    /\ maintained' = [maintained EXCEPT ![snap[t]] = targets[t]]
    /\ targets' = [targets EXCEPT ![t] = {}]
    /\ pc' = [pc EXCEPT ![t] = AfterWarm(t)]
    /\ UNCHANGED <<head, cache, snap, wanted, cached>>

(* Mutant of StoreComplete: a partial cache is left in place.              *)
StoreCompleteIfNone(t) ==
    /\ pc[t] = "store"
    /\ cache' = [cache EXCEPT ![snap[t]] = IF @ = NoEntry THEN CompleteEntry ELSE @]
    /\ pc' = [pc EXCEPT ![t] = "done"]
    /\ UNCHANGED <<head, maintained, snap, wanted, cached, targets>>

StoreComplete(t) ==
    /\ pc[t] = "store"
    /\ cache' = [cache EXCEPT ![snap[t]] = CompleteEntry]
    /\ pc' = [pc EXCEPT ![t] = "done"]
    /\ UNCHANGED <<head, maintained, snap, wanted, cached, targets>>

Return(t) ==
    /\ pc[t] = "done"
    /\ pc' = [pc EXCEPT ![t] = "idle"]
    /\ cached' = [cached EXCEPT ![t] = NoEntry]
    /\ UNCHANGED <<head, cache, maintained, snap, wanted, targets>>

-----------------------------------------------------------------------------
(* Publishing the next snapshot.                                           *)

(* Mutant of Publish: a version is skipped.                                *)
PublishSkipping(entry, requested) ==
    /\ head < MaxSnapshot
    /\ head' = head + 2
    /\ cache' = [cache EXCEPT ![head + 2] = entry]
    /\ maintained' = [maintained EXCEPT ![head + 2] = requested]
    /\ UNCHANGED <<pc, snap, wanted, cached, targets>>

Publish(entry, requested) ==
    /\ head < MaxSnapshot
    /\ head' = head + 1
    /\ cache' = [cache EXCEPT ![head + 1] = entry]
    /\ maintained' = [maintained EXCEPT ![head + 1] = requested]
    /\ UNCHANGED <<pc, snap, wanted, cached, targets>>

(* Transaction::build_next_snapshot advances the maintained state.         *)
CommitFacts ==
    Publish([complete |-> FALSE, relations |-> Program(maintained[head])],
            maintained[head])

(* create_relation empties both caches.                                    *)
CommitCatalog == Publish(NoEntry, {})

(* commit_staged_snapshot, install_rule and disable_rule evaluate what was *)
(* maintained against the next snapshot before publishing it.              *)
CommitSettled ==
    Publish(IF maintained[head] = {} THEN NoEntry ELSE CompleteEntry,
            maintained[head])

Step(t) ==
    \/ \E r \in Derived : LoadCache(t, r)
    \/ UseMaintained(t) \/ UseComplete(t) \/ Evaluate(t)
    \/ WarmLoad(t) \/ WarmStore(t) \/ StoreComplete(t) \/ Return(t)

Next ==
    \/ \E t \in Thread : Step(t)
    \/ CommitFacts
    \/ CommitCatalog
    \/ CommitSettled

(* A thread inside derived_relations runs on; it takes no lock while it    *)
(* holds another.                                                          *)
Spec ==
    /\ Init
    /\ [][Next]_vars
    /\ \A t \in Thread : WF_vars(pc[t] # "idle" /\ Step(t))

-----------------------------------------------------------------------------
(* Properties.                                                             *)

(* A snapshot presents a coherent relation whatever is cached: a finished  *)
(* read has the rows of the relation it asked for.                         *)
ReadsAnswerFully ==
    \A t \in Thread : pc[t] = "done" => wanted[t] \in cached[t].relations

(* When no thread is reading a snapshot its caches agree: a partial cache  *)
(* holds every relation that the maintained state claims to serve, so that *)
(* the next lone read answers fully.                                       *)
AtRest(s) == \A t \in Thread : pc[t] # "idle" => snap[t] # s

CachesAgreeAtRest ==
    \A s \in 1..MaxSnapshot : AtRest(s) =>
        \/ cache[s].complete
        \/ Program(maintained[s]) \subseteq cache[s].relations

(* The maintained state is always one that compiles: a commit can advance  *)
(* it without meeting a computed relation.                                 *)
MaintainedCompiles == \A s \in 1..MaxSnapshot : Compiles(maintained[s])

(* Every read returns, however many threads warm the same snapshot.        *)
ReadsReturn == \A t \in Thread : pc[t] # "idle" ~> pc[t] = "idle"
=============================================================================
