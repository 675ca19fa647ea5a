----------------------------- MODULE MCRuntime ------------------------------
(***************************************************************************)
(* The runtime on small instances.  In the scenario "tasks" two tasks      *)
(* increment one key: a suspends and is resumed, b commits, spawns, aborts *)
(* and makes tagged buffer edits, and every step may fail.  The others run *)
(* subscriptions: "stream" has a fact subscription that may resume and one *)
(* on a derived relation that starts from a snapshot, "catalogue" one on   *)
(* the catalogue, and "faults" one with a budget of one message while      *)
(* mailboxes are closed, staged commits happen and a reader warms          *)
(* relations.                                                              *)
(***************************************************************************)
EXTENDS Tasks

CONSTANTS a, b, x, y, facts, derived, inbox, base, view, policy, reader, none

VARIABLES
    scenario,
    kernel, history, past, store, pending, closing, open, failed, warming, client

streamVars == <<kernel, history, past, store, pending, closing, open, failed,
                warming, client>>
allVars == <<scenario, vars, streamVars>>

Responses ==
    [t \in {a, b} |-> IF t = a THEN {"suspend", "complete", "retry"}
                     ELSE {"commit", "spawn", "complete", "abort", "retry"}]
Failures ==
    [t \in {a, b} |-> {"runtime", "resume", IF t = a THEN "persist" ELSE "dispatch"}]

(* Three commits were loaded from the store; the second was never          *)
(* persisted, as a volatile one is not.                                    *)
Loaded(v, row) ==
    [version |-> v, catalog |-> FALSE, visible |-> {}, settled |-> FALSE,
     changes |-> {[relation |-> base, row |-> row, assert |-> TRUE]}]

On(subject, relation, rows, initial, budget, root) ==
    [subject |-> subject, relation |-> relation, rows |-> rows,
     initial |-> initial, budget |-> budget, root |-> root, mailbox |-> inbox]

StreamRequest ==
    [r \in {facts, derived} |->
       IF r = facts THEN On("facts", base, {x, y}, "changes", 2, FALSE)
       ELSE On("relation", view, {x, y}, "snapshot", 2, TRUE)]
CatalogueRequest == [r \in {facts} |-> On("catalogue", base, {}, "snapshot", 4, TRUE)]
FaultsRequest == [r \in {facts} |-> On("facts", base, {x}, "changes", 1, FALSE)]
LoadedHistory == <<Loaded(1, x), Loaded(3, y)>>
StreamPast == <<{}, {x}, {x}, {x, y}>>
ShortPast == <<{}, {x}, {x}, {x}>>

Stream == INSTANCE Subscriptions WITH
    Sub <- {facts, derived}, Mailbox <- {inbox},
    Request <- StreamRequest,
    Row <- {x, y}, Base <- base, Derived <- {view}, Policy <- policy,
    ResumeAt <- {1, 3}, NoCursor <- none,
    BaseHistory <- LoadedHistory, BasePast <- StreamPast,
    Reader <- {}, Staging <- FALSE, Closing <- {}, MaxVersion <- 5, MaxSent <- 0

Catalogue == INSTANCE Subscriptions WITH
    Sub <- {facts}, Mailbox <- {inbox},
    Request <- CatalogueRequest,
    Row <- {x}, Base <- base, Derived <- {view}, Policy <- policy,
    ResumeAt <- {}, NoCursor <- none,
    BaseHistory <- LoadedHistory, BasePast <- ShortPast,
    Reader <- {}, Staging <- FALSE, Closing <- {}, MaxVersion <- 6, MaxSent <- 1

Faults == INSTANCE Subscriptions WITH
    Sub <- {facts}, Mailbox <- {inbox},
    Request <- FaultsRequest,
    Row <- {x}, Base <- base, Derived <- {view}, Policy <- policy,
    ResumeAt <- {3}, NoCursor <- none,
    BaseHistory <- LoadedHistory, BasePast <- ShortPast,
    Reader <- {reader}, Staging <- TRUE, Closing <- {"task", "host"},
    MaxVersion <- 5, MaxSent <- 1

StreamNext ==
    \/ scenario = "stream" /\ Stream!Next
    \/ scenario = "catalogue" /\ Catalogue!Next
    \/ scenario = "faults" /\ Faults!Next

RuntimeInit ==
    /\ Init
    /\ \/ scenario \in {"tasks", "stream"} /\ Stream!Init
       \/ scenario = "catalogue" /\ Catalogue!Init
       \/ scenario = "faults" /\ Faults!Init

RuntimeNext ==
    \/ scenario = "tasks" /\ Next /\ UNCHANGED <<scenario, streamVars>>
    \/ StreamNext /\ UNCHANGED <<scenario, vars>>

RuntimeSpec == RuntimeInit /\ [][RuntimeNext]_allVars

-----------------------------------------------------------------------------
(* While a subscription carries no marker, the messages it has taken and   *)
(* those still queued rebuild the rows of its subject at the dispatched    *)
(* cursor, or name every catalogue commit up to it; cursors strictly       *)
(* increase, and a subscription that stopped delivering has said so.       *)
StreamsFaithful ==
    /\ scenario = "stream" => /\ Stream!StreamComplete
                              /\ Stream!CursorsIncrease
                              /\ Stream!MarkerStands
    /\ scenario = "catalogue" => Catalogue!StreamComplete

(* The loss of read permission reaches the subscriber as a marker and      *)
(* takes the rows out of its mailbox; capabilities are those of the active *)
(* and pending subscriptions; a closed mailbox stays empty, a slow         *)
(* consumer holds at most its budget, and no boundary fails on the         *)
(* subscriptions of others while mailboxes stay open.                      *)
SubscribersIsolated ==
    /\ scenario = "stream" => /\ Stream!RevocationTold
                              /\ Stream!CapabilitiesMatch
                              /\ Stream!BoundariesSucceed
    /\ scenario = "faults" => /\ Faults!QueueBounded
                              /\ Faults!NoRowsAfterRevocation
                              /\ Faults!ClosedIsEmpty

(* A step queues rows for a subscription without root authority only if    *)
(* the policy of the snapshot it delivers from grants the read.            *)
NoUnauthorizedRows ==
    [][scenario = "faults" =>
         LET now == Faults!Entries(store', facts)
             before == Faults!Entries(store, facts) IN
         (\E i \in 1..Len(now) : /\ Faults!IsData(now[i])
                                 /\ \A j \in 1..Len(before) : now[i] # before[j])
            => kernel'.granted]_allVars
=============================================================================
