------------------------ MODULE EndpointResources ---------------------------
(***************************************************************************)
(* What an endpoint owns in the driver: named scopes of volatile facts,    *)
(* which endpoints and scopes may share, and subscriptions that deliver to *)
(* a host's mailbox.  The driver's calls hold the pool's lock; programs    *)
(* commit to the relation store from other threads, so a commit may fall   *)
(* between the look at the store and the transaction of one call.          *)
(***************************************************************************)
EXTENDS Integers, FiniteSets

CONSTANTS
    Endpoint, Fact, Scope, Mailbox,
    EndpointScope,     \* the scope an endpoint is opened with
    Call,              \* subscriptions a host may register
    EndpointCapacity, SubscriptionCapacity, MailboxCapacity,
    NoOp, None

ASSUME ResourceAssumption ==
    /\ EndpointScope \in Scope
    /\ None \notin [endpoint : Endpoint, mailbox : Mailbox]

VARIABLES
    lifecycle,         \* DriverLifecycle
    scopes,            \* scopes[e]: the facts of each scope of e
    open,              \* endpoints with resources
    closed,            \* closed_endpoints
    owners,            \* volatile_fact_owners: how many endpoints own a fact
    byDriver,          \* asserted_by_driver
    op,                \* the call that holds the lock, between look and commit
    world,             \* volatile facts in the relation store
    mailboxes,         \* external_subscription_mailboxes
    recorded,          \* recorded[q]: endpoint and mailbox of a subscription
    active,            \* subscriptions active in the runtime
    racing,            \* whether programs commit while a call looks at the store
    program,           \* ghost: facts whose last change was a program's
    prior              \* ghost: facts present when the driver claimed them

facts == <<scopes, owners, byDriver, world, program, prior>>
subs == <<mailboxes, recorded, active>>
vars == <<lifecycle, open, closed, op, racing, facts, subs>>

NoFacts == [s \in Scope |-> {}]
Owned(e) == UNION {scopes[e][s] : s \in Scope}

Init ==
    /\ lifecycle = "running"
    /\ scopes = [e \in Endpoint |-> NoFacts]
    /\ open = {} /\ closed = {}
    /\ owners = [f \in Fact |-> 0]
    /\ byDriver = {} /\ op = NoOp /\ racing \in BOOLEAN
    /\ world = {} /\ program = {} /\ prior = {}
    /\ mailboxes = {}
    /\ recorded = [q \in Call |-> None] /\ active = {}

(* What e owns when scope s becomes next; the other scopes keep theirs.    *)
OwnedAfter(e, s, next) == next \cup UNION {scopes[e][x] : x \in Scope \ {s}}

Lost(e, after) == Owned(e) \ after
Gained(e, after) == after \ Owned(e)

(* Retracted: facts the driver put there and nobody else owns.             *)
RetractableAll(lost) == lost \cap byDriver
Retractable(lost) == {f \in lost : owners[f] = 1 /\ f \in byDriver}

(* The counts after endpoint e lost and gained some facts.                 *)
CountedOnce(lost, gained) ==
    [f \in Fact |-> IF f \in gained THEN 1 ELSE IF f \in lost THEN owners[f] - 1
                                                ELSE owners[f]]
Counted(lost, gained) ==
    [f \in Fact |-> owners[f] + (IF f \in gained THEN 1 ELSE 0)
                              - (IF f \in lost THEN 1 ELSE 0)]
ProvenanceOfLast(lost, asserted) == (byDriver \ lost) \cup asserted
Provenance(lost, asserted) ==
    (byDriver \ {f \in lost : owners[f] = 1}) \cup asserted

(* The provenance check: which first-owned facts the store holds already.  *)
LooksAway(gained) == {}
Look(gained) == {f \in gained : owners[f] = 0 /\ f \in world}

Begin(e, s, next) ==
    /\ op = NoOp
    /\ op' = [endpoint |-> e, scope |-> s, next |-> next,
              present |-> Look(Gained(e, OwnedAfter(e, s, next)))]

OpenBegin(e, next) ==
    /\ lifecycle = "running"
    /\ e \notin open
    /\ Cardinality(open) < EndpointCapacity
    /\ Begin(e, EndpointScope, next)
    /\ UNCHANGED <<lifecycle, open, closed, racing, facts, subs>>

(* ensure_endpoint_resource_update.                                        *)
MayUpdateOpen(e) == lifecycle = "running" /\ e \in open
MayUpdate(e) == lifecycle = "running" /\ e \in open \ closed

ReplaceBegin(e, s, next) ==
    /\ MayUpdate(e)
    /\ Begin(e, s, next)
    /\ UNCHANGED <<lifecycle, open, closed, racing, facts, subs>>

(* A diff may retract only what its own scope holds.                       *)
DiffBegin(e, s, retract, assert) ==
    /\ MayUpdate(e)
    /\ retract \subseteq scopes[e][s]
    /\ Begin(e, s, (scopes[e][s] \ retract) \cup assert)
    /\ UNCHANGED <<lifecycle, open, closed, racing, facts, subs>>

(* The transaction, and the bookkeeping that follows it under the lock.    *)
Commit ==
    /\ op # NoOp
    /\ LET e == op.endpoint
           after == OwnedAfter(e, op.scope, op.next)
           lost == Lost(e, after)
           gained == Gained(e, after)
           first == {f \in gained : owners[f] = 0}
           asserted == first \ op.present
       IN /\ world' = (world \ Retractable(lost)) \cup asserted
          /\ owners' = Counted(lost, gained)
          /\ byDriver' = Provenance(lost, asserted)
          /\ scopes' = [scopes EXCEPT ![e][op.scope] = op.next]
          /\ open' = open \cup {e}
          /\ closed' = IF e \in open THEN closed ELSE closed \ {e}
          /\ program' = program \ ((asserted \ world) \cup Retractable(lost))
          /\ prior' = (prior \ {f \in lost : owners[f] = 1}) \cup (first \cap world)
    /\ op' = NoOp
    /\ UNCHANGED <<lifecycle, racing, subs>>

(* A conflict with a program's commit: the call fails and records nothing. *)
Conflict ==
    /\ op # NoOp
    /\ op' = NoOp
    /\ UNCHANGED <<lifecycle, open, closed, racing, facts, subs>>

(* A session ends; further calls through it are refused.                   *)
BeginClose(e) ==
    /\ op = NoOp
    /\ e \in open \ closed
    /\ closed' = closed \cup {e}
    /\ UNCHANGED <<lifecycle, open, op, racing, facts, subs>>

Close(e) ==
    /\ lifecycle = "running"
    /\ op = NoOp
    /\ e \in open \cap closed
    /\ LET lost == Owned(e) IN
          /\ world' = world \ Retractable(lost)
          /\ owners' = Counted(lost, {})
          /\ byDriver' = Provenance(lost, {})
          /\ program' = program \ Retractable(lost)
          /\ prior' = prior \ {f \in lost : owners[f] = 1}
    /\ scopes' = [scopes EXCEPT ![e] = NoFacts]
    /\ open' = open \ {e}
    /\ LET mine == {q \in Call : recorded[q] # None /\ recorded[q].endpoint = e} IN
          /\ recorded' = [q \in Call |-> IF q \in mine THEN None ELSE recorded[q]]
          /\ active' = active \ mine
    /\ UNCHANGED <<lifecycle, closed, op, racing, mailboxes>>

Shutdown ==
    /\ lifecycle = "running"
    /\ op = NoOp
    /\ lifecycle' = "stopped"
    /\ world' = world \ byDriver
    /\ owners' = [f \in Fact |-> 0]
    /\ byDriver' = {} /\ prior' = {} /\ program' = program \ byDriver
    /\ scopes' = [e \in Endpoint |-> NoFacts]
    /\ open' = {}
    /\ mailboxes' = {} /\ recorded' = [q \in Call |-> None] /\ active' = {}
    /\ UNCHANGED <<closed, op, racing>>

(* Subscriptions.  Registration has no await before it is recorded, so     *)
(* calls of the host's thread do not interleave with it.                   *)
CreateMailbox(m) ==
    /\ lifecycle = "running" /\ op = NoOp
    /\ m \notin mailboxes
    /\ Cardinality(mailboxes) < MailboxCapacity
    /\ mailboxes' = mailboxes \cup {m}
    /\ UNCHANGED <<lifecycle, open, closed, op, racing, facts, recorded, active>>

Recorded == {q \in Call : recorded[q] # None}

Register(q, e, m) ==
    /\ op = NoOp
    /\ MayUpdate(e)
    /\ recorded[q] = None
    /\ Cardinality(Recorded) < SubscriptionCapacity
    /\ m \in mailboxes
    /\ recorded' = [recorded EXCEPT ![q] = [endpoint |-> e, mailbox |-> m]]
    /\ active' = active \cup {q}
    /\ UNCHANGED <<lifecycle, open, closed, op, racing, facts, mailboxes>>

Cancel(q, e) ==
    /\ lifecycle = "running" /\ op = NoOp
    /\ q \in Recorded
    /\ recorded[q].endpoint = e
    /\ recorded' = [recorded EXCEPT ![q] = None]
    /\ active' = active \ {q}
    /\ UNCHANGED <<lifecycle, open, closed, op, racing, facts, mailboxes>>

ForgetsMailbox(m) == {}
OfMailbox(m) == {q \in Recorded : recorded[q].mailbox = m}

CloseMailbox(m) ==
    /\ op = NoOp
    /\ m \in mailboxes
    /\ mailboxes' = mailboxes \ {m}
    /\ recorded' = [q \in Call |-> IF q \in OfMailbox(m) THEN None ELSE recorded[q]]
    /\ active' = {q \in active : recorded[q].mailbox # m}
    /\ UNCHANGED <<lifecycle, open, closed, op, racing, facts>>

(* A program commits a volatile fact, or removes one.                      *)
ProgramAssert(f) ==
    /\ racing \/ op = NoOp
    /\ f \notin world
    /\ world' = world \cup {f}
    /\ program' = program \cup {f}
    /\ UNCHANGED <<lifecycle, open, closed, op, racing, scopes, owners, byDriver, prior, subs>>

ProgramRetract(f) ==
    /\ racing \/ op = NoOp
    /\ f \in world
    /\ world' = world \ {f}
    /\ program' = program \ {f}
    /\ UNCHANGED <<lifecycle, open, closed, op, racing, scopes, owners, byDriver, prior, subs>>

Next ==
    \/ \E e \in Endpoint :
         \/ \E next \in SUBSET Fact : OpenBegin(e, next)
         \/ \E s \in Scope, next \in SUBSET Fact : ReplaceBegin(e, s, next)
         \/ \E s \in Scope, r, a \in SUBSET Fact : DiffBegin(e, s, r, a)
         \/ BeginClose(e) \/ Close(e)
    \/ Commit \/ Conflict \/ Shutdown
    \/ \E m \in Mailbox : CreateMailbox(m) \/ CloseMailbox(m)
    \/ \E q \in Call, e \in Endpoint : \/ Cancel(q, e)
                                       \/ \E m \in Mailbox : Register(q, e, m)
    \/ \E f \in Fact : ProgramAssert(f) \/ ProgramRetract(f)

Spec == Init /\ [][Next]_vars

-----------------------------------------------------------------------------
TypeOK ==
    /\ lifecycle \in {"running", "stopped"}
    /\ scopes \in [Endpoint -> [Scope -> SUBSET Fact]]
    /\ open \subseteq Endpoint /\ closed \subseteq Endpoint
    /\ owners \in [Fact -> Nat]
    /\ byDriver \subseteq Fact /\ world \subseteq Fact
    /\ mailboxes \subseteq Mailbox
    /\ active \subseteq Call

(* The count of owners that decides whether a fact is retracted is the     *)
(* number of endpoints that own it, in however many scopes.                *)
OwnersCounted ==
    \A f \in Fact : owners[f] = Cardinality({e \in open : f \in Owned(e)})

(* Closing and replacing leave nothing behind: a fact in the store is      *)
(* owned by an endpoint or was put there by a program.                     *)
NothingLeaks ==
    world \subseteq program \cup UNION {Owned(e) : e \in open}

(* A program's own commit; every other step is the driver's.               *)
OfProgram == /\ op' = op /\ open' = open /\ lifecycle' = lifecycle

(* The driver and the runtime agree on which subscriptions there are, and  *)
(* each has an open endpoint and an open mailbox.                          *)
SubscriptionsOwned ==
    /\ active = Recorded
    /\ \A q \in Recorded : recorded[q].endpoint \in open /\ recorded[q].mailbox \in mailboxes

(* What the driver believes it owns is what there is: counts, facts in the *)
(* store and subscriptions.                                                *)
ResourcesOwned == OwnersCounted /\ NothingLeaks /\ SubscriptionsOwned

(* Facts that were present before the driver first claimed them are        *)
(* retained when that ownership ends, if no program commits in the middle  *)
(* of a call; and a fact another scope or endpoint owns survives.          *)
RetractsOnlyItsOwn ==
    \A f \in world \ world' :
        OfProgram \/ (owners'[f] = 0 /\ (racing \/ f \notin prior))

(* A closed endpoint's facts change no more, except by its own closing.    *)
ClosedIsFrozen == \A e \in open \cap closed \cap open' : scopes'[e] = scopes[e]

(* How an ownership ends: replacing a scope and closing an endpoint        *)
(* retract only what the driver itself asserted and nobody else owns, and  *)
(* a call that begins after the close of an endpoint changes nothing.      *)
OwnershipEndsRightly == [][RetractsOnlyItsOwn /\ ClosedIsFrozen]_vars
=============================================================================
