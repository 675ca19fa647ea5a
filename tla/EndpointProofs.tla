--------------------------- MODULE EndpointProofs ---------------------------
(* What endpoints own, for any number of endpoints, scopes, facts and      *)
(* subscriptions.                                                          *)
EXTENDS EndpointResources, FiniteSetTheorems, TLAPS

USE ResourceAssumption, ZenonT(5), SMTT(20)

Calls == [endpoint : Endpoint, scope : Scope, next : SUBSET Fact, present : SUBSET Fact]

Typed ==
    /\ racing \in BOOLEAN
    /\ scopes \in [Endpoint -> [Scope -> SUBSET Fact]]
    /\ open \subseteq Endpoint /\ IsFiniteSet(open) /\ closed \subseteq Endpoint
    /\ owners \in [Fact -> Nat]
    /\ byDriver \subseteq Fact /\ world \subseteq Fact
    /\ program \subseteq Fact /\ prior \subseteq Fact
    /\ op \in Calls \cup {NoOp}
    /\ recorded \in [Call -> {None} \cup [endpoint : Endpoint, mailbox : Mailbox]]

(* Only open endpoints own facts, and the counts agree.                    *)
CountInv ==
    /\ \A e \in Endpoint \ open : Owned(e) = {}
    /\ OwnersCounted

(* What the store holds is the driver's or a program's; what the driver    *)
(* put there, and what it found there, has an owner; and the two are apart *)
(* unless a program's commit fell between the look and the transaction.    *)
LedgerInv ==
    /\ \A f \in byDriver \cup prior : owners[f] > 0
    /\ world \subseteq program \cup byDriver
    /\ racing \/ byDriver \cap prior = {}

(* A call under way is for an endpoint that is not closing, and what it    *)
(* saw in the store is still there, unless a program commits meanwhile.    *)
CallInv ==
    op # NoOp =>
        /\ op.endpoint \notin open \cap closed
        /\ racing \/ op.present = Look(Gained(op.endpoint,
                                         OwnedAfter(op.endpoint, op.scope, op.next)))

IInv == Typed /\ CountInv /\ LedgerInv /\ CallInv /\ SubscriptionsOwned
-----------------------------------------------------------------------------
(* Owners and counts.                                                      *)

(* An endpoint that owns a fact is open and counted.                       *)
LEMMA OwnedIsCounted ==
  ASSUME IInv, NEW e \in Endpoint, NEW f \in Fact, f \in Owned(e)
  PROVE  e \in open /\ owners[f] > 0
<1> DEFINE S == {x \in open : f \in Owned(x)}
<1>1. e \in open
  BY DEF IInv, CountInv
<1>2. e \in S /\ IsFiniteSet(S)
  BY <1>1, FS_Subset DEF IInv, Typed
<1>3. Cardinality(S) \in Nat /\ Cardinality(S) # 0
  BY <1>2, FS_CardinalityType, FS_EmptySet
<1>4. owners[f] = Cardinality(S)
  BY DEF IInv, CountInv, OwnersCounted
<1> QED
  BY <1>1, <1>3, <1>4

(* A fact with an owner is owned by an open endpoint.                      *)
LEMMA CountedIsOwned ==
  ASSUME IInv, NEW f \in Fact, owners[f] > 0
  PROVE  \E e \in open : f \in Owned(e)
<1> DEFINE S == {x \in open : f \in Owned(x)}
<1>1. owners[f] = Cardinality(S)
  BY DEF IInv, CountInv, OwnersCounted
<1>2. S # {}
  BY <1>1, FS_EmptySet
<1> QED
  BY <1>2

(* Counted is right when one endpoint's facts change and it is opened or   *)
(* closed with it.                                                         *)
LEMMA CountKept ==
  ASSUME IInv, NEW e \in Endpoint, NEW lost, NEW gained,
         lost = Owned(e) \ Owned(e)', gained = Owned(e)' \ Owned(e),
         \A x \in Endpoint \ {e} : Owned(x)' = Owned(x),
         open' = open \cup {e} \/ (open' = open \ {e} /\ Owned(e)' = {}),
         owners' = Counted(lost, gained)
  PROVE  /\ CountInv' /\ owners' \in [Fact -> Nat]
         /\ open' \subseteq Endpoint /\ IsFiniteSet(open')
<1>1. open' \subseteq Endpoint /\ IsFiniteSet(open')
  BY FS_AddElement, FS_RemoveElement DEF IInv, Typed
<1>2. \A x \in Endpoint \ open' : Owned(x)' = {}
  BY DEF IInv, CountInv
<1>3. ASSUME NEW f \in Fact
      PROVE  owners'[f] = Cardinality({x \in open' : f \in Owned(x)'})
  <2> DEFINE S == {x \in open : f \in Owned(x)}
             R == {x \in open' : f \in Owned(x)'}
  <2>1. IsFiniteSet(S) /\ owners[f] = Cardinality(S) /\ Cardinality(S) \in Nat
    BY FS_Subset, FS_CardinalityType DEF IInv, Typed, CountInv, OwnersCounted
  <2>2. e \in S <=> f \in Owned(e)
    BY DEF IInv, CountInv
  <2>3. e \in R <=> f \in Owned(e)'
    BY <1>2
  <2>4. \A x : x # e => (x \in R <=> x \in S)
    BY DEF IInv, Typed
  <2>5. R = IF f \in Owned(e)' THEN S \cup {e} ELSE S \ {e}
    <3>1. CASE f \in Owned(e)'
      BY <2>3, <2>4, <3>1
    <3>2. CASE f \notin Owned(e)'
      BY <2>3, <2>4, <3>2
    <3> QED
      BY <3>1, <3>2
  <2>6. owners'[f] = owners[f] + (IF f \in gained THEN 1 ELSE 0) - (IF f \in lost THEN 1 ELSE 0)
    BY DEF Counted
  <2>7. /\ Cardinality(S \cup {e}) = IF e \in S THEN Cardinality(S) ELSE Cardinality(S) + 1
        /\ Cardinality(S \ {e}) = IF e \in S THEN Cardinality(S) - 1 ELSE Cardinality(S)
    BY <2>1, FS_AddElement, FS_RemoveElement
  <2>8. /\ f \in gained <=> f \in Owned(e)' /\ e \notin S
        /\ f \in lost <=> f \notin Owned(e)' /\ e \in S
    BY <2>2
  <2> HIDE DEF S, R
  <2>9. owners'[f] = Cardinality(R)
    BY <2>1, <2>5, <2>6, <2>7, <2>8
  <2> QED
    BY <2>9 DEF R
<1>4. \A f \in Fact : {x \in open' : f \in Owned(x)'} \in SUBSET open'
  OBVIOUS
<1>5. owners' \in [Fact -> Nat]
  <2>1. \A f \in Fact : Cardinality({x \in open' : f \in Owned(x)'}) \in Nat
    BY <1>1, <1>4, FS_Subset, FS_CardinalityType
  <2>2. owners' = [f \in Fact |-> owners[f] + (IF f \in gained THEN 1 ELSE 0)
                                           - (IF f \in lost THEN 1 ELSE 0)]
    BY DEF Counted
  <2> QED
    BY <1>3, <2>1, <2>2
<1> QED
  BY <1>1, <1>2, <1>3, <1>5 DEF CountInv, OwnersCounted
-----------------------------------------------------------------------------
(* Facts in the store.                                                     *)

(* The effect on the store of a transaction that loses and gains facts and *)
(* asserts some of those that had no owner.                                *)
Settles(lost, gained, asserted) ==
    /\ world' = (world \ Retractable(lost)) \cup asserted
    /\ owners' = Counted(lost, gained)
    /\ byDriver' = Provenance(lost, asserted)
    /\ program' = program \ ((asserted \ world) \cup Retractable(lost))
    /\ prior' = (prior \ {f \in lost : owners[f] = 1})
                  \cup ({f \in gained : owners[f] = 0} \cap world)

(* Such a transaction keeps the ledger, and takes from the store only what *)
(* has lost its last owner and was not there before the driver.            *)
LEMMA LedgerKept ==
  ASSUME IInv, NEW lost \in SUBSET Fact, NEW gained \in SUBSET Fact, lost \cap gained = {},
         NEW asserted \in SUBSET {f \in gained : owners[f] = 0},
         \A f \in lost : owners[f] > 0,
         racing \/ asserted \cap world = {},
         racing' = racing, owners' \in [Fact -> Nat],
         Settles(lost, gained, asserted)
  PROVE  /\ LedgerInv'
         /\ byDriver' \subseteq Fact /\ world' \subseteq Fact
         /\ program' \subseteq Fact /\ prior' \subseteq Fact
         /\ \A f \in world \ world' : owners'[f] = 0 /\ (racing \/ f \notin prior)
<1> DEFINE first == {f \in gained : owners[f] = 0}
           ended == {f \in lost : owners[f] = 1}
<1>1. /\ owners \in [Fact -> Nat] /\ byDriver \subseteq Fact /\ world \subseteq Fact
      /\ program \subseteq Fact /\ prior \subseteq Fact
      /\ \A f \in byDriver \cup prior : owners[f] > 0
      /\ world \subseteq program \cup byDriver
      /\ racing \/ byDriver \cap prior = {}
  BY DEF IInv, Typed, LedgerInv
<1>2. /\ world' = (world \ (ended \cap byDriver)) \cup asserted
      /\ byDriver' = (byDriver \ ended) \cup asserted
      /\ program' = program \ ((asserted \ world) \cup (ended \cap byDriver))
      /\ prior' = (prior \ ended) \cup (first \cap world)
  <2>1. Retractable(lost) = ended \cap byDriver
    BY DEF Retractable
  <2> QED
    BY <2>1 DEF Settles, Provenance
<1>3. \A f \in Fact : owners'[f] = owners[f] + (IF f \in gained THEN 1 ELSE 0)
                                             - (IF f \in lost THEN 1 ELSE 0)
  BY DEF Settles, Counted
<1>4. /\ \A f \in first : owners'[f] = 1 /\ owners[f] = 0
      /\ \A f \in ended : owners'[f] = 0 /\ owners[f] = 1
      /\ \A f \in Fact \ ended : owners[f] > 0 => owners'[f] > 0
  BY <1>1, <1>3
<1>5. /\ asserted \subseteq first /\ first \subseteq Fact /\ ended \subseteq Fact
  OBVIOUS
<1> HIDE DEF first, ended
<1>6. \A f \in byDriver' \cup prior' : owners'[f] > 0
  BY <1>1, <1>2, <1>4, <1>5
<1>7. world' \subseteq program' \cup byDriver'
  BY <1>1, <1>2
<1>8. racing \/ byDriver' \cap prior' = {}
  <2>1. \A f \in first : f \notin byDriver \cup prior
    BY <1>1, <1>4, <1>5
  <2> QED
    BY <1>1, <1>2, <1>5, <2>1
<1>9. \A f \in world \ world' : f \in ended \cap byDriver
  BY <1>2
<1>10. \A f \in world \ world' : owners'[f] = 0 /\ (racing \/ f \notin prior)
  BY <1>1, <1>4, <1>9
<1>11. /\ byDriver' \subseteq Fact /\ world' \subseteq Fact
       /\ program' \subseteq Fact /\ prior' \subseteq Fact
  BY <1>1, <1>2, <1>5
<1> QED
  BY <1>6, <1>7, <1>8, <1>10, <1>11 DEF LedgerInv
-----------------------------------------------------------------------------
(* The steps.                                                              *)

(* Initially nothing is owned.                                             *)
LEMMA InitInv == Init => IInv
<1> SUFFICES ASSUME Init PROVE IInv
  OBVIOUS
<1>1. Typed
  BY FS_EmptySet DEF Init, Typed, NoFacts
<1>2. \A e \in Endpoint : Owned(e) = {}
  BY DEF Init, NoFacts, Owned
<1>3. CountInv
  <2>1. \A f \in Fact : {e \in open : f \in Owned(e)} = {}
    BY DEF Init
  <2> QED
    BY <1>2, <2>1, FS_EmptySet DEF Init, CountInv, OwnersCounted
<1>4. LedgerInv /\ CallInv
  BY DEF Init, LedgerInv, CallInv
<1>5. SubscriptionsOwned
  BY DEF Init, SubscriptionsOwned, Recorded
<1> QED
  BY <1>1, <1>3, <1>4, <1>5 DEF IInv

(* The counts are a matter of scopes, open endpoints and owners only.      *)
LEMMA CountUntouched ==
  ASSUME IInv, UNCHANGED <<scopes, open, owners>>
  PROVE  CountInv'
<1>1. \A e \in Endpoint : Owned(e)' = Owned(e)
  BY DEF Owned
<1>2. open \subseteq Endpoint
  BY DEF IInv, Typed
<1>3. \A f \in Fact : {e \in open' : f \in Owned(e)'} = {e \in open : f \in Owned(e)}
  BY <1>1, <1>2
<1> QED
  BY <1>1, <1>3 DEF IInv, CountInv, OwnersCounted

(* What a call looks for depends on scopes, counts and the store.          *)
LEMMA CallUntouched ==
  ASSUME IInv, UNCHANGED <<scopes, owners, open, closed, op, racing>>,
         racing \/ op = NoOp \/ world' = world
  PROVE  CallInv'
<1>1. CASE op = NoOp
  BY <1>1 DEF CallInv
<1>2. CASE op # NoOp
  BY <1>2 DEF IInv, CallInv, Look, Gained, OwnedAfter, Owned
<1> QED
  BY <1>1, <1>2

(* A call begins: it looks at the store.                                   *)
LEMMA BeginInv ==
  ASSUME IInv, NEW e \in Endpoint, NEW s \in Scope, NEW next \in SUBSET Fact,
         Begin(e, s, next), e \notin open \cap closed,
         UNCHANGED <<lifecycle, open, closed, racing, facts, subs>>
  PROVE  IInv'
<1> DEFINE saw == Look(Gained(e, OwnedAfter(e, s, next)))
<1>1. OwnedAfter(e, s, next) \in SUBSET Fact
  BY DEF IInv, Typed, OwnedAfter
<1>2. saw \in SUBSET Fact
  BY <1>1 DEF Look, Gained
<1>3. op' = [endpoint |-> e, scope |-> s, next |-> next, present |-> saw]
  BY DEF Begin
<1>4. op' \in Calls
  BY <1>2, <1>3 DEF Calls
<1>5. saw' = saw
  BY DEF facts, Look, Gained, OwnedAfter, Owned
<1> HIDE DEF saw
<1>6. Typed'
  BY <1>4 DEF IInv, Typed, facts, subs
<1>7. CountInv'
  BY CountUntouched DEF facts
<1>8. LedgerInv' /\ SubscriptionsOwned'
  BY DEF IInv, LedgerInv, SubscriptionsOwned, Recorded, facts, subs
<1>9. CallInv'
  <2>1. op'.endpoint = e /\ op'.scope = s /\ op'.next = next /\ op'.present = saw
    BY <1>3
  <2>2. op'.endpoint \notin open' \cap closed'
    BY <2>1
  <2>3. op'.present = Look(Gained(op.endpoint, OwnedAfter(op.endpoint, op.scope, op.next)))'
    BY <2>1, <1>5 DEF saw
  <2> QED
    BY <2>2, <2>3 DEF CallInv
<1> QED
  BY <1>6, <1>7, <1>8, <1>9 DEF IInv

(* The transaction of a call and the bookkeeping after it.                 *)
LEMMA CommitInv ==
  ASSUME IInv, Commit
  PROVE  IInv' /\ RetractsOnlyItsOwn /\ ClosedIsFrozen
<1>0. op \in Calls /\ op # NoOp
  BY DEF IInv, Typed, Commit
<1> PICK e \in Endpoint : e = op.endpoint
  BY <1>0 DEF Calls
<1> DEFINE after == OwnedAfter(e, op.scope, op.next)
           lost == Lost(e, after)
           gained == Gained(e, after)
           asserted == {f \in gained : owners[f] = 0} \ op.present
<1>1. op.scope \in Scope /\ op.next \in SUBSET Fact /\ op # NoOp
  BY <1>0 DEF Calls
<1>2. /\ Settles(lost, gained, asserted)
      /\ scopes' = [scopes EXCEPT ![e][op.scope] = op.next]
      /\ open' = open \cup {e} /\ closed' = IF e \in open THEN closed ELSE closed \ {e}
      /\ op' = NoOp /\ racing' = racing /\ UNCHANGED subs
  BY DEF Commit, Settles
<1>3. scopes' \in [Endpoint -> [Scope -> SUBSET Fact]]
  BY <1>1, <1>2 DEF IInv, Typed
<1>4. \A s \in Scope : scopes'[e][s] = IF s = op.scope THEN op.next ELSE scopes[e][s]
  BY <1>1, <1>2 DEF IInv, Typed
<1>5. \A x \in Endpoint \ {e} : scopes'[x] = scopes[x]
  BY <1>1, <1>2 DEF IInv, Typed
<1>6. Owned(e)' = after
  <2>1. Owned(e)' = UNION {scopes'[e][s] : s \in Scope}
    BY DEF Owned
  <2>2. after = op.next \cup UNION {scopes[e][s] : s \in Scope \ {op.scope}}
    BY DEF OwnedAfter
  <2> HIDE DEF after
  <2> QED
    BY <1>1, <1>4, <2>1, <2>2
<1>7. \A x \in Endpoint \ {e} : Owned(x)' = Owned(x)
  BY <1>5 DEF Owned
<1>8. lost = Owned(e) \ Owned(e)' /\ gained = Owned(e)' \ Owned(e)
  BY <1>6 DEF Lost, Gained
<1>9. Owned(e) \in SUBSET Fact /\ Owned(e)' \in SUBSET Fact
  BY <1>1, <1>3 DEF IInv, Typed, Owned
<1>10. racing \/ asserted \cap world = {}
  <2>1. racing \/ op.present = Look(gained)
    BY <1>1 DEF IInv, CallInv
  <2> QED
    BY <2>1 DEF Look
<1>11. e \notin open \cap closed
  BY <1>1 DEF IInv, CallInv
<1> HIDE DEF after, lost, gained, asserted
<1>12. /\ CountInv' /\ owners' \in [Fact -> Nat]
       /\ open' \subseteq Endpoint /\ IsFiniteSet(open')
  BY <1>1, <1>2, <1>7, <1>8, CountKept DEF Settles
<1>13. \A f \in lost : owners[f] > 0
  BY <1>1, <1>8, <1>9, OwnedIsCounted
<1>14. /\ LedgerInv'
       /\ byDriver' \subseteq Fact /\ world' \subseteq Fact
       /\ program' \subseteq Fact /\ prior' \subseteq Fact
       /\ \A f \in world \ world' : owners'[f] = 0 /\ (racing \/ f \notin prior)
  <2>1. lost \in SUBSET Fact /\ gained \in SUBSET Fact /\ lost \cap gained = {}
    BY <1>8, <1>9
  <2>2. asserted \in SUBSET {f \in gained : owners[f] = 0}
    BY DEF asserted
  <2> QED
    BY <1>2, <1>10, <1>12, <1>13, <2>1, <2>2, LedgerKept
<1>15. Typed'
  BY <1>2, <1>3, <1>12, <1>14 DEF IInv, Typed, subs
<1>16. CallInv'
  BY <1>2 DEF CallInv
<1>17. SubscriptionsOwned'
  BY <1>2 DEF IInv, SubscriptionsOwned, Recorded, subs
<1>18. RetractsOnlyItsOwn
  BY <1>14 DEF RetractsOnlyItsOwn
<1>19. ClosedIsFrozen
  BY <1>5, <1>11 DEF ClosedIsFrozen, IInv, Typed
<1> QED
  BY <1>12, <1>14, <1>15, <1>16, <1>17, <1>18, <1>19 DEF IInv

(* An endpoint is closed: its facts and subscriptions end with it.         *)
LEMMA CloseInv ==
  ASSUME IInv, NEW e \in Endpoint, Close(e)
  PROVE  IInv' /\ RetractsOnlyItsOwn /\ ClosedIsFrozen
<1> DEFINE lost == Owned(e)
           mine == {q \in Call : recorded[q] # None /\ recorded[q].endpoint = e}
<1>1. Settles(lost, {}, {})
  BY DEF Close, Settles
<1>2. /\ scopes' = [scopes EXCEPT ![e] = NoFacts] /\ open' = open \ {e}
      /\ recorded' = [q \in Call |-> IF q \in mine THEN None ELSE recorded[q]]
      /\ active' = active \ mine
      /\ UNCHANGED <<closed, op, racing, mailboxes>> /\ op = NoOp
  BY DEF Close
<1>3. scopes' \in [Endpoint -> [Scope -> SUBSET Fact]]
  BY <1>2 DEF IInv, Typed, NoFacts
<1>4. /\ Owned(e)' = {}
      /\ \A x \in Endpoint \ {e} : scopes'[x] = scopes[x] /\ Owned(x)' = Owned(x)
  BY <1>2 DEF IInv, Typed, Owned, NoFacts
<1>5. lost \in SUBSET Fact
  BY DEF IInv, Typed, Owned
<1>6. /\ CountInv' /\ owners' \in [Fact -> Nat]
      /\ open' \subseteq Endpoint /\ IsFiniteSet(open')
  BY <1>1, <1>2, <1>4, CountKept DEF Settles
<1>7. \A f \in lost : owners[f] > 0
  BY <1>5, OwnedIsCounted
<1>8. /\ LedgerInv'
      /\ byDriver' \subseteq Fact /\ world' \subseteq Fact
      /\ program' \subseteq Fact /\ prior' \subseteq Fact
      /\ \A f \in world \ world' : owners'[f] = 0 /\ (racing \/ f \notin prior)
  <2> HIDE DEF lost
  <2> QED
    BY <1>1, <1>2, <1>5, <1>6, <1>7, LedgerKept
<1>9. /\ recorded' \in [Call -> {None} \cup [endpoint : Endpoint, mailbox : Mailbox]]
      /\ \A q \in Call : recorded'[q] # None <=> recorded[q] # None /\ recorded[q].endpoint # e
      /\ \A q \in Call : recorded'[q] # None => recorded'[q] = recorded[q]
  BY <1>2 DEF IInv, Typed
<1>10. Typed'
  BY <1>2, <1>3, <1>6, <1>8, <1>9 DEF IInv, Typed
<1>11. CallInv'
  BY <1>2 DEF CallInv
<1>12. SubscriptionsOwned'
  <2>1. Recorded' = Recorded \ mine
    BY <1>9 DEF Recorded
  <2>2. active' = Recorded'
    BY <1>2, <2>1 DEF IInv, SubscriptionsOwned
  <2>3. \A q \in Recorded' : recorded'[q].endpoint \in open' /\ recorded'[q].mailbox \in mailboxes'
    BY <1>2, <1>9 DEF IInv, SubscriptionsOwned, Recorded
  <2> QED
    BY <2>2, <2>3 DEF SubscriptionsOwned
<1>13. RetractsOnlyItsOwn
  BY <1>8 DEF RetractsOnlyItsOwn
<1>14. ClosedIsFrozen
  BY <1>2, <1>4 DEF ClosedIsFrozen, IInv, Typed
<1> QED
  BY <1>6, <1>8, <1>10, <1>11, <1>12, <1>13, <1>14 DEF IInv

(* Shutting down ends every ownership at once.                             *)
LEMMA ShutdownInv ==
  ASSUME IInv, Shutdown
  PROVE  IInv' /\ RetractsOnlyItsOwn /\ ClosedIsFrozen
<1>1. Typed'
  BY FS_EmptySet DEF IInv, Typed, Shutdown, NoFacts
<1>2. CountInv'
  <2>1. \A e \in Endpoint : Owned(e)' = {}
    BY DEF Shutdown, Owned, NoFacts
  <2>2. \A f \in Fact : {e \in open' : f \in Owned(e)'} = {} /\ owners'[f] = 0
    BY DEF Shutdown
  <2> QED
    BY <2>1, <2>2, FS_EmptySet DEF CountInv, OwnersCounted
<1>3. LedgerInv' /\ CallInv'
  BY DEF IInv, LedgerInv, CallInv, Shutdown
<1>4. SubscriptionsOwned'
  BY DEF Shutdown, SubscriptionsOwned, Recorded
<1>5. RetractsOnlyItsOwn
  BY DEF Shutdown, RetractsOnlyItsOwn, IInv, Typed, LedgerInv
<1>6. ClosedIsFrozen
  BY DEF Shutdown, ClosedIsFrozen
<1> QED
  BY <1>1, <1>2, <1>3, <1>4, <1>5, <1>6 DEF IInv

(* Subscriptions and mailboxes, and a session that begins to close.        *)
LEMMA HostInv ==
  ASSUME IInv,
         \/ \E m \in Mailbox : CreateMailbox(m) \/ CloseMailbox(m)
         \/ \E q \in Call, e \in Endpoint : \/ Cancel(q, e)
                                           \/ \E m \in Mailbox : Register(q, e, m)
         \/ \E e \in Endpoint : BeginClose(e)
  PROVE  IInv' /\ RetractsOnlyItsOwn /\ ClosedIsFrozen
<1>1. /\ UNCHANGED <<open, op, racing, scopes, owners, byDriver, world, program, prior>>
      /\ op = NoOp
  BY DEF CreateMailbox, CloseMailbox, Cancel, Register, BeginClose, facts
<1>2. CountInv' /\ CallInv' /\ LedgerInv'
  BY <1>1, CountUntouched DEF CallInv, LedgerInv, IInv
<1>3. closed' \subseteq Endpoint
  BY DEF IInv, Typed, CreateMailbox, CloseMailbox, Cancel, Register, BeginClose
<1> DEFINE Records == [Call -> {None} \cup [endpoint : Endpoint, mailbox : Mailbox]]
<1>4. recorded' \in Records /\ SubscriptionsOwned'
  <2>1. ASSUME NEW m \in Mailbox, CreateMailbox(m)
        PROVE  recorded' \in Records /\ SubscriptionsOwned'
    BY <2>1 DEF IInv, Typed, CreateMailbox, SubscriptionsOwned, Recorded
  <2>2. ASSUME NEW m \in Mailbox, CloseMailbox(m)
        PROVE  recorded' \in Records /\ SubscriptionsOwned'
    BY <2>2 DEF IInv, Typed, CloseMailbox, SubscriptionsOwned, Recorded, OfMailbox
  <2>3. ASSUME NEW q \in Call, NEW e \in Endpoint, Cancel(q, e)
        PROVE  recorded' \in Records /\ SubscriptionsOwned'
    BY <2>3 DEF IInv, Typed, Cancel, SubscriptionsOwned, Recorded
  <2>4. ASSUME NEW q \in Call, NEW e \in Endpoint, NEW m \in Mailbox, Register(q, e, m)
        PROVE  recorded' \in Records /\ SubscriptionsOwned'
    BY <2>4 DEF IInv, Typed, Register, SubscriptionsOwned, Recorded, MayUpdate
  <2>5. ASSUME NEW e \in Endpoint, BeginClose(e)
        PROVE  recorded' \in Records /\ SubscriptionsOwned'
    BY <2>5 DEF IInv, Typed, BeginClose, SubscriptionsOwned, Recorded, subs
  <2> QED
    BY <2>1, <2>2, <2>3, <2>4, <2>5
<1>5. Typed'
  BY <1>1, <1>3, <1>4 DEF IInv, Typed
<1>6. RetractsOnlyItsOwn /\ ClosedIsFrozen
  BY <1>1 DEF RetractsOnlyItsOwn, ClosedIsFrozen
<1> QED
  BY <1>2, <1>4, <1>5, <1>6 DEF IInv

(* A program's commit, which may fall between the look and the transaction *)
(* of a call.                                                              *)
LEMMA ProgramInv ==
  ASSUME IInv, NEW f \in Fact, ProgramAssert(f) \/ ProgramRetract(f)
  PROVE  IInv' /\ RetractsOnlyItsOwn /\ ClosedIsFrozen
<1>1. /\ UNCHANGED <<lifecycle, open, closed, op, racing, scopes, owners, byDriver, prior, subs>>
      /\ racing \/ op = NoOp
  BY DEF ProgramAssert, ProgramRetract
<1>2. CountInv' /\ CallInv'
  BY <1>1, CountUntouched, CallUntouched
<1>3. LedgerInv'
  BY DEF IInv, LedgerInv, ProgramAssert, ProgramRetract
<1>4. Typed'
  BY DEF IInv, Typed, ProgramAssert, ProgramRetract, subs
<1>5. SubscriptionsOwned'
  BY <1>1 DEF IInv, SubscriptionsOwned, Recorded, subs
<1>6. RetractsOnlyItsOwn /\ ClosedIsFrozen
  BY <1>1 DEF RetractsOnlyItsOwn, ClosedIsFrozen, OfProgram
<1> QED
  BY <1>2, <1>3, <1>4, <1>5, <1>6 DEF IInv

(* A call that conflicts with a program leaves everything as it was.       *)
LEMMA ConflictInv ==
  ASSUME IInv, Conflict
  PROVE  IInv' /\ RetractsOnlyItsOwn /\ ClosedIsFrozen
<1>1. UNCHANGED <<open, closed, racing, facts, subs>> /\ op' = NoOp
  BY DEF Conflict
<1>2. CountInv'
  BY <1>1, CountUntouched DEF facts
<1>3. Typed' /\ LedgerInv' /\ CallInv' /\ SubscriptionsOwned'
  BY <1>1 DEF IInv, Typed, LedgerInv, CallInv, SubscriptionsOwned, Recorded, facts, subs
<1>4. RetractsOnlyItsOwn /\ ClosedIsFrozen
  BY <1>1 DEF RetractsOnlyItsOwn, ClosedIsFrozen, facts
<1> QED
  BY <1>2, <1>3, <1>4 DEF IInv

(* The three ways a call begins.                                           *)
LEMMA BeginsInv ==
  ASSUME IInv, NEW e \in Endpoint,
         \/ \E next \in SUBSET Fact : OpenBegin(e, next)
         \/ \E s \in Scope, next \in SUBSET Fact : ReplaceBegin(e, s, next)
         \/ \E s \in Scope, r, a \in SUBSET Fact : DiffBegin(e, s, r, a)
  PROVE  IInv' /\ RetractsOnlyItsOwn /\ ClosedIsFrozen
<1>1. UNCHANGED <<lifecycle, open, closed, racing, facts, subs>>
  BY DEF OpenBegin, ReplaceBegin, DiffBegin
<1>2. e \notin open \cap closed
  BY DEF OpenBegin, ReplaceBegin, DiffBegin, MayUpdate
<1>3. \E s \in Scope, next \in SUBSET Fact : Begin(e, s, next)
  <2>1. CASE \E next \in SUBSET Fact : OpenBegin(e, next)
    BY <2>1 DEF OpenBegin
  <2>2. CASE \E s \in Scope, next \in SUBSET Fact : ReplaceBegin(e, s, next)
    BY <2>2 DEF ReplaceBegin
  <2>3. ASSUME NEW s \in Scope, NEW r \in SUBSET Fact, NEW a \in SUBSET Fact, DiffBegin(e, s, r, a)
        PROVE  \E next \in SUBSET Fact : Begin(e, s, next)
    <3>1. (scopes[e][s] \ r) \cup a \in SUBSET Fact
      BY DEF IInv, Typed
    <3> QED
      BY <2>3, <3>1 DEF DiffBegin
  <2> QED
    BY <2>1, <2>2, <2>3
<1>4. IInv'
  BY <1>1, <1>2, <1>3, BeginInv
<1>5. RetractsOnlyItsOwn /\ ClosedIsFrozen
  BY <1>1 DEF RetractsOnlyItsOwn, ClosedIsFrozen, facts
<1> QED
  BY <1>4, <1>5

LEMMA NextInv ==
  ASSUME IInv, [Next]_vars
  PROVE  IInv' /\ [RetractsOnlyItsOwn /\ ClosedIsFrozen]_vars
<1>1. CASE Next
  BY <1>1, BeginsInv, HostInv, CloseInv, CommitInv, ConflictInv, ShutdownInv, ProgramInv DEF Next
<1>2. CASE UNCHANGED vars
  <2>1. CountInv' /\ CallInv'
    BY <1>2, CountUntouched, CallUntouched DEF vars, facts
  <2>2. Typed' /\ LedgerInv' /\ SubscriptionsOwned'
    BY <1>2 DEF IInv, Typed, LedgerInv, SubscriptionsOwned, Recorded, vars, facts, subs
  <2> QED
    BY <1>2, <2>1, <2>2 DEF IInv
<1> QED
  BY <1>1, <1>2

(* The invariant says what the driver owns.                                *)
LEMMA InvOwned == IInv => ResourcesOwned
<1> SUFFICES ASSUME IInv PROVE ResourcesOwned
  OBVIOUS
<1>1. \A f \in byDriver : \E e \in open : f \in Owned(e)
  BY CountedIsOwned DEF IInv, Typed, LedgerInv
<1>2. NothingLeaks
  BY <1>1 DEF NothingLeaks, IInv, LedgerInv
<1> QED
  BY <1>2 DEF ResourcesOwned, IInv, CountInv

(* For any number of endpoints, scopes, facts and subscriptions, whatever  *)
(* programs commit in between: the counts by which the driver decides what *)
(* to retract are the numbers of owners, a fact in the store is owned or a *)
(* program's, and subscriptions have an open endpoint and mailbox.         *)
THEOREM OwnedAlways == Spec => []ResourcesOwned
<1>1. Spec => []IInv
  BY InitInv, NextInv, PTL DEF Spec
<1> QED
  BY <1>1, InvOwned, PTL

(* Replacing a scope, closing an endpoint and shutting down take from the  *)
(* store only facts that have no owner left and, when no program commits   *)
(* in the middle of a call, were not there before the driver claimed them; *)
(* and an endpoint that closes keeps its facts until it is closed.         *)
THEOREM EndsAlwaysRightly == Spec => OwnershipEndsRightly
<1>1. Spec => []IInv
  BY InitInv, NextInv, PTL DEF Spec
<1>2. IInv /\ [Next]_vars => [RetractsOnlyItsOwn /\ ClosedIsFrozen]_vars
  BY NextInv
<1> QED
  BY <1>1, <1>2, PTL DEF Spec, OwnershipEndsRightly
=============================================================================
