-------------------------- MODULE AdmissionProofs ---------------------------
(* Admission keeps its bounds, loses no wake-up and serves in order, for    *)
(* any number of clients, operators and places.                             *)
EXTENDS Admission, FiniteSetTheorems, TLAPS

USE AdmissionAssumption, ZenonT(5), SMTT(20)

(* Removing an element leaves a sequence; when it was not the first, the   *)
(* first one stays.                                                        *)
LEMMA RemovedType ==
  ASSUME NEW S, NEW s \in Seq(S), NEW i \in DOMAIN s
  PROVE  /\ Removed(s, i) \in Seq(S)
         /\ Len(Removed(s, i)) = Len(s) - 1
         /\ DOMAIN Removed(s, i) = 1..(Len(s) - 1)
         /\ i # 1 => Removed(s, i) # <<>> /\ Removed(s, i)[1] = s[1]
  <1>1. Len(s) \in Nat /\ DOMAIN s = 1..Len(s) OBVIOUS
  <1>2. \A j \in 1..(Len(s) - 1) : (IF j < i THEN s[j] ELSE s[j + 1]) \in S BY <1>1
  <1>3. Removed(s, i) \in Seq(S) /\ Len(Removed(s, i)) = Len(s) - 1
    BY <1>1, <1>2 DEF Removed
  <1>4. ASSUME i # 1 PROVE Removed(s, i) # <<>> /\ Removed(s, i)[1] = s[1]
    <2>1. Len(s) >= 2 /\ 1 \in 1..(Len(s) - 1) /\ 1 < i BY <1>1, <1>4
    <2>2. Removed(s, i)[1] = s[1] BY <2>1 DEF Removed
    <2> QED BY <1>3, <2>1, <2>2
  <1> QED BY <1>3, <1>4 DEF Removed

(* What next_task_waker returns is among the clients.                      *)
LEMMA NextWakerType ==
  ASSUME NEW n, NEW s \in Seq(Client)
  PROVE  NextWaker(n, s) \subseteq Client
  BY DEF NextWaker

(* The inductive invariant: the places that are taken are the permits and  *)
(* the borrowed ones, and no future waits twice, or waits and holds.        *)
Places ==
    /\ waiters \in Seq(Client)
    /\ occupied \in Int /\ parallel \in Int
    /\ IsFiniteSet(holding)
    /\ occupied = Cardinality(holding) + parallel
    /\ borrowed \in [Worker -> Nat]

OneTurn ==
    /\ \A i, j \in DOMAIN waiters : waiters[i] = waiters[j] => i = j
    /\ \A i \in DOMAIN waiters : waiters[i] \notin holding

IInv == Places /\ OneTurn /\ PlacesBounded /\ NoLostWakeup

(* An empty admission (AdmissionState::default) satisfies the invariant. *)
LEMMA InitInv == Init => IInv
  <1> SUFFICES ASSUME Init PROVE IInv OBVIOUS
  <1>1. IsFiniteSet({}) /\ Cardinality({}) = 0 BY FS_EmptySet
  <1> QED BY <1>1 DEF Init, IInv, Places, OneTurn, PlacesBounded, NoLostWakeup

(* The first poll admits a newcomer or queues it. *)
LEMMA FirstPollInv ==
  ASSUME IInv, NEW c \in Client, FirstPoll(c) PROVE IInv'
  <1> USE DEF IInv, FirstPoll
  <1>1. CASE AdmitsNew
    <2>1. IsFiniteSet(holding') /\ Cardinality(holding') = Cardinality(holding) + 1
      BY <1>1, FS_AddElement DEF Places
    <2>2. waiters = <<>> /\ waiters' = <<>> /\ occupied' <= Capacity
      BY <1>1 DEF AdmitsNew, Places
    <2>3. Cardinality(holding) \in Nat BY FS_CardinalityType DEF Places
    <2>4. Places' BY <1>1, <2>1, <2>2, <2>3 DEF Places
    <2>5. PlacesBounded' BY <2>2 DEF PlacesBounded
    <2>6. OneTurn' /\ NoLostWakeup' BY <2>2 DEF OneTurn, NoLostWakeup
    <2> QED BY <2>4, <2>5, <2>6
  <1>2. CASE ~AdmitsNew
    <2>1. /\ waiters' \in Seq(Client) /\ DOMAIN waiters' = 1..(Len(waiters) + 1)
          /\ \A i \in DOMAIN waiters : waiters'[i] = waiters[i]
          /\ waiters'[Len(waiters) + 1] = c /\ DOMAIN waiters = 1..Len(waiters)
          /\ Len(waiters) \in Nat
      BY <1>2 DEF Places
    <2>2. OneTurn' BY <2>1 DEF OneTurn, Waiting
    <2>3. NoLostWakeup'
      <3>1. CASE waiters = <<>> BY <1>2, <3>1 DEF AdmitsNew, NoLostWakeup
      <3>2. CASE waiters # <<>>
        <4>1. 1 \in DOMAIN waiters /\ waiters'[1] = waiters[1] BY <2>1, <3>2 DEF Places
        <4> QED BY <1>2, <3>2, <4>1 DEF NoLostWakeup
      <3> QED BY <3>1, <3>2
    <2> QED BY <1>2, <2>1, <2>2, <2>3 DEF Places, PlacesBounded
  <1> QED BY <1>1, <1>2

(* Taking one future out of the queue keeps the others in their turn. *)
LEMMA RemovedOneTurn ==
  ASSUME Places, OneTurn, NEW i \in DOMAIN waiters, waiters' = Removed(waiters, i),
         holding' \in {holding, holding \cup {waiters[i]}}
  PROVE  /\ waiters' \in Seq(Client) /\ OneTurn'
         /\ i # 1 => waiters' # <<>> /\ waiters'[1] = waiters[1] /\ waiters[i] # waiters[1]
  <1>1. /\ waiters' \in Seq(Client) /\ DOMAIN waiters' = 1..(Len(waiters) - 1)
        /\ i # 1 => waiters' # <<>> /\ waiters'[1] = waiters[1]
    BY RemovedType DEF Places
  <1>2. Len(waiters) \in Nat /\ DOMAIN waiters = 1..Len(waiters) BY DEF Places
  <1>3. \A j \in DOMAIN waiters' : waiters'[j] = IF j < i THEN waiters[j] ELSE waiters[j + 1]
    BY <1>1 DEF Removed
  <1>4. OneTurn' BY <1>1, <1>2, <1>3 DEF OneTurn
  <1> QED BY <1>1, <1>2, <1>4 DEF OneTurn

(* A later poll admits the head of the queue and wakes the next, or waits. *)
LEMMA PollInv ==
  ASSUME IInv, NEW c \in Client, Poll(c) PROVE IInv'
  <1> USE DEF IInv, Poll
  <1>1. CASE waiters[1] = c /\ occupied < Capacity
    <2>2. 1 \in DOMAIN waiters /\ waiters' = Removed(waiters, 1) BY <1>1 DEF Places
    <2>1. IsFiniteSet(holding') /\ Cardinality(holding') = Cardinality(holding) + 1
      BY <1>1, <2>2, FS_AddElement DEF Places, OneTurn
    <2>3. waiters' \in Seq(Client) /\ OneTurn' BY <2>2, RemovedOneTurn
    <2>4. NoLostWakeup' BY <1>1, <2>2 DEF NoLostWakeup, NextWaker
    <2>5. Cardinality(holding) \in Nat BY FS_CardinalityType DEF Places
    <2>6. Places' BY <1>1, <2>1, <2>3, <2>5 DEF Places
    <2>7. PlacesBounded' BY <1>1 DEF Places, PlacesBounded
    <2> QED BY <2>3, <2>4, <2>6, <2>7
  <1>2. CASE ~(waiters[1] = c /\ occupied < Capacity)
    <2>1. NoLostWakeup' BY <1>2 DEF NoLostWakeup
    <2> QED BY <1>2, <2>1 DEF Places, PlacesBounded, OneTurn
  <1> QED BY <1>1, <1>2

(* Dropping the head passes its wake-up on; dropping another disturbs nothing. *)
LEMMA DropInv ==
  ASSUME IInv, NEW i \in DOMAIN waiters, Drop(i) PROVE IInv'
  <1> USE DEF IInv, Drop
  <1>1. /\ waiters' \in Seq(Client) /\ OneTurn'
        /\ i # 1 => waiters' # <<>> /\ waiters'[1] = waiters[1] /\ waiters[i] # waiters[1]
    BY RemovedOneTurn
  <1>2. CASE i = 1
    <2>1. NoLostWakeup' BY <1>2 DEF NoLostWakeup, WakesOnDrop, NextWaker
    <2> QED BY <1>1, <2>1 DEF Places, PlacesBounded
  <1>3. CASE i # 1
    <2>1. waiters # <<>> BY DEF Places
    <2>2. NoLostWakeup' BY <1>1, <1>3, <2>1 DEF NoLostWakeup
    <2> QED BY <1>1, <2>2 DEF Places, PlacesBounded
  <1> QED BY <1>2, <1>3

(* A dropped permit wakes the head of the queue. *)
LEMMA ReleaseInv ==
  ASSUME IInv, NEW c \in Client, Release(c) PROVE IInv'
  <1> USE DEF IInv, Release
  <1>1. IsFiniteSet(holding') /\ Cardinality(holding') = Cardinality(holding) - 1
    BY FS_RemoveElement DEF Places
  <1>2. NoLostWakeup' BY DEF NoLostWakeup, NextWaker, Places
  <1>3. Cardinality(holding) \in Nat BY FS_CardinalityType DEF Places
  <1>4. Places' BY <1>1, <1>3 DEF Places
  <1>5. PlacesBounded' BY DEF Places, PlacesBounded
  <1>6. OneTurn' BY DEF OneTurn
  <1> QED BY <1>2, <1>4, <1>5, <1>6

(* Calling a waker schedules its future, which still waits or left the queue. *)
LEMMA WakeInv ==
  ASSUME IInv, NEW c \in Client, Wake(c) PROVE IInv'
  <1> USE DEF IInv, Wake
  <1>1. ASSUME waiters # <<>> PROVE waiters[1] \in Waiting BY <1>1 DEF Waiting, Places
  <1>2. NoLostWakeup' BY <1>1 DEF NoLostWakeup
  <1> QED BY <1>2 DEF Places, PlacesBounded, OneTurn

(* try_reserve_parallel takes places only when nobody waits and one is left. *)
LEMMA ReserveInv ==
  ASSUME IInv, NEW w \in Worker, Reserve(w) PROVE IInv'
  <1> USE DEF IInv, Reserve
  <1>1. PICK n \in Asking : /\ MayReserve(n)
                            /\ occupied' = occupied + n
                            /\ parallel' = parallel + n
                            /\ borrowed' = [borrowed EXCEPT ![w] = n]
    OBVIOUS
  <1>2. n \in Nat \ {0} OBVIOUS
  <1>3. Cardinality(holding) \in Nat BY FS_CardinalityType DEF Places
  <1>4. Places' BY <1>1, <1>2, <1>3 DEF Places
  <1>5. PlacesBounded' BY <1>1, <1>2, <1>3 DEF Places, PlacesBounded, MayReserve, Headroom
  <1> QED BY <1>1, <1>4, <1>5 DEF MayReserve, OneTurn, NoLostWakeup

(* release_parallel gives the places back and wakes the head of the queue. *)
LEMMA ReleaseParallelInv ==
  ASSUME IInv, NEW w \in Worker, ReleaseParallel(w) PROVE IInv'
  <1> USE DEF IInv, ReleaseParallel
  <1>1. borrowed[w] \in Nat BY DEF Places
  <1>2. Cardinality(holding) \in Nat BY FS_CardinalityType DEF Places
  <1>3. Places' BY <1>1, <1>2 DEF Places, Returned
  <1>4. PlacesBounded' BY <1>1, <1>2 DEF Places, PlacesBounded
  <1>5. NoLostWakeup' BY DEF NoLostWakeup, NextWaker
  <1> QED BY <1>3, <1>4, <1>5 DEF OneTurn

(* Every step of the admission keeps the invariant. *)
LEMMA StepInv == IInv /\ [Next]_vars => IInv'
  <1> SUFFICES ASSUME IInv, [Next]_vars PROVE IInv' OBVIOUS
  <1>1. ASSUME NEW c \in Client, FirstPoll(c) \/ Poll(c) \/ Release(c) \/ Wake(c) PROVE IInv'
    BY <1>1, FirstPollInv, PollInv, ReleaseInv, WakeInv
  <1>2. ASSUME NEW i \in DOMAIN waiters, Drop(i) PROVE IInv' BY <1>2, DropInv
  <1>3. ASSUME NEW w \in Worker, Reserve(w) \/ ReleaseParallel(w) PROVE IInv'
    BY <1>3, ReserveInv, ReleaseParallelInv
  <1>4. CASE UNCHANGED vars
    BY <1>4 DEF vars, IInv, Places, OneTurn, PlacesBounded, NoLostWakeup
  <1> QED BY <1>1, <1>2, <1>3, <1>4 DEF Next

(* The places are never overcommitted and borrowed ones leave one to the   *)
(* tasks (CpuAdmission), whatever the capacities.                          *)
THEOREM PlacesStayBounded == Spec => []PlacesBounded
  <1>1. IInv => PlacesBounded BY DEF IInv
  <1> QED BY <1>1, InitInv, StepInv, PTL DEF Spec

(* DispatchAdmission and ExternalRequestAcquire lose no wake-up: a place   *)
(* and a waiter never meet without a poll under way.                       *)
THEOREM NoWakeupIsLost == Spec => []NoLostWakeup
  <1>1. IInv => NoLostWakeup BY DEF IInv
  <1> QED BY <1>1, InitInv, StepInv, PTL DEF Spec

(* Permits are handed out in the order of the queue.                       *)
THEOREM PermitsInOrder == Spec => AdmittedInOrder
  <1> DEFINE Order == \A c \in holding' \ holding :
                        IF waiters = <<>> THEN TRUE ELSE c = waiters[1]
  <1>1. ASSUME [Next]_vars PROVE [Order]_vars
    <2>1. ASSUME NEW c \in Client, FirstPoll(c) \/ Poll(c) \/ Release(c) \/ Wake(c) PROVE Order
      BY <2>1 DEF FirstPoll, AdmitsNew, Poll, Release, Wake
    <2>2. ASSUME NEW i \in DOMAIN waiters, Drop(i) PROVE Order BY <2>2 DEF Drop
    <2>3. ASSUME NEW w \in Worker, Reserve(w) \/ ReleaseParallel(w) PROVE Order
      BY <2>3 DEF Reserve, ReleaseParallel
    <2> QED BY <1>1, <2>1, <2>2, <2>3 DEF Next
  <1>2. [Next]_vars => [Order]_vars BY <1>1
  <1> QED BY <1>2, PTL DEF Spec, AdmittedInOrder
=============================================================================
