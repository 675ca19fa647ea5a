----------------------------- MODULE Admission ------------------------------
(***************************************************************************)
(* Admission to the dispatcher's threads and to external requests: a fair  *)
(* queue of waiting futures in front of a number of places.  A future that *)
(* cannot be admitted registers its waker; whoever makes room takes the    *)
(* first waker under the lock and calls it after the unlock.  Relation     *)
(* operators may borrow idle places of the dispatcher.                     *)
(***************************************************************************)
EXTENDS Integers, Sequences

CONSTANTS
    Client,        \* futures that ask for a place
    Worker,        \* operators that borrow places
    Capacity,      \* dispatch_capacity, or the capacity for requests
    Parallelism,   \* relation_parallelism
    Asking         \* numbers of places an operator asks for

ASSUME AdmissionAssumption ==
    /\ Capacity \in Nat \ {0}
    /\ Parallelism \in Nat \ {0}
    /\ Asking \subseteq Nat \ {0}

VARIABLES
    occupied,      \* AdmissionState::occupied
    parallel,      \* AdmissionState::parallel_occupied
    waiters,       \* AdmissionState::task_waiters
    holding,       \* clients that hold a permit
    borrowed,      \* borrowed[w]: places operator w holds
    waking,        \* wakers taken under the lock, not called yet
    scheduled      \* registered futures the executor is going to poll

vars == <<occupied, parallel, waiters, holding, borrowed, waking, scheduled>>

Headroom == 1

Waiting == {waiters[i] : i \in DOMAIN waiters}

Init ==
    /\ occupied = 0
    /\ parallel = 0
    /\ waiters = <<>>
    /\ holding = {}
    /\ borrowed = [w \in Worker |-> 0]
    /\ waking = {}
    /\ scheduled = {}

(* next_task_waker: the first waiter is woken when there is room.          *)
NextWakerNever(n, ws) == {}
NextWaker(n, ws) == IF n < Capacity /\ ws # <<>> THEN {ws[1]} ELSE {}

Removed(s, i) == [j \in 1..(Len(s) - 1) |-> IF j < i THEN s[j] ELSE s[j + 1]]

(* A newcomer does not overtake those who wait.                            *)
AdmitsNewIfRoom == occupied < Capacity
AdmitsNew == waiters = <<>> /\ occupied < Capacity

(* The first poll of an admission.                                         *)
FirstPoll(c) ==
    /\ c \notin holding \cup Waiting
    /\ IF AdmitsNew
         THEN /\ occupied' = occupied + 1
              /\ holding' = holding \cup {c}
              /\ UNCHANGED waiters
         ELSE /\ waiters' = Append(waiters, c)
              /\ UNCHANGED <<occupied, holding>>
    /\ UNCHANGED <<parallel, borrowed, waking, scheduled>>

(* A later poll; it may be spurious.                                       *)
Poll(c) ==
    /\ waiters # <<>>
    /\ c \in Waiting
    /\ IF waiters[1] = c /\ occupied < Capacity
         THEN /\ waiters' = Removed(waiters, 1)
              /\ occupied' = occupied + 1
              /\ holding' = holding \cup {c}
              /\ waking' = waking \cup NextWaker(occupied + 1, Removed(waiters, 1))
         ELSE UNCHANGED <<waiters, occupied, holding, waking>>
    /\ scheduled' = scheduled \ {c}
    /\ UNCHANGED <<parallel, borrowed>>

(* A registered future is dropped before it was admitted.                  *)
WakesAfterDrop(i) == {}
WakesOnDrop(i) == IF i = 1 THEN NextWaker(occupied, Removed(waiters, 1)) ELSE {}

Drop(i) ==
    /\ i \in DOMAIN waiters
    /\ waiters' = Removed(waiters, i)
    /\ waking' = waking \cup WakesOnDrop(i)
    /\ scheduled' = scheduled \ {waiters[i]}
    /\ UNCHANGED <<occupied, parallel, holding, borrowed>>

(* A permit is dropped.                                                    *)
Release(c) ==
    /\ c \in holding
    /\ holding' = holding \ {c}
    /\ occupied' = occupied - 1
    /\ waking' = waking \cup NextWaker(occupied - 1, waiters)
    /\ UNCHANGED <<parallel, waiters, borrowed, scheduled>>

(* waker.wake(), outside the lock.                                         *)
Wake(c) ==
    /\ c \in waking
    /\ waking' = waking \ {c}
    /\ scheduled' = IF c \in Waiting THEN scheduled \cup {c} ELSE scheduled
    /\ UNCHANGED <<occupied, parallel, waiters, holding, borrowed>>

(* try_reserve_parallel and release_parallel.                              *)
MayReserveAll(n) ==
    /\ waiters = <<>>
    /\ parallel + n < Parallelism
    /\ occupied + n <= Capacity
MayReserve(n) ==
    /\ waiters = <<>>
    /\ parallel + n < Parallelism
    /\ occupied + n + Headroom <= Capacity

Reserve(w) ==
    /\ borrowed[w] = 0
    /\ \E n \in Asking :
         /\ MayReserve(n)
         /\ occupied' = occupied + n
         /\ parallel' = parallel + n
         /\ borrowed' = [borrowed EXCEPT ![w] = n]
    /\ UNCHANGED <<waiters, holding, waking, scheduled>>

StillBorrowed(w) == borrowed[w]
Returned(w) == 0

ReleaseParallel(w) ==
    /\ borrowed[w] > 0
    /\ occupied' = occupied - borrowed[w]
    /\ parallel' = parallel - borrowed[w]
    /\ borrowed' = [borrowed EXCEPT ![w] = Returned(w)]
    /\ waking' = waking \cup NextWaker(occupied', waiters)
    /\ UNCHANGED <<waiters, holding, scheduled>>

Next ==
    \/ \E c \in Client : FirstPoll(c) \/ Poll(c) \/ Release(c) \/ Wake(c)
    \/ \E i \in DOMAIN waiters : Drop(i)
    \/ \E w \in Worker : Reserve(w) \/ ReleaseParallel(w)

Spec == Init /\ [][Next]_vars

(* Scheduled futures are polled, wakers that were taken are called, and    *)
(* permits and borrowed places are given back.                             *)
Fairness ==
    /\ \A c \in Client : WF_vars(c \in scheduled /\ Poll(c)) /\ WF_vars(Wake(c))
                         /\ WF_vars(Release(c))
    /\ \A w \in Worker : WF_vars(ReleaseParallel(w))

FairSpec == Spec /\ Fairness

-----------------------------------------------------------------------------
TypeOK ==
    /\ occupied \in Nat
    /\ parallel \in Nat
    /\ waiters \in Seq(Client)
    /\ holding \subseteq Client
    /\ borrowed \in [Worker -> Nat]
    /\ waking \subseteq Client
    /\ scheduled \subseteq Client

(* The places are never overcommitted, and borrowed places leave one for a *)
(* task: relation operators alone cannot fill the dispatcher.              *)
PlacesBounded ==
    /\ occupied <= Capacity
    /\ parallel < Parallelism
    /\ parallel > 0 => parallel < Capacity

(* No wake-up is lost: when there is room and somebody waits, the first in *)
(* the queue is going to be polled, or the waker that will have it polled  *)
(* has been taken and is about to be called.                               *)
NoLostWakeup ==
    occupied < Capacity /\ waiters # <<>> => waiters[1] \in waking \cup scheduled

(* First come, first served: a permit goes to the head of the queue, or to *)
(* a newcomer when nobody waits.                                           *)
AdmittedInOrder ==
    [][\A c \in holding' \ holding : IF waiters = <<>> THEN TRUE ELSE c = waiters[1]]_vars

(* Whoever waits is admitted, or gives up.                                 *)
WaitersServed == \A c \in Client : c \in Waiting ~> c \notin Waiting
=============================================================================
