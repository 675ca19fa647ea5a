------------------------------ MODULE Segments ------------------------------
(***************************************************************************)
(* What tasks promise: a task is a series of segments, each of which       *)
(* happens once, all at once and on the newest counters, and whose effects *)
(* are exposed afterwards, once and in the order of the segments.          *)
(***************************************************************************)
EXTENDS Integers

CONSTANTS Task, Key

VARIABLES
    counter,     \* counter[k]: segments that incremented k
    done,        \* done[t]: segments of t that have happened
    exposed      \* exposed[t]: of those, the ones whose effects are visible

vars == <<counter, done, exposed>>

Init ==
    /\ counter = [k \in Key |-> 0]
    /\ done = [t \in Task |-> 0]
    /\ exposed = [t \in Task |-> 0]

Happen(t, keys) ==
    /\ counter' = [k \in Key |-> IF k \in keys THEN counter[k] + 1 ELSE counter[k]]
    /\ done' = [done EXCEPT ![t] = @ + 1]
    /\ UNCHANGED exposed

Expose(t) ==
    /\ exposed' = [exposed EXCEPT ![t] = done[t]]
    /\ UNCHANGED <<counter, done>>

Next == \E t \in Task : Expose(t) \/ \E keys \in SUBSET Key : Happen(t, keys)

Spec == Init /\ [][Next]_vars
=============================================================================
