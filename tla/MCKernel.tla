------------------------------ MODULE MCKernel ------------------------------
(***************************************************************************)
(* A small instance of RelationKernel: a functional relation with two      *)
(* facts under one key, a Set relation, an EventAppend relation that is    *)
(* volatile, and a relation that is created while the kernel runs.  A      *)
(* scenario confines who acts and what is written: in "keys" and "sets"    *)
(* two transactions run against each other, in "staged" a transaction, a   *)
(* fork that is published as one commit and the creation of a relation.    *)
(***************************************************************************)
EXTENDS RelationKernel, TLC

CONSTANTS f1, f2, s1, e1, t1, t2, g1, a1

VARIABLE scenario

allVars == <<scenario, vars>>

MCRelation == {"fun", "set", "event", "new"}
MCRelationOf == [f \in Fact |-> CASE f = s1 -> "set" [] f = e1 -> "event" [] OTHER -> "fun"]
MCKey == {"k", "ks", "ke"}
MCKeyOf == [f \in Fact |-> CASE f = s1 -> "ks" [] f = e1 -> "ke" [] OTHER -> "k"]
MCPolicy == [r \in MCRelation |-> CASE r = "fun" -> "Functional"
                                    [] r = "event" -> "EventAppend"
                                    [] OTHER -> "Set"]
MCDurable == MCRelation \ {"event"}
MCBaseRelations == MCRelation \ {"new"}

Scenarios == [keys   |-> [actors |-> {t1, t2},     facts |-> {f1, f2}],
              sets   |-> [actors |-> {t1, t2},     facts |-> {f1, s1}],
              staged |-> [actors |-> {t1, g1, a1}, facts |-> {f1, e1}]]

(* The transactions t1 and t2 are interchangeable in "keys" and "sets".  In *)
(* "staged" only t1 acts, so that each reachable state is its own orbit and *)
(* liveness is exact there.                                                 *)
TxnSymmetry == Permutations(Txn)

(* The step is one of the scenario's actors and writes its facts only.     *)
Confined ==
    LET s == Scenarios[scenario] IN
    /\ \A a \in Actor \ s.actors : status'[a] = "idle"
    /\ \A t \in s.actors \cap Txn : Written(t)' \subseteq s.facts
    /\ \A g \in s.actors \cap Stage : touched'[g] \subseteq s.facts

KernelInit == scenario \in DOMAIN Scenarios /\ Init

KernelNext == Next /\ Confined /\ UNCHANGED scenario

(* A thread that holds the commit lock goes on: commits do not wait for    *)
(* anything else while they hold it.                                       *)
KernelSpec ==
    /\ KernelInit /\ [][KernelNext]_allVars
    /\ \A a \in {t1, g1, a1} :
           WF_allVars(scenario = "staged" /\ CommitStep(a) /\ UNCHANGED scenario)

-----------------------------------------------------------------------------
(* Whoever takes the commit lock of the kernel gives it back, whether the  *)
(* provider accepts its commit or refuses it.                              *)
StagedLockReleased == scenario = "staged" => LockReleased
=============================================================================
