------------------------------ MODULE MCDerived ------------------------------
(***************************************************************************)
(* What hangs off a commit, one scenario each: the writer in both modes    *)
(* ("writer"), the caches of derived relations, with d2 using d1 and d3    *)
(* reading a computed relation ("caches"), and the rules behind them,      *)
(* evaluated and maintained with weighted traces ("traced"), without       *)
(* ("plain"), and over a head that also has stored rows ("stored").        *)
(***************************************************************************)
EXTENDS FjallWriter, TLC

CONSTANTS d1, d2, d3, thread1, thread2, f1, f2,
    Scenario     \* the scenarios a run explores

VARIABLES
    scenario,
    (* the caches *)
    head, cache, maintained, threadPc, snap, wanted, cached, targets,
    (* the rules *)
    world, rules, stored, kept, published, swapped

cacheVars == <<head, cache, maintained, threadPc, snap, wanted, cached, targets>>
ruleVars == <<world, rules, stored, kept, published, swapped>>
allVars == <<scenario, vars, cacheVars, ruleVars>>

MCNeeds == [r \in {d1, d2, d3} |-> IF r = d2 THEN {d1} ELSE {}]

Caches == INSTANCE DerivedCache WITH
    Thread <- {thread1, thread2}, Derived <- {d1, d2, d3}, Needs <- MCNeeds, Unmaintained <- {d3},
    MaxSnapshot <- 2, pc <- threadPc

ASSUME CachesAssumption == Caches!CacheAssumption

-----------------------------------------------------------------------------
(* The rules: 1 is a binary relation, 2 and 3 are unary, the heads follow. *)

Var(name) == [var |-> name]
X == Var("x")
Y == Var("y")
Z == Var("z")
One == [val |-> 1]
Is(r, t) == [rel |-> r, terms |-> t, neg |-> FALSE]
Not(r, t) == [rel |-> r, terms |-> t, neg |-> TRUE]
When(left, op, right) == [op |-> op, left |-> left, right |-> right]
If(r, t, body) == [head |-> r, terms |-> t, body |-> body]

Numbers == 1..6
Unary(S) == {<<v>> : v \in S}
Over(f) == [r \in Numbers |-> IF r \in DOMAIN f THEN f[r] ELSE {}]
Of(rs, facts, reads) ==
    [rules |-> rs, extra |-> {}, start |-> Over(<<>>), facts |-> Over(facts),
     reads |-> reads, values |-> {1, 2}]

Joins ==
    Of(<<If(4, <<X>>, <<Is(1, <<X, Y>>), Is(2, <<Y>>)>>), If(4, <<X>>, <<Is(3, <<X>>), Is(1, <<X, X>>)>>),
         If(5, <<X, Y>>, <<Is(4, <<X>>), Is(1, <<X, Y>>), Is(1, <<Y, X>>)>>)>>,
       1 :> {<<1, 1>>, <<1, 2>>, <<2, 1>>} @@ 2 :> Unary({1}) @@ 3 :> Unary({1}), {5})

Traced ==
    [Of(<<If(4, <<X>>, <<Is(3, <<X>>), Is(2, <<X>>)>>)>>, 2 :> Unary(1..5) @@ 3 :> Unary({1}), {4})
       EXCEPT !.start = Over(2 :> Unary(1..5)), !.values = 1..5]

ByFact == If(4, <<X, Y>>, <<Is(1, <<X, Y>>)>>)
Closure ==
    [Of(<<ByFact, If(4, <<X, Z>>, <<Is(1, <<X, Y>>), Is(4, <<Y, Z>>)>>)>>,
        1 :> {<<1, 1>>, <<1, 2>>, <<2, 1>>} @@ 4 :> {<<2, 1>>}, {4})
       EXCEPT !.extra = {ByFact}]

Square ==
    Of(<<ByFact, If(4, <<X, Z>>, <<Is(4, <<X, Y>>), Is(4, <<Y, Z>>)>>),
         If(5, <<X>>, <<Is(2, <<X>>), Not(4, <<X, X>>)>>)>>,
       1 :> {<<1, 2>>, <<2, 1>>, <<2, 2>>} @@ 2 :> Unary({1}), {5})

Negations ==
    [Of(<<If(4, <<X>>, <<Is(2, <<X>>), Not(3, <<X>>)>>), If(5, <<X>>, <<Is(2, <<X>>), Not(4, <<X>>)>>)>>,
        2 :> Unary({1, 2}) @@ 3 :> Unary({1}), {5, 6})
       EXCEPT !.extra = {If(6, <<One>>, <<Not(5, <<One>>)>>),
                         If(5, <<X>>, <<Is(2, <<X>>), When(X, "==", One)>>)}]

Reach ==
    Of(<<If(4, <<X>>, <<Is(2, <<X>>)>>),
         If(4, <<Y>>, <<Is(4, <<X>>), Is(1, <<X, Y>>), Not(3, <<Y>>), When(X, "!=", Y)>>)>>,
       1 :> {<<1, 2>>, <<2, 1>>} @@ 2 :> Unary({1, 2}) @@ 3 :> Unary({1}), {4})

Mutual ==
    Of(<<If(4, <<X>>, <<Is(2, <<X>>)>>), If(5, <<Y>>, <<Is(4, <<X>>), Is(1, <<X, Y>>)>>),
         If(4, <<X>>, <<Is(5, <<X>>), Is(3, <<X>>)>>),
         If(6, <<X>>, <<Is(3, <<X>>), Not(4, <<X>>), Not(5, <<X>>)>>)>>,
       1 :> {<<1, 2>>, <<2, 1>>} @@ 2 :> Unary({1}) @@ 3 :> Unary({1}), {5, 6})

(* Rules that the installer accepts although they are not range-restricted. *)
Unbound ==
    [Of(<<If(4, <<X>>, <<Is(2, <<X>>), Not(3, <<Y>>)>>)>>, 2 :> Unary({1}) @@ 3 :> Unary({1}), {4, 5})
       EXCEPT !.extra = {If(5, <<X, Y>>, <<Is(2, <<X>>)>>), If(5, <<X>>, <<Is(2, <<X>>), When(X, "<", Y)>>)}]

(* Rules among three heads, some of which exclude each other.              *)
Among(r, item) == If(r, <<X>>, <<Is(2, <<X>>), item>>)
Strata ==
    [Of(<<>>, 2 :> Unary({1}), {4}) EXCEPT
       !.start = Over(2 :> Unary({1})),
       !.extra = {Among(4, Is(5, <<X>>)), Among(4, Not(5, <<X>>)), Among(5, Is(6, <<X>>)),
                  Among(5, Not(6, <<X>>)), Among(6, Not(4, <<X>>))}]

(* A head that also has stored rows, and a rule that reads it.             *)
StoredHead ==
    Of(<<If(4, <<X>>, <<Is(2, <<X>>)>>), If(5, <<X>>, <<Is(4, <<X>>), Is(3, <<X>>)>>)>>,
       2 :> Unary({1}) @@ 3 :> Unary({1}) @@ 4 :> Unary({1}), {5})

Worlds(s) == CASE s = "traced" -> {Joins, Traced, Closure, Square}
               [] s = "plain" -> {Negations, Reach, Mutual, Unbound, Strata}
               [] s = "stored" -> {StoredHead}
               [] OTHER -> {Of(<<>>, <<>>, {})}
AllWorlds == UNION {Worlds(s) : s \in {"traced", "plain", "stored", "none"}}

TracedRules == INSTANCE DerivedStore WITH
    Relation <- Numbers, Packed <- TRUE, Weighted <- TRUE, CompactionBatches <- 8,
    World <- AllWorlds, MaxChanges <- 2, maintained <- kept

PlainRules == INSTANCE DerivedStore WITH
    Relation <- Numbers, Packed <- FALSE, Weighted <- FALSE, CompactionBatches <- 8,
    World <- AllWorlds, MaxChanges <- 2, maintained <- kept

-----------------------------------------------------------------------------
WithTraces == scenario = "traced"
WithoutTraces == scenario \in {"plain", "stored"}

DerivedInit ==
    /\ scenario \in Scenario
    /\ Init /\ (mode = "Relaxed" => scenario = "writer") /\ Caches!Init
    /\ world \in Worlds(scenario) /\ PlainRules!Init

DerivedNext ==
    /\ UNCHANGED scenario
    /\ \/ scenario = "writer" /\ Next /\ UNCHANGED <<cacheVars, ruleVars>>
       \/ scenario = "caches" /\ Caches!Next /\ UNCHANGED <<vars, ruleVars>>
       \/ WithTraces /\ TracedRules!Next /\ UNCHANGED <<vars, cacheVars>>
       \/ WithoutTraces /\ PlainRules!Next /\ UNCHANGED <<vars, cacheVars>>

(* Neither the committing thread nor the writer thread stops on its own,   *)
(* and a thread inside derived_relations runs on.                          *)
Writing(Step) == scenario = "writer" /\ Step /\ UNCHANGED <<scenario, cacheVars, ruleVars>>
DerivedSpec ==
    /\ DerivedInit /\ [][DerivedNext]_allVars
    /\ WF_allVars(Writing(ClientStep)) /\ WF_allVars(Writing(WriterStep))
    /\ \A t \in {thread1, thread2} :
         WF_allVars(/\ scenario = "caches" /\ threadPc[t] # "idle"
                    /\ Caches!Step(t) /\ UNCHANGED <<scenario, vars, ruleVars>>)

-----------------------------------------------------------------------------
(* Every accepted commit is eventually applied or its failure recorded,    *)
(* and no commit, flush or read of a derived relation waits for ever.      *)
WriterAnswers == OperationsReturn /\ AcceptedCommitsSettle /\ Caches!ReadsReturn

(* When no thread is reading a snapshot its two caches agree, so that the  *)
(* next lone read of derived_relations answers fully, and the maintained   *)
(* state is one that a commit can advance without meeting a computed       *)
(* relation.                                                               *)
CachesCoherent == Caches!CachesAgreeAtRest /\ Caches!MaintainedCompiles

(* A complete evaluation, semi-naive, component by component and in the    *)
(* order the planner picks, derives exactly the rows the rules mean        *)
(* (RuleSet::evaluate_fixpoint), and a rule is refused exactly when it     *)
(* would make a head depend on itself through a negation                   *)
(* (relation_strata).                                                      *)
EvaluationExact ==
    /\ WithTraces => TracedRules!EvaluationExact
    /\ WithoutTraces => PlainRules!EvaluationExact /\ PlainRules!StratificationExact

(* Derived rows that commits carry on (MaintainedState::advance) are those *)
(* an evaluation from nothing would give, and all that is kept to advance  *)
(* them mirrors the visible rows, unless a commit takes a stored row of a  *)
(* head away and derives it at once; a transaction reads what its own      *)
(* changes entail (incremental_derived_relations); and advancing fails     *)
(* only under rules that are not range-restricted.                         *)
MaintainedExact ==
    /\ WithTraces => /\ TracedRules!MaintainedExact /\ TracedRules!LocalExact
                     /\ TracedRules!FailsOnlyWhenUnsafe
    /\ WithoutTraces => /\ PlainRules!MaintainedExact /\ PlainRules!LocalExact
                        /\ PlainRules!FailsOnlyWhenUnsafe

(* A commit and a rule change report to subscribers exactly how the rows   *)
(* of the relations they follow changed (build_next_snapshot,              *)
(* settled_snapshot_relation_changes).                                     *)
ChangesExact == [][/\ WithTraces => TracedRules!ChangesReported
                   /\ WithoutTraces => PlainRules!ChangesReported]_allVars

(* A relation answers as its rules mean after any reads, commits and rule  *)
(* changes, swaps of a stored row for a derived one included.              *)
AnswersExact == WithoutTraces => PlainRules!AnswersExact

(* A finished read has the rows of the relation it asked for.              *)
ReadsAnswerFully == Caches!ReadsAnswerFully
==============================================================================
