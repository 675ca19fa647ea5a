----------------------------- MODULE DerivedStore -----------------------------
(***************************************************************************)
(* The snapshot that serves derived relations: reads that warm maintained  *)
(* state, commits that advance it, and rule changes that rebuild it, with  *)
(* the changes each reports to subscriptions.                              *)
(***************************************************************************)
EXTENDS Differential

CONSTANTS
    World,       \* the rule sets and facts to start from
    MaxChanges   \* facts that one commit changes

VARIABLES
    world,       \* [rules, extra, start, facts, reads, values]: the rules and rows at first,
                 \* the rules that come and go, the rows and values there may be, and
                 \* the relations that are read
    rules,       \* the active rules of the current snapshot
    stored,      \* its stored rows
    maintained,  \* its maintained state
    published,   \* what the last commit reported, or a local read answered, until
                 \* it is delivered
    swapped      \* a commit took a stored row of a maintained head away and derived
                 \* it at once, and the state has not been built anew since

vars == <<world, rules, stored, maintained, published, swapped>>

-----------------------------------------------------------------------------
(* The kernel around it.                                                   *)

IsMaintained == maintained.requested # {}
Serves(m, r) == r \in m.program.targets
Complete(rs, facts) == EvaluateFixpoint(Compile(rs), facts)

(* Snapshot::derived_relations answers from the maintained state, or from  *)
(* a complete evaluation.                                                  *)
Answer(m, rs, facts, r) == IF Serves(m, r) THEN m.derived[r] ELSE Complete(rs, facts)[r]

(* warm_maintained_relation: a state that fails its comparison with the    *)
(* complete result is not kept.                                            *)
Kept(m, first) ==
    [ok |-> first.ok, state |-> IF first.state = NotMaintained THEN m ELSE first.state]

WarmFrom(m, rs, facts, requested, complete) ==
    IF IsBad(complete) THEN [ok |-> FALSE, state |-> m]
    ELSE IF requested \cap Heads(rs) = {} THEN [ok |-> TRUE, state |-> m]
    ELSE Kept(m, InitializeFrom(MaintainedProgram(rs, requested), requested, facts, complete))

Warm(m, rs, facts, r) ==
    IF Serves(m, r) THEN [ok |-> TRUE, state |-> m]
    ELSE WarmFrom(m, rs, facts, m.requested \cup {r}, Complete(rs, facts))

Read(r) ==
    /\ r \in Heads(rules)
    /\ ~ Serves(maintained, r)
    /\ maintained' = Warm(maintained, rules, stored, r).state
    /\ swapped' = (swapped /\ maintained' = maintained)
    /\ UNCHANGED <<world, rules, stored, published>>

Silent == [by |-> "none", changes |-> Zero]

(* public_fact_changes, and the changes of the advanced state merged in.   *)
PublicChanges(changes, next, complete) ==
    [r \in {x \in DOMAIN changes : x \notin Heads(rules) \/ Serves(maintained, x)} |->
       IF r \notin Heads(rules) THEN changes[r]
       ELSE LET came == SetDifferenceChanges(stored[r] \cup maintained.derived[r], next[r] \cup complete[r])
            IN Keep(came, DOMAIN came \cap DOMAIN changes[r])]

MergeChangesFirst(public, visible) ==
    [r \in DOMAIN public \cup DOMAIN visible |-> IF r \in DOMAIN public THEN public[r] ELSE visible[r]]

MergeChanges(public, visible) ==
    [r \in DOMAIN public \cup DOMAIN visible |->
       LET p == DeltaOf(public, r) v == DeltaOf(visible, r)
       IN [row \in DOMAIN p \cup DOMAIN v |-> IF row \in DOMAIN v THEN v[row] ELSE p[row]]]

(* Transaction::build_next_snapshot for effective changes of stored facts. *)
ChangesOf(facts) ==
    Table([r \in {fact[1] : fact \in facts} |->
       Table([row \in {fact[2] : fact \in {x \in facts : x[1] = r}} |-> IF row \in stored[r] THEN -1 ELSE 1])])
Overlay(changes) == Table([r \in Relation |-> Applied(stored[r], DeltaOf(changes, r))])

Swaps(changes, advanced) ==
    \E i \in DOMAIN maintained.program.components :
        LET component == maintained.program.components[i]
        IN \E r \in component.targets \cap DOMAIN changes : \E row \in DOMAIN changes[r] :
             /\ ~ IsRecursive(component) /\ changes[r][row] < 0
             /\ row \notin PositiveRows(maintained.support[r])
             /\ row \in PositiveRows(advanced.support[r])

ServedHead(changes) == \E r \in DOMAIN changes : r \in Heads(rules) /\ Serves(maintained, r)

Commit(facts) ==
    /\ published = Silent
    /\ \E changes \in {ChangesOf(facts)} : \E next \in {Overlay(changes)} :
       \E advanced \in {IF IsMaintained THEN Advance(maintained, next, changes)
                        ELSE [ok |-> TRUE, visible |-> Zero, state |-> maintained]},
          complete \in {IF ServedHead(changes) THEN Complete(rules, next) ELSE Nothing} :
          IF advanced.ok /\ ~ IsBad(complete)
          THEN /\ stored' = next
               /\ maintained' = advanced.state
               /\ swapped' = (swapped \/ Swaps(changes, advanced.state))
               /\ published' = [by |-> "commit",
                                changes |-> MergeChanges(PublicChanges(changes, next, complete),
                                                         advanced.visible)]
          ELSE /\ published' = [by |-> "failure", changes |-> Zero]
               /\ UNCHANGED <<stored, maintained, swapped>>
    /\ UNCHANGED <<world, rules>>

(* A read inside a transaction that has changed facts: the snapshot it     *)
(* began with is warmed, and its maintained state advanced over the        *)
(* changes (incremental_derived_relations, build_overlay_snapshot).        *)
LocalAnswer(advanced, overlay, r) ==
    IF ~ advanced.ok THEN [by |-> "failure", changes |-> Zero]
    ELSE [by |-> "local", over |-> overlay, answer |-> r :> Answer(advanced.state, rules, overlay, r)]

ReadLocal(facts, r) ==
    /\ published = Silent
    /\ r \in Heads(rules)
    /\ \E changes \in {ChangesOf(facts)} : \E overlay \in {Overlay(changes)} :
       \E warm \in {Warm(maintained, rules, stored, r)} :
       \E advanced \in {IF warm.ok /\ Serves(warm.state, r) THEN Advance(warm.state, overlay, changes)
                        ELSE warm} :
       /\ maintained' = warm.state
       /\ published' = LocalAnswer(advanced, overlay, r)
       /\ swapped' = (swapped /\ warm.state = maintained)
    /\ UNCHANGED <<world, rules, stored>>

(* install_rule, disable_rule: only stratification is validated; what was  *)
(* requested is warmed again and compared (settled_snapshot_relation_changes). *)
Rewarm(rs) ==
    FoldLeft(LAMBDA acc, r : IF acc.ok THEN Warm(acc.state, rs, stored, r) ELSE acc,
             [ok |-> TRUE, state |-> NotMaintained], SetToSortSeq(maintained.requested, <))

Seen(m, rs, r) == stored[r] \cup Answer(m, rs, stored, r)
ChangeRules(rs) ==
    /\ published = Silent
    /\ Stratified(rs)
    /\ \E warm \in {Rewarm(rs)} :
       IF warm.ok
       THEN /\ rules' = rs
            /\ maintained' = warm.state
            /\ swapped' = FALSE
            /\ published' = [by |-> "rules",
                 changes |-> [r \in maintained.requested |->
                                SetDifferenceChanges(Seen(maintained, rules, r), Seen(warm.state, rs, r))]]
       ELSE /\ published' = [by |-> "failure", changes |-> Zero]
            /\ UNCHANGED <<rules, maintained, swapped>>
    /\ UNCHANGED <<world, stored>>

InstallRule(rule) == rule \notin Range(rules) /\ ChangeRules(Append(rules, rule))
DisableRule(i) == ChangeRules(RemoveAt(rules, i))

(* The subscriptions take what the commit reports.                         *)
Deliver ==
    /\ published # Silent
    /\ published' = Silent
    /\ UNCHANGED <<world, rules, stored, maintained, swapped>>

Init ==
    /\ world \in World
    /\ rules = world.rules
    /\ stored = world.start
    /\ maintained = NotMaintained
    /\ published = Silent
    /\ swapped = FALSE

Facts == UNION {{<<r, row>> : row \in world.facts[r]} : r \in Relation}
Next ==
    \/ \E r \in world.reads : Read(r)
    \/ \E n \in 1..MaxChanges : \E facts \in kSubset(n, Facts) : Commit(facts)
    \/ \E fact \in Facts : \E r \in world.reads : ReadLocal({fact}, r)
    \/ \E rule \in world.extra : InstallRule(rule)
    \/ \E i \in {j \in DOMAIN rules : rules[j] \in world.extra} : DisableRule(i)
    \/ Deliver

Spec == Init /\ [][Next]_vars

-----------------------------------------------------------------------------
(* Properties.                                                             *)

Safe(rs) == \A rule \in Range(rs) : IsSafe(rule)
Truth(rs, facts) == Model(rs, world.values, facts)
DerivedTruth == Derived(rules, world.values, stored)

(* A complete evaluation, semi-naive and in the order the planner picks,   *)
(* derives exactly the rows the rules mean (RuleSet::evaluate_fixpoint).   *)
(* Here and in MaintainedExact it is enough to look once changes have been *)
(* delivered: delivery leaves everything else as it is.                    *)
EvaluationExact == published = Silent /\ Safe(rules) => Complete(rules, stored) = DerivedTruth

(* A rule is refused exactly when it would make a head depend on itself    *)
(* through a negation, whatever the order the rules came in                *)
(* (relation_strata).                                                      *)
ThroughNegation(rs) ==
    \E i \in DOMAIN rs : \E item \in Range(rs[i].body) :
        Negated(item) /\ rs[i].head \in DependsOn(rs, item.rel)
StratificationExact ==
    \A rule \in world.extra : Stratified(Append(rules, rule)) <=> ~ ThroughNegation(Append(rules, rule))

(* A relation answers as its rules mean after any reads, commits and rule  *)
(* changes, also when its rows were carried from commit to commit          *)
(* (MaintainedState::advance).                                             *)
AnswersExact ==
    Safe(rules) => LET truth == DerivedTruth
                   IN \A r \in maintained.program.targets : maintained.derived[r] = truth[r]

(* Everything kept to advance a relation agrees with what it mirrors: rows,*)
(* arrangements, negated keys and traces with the visible rows, support    *)
(* with the number of derivations; and so the answers are exact.  A commit *)
(* that swaps a stored row for a derived one is the only way to break it.  *)
Derivations(r, row, truth) ==
    MapThenSumSet(LAMBDA i : Cardinality({b \in Solutions(rules[i], world.values, truth) :
                                            Instantiate(rules[i].terms, b) = row}),
                  {i \in DOMAIN rules : rules[i].head = r})

MaintainedExact ==
    published = Silent /\ Safe(rules) /\ ~ swapped =>
      LET m == maintained
          truth == Truth(rules, stored)
      IN /\ AnswersExact
         /\ \A r \in DOMAIN m.coll : m.coll[r] = truth[r]
         /\ \A spec \in DOMAIN m.arr : m.arr[spec] = truth[spec[1]]
         /\ \A r \in DOMAIN m.keys : m.keys[r] = truth[r]
         /\ \A r \in DOMAIN m.traces : FoldLeft(Plus, Zero, m.traces[r]) = Ones(truth[r])
         /\ \A component \in Range(m.program.components) : \A r \in component.targets :
              ~ IsRecursive(component) =>
                \A row \in DOMAIN m.support[r] : m.support[r][row] = Derivations(r, row, truth)

(* A transaction reads the derived rows that its own changes entail.       *)
LocalExact ==
    Safe(rules) /\ ~ swapped /\ published.by = "local" =>
      \A r \in DOMAIN published.answer : published.answer[r] = Derived(rules, world.values, published.over)[r]

(* Only a rule that is not range-restricted makes a commit or a rule       *)
(* change fail: advance meets neither negative support nor an unbound      *)
(* variable otherwise.                                                     *)
FailsOnlyWhenUnsafe ==
    published.by = "failure" /\ ~ swapped => ~ (Safe(rules) /\ \A rule \in world.extra : IsSafe(rule))

(* What a commit and a rule change must report to subscribers: how the     *)
(* rows of the relations they follow changed.                              *)
ChangesReported ==
    Safe(rules) /\ Safe(rules') /\ ~ swapped' /\ published = Silent /\ published' # Silent =>
      LET before == Truth(rules, stored)
          after == Truth(rules', stored')
          Reports(r) == DeltaOf(published'.changes, r) = SetDifferenceChanges(before[r], after[r])
      IN /\ published'.by = "commit" =>
              \A r \in Relation : (r \notin Heads(rules) \/ Serves(maintained, r)) => Reports(r)
         /\ published'.by = "rules" => \A r \in maintained.requested : Reports(r)
==============================================================================
