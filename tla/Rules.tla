-------------------------------- MODULE Rules --------------------------------
(***************************************************************************)
(* Datalog rules with stratified negation: how a rule set is split into    *)
(* strata and strongly connected components, and how it is evaluated from  *)
(* nothing, component by component and semi-naively inside one.            *)
(*                                                                         *)
(* A relation is a number, a row a tuple of values, a term a variable      *)
(* [var |-> name] or a value [val |-> v], a rule a record [head, terms,    *)
(* body]; a body item is an atom [rel, terms, neg] or a guard [op, left,   *)
(* right].  A binding is a function on the variables bound so far.  Rows   *)
(* are functions from Relation to sets.  Computed relations are left out.  *)
(***************************************************************************)
EXTENDS Integers, Sequences, FiniteSets, TLC, FiniteSetsExt, SequencesExt

CONSTANTS
    Relation,     \* the relations, numbered as their ids are ordered
    Packed        \* whether two-atom bodies run as packed joins

(* The function f as a table: TLC evaluates it here, once.                 *)
Table(f) == f @@ <<>>

Nothing == [r \in Relation |-> {}]
Both(m, n) == Table([r \in Relation |-> m[r] \cup n[r]])

(* What a body evaluation yields when it returns an error, and a head.     *)
Failed == [error |-> 0]
BadRow == <<>>

-----------------------------------------------------------------------------
(* Atoms, guards and bindings.                                             *)

IsAtom(item) == "rel" \in DOMAIN item
Positive(item) == IsAtom(item) /\ ~ item.neg
Negated(item) == IsAtom(item) /\ item.neg
Constant(term) == "val" \in DOMAIN term
Slots(terms) == {terms[i].var : i \in {j \in DOMAIN terms : ~ Constant(terms[j])}}

TermIsBound(term, b) == Constant(term) \/ term.var \in DOMAIN b
AllBound(terms, b) == \A i \in DOMAIN terms : TermIsBound(terms[i], b)
TermValue(term, b) == IF Constant(term) THEN term.val ELSE b[term.var]
Instantiate(terms, b) == [i \in DOMAIN terms |-> TermValue(terms[i], b)]

(* Tuple::matches_bindings over the bindings of scan_bindings.             *)
Matches(atom, b, row) ==
    \A i \in DOMAIN row : TermIsBound(atom.terms[i], b) => row[i] = TermValue(atom.terms[i], b)

(* A variable that an atom repeats must meet the same value everywhere.    *)
Consistent(atom, row) ==
    \A i, j \in DOMAIN row :
        (~ Constant(atom.terms[i]) /\ atom.terms[i] = atom.terms[j]) => row[i] = row[j]

(* unify_tuple, unify_packed_row and unify: the binding extended by a row, *)
(* as a set of at most one.                                                *)
Unify(atom, b, row) ==
    IF ~ (Matches(atom, b, row) /\ Consistent(atom, row)) THEN {}
    ELSE {[v \in DOMAIN b \cup Slots(atom.terms) |->
             IF v \in DOMAIN b THEN b[v]
             ELSE row[CHOOSE i \in DOMAIN row : atom.terms[i] = [var |-> v]]]}

CompareValues(op, x, y) ==
    CASE op = "==" -> x = y [] op = "!=" -> x # y [] op = "<" -> x < y
      [] op = "<=" -> x <= y [] op = ">" -> x > y [] op = ">=" -> x >= y

GuardIsSafe(guard, b) == TermIsBound(guard.left, b) /\ TermIsBound(guard.right, b)
GuardHolds(guard, b) ==
    CompareValues(guard.op, TermValue(guard.left, b), TermValue(guard.right, b))

-----------------------------------------------------------------------------
(* Readers: stored rows, those of completed components and those of the    *)
(* component under way (DerivedReader, SccReader, TupleMapReader).         *)

Reader(base, completed, full) == [base |-> base, completed |-> completed, full |-> full]
Rows(reader, r) == reader.base[r] \cup reader.completed[r] \cup reader.full[r]

(* estimate_relation_scan: an index answers for stored rows, the overlays  *)
(* count all of theirs.                                                    *)
EstimateScan(reader, atom, b) ==
    Cardinality({row \in reader.base[atom.rel] : Matches(atom, b, row)})
      + Cardinality(reader.completed[atom.rel]) + Cardinality(reader.full[atom.rel])

AtomEstimate(reader, atom, bs) == MapThenSumSet(LAMBDA b : EstimateScan(reader, atom, b), bs)

(* Repeated variables count as constants here, as they do in the code.     *)
BoundTermCount(atom, b) ==
    (Len(atom.terms) - Cardinality(Slots(atom.terms))) + Cardinality(Slots(atom.terms) \cap DOMAIN b)

-----------------------------------------------------------------------------
(* Evaluation of one body: select_next_item orders the items.              *)

Eligible(item, bs) ==
    CASE Negated(item) -> \A b \in bs : AllBound(item.terms, b)
      [] Positive(item) -> TRUE
      [] OTHER -> \A b \in bs : GuardIsSafe(item, b)

Rank(reader, item, bs) ==
    IF ~ IsAtom(item) THEN <<0, 0, 0>>
    ELSE <<AtomEstimate(reader, item, bs), IF item.neg THEN 1 ELSE 0,
           1000 - Max({BoundTermCount(item, b) : b \in bs} \cup {0})>>

Before(x, i, y, j) ==
    \/ x[1] < y[1]
    \/ x[1] = y[1] /\ x[2] < y[2]
    \/ x[1] = y[1] /\ x[2] = y[2] /\ x[3] < y[3]
    \/ x = y /\ i < j

(* The position in `left` of the item that is evaluated next; 0 is the     *)
(* error that none is safe.                                                *)
LowestRank(rank) ==
    IF DOMAIN rank = {} THEN 0
    ELSE CHOOSE i \in DOMAIN rank : \A j \in DOMAIN rank \ {i} : Before(rank[i], i, rank[j], j)

SelectNextItem(readers, body, bs, left) ==
    LowestRank(Table([i \in {j \in DOMAIN left : Eligible(body[left[j]], bs)} |->
                        Rank(readers[left[i]], body[left[i]], bs)]))

ApplyPositiveAtom(reader, atom, bs) ==
    UNION {UNION {Unify(atom, b, row) : row \in {x \in Rows(reader, atom.rel) : Matches(atom, b, x)}} :
             b \in bs}

ApplyNegatedAtom(reader, atom, bs) ==
    {b \in bs : \A row \in Rows(reader, atom.rel) : ~ Matches(atom, b, row)}

ApplyItem(reader, item, bs) ==
    CASE Negated(item) -> ApplyNegatedAtom(reader, item, bs)
      [] Positive(item) -> ApplyPositiveAtom(reader, item, bs)
      [] OTHER -> {b \in bs : GuardHolds(item, b)}

RECURSIVE EvaluateItems(_, _, _, _)
EvaluateItems(readers, body, bs, left) ==
    IF left = <<>> THEN bs
    ELSE LET Take(next) ==
                 IF next = 0 THEN {Failed}
                 ELSE EvaluateItems(readers, body, ApplyItem(readers[left[next]], body[left[next]], bs),
                                    RemoveAt(left, next))
         IN Take(SelectNextItem(readers, body, bs, left))

(* compile_two_atom_batch_plan: two positive atoms of distinct variables   *)
(* that share one or two.                                                  *)
BatchPlan(body) ==
    /\ Len(body) = 2 /\ Positive(body[1]) /\ Positive(body[2])
    /\ \A i \in {1, 2} : Cardinality(Slots(body[i].terms)) = Len(body[i].terms)
    /\ Cardinality(Slots(body[1].terms) \cap Slots(body[2].terms)) \in {1, 2}

(* evaluate_two_atom_batch: the rows that agree on the shared positions,   *)
(* paired and unified.                                                     *)
EvaluateTwoAtomBatch(readers, body) ==
    UNION {UNION {Unify(body[2], b, y) : y \in Rows(readers[2], body[2].rel)} :
             b \in UNION {Unify(body[1], <<>>, x) : x \in Rows(readers[1], body[1].rel)}}

(* evaluate_body_with_readers: body item `at` reads the delta, the others  *)
(* the full rows; at = 0 has no delta.                                     *)
EvaluateBodyAllDelta(full, delta, at, rule) ==
    LET readers == [i \in DOMAIN rule.body |-> IF at # 0 THEN delta ELSE full]
    IN EvaluateItems(readers, rule.body, {<<>>}, [i \in DOMAIN rule.body |-> i])

EvaluateBody(full, delta, at, rule) ==
    LET readers == [i \in DOMAIN rule.body |-> IF i = at THEN delta ELSE full]
    IN IF Packed /\ BatchPlan(rule.body) THEN EvaluateTwoAtomBatch(readers, rule.body)
       ELSE EvaluateItems(readers, rule.body, {<<>>}, [i \in DOMAIN rule.body |-> i])

(* instantiate_head.                                                       *)
HeadRow(rule, b) == IF b = Failed \/ ~ AllBound(rule.terms, b) THEN BadRow
                 ELSE Instantiate(rule.terms, b)

-----------------------------------------------------------------------------
(* Stratification and components.  A program is a sequence of rules.       *)

Heads(rules) == {rules[i].head : i \in DOMAIN rules}
BodyAtoms(rule) == SelectSeq(rule.body, IsAtom)

(* One rule of a pass of relation_strata: its head is raised above what    *)
(* its body asks for.                                                      *)
Raise(strata, rule) ==
    LET asked == {strata[item.rel] + (IF item.neg THEN 1 ELSE 0) :
                    item \in {x \in Range(BodyAtoms(rule)) : x.rel \in DOMAIN strata}}
    IN [strata EXCEPT ![rule.head] = Max({@} \cup asked)]

(* relation_strata: passes until one changes nothing, and as many as there *)
(* are heads and one more; a rule set that still moves is unstratified.    *)
Unstratified == <<>>
RECURSIVE StrataPasses(_, _, _, _)
StrataPasses(rules, strata, next, passes) ==
    IF next = strata THEN strata
    ELSE IF passes = 1 THEN Unstratified
    ELSE StrataPasses(rules, next, FoldLeft(Raise, next, rules), passes - 1)

RelationStrata(rules) ==
    LET start == [r \in Heads(rules) |-> 0]
    IN StrataPasses(rules, start, FoldLeft(Raise, start, rules), Cardinality(Heads(rules)) + 1)

Stratified(rules) == rules = <<>> \/ RelationStrata(rules) # Unstratified

(* positive_dependencies, reachable_relations, strongly_connected_relations *)
PositiveDependencies(rules, targets) ==
    [r \in targets |->
       UNION {{item.rel : item \in {x \in Range(rules[i].body) : Positive(x) /\ x.rel \in targets}} :
                i \in {j \in DOMAIN rules : rules[j].head = r}}]

RECURSIVE Reachable(_, _)
Reachable(deps, seen) ==
    LET more == seen \cup UNION {deps[r] : r \in seen}
    IN IF more = seen THEN seen ELSE Reachable(deps, more)

RECURSIVE StronglyConnected(_, _)
StronglyConnected(deps, remaining) ==
    IF remaining = {} THEN <<>>
    ELSE LET root == Min(remaining)
             component == {r \in remaining : r \in Reachable(deps, {root}) /\ root \in Reachable(deps, {r})}
         IN <<component>> \o StronglyConnected(deps, remaining \ component)

(* visit_component: a component is placed after those it depends on; acc   *)
(* is what was visited and the order so far.                               *)
RECURSIVE VisitComponent(_, _, _)
VisitComponent(needs, acc, index) ==
    IF index \in acc.visited THEN acc
    ELSE LET entered == [acc EXCEPT !.visited = @ \cup {index}]
             after == FoldLeft(LAMBDA x, n : VisitComponent(needs, x, n), entered,
                               SetToSortSeq(needs[index], <))
         IN [after EXCEPT !.ordered = Append(@, index)]

VisitOrder(needs) ==
    FoldLeft(LAMBDA x, n : VisitComponent(needs, x, n),
             [visited |-> {}, ordered |-> <<>>], [i \in DOMAIN needs |-> i]).ordered

OrderComponents(components, deps) ==
    LET order == VisitOrder([i \in DOMAIN components |->
                   {j \in DOMAIN components \ {i} : \E r \in components[i] : deps[r] \cap components[j] # {}}])
    IN [i \in DOMAIN components |-> components[order[i]]]

(* compile_component: rules without an atom on the component are its       *)
(* seeds, and every such atom of the others is a variant.                  *)
RecursiveItems(rule, targets) == {i \in DOMAIN rule.body : Positive(rule.body[i]) /\ rule.body[i].rel \in targets}

CompileComponent(rules, targets) ==
    LET mine == SelectSeq(rules, LAMBDA rule : rule.head \in targets)
    IN [targets |-> targets, rules |-> mine,
        seeds |-> {i \in DOMAIN mine : RecursiveItems(mine[i], targets) = {}},
        variants |-> UNION {{<<i, at>> : at \in RecursiveItems(mine[i], targets)} : i \in DOMAIN mine}]

ComponentsOf(rules, deps) == OrderComponents(StronglyConnected(deps, Heads(rules)), deps)
CompileAll(rules, components) ==
    [i \in DOMAIN components |-> CompileComponent(rules, components[i])]
CompileStratum(rules) ==
    CompileAll(rules, ComponentsOf(rules, PositiveDependencies(rules, Heads(rules))))

(* stratified_rules and compile: the components of every stratum in turn.  *)
StratifiedRules(rules, strata) ==
    LET levels == SetToSortSeq({strata[r] : r \in DOMAIN strata}, <)
    IN [n \in DOMAIN levels |-> SelectSeq(rules, LAMBDA rule : strata[rule.head] = levels[n])]
CompileStrata(strata) == FlattenSeq([n \in DOMAIN strata |-> CompileStratum(strata[n])])
Compile(rules) ==
    IF rules = <<>> THEN <<>> ELSE CompileStrata(StratifiedRules(rules, RelationStrata(rules)))

IsRecursive(component) == component.variants # {}

-----------------------------------------------------------------------------
(* Complete evaluation.  `derived` holds the rows of finished components;  *)
(* a component whose evaluation fails leaves BadRow in its targets.        *)

HeadRows(rule, bs) == {HeadRow(rule, b) : b \in bs}

(* evaluate_selected_rules and evaluate_recursive_variants.                *)
SelectedRules(component, full) ==
    Table([r \in Relation |->
       UNION {HeadRows(component.rules[i], EvaluateBody(full, full, 0, component.rules[i])) :
                i \in {j \in component.seeds : component.rules[j].head = r}}])

RecursiveVariants(component, full, delta) ==
    Table([r \in Relation |->
       UNION {HeadRows(component.rules[v[1]], EvaluateBody(full, delta, v[2], component.rules[v[1]])) :
                v \in {w \in component.variants : component.rules[w[1]].head = r}}])

IsBad(m) == \E r \in Relation : BadRow \in m[r]

(* The loop of evaluate_recursive_component.                               *)
NovelCandidates(candidates, full) == Table([r \in Relation |-> candidates[r] \ full[r]])

RECURSIVE SemiNaive(_, _, _, _, _, _)
SemiNaive(component, stored, completed, full, accepted, candidates) ==
    LET delta == NovelCandidates(candidates, full)
        more == Both(full, delta)
    IN IF IsBad(candidates) THEN candidates
       ELSE IF delta = Nothing THEN Both(accepted, candidates)
       ELSE SemiNaive(component, stored, completed, more, Both(accepted, candidates),
                      RecursiveVariants(component, Reader(stored, completed, more),
                                        Reader(Nothing, Nothing, delta)))

FromSeeds(component, stored, completed, targets, seeds) ==
    LET full == Both(targets, seeds)
    IN IF IsBad(seeds) \/ full = Nothing THEN seeds
       ELSE SemiNaive(component, stored, completed, full, seeds,
                      RecursiveVariants(component, Reader(stored, completed, full),
                                        Reader(Nothing, Nothing, full)))

EvaluateRecursive(component, stored, completed) ==
    LET targets == [r \in Relation |-> IF r \in component.targets THEN stored[r] ELSE {}]
    IN FromSeeds(component, stored, completed, targets,
                 SelectedRules(component, Reader(stored, completed, targets)))

EvaluateComponent(component, stored, completed) ==
    IF IsRecursive(component) THEN EvaluateRecursive(component, stored, completed)
    ELSE SelectedRules(component, Reader(stored, completed, Nothing))

(* evaluate_fixpoint_with_stats, which stops at the first error.           *)
EvaluateFixpoint(components, stored) ==
    FoldLeft(LAMBDA derived, component :
               IF IsBad(derived) THEN derived
               ELSE Both(derived, EvaluateComponent(component, stored, derived)),
             Nothing, components)

-----------------------------------------------------------------------------
(* The reference: what the rules mean, by trying every assignment of the   *)
(* values to the variables and applying all rules until nothing is new,    *)
(* negated relations first.                                                *)

Variables(rule) ==
    Slots(rule.terms) \cup
      UNION {IF IsAtom(item) THEN Slots(item.terms) ELSE Slots(<<item.left, item.right>>) :
               item \in Range(rule.body)}

Holds(item, b, rows) ==
    CASE Negated(item) -> Instantiate(item.terms, b) \notin rows[item.rel]
      [] Positive(item) -> Instantiate(item.terms, b) \in rows[item.rel]
      [] OTHER -> GuardHolds(item, b)

Solutions(rule, values, rows) ==
    {b \in [Variables(rule) -> values] : \A i \in DOMAIN rule.body : Holds(rule.body[i], b, rows)}

Consequences(rules, values, rows) ==
    Table([r \in Relation |->
       UNION {{Instantiate(rules[i].terms, b) : b \in Solutions(rules[i], values, rows)} :
                i \in {j \in DOMAIN rules : rules[j].head = r}}])

RECURSIVE LeastRows(_, _, _)
LeastRows(rules, values, rows) ==
    LET more == Both(rows, Consequences(rules, values, rows))
    IN IF more = rows THEN rows ELSE LeastRows(rules, values, more)

(* What a head depends on, and what it depends on through a negation.      *)
BodyRelations(rules, r) ==
    {item.rel : item \in UNION {Range(BodyAtoms(rules[i])) : i \in {j \in DOMAIN rules : rules[j].head = r}}}
DependsOn(rules, r) == Reachable([x \in Relation |-> BodyRelations(rules, x)], {r})
NegativelyOn(rules, r) ==
    UNION {{item.rel : item \in {x \in Range(rules[i].body) : Negated(x)}} :
             i \in {j \in DOMAIN rules : rules[j].head \in DependsOn(rules, r)}}

RECURSIVE ModelFrom(_, _, _, _)
ModelFrom(rules, values, rows, done) ==
    LET ready == {r \in Heads(rules) \ done : NegativelyOn(rules, r) \cap Heads(rules) \subseteq done}
    IN IF ready = {} THEN rows
       ELSE ModelFrom(rules, values,
                      LeastRows(SelectSeq(rules, LAMBDA rule : rule.head \in ready), values, rows),
                      done \cup ready)

(* All rows a reader sees, and those the rules derive.                     *)
Model(rules, values, stored) == ModelFrom(rules, values, stored, {})
Derived(rules, values, stored) == Consequences(rules, values, Model(rules, values, stored))

(* Range restriction: every variable occurs in a positive atom.            *)
IsSafe(rule) ==
    Variables(rule) \subseteq UNION {Slots(item.terms) : item \in {x \in Range(rule.body) : Positive(x)}}
==============================================================================
