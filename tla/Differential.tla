----------------------------- MODULE Differential -----------------------------
(***************************************************************************)
(* Incremental maintenance of derived relations: the state a snapshot      *)
(* keeps for the relations that were read, and how a commit carries it to  *)
(* the next snapshot instead of evaluating the rules again.                *)
(*                                                                         *)
(* Non-recursive components count the derivations of every row; recursive  *)
(* ones delete what may have lost its derivation and derive again.  A      *)
(* weighted set is a function from rows (or bindings) to non-zero          *)
(* integers.  Index keys are left implicit: an arrangement is the set of   *)
(* rows it holds.  Sizes in bytes are counted in rows.                     *)
(***************************************************************************)
EXTENDS Rules

CONSTANTS
    Weighted,          \* whether joins with unchanged rows read the traces
    CompactionBatches  \* TRACE_COMPACTION_BATCHES

-----------------------------------------------------------------------------
(* Weighted sets.                                                          *)

Zero == <<>>
Weight(w, k) == IF k \in DOMAIN w THEN w[k] ELSE 0
Ones(rows) == Table([row \in rows |-> 1])

(* checked_accumulate: every element adds its amount at its key.           *)
Collect(key, amount) ==
    LET total == Table([k \in Range(key) |->
                          MapThenSumSet(LAMBDA x : amount[x], {x \in DOMAIN key : key[x] = k})])
    IN Table([k \in {j \in DOMAIN total : total[j] # 0} |-> total[k]])

(* accumulate_rows                                                         *)
Plus(v, w) ==
    Table([k \in {j \in DOMAIN v \cup DOMAIN w : Weight(v, j) + Weight(w, j) # 0} |->
             Weight(v, k) + Weight(w, k)])

PositiveRows(w) == {k \in DOMAIN w : w[k] > 0}
SetDifferenceChanges(old, new) ==
    Table([row \in (old \ new) \cup (new \ old) |-> IF row \in new THEN 1 ELSE -1])

(* A set of rows after weighted changes (Arrangement::apply,               *)
(* refresh_negative_key_counts).                                           *)
Applied(rows, changes) ==
    (rows \cup {k \in DOMAIN changes : changes[k] > 0}) \ {k \in DOMAIN changes : changes[k] < 0}

(* The changes of a relation; a relation may have an entry without any.    *)
DeltaOf(deltas, r) == IF r \in DOMAIN deltas THEN deltas[r] ELSE Zero
Put(f, k, v) == (k :> v) @@ f

-----------------------------------------------------------------------------
(* The maintained program.                                                 *)

PositiveAtoms(rule) == SelectSeq(rule.body, Positive)
NegatedAtoms(rule) == SelectSeq(rule.body, Negated)
HasNegation(rule) == NegatedAtoms(rule) # <<>>
ComponentAtoms(component) == UNION {Range(BodyAtoms(rule)) : rule \in Range(component.rules)}

RECURSIVE RequiredTargets(_, _)
RequiredTargets(components, required) ==
    LET used == {i \in DOMAIN components : components[i].targets \cap required # {}}
        more == required \cup
                ({atom.rel : atom \in UNION {ComponentAtoms(components[i]) : i \in used}}
                   \cap UNION {components[i].targets : i \in DOMAIN components})
    IN IF more = required THEN required ELSE RequiredTargets(components, more)

(* required_arrangements: for every atom that may come first, the          *)
(* positions of the others that are bound when they are reached.           *)
BoundPositions(atom, bound) ==
    {i \in DOMAIN atom.terms : Constant(atom.terms[i]) \/ atom.terms[i].var \in bound}

MoveFirst(atoms, first) == <<atoms[first]>> \o RemoveAt(atoms, first)

RequiredArrangements(rule) ==
    LET atoms == PositiveAtoms(rule)
        SpecsOf(order) ==
            {<<order[i].rel, BoundPositions(order[i], UNION {Slots(order[j].terms) : j \in 1..(i - 1)})>> :
               i \in DOMAIN order}
    IN {spec \in UNION {SpecsOf(MoveFirst(atoms, first)) : first \in DOMAIN atoms} : spec[2] # {}}

(* MaintainedProgram::compile.                                             *)
NoProgram == [components |-> <<>>, relations |-> {}, targets |-> {}, negative |-> {}, specs |-> {}]
ProgramOf(components, required) ==
    LET atoms == UNION {ComponentAtoms(components[i]) : i \in DOMAIN components}
    IN [components |-> components,
        relations |-> UNION {components[i].targets : i \in DOMAIN components}
                        \cup {atom.rel : atom \in atoms},
        targets |-> required,
        negative |-> {atom.rel : atom \in {x \in atoms : x.neg}},
        specs |-> UNION {UNION {RequiredArrangements(rule) : rule \in Range(components[i].rules)} :
                           i \in DOMAIN components}]

SelectComponents(all, required) ==
    ProgramOf(SelectSeq(all, LAMBDA component : component.targets \cap required # {}), required)
RequiredProgram(all, requested) == SelectComponents(all, RequiredTargets(all, requested))

MaintainedProgram(rules, requested) ==
    IF requested \cap Heads(rules) = {} THEN NoProgram
    ELSE RequiredProgram(Compile(rules), requested \cap Heads(rules))

-----------------------------------------------------------------------------
(* Joins over weighted bindings.                                           *)

UnitBinding == [b \in {<<>>} |-> 1]

(* join_rows, join_candidates and the matched pairs of a packed join.      *)
JoinRows(bs, atom, rows) ==
    LET pairs == {p \in (DOMAIN bs) \X (DOMAIN rows) : Unify(atom, p[1], p[2]) # {}}
    IN Collect(Table([p \in pairs |-> CHOOSE b \in Unify(atom, p[1], p[2]) : TRUE]),
               [p \in pairs |-> bs[p[1]] * rows[p[2]]])

(* join_weighted_trace: all batches of a trace, when keys are short.       *)
TraceIsUsable(bs, atom, trace) ==
    /\ Weighted /\ trace # <<>>
    /\ \E b \in DOMAIN bs : Cardinality(BoundPositions(atom, DOMAIN b)) \in {1, 2}

JoinTrace(bs, atom, trace) ==
    FoldLeft(LAMBDA sum, batch : Plus(sum, JoinRows(bs, atom, batch)), Zero, trace)

(* join_arranged: through the trace, an arrangement on the bound           *)
(* positions, or all rows.                                                 *)
JoinArranged(bs, atom, rows, arr, trace) ==
    IF DOMAIN bs = {} THEN Zero
    ELSE IF TraceIsUsable(bs, atom, trace) THEN JoinTrace(bs, atom, trace)
    ELSE LET bound == DOMAIN (CHOOSE b \in DOMAIN bs : TRUE)
             spec == <<atom.rel, BoundPositions(atom, bound)>>
         IN JoinRows(bs, atom, Ones(IF spec \in DOMAIN arr THEN arr[spec] ELSE rows))

Keep(bs, kept) == Table([b \in kept |-> bs[b]])

(* filter_guards drops a binding that leaves a guard unbound.              *)
FilterGuards(rule, bs) ==
    Keep(bs, {b \in DOMAIN bs : \A i \in DOMAIN rule.body :
                IsAtom(rule.body[i]) \/ (GuardIsSafe(rule.body[i], b) /\ GuardHolds(rule.body[i], b))})

(* negated_binding_is_active: atoms in turn, until one is present in the   *)
(* rows or is not bound, which is an error.                                *)
Stops(rule, b, rows) ==
    LET atoms == NegatedAtoms(rule)
    IN {i \in DOMAIN atoms : \/ ~ AllBound(atoms[i].terms, b)
                             \/ Instantiate(atoms[i].terms, b) \in rows[atoms[i].rel]}
IsActive(rule, b, rows) == Stops(rule, b, rows) = {}
IsUnsafe(rule, b, rows) ==
    LET stops == Stops(rule, b, rows)
    IN stops # {} /\ ~ AllBound(NegatedAtoms(rule)[Min(stops)].terms, b)

(* project_rule                                                            *)
Project(rule, bs) == Collect(Table([b \in DOMAIN bs |-> HeadRow(rule, b)]), bs)
HeadsBound(rule, bs) == \A b \in DOMAIN bs : HeadRow(rule, b) # BadRow
NegationsBound(rule, bs, rows) == \A b \in DOMAIN bs : ~ IsUnsafe(rule, b, rows)

-----------------------------------------------------------------------------
(* What a rule contributes when its inputs change.  A change is described  *)
(* by a record of old and new rows, arrangements, changes and old traces.  *)

UpdateArrangements(arr, r, changes) ==
    [spec \in {x \in DOMAIN arr : x[1] = r} |-> Applied(arr[spec], changes)] @@ arr

(* The atom with the fewest changes goes first, if it has any.             *)
DeltaOrder(rule, deltas) ==
    LET atoms == PositiveAtoms(rule)
        with == {i \in DOMAIN atoms : atoms[i].rel \in DOMAIN deltas}
        Size(i) == Cardinality(DOMAIN deltas[atoms[i].rel])
    IN IF with = {} \/ \E i \in with : Size(i) = 0 THEN atoms
       ELSE MoveFirst(atoms, CHOOSE i \in with : \A j \in with : Size(i) < Size(j) \/ (Size(i) = Size(j) /\ i <= j))

(* One pivot of evaluate_positive_binding_delta: NEW * DELTA * OLD.        *)
Pivot(ev, rule, atoms, pivot) ==
    FilterGuards(rule,
      FoldLeft(LAMBDA bs, i :
                 IF i < pivot THEN JoinArranged(bs, atoms[i], ev.new[atoms[i].rel], ev.newArr, <<>>)
                 ELSE IF i = pivot THEN JoinRows(bs, atoms[i], DeltaOf(ev.deltas, atoms[i].rel))
                 ELSE JoinArranged(bs, atoms[i], ev.old[atoms[i].rel], ev.oldArr, ev.traces[atoms[i].rel]),
               UnitBinding, [i \in DOMAIN atoms |-> i]))

PivotSum(ev, rule, atoms) ==
    FoldLeft(LAMBDA sum, pivot : Plus(sum, Pivot(ev, rule, atoms, pivot)), Zero,
             SelectSeq([i \in DOMAIN atoms |-> i], LAMBDA i : DeltaOf(ev.deltas, atoms[i].rel) # Zero))

PositiveBindingDelta(rule, ev) == PivotSum(ev, rule, DeltaOrder(rule, ev.deltas))

(* build_negative_left_indexes: per negated atom, the keys and bindings.   *)
LeftIndexes(rule, bindings) ==
    LET atoms == NegatedAtoms(rule)
    IN [n \in DOMAIN atoms |-> {<<Instantiate(atoms[n].terms, b), b>> : b \in bindings}]

KeysBound(rule, bindings) ==
    \A b \in bindings : \A i \in DOMAIN NegatedAtoms(rule) : AllBound(NegatedAtoms(rule)[i].terms, b)

(* evaluate_rule_full: the bindings of the positive atoms, and what they   *)
(* give.                                                                   *)
FullBindings(rule, coll, arr) ==
    FilterGuards(rule,
      FoldLeft(LAMBDA bs, atom : JoinArranged(bs, atom, coll[atom.rel], arr, <<>>),
               UnitBinding, PositiveAtoms(rule)))

FullResult(rule, coll, bs) ==
    LET active == Keep(bs, {b \in DOMAIN bs : IsActive(rule, b, coll)})
        safe == HeadsBound(rule, bs) /\ KeysBound(rule, DOMAIN bs)
    IN [ok |-> safe, rows |-> Project(rule, active),
        left |-> [bindings |-> bs, index |-> IF safe THEN LeftIndexes(rule, DOMAIN bs) ELSE <<>>]]

RuleFull(rule, coll, arr) == FullResult(rule, coll, FullBindings(rule, coll, arr))

(* evaluate_rule_delta, for the changes of the positive bindings.          *)
RuleDelta(rule, positive) ==
    [ok |-> HeadsBound(rule, positive), rows |-> Project(rule, positive)]

(* evaluate_negated_rule_delta: the bindings touched on either side, what  *)
(* each contributed before and contributes now, and the left state after.  *)
Touched(rule, left, positive, deltas) ==
    DOMAIN positive \cup
      UNION {{p[2] : p \in {q \in left.index[n] : q[1] \in DOMAIN DeltaOf(deltas, NegatedAtoms(rule)[n].rel)}} :
               n \in DOMAIN NegatedAtoms(rule)}

NextIndex(rule, left, bindings, positive) ==
    LET came == {b \in DOMAIN positive : Weight(left.bindings, b) <= 0 /\ Weight(bindings, b) > 0}
        gone == {b \in DOMAIN positive : Weight(left.bindings, b) > 0 /\ Weight(bindings, b) <= 0}
    IN [n \in DOMAIN left.index |->
          (left.index[n] \ LeftIndexes(rule, gone)[n]) \cup LeftIndexes(rule, came)[n]]

NegatedRuleDelta(rule, left, positive, deltas, oldKeys, newKeys) ==
    LET bindings == Plus(left.bindings, positive)
        touched == Touched(rule, left, positive, deltas)
        Share(b, weights, keys) == IF IsActive(rule, b, keys) THEN Weight(weights, b) ELSE 0
        change == [b \in touched |-> Share(b, bindings, newKeys) - Share(b, left.bindings, oldKeys)]
        safe == HeadsBound(rule, positive) /\ KeysBound(rule, DOMAIN positive)
    IN [rows |-> Collect(Table([b \in touched |-> HeadRow(rule, b)]), change),
        ok |-> safe /\ \A b \in DOMAIN bindings : bindings[b] > 0,
        left |-> [bindings |-> bindings,
                  index |-> IF safe THEN NextIndex(rule, left, bindings, positive) ELSE <<>>]]

-----------------------------------------------------------------------------
(* Recursive components: rows that may have lost a derivation are taken    *)
(* away, then everything derivable is derived again.                       *)

Change(old, new, deltas, oldArr, newArr, traces) ==
    [old |-> old, new |-> new, deltas |-> deltas, oldArr |-> oldArr, newArr |-> newArr, traces |-> traces]
NoTraces == [r \in Relation |-> <<>>]

(* filter_active_negated_bindings and project_rule: the heads whose weight *)
(* has the sign, or BadRow where a negated atom is not bound.              *)
HeadsOf(rule, bs, rows, sign) ==
    IF ~ (NegationsBound(rule, bs, rows) /\ HeadsBound(rule, bs)) THEN {BadRow}
    ELSE LET found == Project(rule, Keep(bs, {b \in DOMAIN bs : IsActive(rule, b, rows)}))
         IN {row \in DOMAIN found : sign * found[row] > 0}

PerHead(component, rows) ==
    Table([r \in component.targets |->
             UNION {rows[i] : i \in {j \in DOMAIN component.rules : component.rules[j].head = r}}])

(* recursive_full_candidates and recursive_delta_candidates.               *)
NewRows(full, known) == IF full.ok THEN PositiveRows(full.rows) \ known ELSE {BadRow}

FullCandidates(component, coll, arr, derived) ==
    PerHead(component, Table([i \in DOMAIN component.rules |->
              NewRows(RuleFull(component.rules[i], coll, arr), derived[component.rules[i].head])]))

DeltaCandidates(component, ev, derived) ==
    PerHead(component, Table([i \in DOMAIN component.rules |->
              HeadsOf(component.rules[i], PositiveBindingDelta(component.rules[i], ev), ev.new, 1)
                \ derived[component.rules[i].head]]))

UpdateAll(arr, changes) ==
    [spec \in {x \in DOMAIN arr : x[1] \in DOMAIN changes} |-> Applied(arr[spec], changes[spec[1]])] @@ arr

(* overdelete_recursive_derivations: a frontier of retracted rows, the     *)
(* rows they may have supported, and so on.                                *)
Unsupported(component, ev, oldDerived, over) ==
    PerHead(component, Table([i \in DOMAIN component.rules |->
              HeadsOf(component.rules[i], PositiveBindingDelta(component.rules[i], ev), ev.old, -1)
                \cap (oldDerived[component.rules[i].head] \ over[component.rules[i].head])]))

RECURSIVE Overdelete(_, _, _, _, _, _, _)
Overdelete(component, oldDerived, stored, coll, arr, frontier, over) ==
    LET left == [r \in DOMAIN frontier |-> coll[r] \ DOMAIN frontier[r]] @@ coll
        leftArr == UpdateAll(arr, frontier)
        Continue(found) ==
            Overdelete(component, oldDerived, stored, left, leftArr,
                       Table([r \in component.targets |-> Table([row \in found[r] \ stored[r] |-> -1])]),
                       Table([r \in component.targets |-> over[r] \cup found[r]]))
    IN IF \A r \in DOMAIN frontier : frontier[r] = Zero THEN over
       ELSE Continue(Unsupported(component, Change(coll, left, frontier, arr, leftArr, NoTraces),
                                 oldDerived, over))

(* The loop that settles a frontier of newly derived rows.                 *)
RECURSIVE Rederive(_, _, _, _, _)
Rederive(component, coll, arr, derived, frontier) ==
    IF \/ \A r \in component.targets : frontier[r] = {}
       \/ \E r \in component.targets : BadRow \in frontier[r]
    THEN [coll |-> coll, derived |-> derived,
          ok |-> \A r \in component.targets : BadRow \notin frontier[r]]
    ELSE LET changes == Table([r \in component.targets |-> Ones(frontier[r])])
             more == [r \in component.targets |-> coll[r] \cup frontier[r]] @@ coll
             moreArr == UpdateAll(arr, changes)
             known == Table([r \in component.targets |-> derived[r] \cup frontier[r]])
         IN Rederive(component, more, moreArr, known,
                     DeltaCandidates(component, Change(coll, more, changes, arr, moreArr, NoTraces), known))

(* advance_recursive_component.  `m` is the maintained state, `stored` the *)
(* next stored facts, `changes` the fact changes of the commit, `st` the   *)
(* advance under way.                                                      *)
RetractsSeed(component, changes) ==
    \E r \in component.targets : \E row \in DOMAIN DeltaOf(changes, r) : DeltaOf(changes, r)[row] < 0
NegatedRelations(component) == {atom.rel : atom \in {x \in ComponentAtoms(component) : x.neg}}
PositiveRelations(component) == {atom.rel : atom \in {x \in ComponentAtoms(component) : ~ x.neg}}

OverdeletesAll(component, changes, deltas) ==
    \/ RetractsSeed(component, changes)
    \/ \E r \in NegatedRelations(component) :
          \E row \in DOMAIN DeltaOf(deltas, r) : DeltaOf(deltas, r)[row] > 0

Overdeleted(component, m, stored, changes, st) ==
    LET old == Table([r \in component.targets |-> PositiveRows(m.support[r])])
        retracted == Table([r \in PositiveRelations(component) |->
                              Keep(DeltaOf(st.deltas, r),
                                   {row \in DOMAIN DeltaOf(st.deltas, r) : DeltaOf(st.deltas, r)[row] < 0})])
    IN IF OverdeletesAll(component, changes, st.deltas) THEN old
       ELSE Overdelete(component, old, stored, m.coll, m.arr, retracted,
                       [r \in component.targets |-> {}])

NeedsFullSeed(component, over, deltas) ==
    \/ \E r \in component.targets : over[r] # {}
    \/ \E r \in NegatedRelations(component) : DeltaOf(deltas, r) # Zero

Rearranged(targets, m, st, coll) ==
    [spec \in {x \in DOMAIN st.arr : x[1] \in targets} |->
       Applied(m.arr[spec], SetDifferenceChanges(m.coll[spec[1]], coll[spec[1]]))] @@ st.arr

(* The collections once the overdeleted rows are gone, and all that can be *)
(* derived again from there.                                               *)
Rederived(component, m, stored, st, over) ==
    LET targets == component.targets
        remaining == Table([r \in targets |-> PositiveRows(m.support[r]) \ over[r]])
        settled == [r \in targets |-> IF remaining[r] = {} THEN stored[r]
                                      ELSE st.coll[r] \ (over[r] \ stored[r])] @@ st.coll
        arr == Rearranged(targets, m, st, settled)
        seeds == Table([r \in {x \in PositiveRelations(component) : m.coll[x] # settled[x]} |->
                          SetDifferenceChanges(m.coll[r], settled[r])])
    IN Rederive(component, settled, arr, remaining,
                IF NeedsFullSeed(component, over, st.deltas)
                THEN FullCandidates(component, settled, arr, remaining)
                ELSE DeltaCandidates(component, Change(m.coll, settled, seeds, m.arr, arr, NoTraces),
                                     remaining))

RecursiveState(targets, m, st, end) ==
    LET final == Table([r \in targets |-> SetDifferenceChanges(m.coll[r], end.coll[r])])
    IN [coll |-> [r \in targets |-> end.coll[r]] @@ st.coll,
        support |-> [r \in targets |-> Ones(end.derived[r])] @@ st.support,
        left |-> st.left,
        keys |-> [r \in targets \cap DOMAIN st.keys |-> Applied(m.keys[r], final[r])] @@ st.keys,
        arr |-> Rearranged(targets, m, st, end.coll),
        deltas |-> final @@ st.deltas,
        affected |-> st.affected \cup targets, ok |-> end.ok]

AdvanceRecursive(component, m, stored, changes, st) ==
    RecursiveState(component.targets, m, st,
                   Rederived(component, m, stored, st, Overdeleted(component, m, stored, changes, st)))

-----------------------------------------------------------------------------
(* The maintained state.                                                   *)

(* MaintainedState::initialize over the result of a complete evaluation.   *)
InitPlain(acc, component, index, target, full) ==
    IF \E i \in DOMAIN full : ~ full[i].ok THEN [acc EXCEPT !.ok = FALSE]
    ELSE LET support == FoldLeft(LAMBDA sum, one : Plus(sum, one.rows), Zero, full)
             negated == {<<index, i>> : i \in {j \in DOMAIN full : HasNegation(component.rules[j])}}
         IN [coll |-> Put(acc.coll, target, acc.coll[target] \cup PositiveRows(support)),
             support |-> Put(acc.support, target, support),
             left |-> [k \in negated |-> full[k[2]].left] @@ acc.left,
             ok |-> TRUE]

InitComponent(acc, component, index, complete) ==
    IF IsRecursive(component)
    THEN [acc EXCEPT !.support = [r \in component.targets |-> Ones(complete[r])] @@ @,
                     !.coll = [r \in component.targets |-> @[r] \cup complete[r]] @@ @]
    ELSE InitPlain(acc, component, index, CHOOSE r \in component.targets : TRUE,
                   Table([i \in DOMAIN component.rules |-> RuleFull(component.rules[i], acc.coll, <<>>)]))

NotMaintained == [program |-> NoProgram, requested |-> {}, coll |-> Zero, support |-> Zero,
                  derived |-> Zero, left |-> Zero, keys |-> Zero, arr |-> Zero, traces |-> Zero]

InitializedState(program, requested, complete, built) ==
    LET matches == \A r \in DOMAIN built.support : PositiveRows(built.support[r]) = complete[r]
    IN [ok |-> built.ok,
        state |-> IF ~ (built.ok /\ matches) THEN NotMaintained
                  ELSE [program |-> program, requested |-> requested,
                        coll |-> built.coll, support |-> built.support,
                        derived |-> [r \in program.targets |-> complete[r]],
                        left |-> built.left,
                        keys |-> [r \in program.negative |-> built.coll[r]],
                        arr |-> [spec \in program.specs |-> built.coll[spec[1]]],
                        traces |-> [r \in program.relations |-> <<Ones(built.coll[r])>>]]]

InitializeFrom(program, requested, stored, complete) ==
    LET start == [coll |-> [r \in program.relations |-> stored[r]], support |-> Zero,
                  left |-> Zero, ok |-> TRUE]
    IN InitializedState(program, requested, complete,
         FoldLeft(LAMBDA acc, i : IF acc.ok
                                  THEN InitComponent(acc, program.components[i], i, complete) ELSE acc,
                  start, [i \in DOMAIN program.components |-> i]))

(* set_presence_delta on the rows of one relation; `visible` is what is    *)
(* visible after the commit.                                               *)
SetPresence(coll, delta, touched, oldVisible, visible) ==
    LET came == {row \in touched : row \notin oldVisible /\ row \in visible}
        gone == {row \in touched : row \in oldVisible /\ row \notin visible}
    IN [coll |-> (coll \cup came) \ gone,
        delta |-> Ones(came) @@ [row \in gone |-> -1] @@ Keep(delta, DOMAIN delta \ touched)]

(* What both places that call it do with the outcome.                      *)
Present(st, m, r, presence) ==
    [st EXCEPT !.coll = Put(@, r, presence.coll), !.deltas = Put(@, r, presence.delta),
               !.arr = UpdateArrangements(@, r, presence.delta),
               !.keys = IF r \in DOMAIN m.keys
                        THEN Put(@, r, Applied(m.keys[r], presence.delta)) ELSE @]

(* The fact changes of one relation, applied under the old support.        *)
ApplyFacts(st, m, stored, r, rows) ==
    Present(st, m, r, SetPresence(st.coll[r], Zero, rows, st.coll[r],
                                  stored[r] \cup PositiveRows(DeltaOf(m.support, r))))

(* One non-recursive component.                                            *)
Contribution(m, component, index, i, ev, st) ==
    IF HasNegation(component.rules[i])
    THEN NegatedRuleDelta(component.rules[i], m.left[<<index, i>>],
                          PositiveBindingDelta(component.rules[i], ev), ev.deltas, m.keys, st.keys)
    ELSE RuleDelta(component.rules[i], PositiveBindingDelta(component.rules[i], ev))

PlainState(target, index, m, stored, changes, st, parts) ==
    IF \E i \in DOMAIN parts : ~ parts[i].ok THEN [st EXCEPT !.ok = FALSE]
    ELSE LET delta == FoldLeft(LAMBDA sum, part : Plus(sum, part.rows), Zero, parts)
             support == Plus(st.support[target], delta)
             touched == DOMAIN delta \cup DOMAIN DeltaOf(changes, target)
             presence == SetPresence(st.coll[target], DeltaOf(st.deltas, target), touched,
                                     m.coll[target], stored[target] \cup PositiveRows(support))
         IN [Present(st, m, target, presence) EXCEPT
               !.support = Put(@, target, support),
               !.left = [k \in {x \in DOMAIN @ : x[1] = index /\ x[2] \in DOMAIN parts} |->
                           parts[k[2]].left] @@ @,
               !.affected = @ \cup {target},
               !.ok = \A row \in DOMAIN support : support[row] > 0]

AdvancePlain(component, index, bodyChanged, m, stored, changes, st) ==
    LET ev == Change(m.coll, st.coll, st.deltas, m.arr, st.arr, m.traces)
    IN PlainState(CHOOSE r \in component.targets : TRUE, index, m, stored, changes, st,
                  IF bodyChanged
                  THEN Table([i \in DOMAIN component.rules |-> Contribution(m, component, index, i, ev, st)])
                  ELSE <<>>)

AdvanceComponent(st, m, index, stored, changes) ==
    LET component == m.program.components[index]
        bodyChanged == \E atom \in ComponentAtoms(component) : DeltaOf(st.deltas, atom.rel) # Zero
        targetChanged == component.targets \cap DOMAIN changes # {}
    IN IF ~ st.ok \/ (~ bodyChanged /\ ~ targetChanged) THEN st
       ELSE IF IsRecursive(component) THEN AdvanceRecursive(component, m, stored, changes, st)
       ELSE AdvancePlain(component, index, bodyChanged, m, stored, changes, st)

(* Trace::append, which starts over from the current rows once the batches *)
(* are many or hold a quarter of the base.                                 *)
AppendTraceDropping(trace, delta, current) ==
    LET batches == Append(Tail(trace), delta)
        rows == FoldLeft(LAMBDA n, batch : n + Cardinality(DOMAIN batch), 0, batches)
    IN IF Len(batches) >= CompactionBatches \/ 4 * rows >= Cardinality(DOMAIN trace[1])
       THEN <<trace[1]>> ELSE <<trace[1]>> \o batches

AppendTrace(trace, delta, current) ==
    LET batches == Append(Tail(trace), delta)
        rows == FoldLeft(LAMBDA n, batch : n + Cardinality(DOMAIN batch), 0, batches)
    IN IF Len(batches) >= CompactionBatches \/ 4 * rows >= Cardinality(DOMAIN trace[1])
       THEN <<Ones(current)>> ELSE <<trace[1]>> \o batches

(* MaintainedState::advance.                                               *)
AdvanceSupport(m, stored, changes) ==
    LET start == [coll |-> m.coll, support |-> m.support, left |-> m.left, keys |-> m.keys,
                  arr |-> m.arr, deltas |-> Zero, affected |-> {}, ok |-> TRUE]
        facts == FoldLeft(LAMBDA st, r : ApplyFacts(st, m, stored, r, DOMAIN changes[r]), start,
                          SetToSortSeq(DOMAIN changes \cap m.program.relations, <))
    IN FoldLeft(LAMBDA st, i : AdvanceComponent(st, m, i, stored, changes), facts,
                [i \in DOMAIN m.program.components |-> i])

AdvancedState(m, st) ==
    LET Gained(r) == PositiveRows(st.support[r]) \ PositiveRows(m.support[r])
        Lost(r) == PositiveRows(m.support[r]) \ PositiveRows(st.support[r])
    IN [ok |-> st.ok,
        visible |-> st.deltas,
        state |-> [m EXCEPT
          !.coll = st.coll, !.support = st.support, !.left = st.left, !.keys = st.keys, !.arr = st.arr,
          !.traces = [r \in DOMAIN @ |-> IF DeltaOf(st.deltas, r) = Zero THEN @[r]
                                         ELSE AppendTrace(@[r], st.deltas[r], st.coll[r])],
          !.derived = [r \in DOMAIN @ |->
                         IF r \in st.affected THEN (@[r] \ Lost(r)) \cup Gained(r) ELSE @[r]]]]

Advance(m, stored, changes) == AdvancedState(m, AdvanceSupport(m, stored, changes))
==============================================================================
