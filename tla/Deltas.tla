------------------------------- MODULE Deltas --------------------------------
(***************************************************************************)
(* Deltas of a buffer's text.  A text is a sequence of scalars that know   *)
(* where they come from: the chunk that brought them and their place in    *)
(* it.  A delta is a sequence of replacements in the coordinates of one    *)
(* base, sorted and disjoint.  Positions count the scalars before them.    *)
(***************************************************************************)
EXTENDS Integers, Sequences, SequencesExt

Replacement(from, to, s) == [from |-> from, to |-> to, text |-> s]

(* The scalar c is at this offset of the text, counting from 0.            *)
Offset(t, c) == (CHOOSE i \in DOMAIN t : t[i] = c) - 1
Has(t, c) == \E i \in DOMAIN t : t[i] = c
Chunks(t) == {t[i].chunk : i \in DOMAIN t}

Flush(d, cursor, to) ==
    IF cursor = to /\ d.inserted = <<>> THEN d.out
    ELSE Append(d.out, Replacement(cursor, to, d.inserted))

(* Delta::between: walk the view, keep what the base has, collect the      *)
(* rest.  Text that was cut from the base's chunks is foreign.             *)
Walk(b, d, c) ==
    IF c.chunk \notin Chunks(b) THEN [d EXCEPT !.inserted = Append(@, c)]
    ELSE IF ~Has(b, c) THEN [d EXCEPT !.foreign = TRUE]
    ELSE IF Offset(b, c) < d.cursor THEN [d EXCEPT !.foreign = TRUE]
    ELSE [out |-> Flush(d, d.cursor, Offset(b, c)), cursor |-> Offset(b, c) + 1,
          inserted |-> <<>>, foreign |-> d.foreign]

Walked(b, v) ==
    FoldLeft(LAMBDA d, c : Walk(b, d, c),
             [out |-> <<>>, cursor |-> 0, inserted |-> <<>>, foreign |-> FALSE], v)

Between(b, v) ==
    LET d == Walked(b, v)
    IN Flush(d, d.cursor, Len(b))

ReplaceText(t, r) == SubSeq(t, 1, r.from) \o r.text \o SubSeq(t, r.to + 1, Len(t))

(* Delta::apply, from the last replacement to the first.                   *)
ApplyForward(d, t) == FoldLeft(ReplaceText, t, d)
Apply(d, t) == FoldRight(LAMBDA r, acc : ReplaceText(acc, r), d, t)

(* Delta::new: drops what does nothing and joins neighbours.               *)
Add(out, r) ==
    IF r.from = r.to /\ r.text = <<>> THEN out
    ELSE IF out # <<>> /\ Last(out).to = r.from
      THEN Append(Front(out), Replacement(Last(out).from, r.to, Last(out).text \o r.text))
      ELSE Append(out, r)
Normal(rs) == FoldLeft(Add, <<>>, rs)

IsInsertion(r) == r.from = r.to

ReplacementsTouch(l, r) == l.from <= r.to /\ r.from <= l.to
ReplacementsConflict(l, r) ==
    CASE IsInsertion(l) /\ IsInsertion(r) -> l.from = r.from
      [] IsInsertion(l) /\ ~IsInsertion(r) -> r.from < l.from /\ l.from < r.to
      [] ~IsInsertion(l) /\ IsInsertion(r) -> l.from < r.from /\ r.from < l.to
      [] OTHER -> l.from < r.to /\ r.from < l.to

(* Delta::conflicts: both sides in order, with one index that only moves   *)
(* forward past replacements that end before the current one starts.       *)
SkipTouching(other, first, l) ==
    LET ends == {k \in first..Len(other) : other[k].to > l.from}
    IN IF ends = {} THEN Len(other) + 1 ELSE CHOOSE k \in ends : \A j \in ends : k <= j
Skip(other, first, l) ==
    LET ends == {k \in first..Len(other) : other[k].to >= l.from}
    IN IF ends = {} THEN Len(other) + 1 ELSE CHOOSE k \in ends : \A j \in ends : k <= j

MeetsFrom(other, first, l) ==
    \E k \in first..Len(other) :
       /\ \A j \in first..k : other[j].from <= l.to
       /\ ReplacementsConflict(l, other[k])

Conflicts(own, other) ==
    FoldLeft(LAMBDA s, l : LET f == Skip(other, s.first, l)
                           IN [first |-> f, found |-> s.found \/ MeetsFrom(other, f, l)],
             [first |-> 1, found |-> FALSE], own).found

(* shift and transform_after.                                              *)
CountsEarly(r, position, start) == r.to < position \/ (r.to = position /\ start)
Counts(r, position, start) ==
    r.to < position \/ (r.to = position /\ (start \/ ~IsInsertion(r)))

Shift(d, position, start) ==
    FoldLeft(LAMBDA p, r : IF Counts(r, position, start)
                             THEN p - (r.to - r.from) + Len(r.text) ELSE p,
             position, d)

TransformAfter(own, concurrent) ==
    Normal([i \in DOMAIN own |->
              Replacement(Shift(concurrent, own[i].from, TRUE),
                          Shift(concurrent, own[i].to, FALSE), own[i].text)])

(* rebase_marker.                                                          *)
MarkerStepForgets(m, r, position, affinity) ==
    IF m.done \/ position <= r.from THEN [m EXCEPT !.done = TRUE]
    ELSE IF position < r.to THEN [m EXCEPT !.done = TRUE, !.at = r.from]
    ELSE [m EXCEPT !.removed = @ + (r.to - r.from)]
MarkerStep(m, r, position, affinity) ==
    IF m.done THEN m
    ELSE IF IsInsertion(r)
      THEN IF r.from < position \/ (r.from = position /\ affinity = "after")
             THEN [m EXCEPT !.inserted = @ + Len(r.text)] ELSE m
    ELSE IF position <= r.from THEN [m EXCEPT !.done = TRUE]
    ELSE IF position < r.to
      THEN [m EXCEPT !.done = TRUE, !.at = r.from]
    ELSE [m EXCEPT !.removed = @ + (r.to - r.from), !.inserted = @ + Len(r.text)]

RebaseMarker(d, position, affinity) ==
    LET m == FoldLeft(LAMBDA acc, r : MarkerStep(acc, r, position, affinity),
                      [removed |-> 0, inserted |-> 0, at |-> position, done |-> FALSE], d)
    IN m.at - m.removed + m.inserted
=============================================================================
