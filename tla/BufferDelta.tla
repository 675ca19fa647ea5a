---------------------------- MODULE BufferDelta ------------------------------
(***************************************************************************)
(* Two views of a buffer's text are edited from one base; their deltas are *)
(* derived, compared and rebased over one another (Deltas).                *)
(***************************************************************************)
EXTENDS Deltas

CONSTANTS
    BaseTexts,      \* texts the two views start from
    MaxEdits,       \* edits of each view
    Lengths         \* lengths of inserted texts

VARIABLES
    base,           \* the text both start from
    view,           \* own pending text
    latest,         \* the text published meanwhile
    edits           \* number of edits of each of them

vars == <<base, view, latest, edits>>

Init ==
    /\ base \in BaseTexts
    /\ view = base /\ latest = base
    /\ edits = [own |-> 0, other |-> 0]

(* One edit of a view brings a chunk of its own.                           *)
Chunk(who, n, len) == [i \in 1..len |-> [chunk |-> <<who, n>>, place |-> i]]

Edited(t, from, to, who, n, len) ==
    ReplaceText(t, Replacement(from, to, Chunk(who, n, len)))

EditOwn(from, to, len) ==
    /\ edits.own < MaxEdits
    /\ to <= Len(view)
    /\ view' = Edited(view, from, to, "own", edits.own, len)
    /\ edits' = [edits EXCEPT !.own = @ + 1]
    /\ UNCHANGED <<base, latest>>

EditOther(from, to, len) ==
    /\ edits.other < MaxEdits
    /\ to <= Len(latest)
    /\ latest' = Edited(latest, from, to, "other", edits.other, len)
    /\ edits' = [edits EXCEPT !.other = @ + 1]
    /\ UNCHANGED <<base, view>>

Positions == 0..7

Next ==
    \E from \in Positions : \E to \in {p \in Positions : p >= from}, len \in Lengths :
       /\ from < to \/ len > 0
       /\ EditOwn(from, to, len) \/ EditOther(from, to, len)

Spec == Init /\ [][Next]_vars

-----------------------------------------------------------------------------
Own == Between(base, view)
Concurrent == Between(base, latest)
Merged == Apply(TransformAfter(Own, Concurrent), latest)

(* Delta::between followed by Delta::apply gives the view back, whatever   *)
(* cuts and insertions made it, and the delta is in the normal form that   *)
(* conflicts and transform_after rely on.                                  *)
DeltaReproduces ==
    /\ ~Walked(base, view).foreign
    /\ Apply(Own, base) = view
    /\ Own = Normal(Own)

(* What a replacement claims of the base: scalars, and the gaps between.   *)
Claims(d) ==
    UNION {IF IsInsertion(d[k]) THEN {2 * d[k].from}
           ELSE (2 * d[k].from + 1)..(2 * d[k].to - 1) : k \in DOMAIN d}

(* Delta::conflicts, a scan of both sides whose index only moves forward,  *)
(* finds a conflict exactly when both deltas claim the same scalar or gap. *)
ConflictsExact ==
    Conflicts(Own, Concurrent) <=> Claims(Own) \cap Claims(Concurrent) # {}

(* A change rebased by transform_after keeps both sides' work: without one *)
(* side's insertions the merged text is the other side's text without what *)
(* the one removed.                                                        *)
Without(t, who) == SelectSeq(t, LAMBDA c : c.chunk[1] # who)
MergeKeepsBoth ==
    ~Conflicts(Own, Concurrent) =>
       /\ Without(Merged, "own") = SelectSeq(latest, LAMBDA c : c.chunk[1] = "other" \/ Has(view, c))
       /\ Without(Merged, "other") = SelectSeq(view, LAMBDA c : c.chunk[1] = "own" \/ Has(latest, c))

(* Two changes that do not conflict give the same text whichever of them   *)
(* commits first and whichever is rebased by transform_after.              *)
OrdersConverge ==
    ~Conflicts(Own, Concurrent) =>
       Merged = Apply(TransformAfter(Concurrent, Own), view)

(* rebase_marker keeps a marker between the scalars it was between: those  *)
(* before it in the base that survive are before it in the view, those     *)
(* after it are after, and two markers keep their order.                   *)
MarkersStay ==
    \A p \in 0..Len(base), affinity \in {"before", "after"} :
       LET q == RebaseMarker(Own, p, affinity)
       IN /\ q \in 0..Len(view)
          /\ \A i \in DOMAIN view : Has(base, view[i]) =>
               (i <= q <=> Offset(base, view[i]) < p)
          /\ p > 0 => q >= RebaseMarker(Own, p - 1, affinity)
=============================================================================
