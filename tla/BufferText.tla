----------------------------- MODULE BufferText ------------------------------
(***************************************************************************)
(* The text of a buffer: an immutable balanced tree whose leaves are       *)
(* pieces of chunks.  Edits split and join trees; positions, lines and     *)
(* searches walk them.  A scalar is a member of Scalar, NL the line feed.  *)
(***************************************************************************)
EXTENDS Integers, Sequences

CONSTANTS
    Scalar, NL,
    ChunkSize,      \* CHUNK_BYTES, in scalars
    MaxLen,         \* bound on the length of the text
    Inserted        \* texts an edit may insert

VARIABLES
    root,           \* Text::root
    text            \* ghost: the characters the text must have

vars == <<root, text>>

Newlines(s) == Len(SelectSeq(s, LAMBDA c : c = NL))

Empty == [height |-> 0, scalars |-> 0, newlines |-> 0, piece |-> <<>>]
Leaf(s) == [height |-> 1, scalars |-> Len(s), newlines |-> Newlines(s), piece |-> s]

Branch(l, r) ==
    [height |-> 1 + (IF l.height > r.height THEN l.height ELSE r.height),
     scalars |-> l.scalars + r.scalars, newlines |-> l.newlines + r.newlines,
     left |-> l, right |-> r]

IsLeaf(n) == n.height = 1

BalanceNot(l, r) == Branch(l, r)
Balance(l, r) ==
    CASE l.height > r.height + 1 /\ l.left.height >= l.right.height ->
           Branch(l.left, Branch(l.right, r))
      [] l.height > r.height + 1 /\ l.left.height < l.right.height ->
           Branch(Branch(l.left, l.right.left), Branch(l.right.right, r))
      [] r.height > l.height + 1 /\ r.right.height >= r.left.height ->
           Branch(Branch(l, r.left), r.right)
      [] r.height > l.height + 1 /\ r.right.height < r.left.height ->
           Branch(Branch(l, r.left.left), Branch(r.left.right, r.right))
      [] OTHER -> Branch(l, r)

RECURSIVE Join(_, _)
Join(l, r) ==
    CASE l = Empty -> r
      [] r = Empty -> l
      [] l # Empty /\ r # Empty /\ l.height > r.height + 1 ->
           Balance(l.left, Join(l.right, r))
      [] l # Empty /\ r # Empty /\ r.height > l.height + 1 ->
           Balance(Join(l, r.left), r.right)
      [] OTHER -> Branch(l, r)

(* <<tree of the first at scalars, tree of the rest>>                      *)
RECURSIVE Split(_, _)
Split(n, at) ==
    CASE at = 0 -> <<Empty, n>>
      [] at = n.scalars -> <<n, Empty>>
      [] at \notin {0, n.scalars} /\ IsLeaf(n) ->
           <<Leaf(SubSeq(n.piece, 1, at)), Leaf(SubSeq(n.piece, at + 1, Len(n.piece)))>>
      [] OTHER ->
           IF at < n.left.scalars
             THEN LET s == Split(n.left, at) IN <<s[1], Join(s[2], n.right)>>
             ELSE LET s == Split(n.right, at - n.left.scalars)
                  IN <<Join(n.left, s[1]), s[2]>>

RECURSIVE FromText(_)
FromText(s) ==
    IF Len(s) <= ChunkSize THEN IF s = <<>> THEN Empty ELSE Leaf(s)
    ELSE LET last == ((Len(s) - 1) \div ChunkSize) * ChunkSize
         IN Join(FromText(SubSeq(s, 1, last)), Leaf(SubSeq(s, last + 1, Len(s))))

ReplaceKeeps(n, from, to, s) ==
    LET parts == Split(n, from) IN Join(Join(parts[1], FromText(s)), parts[2])
Replace(n, from, to, s) ==
    IF from = to /\ s = <<>> THEN n
    ELSE LET parts == Split(n, from)
         IN Join(Join(parts[1], FromText(s)), Split(parts[2], to - from)[2])

(* append_range over the whole tree.                                       *)
RECURSIVE ToText(_)
ToText(n) ==
    CASE n = Empty -> <<>>
      [] n # Empty /\ IsLeaf(n) -> n.piece
      [] OTHER -> ToText(n.left) \o ToText(n.right)

(* visit_range: the scalars of a range, descending only where it reaches.  *)
RECURSIVE Slice(_, _, _)
Slice(n, from, to) ==
    CASE from >= to -> <<>>
      [] from < to /\ IsLeaf(n) -> SubSeq(n.piece, from + 1, to)
      [] OTHER ->
           LET k == n.left.scalars
               cut == IF to < k THEN to ELSE k
               rest == IF from < k THEN 0 ELSE from - k
           IN (IF from < k THEN Slice(n.left, from, cut) ELSE <<>>) \o
              (IF to > k THEN Slice(n.right, rest, to - k) ELSE <<>>)

NewlineIn(s, index) == CHOOSE i \in DOMAIN s : s[i] = NL /\ Newlines(SubSeq(s, 1, i)) = index + 1

RECURSIVE NewlinePosition(_, _)
NewlinePosition(n, index) ==
    IF IsLeaf(n) THEN NewlineIn(n.piece, index) - 1
    ELSE IF index < n.left.newlines THEN NewlinePosition(n.left, index)
    ELSE n.left.scalars + NewlinePosition(n.right, index - n.left.newlines)

RECURSIVE NewlinesBefore(_, _)
NewlinesBefore(n, position) ==
    IF n = Empty THEN 0
    ELSE IF IsLeaf(n) THEN Newlines(SubSeq(n.piece, 1, position))
    ELSE IF position <= n.left.scalars THEN NewlinesBefore(n.left, position)
    ELSE n.left.newlines + NewlinesBefore(n.right, position - n.left.scalars)

LineCount(n) == n.newlines + 1
LineStart(n, line) == IF line = 0 THEN 0 ELSE NewlinePosition(n, line - 1) + 1
LineColumn(n, position) ==
    LET line == NewlinesBefore(n, position) IN <<line, position - LineStart(n, line)>>
LineSpanWithFeed(n, line) ==
    <<LineStart(n, line),
      IF line + 1 < LineCount(n) THEN LineStart(n, line + 1) ELSE n.scalars>>
LineSpan(n, line) ==
    <<LineStart(n, line),
      IF line + 1 < LineCount(n) THEN LineStart(n, line + 1) - 1 ELSE n.scalars>>

(* find: the failure function of the pattern, then one pass over the       *)
(* window.  A search that finds nothing gives -1.                          *)
RECURSIVE Matched(_, _, _, _)
MatchedOnce(p, prefixes, matched, c) ==
    LET k == IF matched > 0 /\ c # p[matched + 1] THEN prefixes[matched] ELSE matched
    IN IF c = p[k + 1] THEN k + 1 ELSE k
Matched(p, prefixes, matched, c) ==
    IF matched > 0 /\ c # p[matched + 1] THEN Matched(p, prefixes, prefixes[matched], c)
    ELSE IF c = p[matched + 1] THEN matched + 1 ELSE matched

RECURSIVE Prefixes(_, _)
Prefixes(p, k) ==
    IF k = 1 THEN <<0>>
    ELSE LET f == Prefixes(p, k - 1) IN Append(f, Matched(p, f, f[k - 1], p[k]))

WindowEnd(n, from, limit) ==
    IF limit = 0 \/ from + limit > n.scalars THEN n.scalars ELSE from + limit

RECURSIVE Scan(_, _, _, _, _)
Scan(p, f, window, i, matched) ==
    IF i > Len(window) THEN -1
    ELSE LET m == Matched(p, f, matched, window[i])
         IN IF m = Len(p) THEN i - m ELSE Scan(p, f, window, i + 1, m)

Find(n, p, from, limit) ==
    IF p = <<>> \/ from >= n.scalars THEN -1
    ELSE LET at == Scan(p, Prefixes(p, Len(p)), Slice(n, from, WindowEnd(n, from, limit)), 1, 0)
         IN IF at = -1 THEN -1 ELSE from + at

-----------------------------------------------------------------------------
Init == root = Empty /\ text = <<>>

(* One edit, whose range has been validated.                               *)
Edit(from, to, s) ==
    /\ from <= to /\ to <= root.scalars
    /\ root.scalars - (to - from) + Len(s) <= MaxLen
    /\ root' = Replace(root, from, to, s)
    /\ text' = SubSeq(text, 1, from) \o s \o SubSeq(text, to + 1, Len(text))

Next == \E from, to \in 0..MaxLen, s \in Inserted : Edit(from, to, s)

Spec == Init /\ [][Next]_vars

-----------------------------------------------------------------------------
(* After any sequence of Text::replace the tree has the characters the     *)
(* edits ask for, and Text::slice returns its part of them.                *)
ContentAgrees ==
    /\ ToText(root) = text
    /\ root.scalars = Len(text)
    /\ \A i \in 0..Len(text) : \A j \in i..Len(text) :
         Slice(root, i, j) = SubSeq(text, i + 1, j)

(* join, split and balance keep the tree balanced and its counts right, so   *)
(* every walk is logarithmic.                                              *)
RECURSIVE WellFormed(_)
WellFormed(n) ==
    IF n.height <= 1 THEN n.newlines = Newlines(n.piece) /\ n.scalars = Len(n.piece)
    ELSE /\ n.left.height - n.right.height \in -1..1
         /\ n.left # Empty /\ n.right # Empty
         /\ WellFormed(n.left) /\ WellFormed(n.right)
Balanced == WellFormed(root)

(* line_start, line_column and line_span agree with counting line feeds.   *)
LinesAgree ==
    /\ LineCount(root) = Newlines(text) + 1
    /\ \A p \in 0..Len(text) :
         LET before == SubSeq(text, 1, p)
             lc == LineColumn(root, p)
         IN /\ lc[1] = Newlines(before)
            /\ lc[2] \in 0..p
            /\ Newlines(SubSeq(text, p - lc[2] + 1, p)) = 0
            /\ lc[2] = p \/ text[p - lc[2]] = NL
    /\ \A line \in 0..Newlines(text) :
         LET span == LineSpan(root, line)
         IN /\ Newlines(SubSeq(text, 1, span[1])) = line
            /\ Newlines(SubSeq(text, span[1] + 1, span[2])) = 0
            /\ span[2] = Len(text) \/ text[span[2] + 1] = NL

(* Text::find returns the first occurrence that lies in the window,  *)
(* even across pieces and for patterns that overlap themselves.            *)
Occurs(p, i, stop) == i + Len(p) <= stop /\ SubSeq(text, i + 1, i + Len(p)) = p
FindAgrees ==
    \A p \in UNION {[1..k -> Scalar] : k \in 1..3}, from \in 0..Len(text), limit \in 0..3 :
      LET at == Find(root, p, from, limit)
          stop == WindowEnd(root, from, limit)
          found == {i \in from..Len(text) : Occurs(p, i, stop)}
      IN IF found = {} THEN at = -1 ELSE at \in found /\ \A i \in found : at <= i
=============================================================================
