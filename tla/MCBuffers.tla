------------------------------ MODULE MCBuffers ------------------------------
(***************************************************************************)
(* Text buffers on small instances.  "text" edits one text in chunks of    *)
(* two scalars; "delta" edits two views of a base of three scalars, whole  *)
(* or with the gap an earlier cut left; the other scenarios run            *)
(* transactions on one buffer, or on two that compete for a name or of     *)
(* which one is volatile.                                                  *)
(***************************************************************************)
EXTENDS Integers, Sequences, TLC

CONSTANTS t1, t2, k0, k1, k2, k3, None

VARIABLES
    scenario,
    root, text,
    base, view, latest, edits,
    buffers, version, tx, commit, results, history, disk, queue, begins,
    restarts, named

textVars == <<root, text>>
deltaVars == <<base, view, latest, edits>>
storeVars == <<buffers, version, tx, commit, results, history, disk, queue,
               begins, restarts, named>>
vars == <<scenario, textVars, deltaVars, storeVars>>

MCSymmetry == Permutations({t1, t2}) \cup Permutations({k1, k2, k3})

MCInserted == {<<>>, <<"a">>, <<"n", "a">>, <<"a", "a", "n">>}
Text == INSTANCE BufferText WITH
    Scalar <- {"a", "n"}, NL <- "n", ChunkSize <- 2, MaxLen <- 6,
    Inserted <- MCInserted

Cell(i) == [chunk |-> <<"base", 0>>, place |-> i]
MCBaseTexts == {<<Cell(1), Cell(2), Cell(3)>>, <<Cell(1), Cell(3), Cell(4)>>}
Delta == INSTANCE BufferDelta WITH
    BaseTexts <- MCBaseTexts, MaxEdits <- 2, Lengths <- {0, 1}

OneSpan == [i \in {1} |-> "span"]
OneWhole == [i \in {1} |-> "whole"]
OneName == [i \in {1} |-> "n"]
TwoReject == [i \in {1, 2} |-> "reject"]
SameName == [i \in {1, 2} |-> "n"]
TwoSpan == [i \in {1, 2} |-> "span"]
OwnName == [i \in {1, 2} |-> i]

Span == INSTANCE Buffers WITH
    Id <- {1}, Tx <- {t1, t2}, Token <- {k0}, NameOf <- OneName, Policy <- OneSpan,
    Volatile <- {}, Existing <- {1}, Ops <- {"replace", "delete", "compact", "revert"},
    Strict <- FALSE, MaxResults <- 2, MaxResultBytes <- 4, HistoryDepth <- 2,
    HistoryBuffers <- 1, MaxDeltas <- 2, MaxRevision <- 3, MaxBegins <- 3, MaxRestarts <- 0

Client == INSTANCE Buffers WITH
    Id <- {1}, Tx <- {t1, t2}, Token <- {k1, k2, k3}, NameOf <- OneName, Policy <- OneSpan,
    Volatile <- {}, Existing <- {1}, Ops <- {"apply", "delete"},
    Strict <- TRUE, MaxResults <- 2, MaxResultBytes <- 3, HistoryDepth <- 1,
    HistoryBuffers <- 1, MaxDeltas <- 2, MaxRevision <- 2, MaxBegins <- 3, MaxRestarts <- 0

Whole == INSTANCE Buffers WITH
    Id <- {1}, Tx <- {t1, t2}, Token <- {k0}, NameOf <- OneName, Policy <- OneWhole,
    Volatile <- {}, Existing <- {1}, Ops <- {"apply"},
    Strict <- TRUE, MaxResults <- 2, MaxResultBytes <- 4, HistoryDepth <- 2,
    HistoryBuffers <- 1, MaxDeltas <- 2, MaxRevision <- 3, MaxBegins <- 2, MaxRestarts <- 0

Names == INSTANCE Buffers WITH
    Id <- {1, 2}, Tx <- {t1, t2}, Token <- {k0}, NameOf <- SameName, Policy <- TwoReject,
    Volatile <- {}, Existing <- {}, Ops <- {"create", "replace", "delete"},
    Strict <- TRUE, MaxResults <- 2, MaxResultBytes <- 4, HistoryDepth <- 2,
    HistoryBuffers <- 1, MaxDeltas <- 2, MaxRevision <- 3, MaxBegins <- 3, MaxRestarts <- 0

Restarts == INSTANCE Buffers WITH
    Id <- {1, 2}, Tx <- {t1}, Token <- {k0}, NameOf <- OwnName, Policy <- TwoSpan,
    Volatile <- {2}, Existing <- {1, 2}, Ops <- {"replace"},
    Strict <- TRUE, MaxResults <- 2, MaxResultBytes <- 4, HistoryDepth <- 2,
    HistoryBuffers <- 1, MaxDeltas <- 2, MaxRevision <- 2, MaxBegins <- 3, MaxRestarts <- 1

Relaxed == INSTANCE Buffers WITH
    Id <- {1}, Tx <- {t1, t2}, Token <- {k0}, NameOf <- OneName, Policy <- OneSpan,
    Volatile <- {}, Existing <- {1}, Ops <- {"replace", "delete"},
    Strict <- FALSE, MaxResults <- 2, MaxResultBytes <- 4, HistoryDepth <- 2,
    HistoryBuffers <- 1, MaxDeltas <- 2, MaxRevision <- 3, MaxBegins <- 2, MaxRestarts <- 1

Scenarios == {"text", "delta", "span", "client", "whole", "names", "restarts", "relaxed"}

Init ==
    /\ scenario \in Scenarios
    /\ Text!Init
    /\ IF scenario = "delta" THEN Delta!Init
       ELSE base = <<>> /\ view = <<>> /\ latest = <<>> /\ edits = <<>>
    /\ CASE scenario = "client" -> Client!Init
         [] scenario = "whole" -> Whole!Init
         [] scenario = "names" -> Names!Init
         [] scenario = "restarts" -> Restarts!Init
         [] scenario = "relaxed" -> Relaxed!Init
         [] OTHER -> Span!Init

StoreNext ==
    \/ scenario = "span" /\ Span!Next
    \/ scenario = "client" /\ Client!Next
    \/ scenario = "whole" /\ Whole!Next
    \/ scenario = "names" /\ Names!Next
    \/ scenario = "restarts" /\ Restarts!Next
    \/ scenario = "relaxed" /\ Relaxed!Next

Next ==
    /\ UNCHANGED scenario
    /\ \/ scenario = "text" /\ Text!Next /\ UNCHANGED <<deltaVars, storeVars>>
       \/ scenario = "delta" /\ Delta!Next /\ UNCHANGED <<textVars, storeVars>>
       \/ StoreNext /\ UNCHANGED <<textVars, deltaVars>>

Spec == Init /\ [][Next]_vars

-----------------------------------------------------------------------------
(* After any sequence of Text::replace the tree has the characters the     *)
(* edits ask for and stays balanced, its lines are those between line      *)
(* feeds, and Text::find returns the first occurrence in its window.       *)
TextExact ==
    scenario = "text" => /\ Text!ContentAgrees /\ Text!Balanced
                         /\ Text!LinesAgree /\ Text!FindAgrees

(* Delta::between and apply give a view back; Delta::conflicts finds a     *)
(* conflict exactly when both deltas claim a scalar or gap; without one,   *)
(* transform_after keeps both sides' work and the order does not matter;   *)
(* rebase_marker keeps a marker between its scalars.                       *)
DeltasMerge ==
    scenario = "delta" => /\ Delta!DeltaReproduces /\ Delta!ConflictsExact
                          /\ Delta!MergeKeepsBoth /\ Delta!OrdersConverge
                          /\ Delta!MarkersStay

(* A revision number stands for one text, whatever commits, compactions    *)
(* and restarts happen; no commit under Reject or Span drops a scalar that *)
(* was published after the transaction began; the history ring holds the   *)
(* predecessor; names stay unique and reserved after deletion; the store   *)
(* loads what commits wrote.                                               *)
RevisionsExact ==
    /\ scenario = "span" => /\ Span!RevisionNamesText /\ Span!NoLostEdit
                            /\ Span!ReadersSeePredecessor
    /\ scenario = "whole" => Whole!DiskAgrees
    /\ scenario = "names" => Names!NamesUnique /\ Names!DiskAgrees
    /\ scenario = "restarts" => Restarts!RevisionNamesText /\ Restarts!DiskAgrees
    /\ scenario = "relaxed" => Relaxed!DiskAgrees

(* The delta of an ok result rebuilds, from the text the client had, the   *)
(* text published at the revision the result names; a token is pending     *)
(* exactly while an open transaction holds it; complete_buffer_applies     *)
(* finds every tagged buffer live, as it asserts.                          *)
ResultsExact ==
    scenario = "client" => /\ Client!OkRebuilds /\ Client!TokensSettle
                           /\ Client!TaggedStaysLive

(* A settled result leaves only when room was needed, the oldest first.    *)
EvictedOnlyWhenFull == [][scenario = "client" => Client!EvictionJustified]_vars
=============================================================================
