--------------------------- MODULE ViewSyncProofs ---------------------------
(***************************************************************************)
(* Proofs about ViewSync: for every set of trees, any number of handlers   *)
(* that take messages, every host and every bound.                         *)
(***************************************************************************)
EXTENDS ViewSync, FiniteSetTheorems, SequenceTheorems, TLAPS

USE ZenonT(5), SMTT(20)

(***************************************************************************)
(* The inductive invariants.                                               *)
(***************************************************************************)

(* Every signature, in the browser, in the host's record and its copies,   *)
(* queued or on the wire, stands for the tree that comes with it.          *)
Signed(e) ==
    /\ e.sig = Sig(e.rev, e.tree) /\ e.tree \in Tree
    /\ e.bsig = Sig(e.brev, e.from)

Kept(v) == v.ssig = Sig(v.srev, v.tree)

FaithInv ==
    /\ ClientFaithful /\ client.shown \in Tree
    /\ Kept(view)
    /\ \A p \in Handler : /\ Kept(handler[p].copy)
                          /\ handler[p].at = "rendered" => handler[p].tree \in Tree
    /\ \A i \in DOMAIN queue : Signed(queue[i])
    /\ \A i \in DOMAIN wire : Signed(wire[i])

(* At most one handler registers, and the flags say so.                    *)
RegisterInv ==
    /\ view.subs = "initialized" <=> sub = "mapped"
    /\ sub = "live" => view.subs = "initializing"
    /\ view.subs = "initializing" <=> \E p \in Handler : Subscribing(p)
    /\ \A p, q \in Handler : Subscribing(p) /\ Subscribing(q) => p = q

(* A host that forgot the session has done nothing for it before it        *)
(* learned the browser's revision, and counts from there.                  *)
Counts(h) ==
    CASE h.at = "idle" -> TRUE
      [] h.at = "subscribing" -> h.msg.kind = "need"
      [] h.at = "resubscribing" -> TRUE
      [] h.at \in {"render", "rendered"} ->
            \/ h.why = "need" /\ h.rev >= client.rev
            \/ h.why = "refresh" /\ h.copy.crev >= client.rev
      [] OTHER -> FALSE

Ahead(s) == \A i \in DOMAIN s : s[i].kind = "snapshot" => s[i].rev >= client.rev

Recovering == ~host.keepsSession /\ client.mode = "recovering"

RecoverInv ==
    Recovering =>
        /\ \A m \in outbox : m.kind = "need" /\ m.rev = client.rev
        /\ Ahead(queue) /\ Ahead(wire)
        /\ \/ /\ \A p \in Handler : handler[p] = Idle
              /\ sub = "no" /\ notice = "none" /\ tasks = 0
           \/ /\ view.crev >= client.rev
              /\ \A p \in Handler : Counts(handler[p])

(* One handler at a time, and no other changes the record under it.        *)
Serial == ~host.overlap

SerialInv ==
    Serial =>
        /\ \A p, q \in Handler : handler[p] # Idle /\ handler[q] # Idle => p = q
        /\ \A p \in Handler :
              handler[p].at \in {"render", "rendered"} /\ handler[p].why = "refresh" =>
                 handler[p].copy = view

(* As long as no change was forgotten, a tree is the current one, or a     *)
(* message about the change is waiting, or the handler at work was told of *)
(* it or has a newer tree.                                                 *)
Fresh(t) == t = world \/ notice # "none"

Rerendering(h) == h.at = "rendered" \/ ForgetsChange(h)

FreshInv ==
    Serial /\ ~missed =>
        /\ \A p \in Handler :
              /\ handler[p].at \in {"render", "rendered", "invoke"} => sub = "mapped"
              /\ handler[p].at = "rendered" => Fresh(handler[p].tree)
        /\ view.tree # NoTree \/ tasks > 0 =>
              sub = "mapped" \/ \E p \in Handler : handler[p].at = "resubscribing"
        /\ view.tree # NoTree =>
              Fresh(view.tree) \/ \E p \in Handler : Rerendering(handler[p])

(* Subscriptions the runtime has revoked are silent; as long as nothing    *)
(* was forgotten the marker that says so is still waiting.                 *)
RevokedInv ==
    /\ revoked => sub # "no"
    /\ Serial /\ ~missed /\ revoked => notice = "resync"

IInv ==
    /\ TypeOK /\ FaithInv /\ SnapshotLeads /\ RegisterInv /\ RecoverInv /\ SerialInv /\ FreshInv

-----------------------------------------------------------------------------
(* Types.                                                                  *)

LEMMA IdleType ==
    /\ NoView \in ViewState /\ Kept(NoView) /\ NoMessage \in Messages
    /\ Idle \in HandlerState
    /\ Idle.at = "idle" /\ Idle.copy = NoView /\ Idle.tree = NoTree
<1>1. NoSig \in Signature
  BY DEF NoSig, Signature, Drawn, NoTree
<1>2. NoView \in ViewState /\ Kept(NoView)
  BY <1>1 DEF NoView, ViewState, Kept, NoSig, Sig, Drawn
<1>3. NoMessage \in Messages
  BY <1>1 DEF NoMessage, Messages
<1>4. NoTree \in Drawn
  BY DEF Drawn
<1> QED
  BY <1>2, <1>3, <1>4 DEF Idle, HandlerState

LEMMA ViewFields ==
    ASSUME NEW v \in ViewState
    PROVE  /\ v.crev \in Nat /\ v.srev \in Nat /\ v.csig \in Signature /\ v.ssig \in Signature
           /\ v.tree \in Drawn /\ v.subs \in {"none", "initializing", "initialized"}
BY DEF ViewState

LEMMA MessageFields ==
    ASSUME NEW m \in Messages
    PROVE  /\ m.kind \in {"need", "have", "event"} /\ m.rev \in Nat /\ m.sig \in Signature
           /\ m.refresh \in BOOLEAN
BY DEF Messages

LEMMA HandlerFields ==
    ASSUME NEW h \in HandlerState
    PROVE  /\ h.at \in {"idle", "subscribing", "resubscribing", "render", "rendered", "invoke"}
           /\ h.why \in {"", "need", "have", "stale", "refresh"} /\ h.rev \in Nat
           /\ h.copy \in ViewState /\ h.msg \in Messages /\ h.ack \in BOOLEAN /\ h.tree \in Drawn
BY DEF HandlerState

(* next_view_revision goes past what either side has seen.                 *)
LEMMA NextIsLarger ==
    ASSUME NEW v \in ViewState
    PROVE  NextRevision(v) \in Nat /\ NextRevision(v) > v.srev /\ NextRevision(v) > v.crev
BY ViewFields DEF NextRevision, Larger

LEMMA SigType ==
    ASSUME NEW n \in Nat, NEW t \in Drawn
    PROVE  Sig(n, t) \in Signature
BY DEF Sig, Signature

LEMMA RecordedType ==
    ASSUME NEW v \in ViewState, NEW m \in Messages
    PROVE  /\ Recorded(v, m) \in ViewState
           /\ Recorded(v, m).crev = m.rev /\ Recorded(v, m).subs = v.subs
           /\ Recorded(v, m).tree = v.tree /\ (Kept(v) => Kept(Recorded(v, m)))
BY MessageFields, Zenon DEF Recorded, ViewState, Kept

LEMMA StoredType ==
    ASSUME NEW v \in ViewState, NEW n \in Nat, NEW t \in Drawn
    PROVE  /\ Stored(v, n, t) \in ViewState /\ Kept(Stored(v, n, t))
           /\ Stored(v, n, t).crev = n /\ Stored(v, n, t).srev = n
           /\ Stored(v, n, t).subs = v.subs /\ Stored(v, n, t).tree = t
BY SigType, Zenon DEF Stored, ViewState, Kept

LEMMA SubsType ==
    ASSUME NEW v \in ViewState, NEW s \in {"none", "initializing", "initialized"}
    PROVE  LET w == [v EXCEPT !.subs = s] IN
           /\ w \in ViewState /\ w.subs = s /\ w.crev = v.crev /\ w.tree = v.tree
           /\ Kept(v) => Kept(w)
BY DEF ViewState, Kept

LEMMA RefreshType ==
    ASSUME NEW v \in ViewState, NEW ack \in BOOLEAN
    PROVE  LET h == RefreshOf(v, ack) IN
           /\ h \in HandlerState
           /\ h.at = "render" /\ h.why = "refresh" /\ h.copy = v /\ h.ack = ack
BY IdleType DEF RefreshOf, HandlerState

LEMMA RoutedType ==
    ASSUME NEW v \in ViewState, NEW m \in Messages
    PROVE  LET h == Routed(m, v) IN
           /\ h \in HandlerState /\ h.copy = NoView
           /\ h.at \in {"idle", "render", "invoke"} /\ h.why # "refresh"
           /\ m.kind = "need" => h.at = "render" /\ h.why = "need" /\ h.rev = NextRevision(v)
           /\ h.at = "idle" => h = Idle /\ v.tree # NoTree
<1>1. Idle \in HandlerState /\ Idle.copy = NoView /\ Idle.at = "idle" /\ Idle.why = ""
  BY IdleType DEF Idle
<1>2. NextRevision(v) \in Nat
  BY NextIsLarger
<1>3. m.kind \in {"need", "have", "event"}
  BY MessageFields
<1> HIDE DEF Idle
<1>4. CASE m.kind = "need"
  BY <1>1, <1>2, <1>4 DEF Routed, HandlerState
<1>5. CASE m.kind = "have"
  BY <1>1, <1>5 DEF Routed, HandlerState
<1>6. CASE m.kind = "event"
  BY <1>1, <1>2, <1>6 DEF Routed, HandlerState
<1> QED
  BY <1>3, <1>4, <1>5, <1>6

LEMMA StartedType ==
    ASSUME NEW m \in Messages, NEW at \in {"subscribing", "invoke"}
    PROVE  LET h == [Idle EXCEPT !.at = at, !.msg = m] IN
           h \in HandlerState /\ h.at = at /\ h.msg = m /\ h.copy = NoView
BY IdleType DEF HandlerState

LEMMA SnapshotType ==
    ASSUME NEW n \in Nat, NEW t \in Tree
    PROVE  LET e == Snapshot(n, t) IN
           /\ e \in Envelope /\ Signed(e)
           /\ e.kind = "snapshot" /\ e.rev = n /\ e.tree = t
<1>1. t \in Drawn /\ NoTree \in Drawn /\ NoSig \in Signature /\ Sig(n, t) \in Signature
  BY SigType DEF Drawn, NoSig, Signature, NoTree
<1> QED
  BY <1>1 DEF Snapshot, Envelope, Signed, NoSig, Sig

LEMMA DeltaType ==
    ASSUME NEW v \in ViewState, Kept(v), NEW n \in Nat, NEW t \in Tree
    PROVE  LET e == Delta(v, n, t) IN
           /\ e \in Envelope /\ Signed(e)
           /\ e.kind = "delta" /\ e.rev = n /\ e.tree = t /\ e.brev = v.srev
<1>1. t \in Drawn /\ Sig(n, t) \in Signature
  BY SigType DEF Drawn
<1> QED
  BY <1>1, ViewFields DEF Delta, Envelope, Signed, Kept

LEMMA UpdateType ==
    ASSUME NEW v \in ViewState, Kept(v), NEW t \in Tree
    PROVE  /\ Update(v, t) \in Envelope /\ Signed(Update(v, t))
           /\ Update(v, t).rev = NextRevision(v) /\ Update(v, t).tree = t
           /\ Update(v, t).kind = "snapshot" \/ ~ HasPending(queue)
<1>1. NextRevision(v) \in Nat
  BY NextIsLarger
<1>2. CASE Update(v, t) = Snapshot(NextRevision(v), t)
  BY <1>1, <1>2, SnapshotType
<1>3. CASE Update(v, t) = Delta(v, NextRevision(v), t) /\ ~ HasPending(queue)
  BY <1>1, <1>3, DeltaType
<1> QED
  BY <1>2, <1>3 DEF Update
-----------------------------------------------------------------------------
(* A handler of the host moves.                                            *)

(* Only handler p changes, to h.                                           *)
LEMMA OneMoves ==
    ASSUME TypeOK, NEW p \in Handler, NEW h \in HandlerState, Becomes(p, h)
    PROVE  /\ handler' \in [Handler -> HandlerState]
           /\ handler'[p] = h
           /\ \A q \in Handler : q # p => handler'[q] = handler[q]
BY DEF TypeOK, Becomes

LEMMA RegisterKept ==
    ASSUME TypeOK, RegisterInv, NEW p \in Handler, NEW h \in HandlerState, Becomes(p, h),
           view'.subs = view.subs,
           sub' = sub \/ (Subscribing(p) /\ sub # "mapped" /\ sub' # "mapped"),
           h.at \in {"subscribing", "resubscribing"} <=> Subscribing(p)
    PROVE  RegisterInv'
<1>1. \A q \in Handler : Subscribing(q)' <=> Subscribing(q)
  BY OneMoves DEF Subscribing
<1> QED
  BY <1>1 DEF RegisterInv

(* The handler that takes the registration on.                             *)
LEMMA RegisterStarts ==
    ASSUME TypeOK, RegisterInv, NEW p \in Handler, NEW h \in HandlerState, Becomes(p, h),
           h.at \in {"subscribing", "resubscribing"},
           view.subs # "initializing", view'.subs = "initializing", sub' # "mapped"
    PROVE  RegisterInv'
<1>1. \A q \in Handler : ~ Subscribing(q)
  BY DEF RegisterInv
<1>2. Subscribing(p)' /\ \A q \in Handler : q # p => ~ Subscribing(q)'
  BY <1>1, OneMoves DEF Subscribing
<1> QED
  BY <1>2 DEF RegisterInv

(* The handler that registers is done with it.                             *)
LEMMA RegisterEnds ==
    ASSUME TypeOK, RegisterInv, NEW p \in Handler, NEW h \in HandlerState, Becomes(p, h),
           Subscribing(p), h.at \notin {"subscribing", "resubscribing"},
           view'.subs # "initializing", sub' # "live",
           view'.subs = "initialized" <=> sub' = "mapped"
    PROVE  RegisterInv'
<1>1. \A q \in Handler : Subscribing(q) => q = p
  BY DEF RegisterInv
<1>2. \A q \in Handler : ~ Subscribing(q)'
  BY <1>1, OneMoves DEF Subscribing
<1> QED
  BY <1>2 DEF RegisterInv

(* Handler p becomes h, and the browser may give up a recovery.            *)
LEMMA HandlerAnswers ==
    ASSUME IInv, UNCHANGED <<host, wire>>,
           NEW p \in Handler, NEW h \in HandlerState, Becomes(p, h),
           client' \in Browser, client'.rev = client.rev, client'.sig = client.sig,
           client'.shown = client.shown, client'.mode = "recovering" => client.mode = "recovering",
           world' \in Tree, tasks' \in Nat, sub' \in {"no", "live", "mapped"},
           notice' \in {"none", "changes", "resync"}, missed' \in BOOLEAN,
           revoked' \in BOOLEAN, view' \in ViewState,
           queue' \in Seq(Envelope), outbox' \subseteq outbox,
           spent' \in [changes : Nat, events : Nat, drops : Nat],
           Kept(h.copy), h.at = "rendered" => h.tree \in Tree, Kept(view'),
           \A i \in DOMAIN queue' : Signed(queue'[i]),
           SnapshotLeads', RegisterInv',
           Recovering => view'.crev >= client.rev /\ Counts(h) /\ Ahead(queue'),
           Serial =>
               /\ \A q \in Handler : q # p => handler[q] = Idle
               /\ h.at \in {"render", "rendered"} /\ h.why = "refresh" => h.copy = view',
           Serial /\ ~missed' =>
               /\ h.at \in {"render", "rendered", "invoke"} => sub' = "mapped"
               /\ h.at = "rendered" => h.tree = world' \/ notice' # "none"
               /\ view'.tree # NoTree \/ tasks' > 0 => sub' = "mapped" \/ h.at = "resubscribing"
               /\ view'.tree # NoTree =>
                     view'.tree = world' \/ notice' # "none" \/ Rerendering(h)
    PROVE  IInv'
<1>1. TypeOK /\ FaithInv /\ RecoverInv /\ SerialInv /\ FreshInv
  BY DEF IInv
<1>2. /\ handler' \in [Handler -> HandlerState] /\ handler'[p] = h
      /\ \A q \in Handler : q # p => handler'[q] = handler[q]
  BY <1>1, OneMoves
<1>3. TypeOK'
  BY <1>1, <1>2 DEF TypeOK
<1>4. FaithInv'
  <2>1. \A q \in Handler : /\ Kept(handler'[q].copy)
                           /\ handler'[q].at = "rendered" => handler'[q].tree \in Tree
    BY <1>1, <1>2 DEF FaithInv
  <2> QED
    BY <1>1, <2>1 DEF FaithInv, ClientFaithful, Kept, Signed, Sig
<1>5. RecoverInv'
  <2> SUFFICES ASSUME Recovering'
               PROVE  RecoverInv'
    BY DEF RecoverInv
  <2>0. Recovering
    BY DEF Recovering
  <2>1. \A q \in Handler : Counts(handler[q])
    <3>1. Counts(Idle)
      BY IdleType DEF Counts
    <3> QED
      BY <1>1, <2>0, <3>1 DEF RecoverInv
  <2>2. \A q \in Handler : Counts(handler'[q])
    BY <1>2, <2>0, <2>1
  <2>3. (\A q \in Handler : Counts(handler[q]))'
    BY <2>2 DEF Counts
  <2>4. Ahead(queue)' /\ Ahead(wire)'
    BY <1>1, <2>0 DEF RecoverInv, Ahead
  <2>5. \A m \in outbox' : m.kind = "need" /\ m.rev = client.rev
    BY <1>1, <2>0 DEF RecoverInv
  <2> QED
    BY <2>0, <2>3, <2>4, <2>5 DEF RecoverInv
<1>6. ASSUME Serial
      PROVE  \A q \in Handler : q # p => handler'[q] = Idle /\ handler'[q].at = "idle"
  BY <1>2, <1>6, IdleType
<1>7. SerialInv'
  <2> SUFFICES ASSUME Serial
               PROVE  SerialInv'
    BY DEF SerialInv, Serial
  <2>1. (\A q, r \in Handler : handler[q] # Idle /\ handler[r] # Idle => q = r)'
    BY <1>6 DEF Idle, NoView, NoMessage, NoSig, NoTree
  <2>2. (\A q \in Handler :
            handler[q].at \in {"render", "rendered"} /\ handler[q].why = "refresh" =>
               handler[q].copy = view)'
    BY <1>2, <1>6
  <2> QED
    BY <2>1, <2>2 DEF SerialInv
<1>8. FreshInv'
  <2> SUFFICES ASSUME Serial, ~missed'
               PROVE  FreshInv'
    BY DEF FreshInv, Serial
  <2>1. (\A q \in Handler :
            /\ handler[q].at \in {"render", "rendered", "invoke"} => sub = "mapped"
            /\ handler[q].at = "rendered" => Fresh(handler[q].tree))'
    BY <1>2, <1>6 DEF Fresh
  <2>2. (view.tree # NoTree \/ tasks > 0 =>
            sub = "mapped" \/ \E q \in Handler : handler[q].at = "resubscribing")'
    BY <1>2 DEF NoTree
  <2>3. (view.tree # NoTree =>
            Fresh(view.tree) \/ \E q \in Handler : Rerendering(handler[q]))'
    BY <1>2 DEF NoTree, Fresh, Rerendering, ForgetsChange
  <2> QED
    BY <2>1, <2>2, <2>3 DEF FreshInv
<1> QED
  BY <1>3, <1>4, <1>5, <1>7, <1>8 DEF IInv

(* The same while the browser does nothing.                                *)
LEMMA HandlerMoves ==
    ASSUME IInv, UNCHANGED <<host, wire, client>>,
           NEW p \in Handler, NEW h \in HandlerState, Becomes(p, h),
           world' \in Tree, tasks' \in Nat, sub' \in {"no", "live", "mapped"},
           notice' \in {"none", "changes", "resync"}, missed' \in BOOLEAN,
           revoked' \in BOOLEAN, view' \in ViewState,
           queue' \in Seq(Envelope), outbox' \subseteq outbox,
           spent' \in [changes : Nat, events : Nat, drops : Nat],
           Kept(h.copy), h.at = "rendered" => h.tree \in Tree, Kept(view'),
           \A i \in DOMAIN queue' : Signed(queue'[i]),
           SnapshotLeads', RegisterInv',
           Recovering => view'.crev >= client.rev /\ Counts(h) /\ Ahead(queue'),
           Serial =>
               /\ \A q \in Handler : q # p => handler[q] = Idle
               /\ h.at \in {"render", "rendered"} /\ h.why = "refresh" => h.copy = view',
           Serial /\ ~missed' =>
               /\ h.at \in {"render", "rendered", "invoke"} => sub' = "mapped"
               /\ h.at = "rendered" => h.tree = world' \/ notice' # "none"
               /\ view'.tree # NoTree \/ tasks' > 0 => sub' = "mapped" \/ h.at = "resubscribing"
               /\ view'.tree # NoTree =>
                     view'.tree = world' \/ notice' # "none" \/ Rerendering(h)
    PROVE  IInv'
<1>1. client' \in Browser
  BY DEF IInv, TypeOK
<1> QED
  BY <1>1, HandlerAnswers

LEMMA OthersIdle ==
    ASSUME IInv, Serial, NEW p \in Handler, handler[p].at # "idle" \/ MayStart(p)
    PROVE  \A q \in Handler : q # p => handler[q] = Idle
<1>1. CASE handler[p].at # "idle"
  BY <1>1, IdleType DEF IInv, SerialInv
<1>2. CASE MayStart(p)
  BY <1>2 DEF MayStart, Serial
<1> QED
  BY <1>1, <1>2

LEMMA CountsNow ==
    ASSUME IInv, Recovering, NEW p \in Handler, handler[p].at # "idle"
    PROVE  view.crev >= client.rev /\ Counts(handler[p]) /\ Ahead(queue)
BY IdleType DEF IInv, RecoverInv

(* What an envelope does to the queue.                                     *)
LEMMA QueueGrows ==
    ASSUME IInv, NEW e \in Envelope, Signed(e), queue' = Queued(queue, e),
           e.kind = "snapshot" \/ e.rev = e.brev \/ ~ HasPending(queue)
    PROVE  /\ queue' \in Seq(Envelope)
           /\ \A i \in DOMAIN queue' : Signed(queue'[i])
           /\ SnapshotLeads'
           /\ (e.kind = "snapshot" => e.rev >= client.rev) /\ Ahead(queue) => Ahead(queue')
<1>1. /\ queue \in Seq(Envelope) /\ host \in Host /\ SnapshotLeads
      /\ \A i \in DOMAIN queue : Signed(queue[i])
  BY DEF IInv, TypeOK, FaithInv
<1>2. CASE e.kind = "snapshot"
  <2>1. queue' = <<e>>
    BY <1>2 DEF Queued
  <2>2. DOMAIN queue' = {1} /\ queue'[1] = e /\ queue' \in Seq(Envelope)
    BY <2>1
  <2> QED
    BY <1>2, <2>2 DEF SnapshotLeads, Ahead
<1>3. CASE e.kind # "snapshot"
  <2>1. queue' = Append(queue, e)
    BY <1>3 DEF Queued
  <2>2. /\ queue' \in Seq(Envelope) /\ DOMAIN queue' = 1 .. (Len(queue) + 1)
        /\ \A i \in DOMAIN queue : queue'[i] = queue[i]
        /\ queue'[Len(queue) + 1] = e /\ Len(queue) \in Nat /\ DOMAIN queue = 1 .. Len(queue)
    BY <1>1, <2>1
  <2>3. \A i \in DOMAIN queue' : i \in DOMAIN queue \/ i = Len(queue) + 1
    BY <2>2
  <2>4. \A i \in DOMAIN queue' : Signed(queue'[i])
    BY <1>1, <2>2, <2>3
  <2>5. \A i \in DOMAIN queue' : queue'[i].kind = "snapshot" => i = 1
    BY <1>1, <1>3, <2>2, <2>3 DEF SnapshotLeads
  <2>6. \A i \in DOMAIN queue' : i > 1 /\ queue'[1].kind = "snapshot" =>
                                     queue'[i].rev = queue'[i].brev
    <3> SUFFICES ASSUME NEW i \in DOMAIN queue', i > 1, queue'[1].kind = "snapshot"
                 PROVE  queue'[i].rev = queue'[i].brev
      OBVIOUS
    <3>1. 1 \in DOMAIN queue
      BY <2>2
    <3>2. queue[1].kind = "snapshot"
      BY <2>2, <3>1
    <3>3. HasPending(queue)
      BY <1>1, <3>1, <3>2, HostAssumption DEF HasPending
    <3> QED
      BY <1>1, <1>3, <2>2, <2>3, <3>2, <3>3 DEF SnapshotLeads
  <2>7. Ahead(queue) => Ahead(queue')
    BY <1>3, <2>2, <2>3 DEF Ahead
  <2> QED
    BY <1>3, <2>2, <2>4, <2>5, <2>6, <2>7 DEF SnapshotLeads
<1> QED
  BY <1>2, <1>3

-----------------------------------------------------------------------------
(* The actions of the host.                                                *)

LEMMA InitInv == Init => IInv
<1> SUFFICES ASSUME Init
             PROVE  IInv
  OBVIOUS
<1>1. PICK t \in Tree : client = [rev |-> 1, sig |-> Sig(1, t), shown |-> t,
                                  mode |-> "initial", inflight |-> FALSE,
                                  refused |-> FALSE]
  BY DEF Init
<1>2. t \in Drawn /\ Sig(1, t) \in Signature
  BY SigType DEF Drawn
<1>3. \A p \in Handler : handler[p] = Idle
  BY DEF Init
<1>4. TypeOK
  <2>1. Message("need", FALSE) \in Messages
    BY <1>1, <1>2 DEF Message, Messages
  <2>2. client \in Browser
    BY <1>1, <1>2 DEF Browser
  <2>3. handler \in [Handler -> HandlerState] /\ view \in ViewState
    BY IdleType DEF Init
  <2>4. queue \in Seq(Envelope) /\ wire \in Seq(Envelope)
    BY DEF Init
  <2> QED
    BY <2>1, <2>2, <2>3, <2>4 DEF Init, TypeOK
<1>5. FaithInv
  <2>1. Kept(view) /\ \A p \in Handler : Kept(handler[p].copy) /\ handler[p].at = "idle"
    BY <1>3, IdleType DEF Init
  <2> QED
    BY <1>1, <2>1 DEF Init, FaithInv, ClientFaithful
<1>6. SnapshotLeads
  BY DEF Init, SnapshotLeads
<1>7. RegisterInv
  <2>1. \A p \in Handler : ~ Subscribing(p)
    BY <1>3, IdleType DEF Subscribing
  <2> QED
    BY <2>1 DEF Init, RegisterInv, NoView
<1>8. RecoverInv
  BY <1>1 DEF RecoverInv, Recovering
<1>9. SerialInv /\ FreshInv
  <2>1. \A p \in Handler : handler[p].at = "idle"
    BY <1>3, IdleType
  <2> QED
    BY <1>3, <2>1 DEF Init, SerialInv, FreshInv, NoView, NoTree
<1> QED
  BY <1>4, <1>5, <1>6, <1>7, <1>8, <1>9 DEF IInv

(* record_incoming_view, then ensure_view_subscriptions.                   *)
LEMMA ReceiveInv ==
    ASSUME IInv, UNCHANGED host, NEW p \in Input, NEW m \in outbox, Receive(p, m)
    PROVE  IInv'
<1>1. TypeOK /\ RegisterInv /\ RecoverInv /\ FreshInv /\ FaithInv /\ SnapshotLeads
  BY DEF IInv
<1>2. p \in Handler /\ m \in Messages /\ view \in ViewState /\ client.rev \in Nat
  BY <1>1 DEF Handler, TypeOK, Browser
<1> DEFINE v == Recorded(view, m)
<1>3. /\ v \in ViewState /\ v.crev = m.rev /\ v.subs = view.subs /\ v.tree = view.tree
      /\ Kept(v)
  BY <1>1, <1>2, RecordedType DEF FaithInv
<1>4. /\ handler[p] = Idle /\ MayStart(p) /\ outbox' \subseteq outbox
      /\ EnsureSubscriptions(p, m, v)
      /\ UNCHANGED <<world, sub, revoked, notice, missed, tasks, queue, wire, client, spent>>
  BY DEF Receive
<1>5. Recovering => m.kind = "need" /\ m.rev = client.rev /\ Ahead(queue)
  BY <1>1 DEF RecoverInv
<1>6. ~ Subscribing(p) /\ handler[p].at = "idle"
  BY <1>4, IdleType DEF Subscribing
<1>7. Serial => \A q \in Handler : handler[q] = Idle
  BY <1>2, <1>4, OthersIdle
<1>8. Serial => \A q \in Handler : handler[q].at = "idle"
  BY <1>7, IdleType
<1>9. SnapshotLeads' /\ \A i \in DOMAIN queue' : Signed(queue'[i])
  BY <1>1, <1>4 DEF SnapshotLeads, FaithInv
<1> HIDE DEF v
<1>10. CASE view.subs = "none"
  <2> DEFINE h == [Idle EXCEPT !.at = "subscribing", !.msg = m]
  <2>1. view' = [v EXCEPT !.subs = "initializing"] /\ Becomes(p, h)
    BY <1>3, <1>4, <1>10 DEF EnsureSubscriptions
  <2>2. h \in HandlerState /\ h.at = "subscribing" /\ h.msg = m /\ h.copy = NoView
    BY <1>2, StartedType
  <2>3. /\ view' \in ViewState /\ view'.subs = "initializing" /\ view'.crev = m.rev
        /\ view'.tree = view.tree /\ Kept(view')
    BY <1>3, <2>1, SubsType
  <2>4. sub # "mapped"
    BY <1>1, <1>10 DEF RegisterInv
  <2> HIDE DEF h
  <2>5. RegisterInv'
    BY <1>1, <1>2, <1>4, <1>10, <2>1, <2>2, <2>3, <2>4, RegisterStarts
  <2>6. Recovering => view'.crev >= client.rev /\ Counts(h) /\ Ahead(queue')
    BY <1>2, <1>4, <1>5, <2>2, <2>3 DEF Counts
  <2>7. Serial /\ ~ missed => view'.tree = NoTree /\ ~ (tasks > 0)
    BY <1>1, <1>8, <2>3, <2>4 DEF FreshInv
  <2>8. Kept(h.copy)
    BY <2>2, IdleType
  <2>9. /\ world' \in Tree /\ tasks' \in Nat /\ sub' \in {"no", "live", "mapped"}
        /\ notice' \in {"none", "changes", "resync"} /\ queue' \in Seq(Envelope)
        /\ missed' \in BOOLEAN /\ revoked' \in BOOLEAN
        /\ spent' \in [changes : Nat, events : Nat, drops : Nat]
    BY <1>1, <1>4 DEF TypeOK
  <2> QED
    BY <1>2, <1>4, <1>7, <1>9, <2>1, <2>2, <2>3, <2>5, <2>6, <2>7, <2>8, <2>9, HandlerMoves
<1>11. CASE view.subs # "none"
  <2> DEFINE h == Routed(m, v)
  <2>1. view' = v /\ Becomes(p, h)
    BY <1>3, <1>4, <1>11 DEF EnsureSubscriptions
  <2>2. /\ h \in HandlerState /\ h.copy = NoView /\ h.at \in {"idle", "render", "invoke"}
        /\ h.why # "refresh"
        /\ m.kind = "need" => h.at = "render" /\ h.why = "need" /\ h.rev = NextRevision(v)
    BY <1>2, <1>3, RoutedType
  <2> HIDE DEF h
  <2>3. RegisterInv'
    BY <1>1, <1>2, <1>3, <1>4, <1>6, <2>1, <2>2, RegisterKept
  <2>4. Recovering => view'.crev >= client.rev /\ Counts(h) /\ Ahead(queue')
    <3>1. NextRevision(v) > v.crev /\ NextRevision(v) \in Nat
      BY <1>3, NextIsLarger
    <3>2. m.rev \in Nat
      BY <1>2, MessageFields
    <3> QED
      BY <1>2, <1>3, <1>4, <1>5, <2>1, <2>2, <3>1, <3>2 DEF Counts
  <2>5. Serial => sub = "mapped"
    <3>1. Serial => view.subs # "initializing"
      BY <1>1, <1>8 DEF RegisterInv, Subscribing
    <3> QED
      BY <1>1, <1>2, <1>11, <3>1, ViewFields DEF RegisterInv
  <2>6. Serial /\ ~ missed /\ view.tree # NoTree => view.tree = world \/ notice # "none"
    BY <1>1, <1>8 DEF FreshInv, Fresh, Rerendering, ForgetsChange
  <2>7. Kept(h.copy)
    BY <2>2, IdleType
  <2>8. /\ world' \in Tree /\ tasks' \in Nat /\ sub' \in {"no", "live", "mapped"}
        /\ notice' \in {"none", "changes", "resync"} /\ queue' \in Seq(Envelope)
        /\ missed' \in BOOLEAN /\ revoked' \in BOOLEAN
        /\ spent' \in [changes : Nat, events : Nat, drops : Nat]
    BY <1>1, <1>4 DEF TypeOK
  <2> QED
    BY <1>2, <1>3, <1>4, <1>7, <1>9, <2>1, <2>2, <2>3, <2>4, <2>5, <2>6, <2>7, <2>8, HandlerMoves
<1> QED
  BY <1>10, <1>11
(* The runtime accepts the subscriptions.                                  *)
LEMMA SubscribeInv ==
    ASSUME IInv, UNCHANGED host, NEW p \in Handler, Subscribe(p)
    PROVE  IInv'
<1>1. TypeOK /\ RegisterInv /\ SerialInv /\ FreshInv /\ FaithInv /\ SnapshotLeads
  BY DEF IInv
<1> DEFINE h == handler[p]
<1>2. /\ h \in HandlerState /\ Becomes(p, h) /\ h.at \in {"subscribing", "resubscribing"}
  BY <1>1 DEF Subscribe, Subscribing, Becomes, TypeOK
<1>3. /\ sub = "no" /\ sub' = "live"
      /\ UNCHANGED <<world, revoked, notice, missed, view, tasks, queue, wire, outbox, client,
                     spent>>
  BY DEF Subscribe
<1>4. RegisterInv'
  BY <1>1, <1>2, <1>3, RegisterKept DEF Subscribing
<1>5. Recovering => view'.crev >= client.rev /\ Counts(h) /\ Ahead(queue')
  BY <1>2, <1>3, CountsNow
<1>6. Serial => \A q \in Handler : q # p => handler[q] = Idle
  BY <1>2, OthersIdle
<1>7. Serial => \A q \in Handler : q # p => handler[q].at = "idle"
  BY <1>6, IdleType
<1>8. Serial /\ ~ missed' =>
         /\ view'.tree # NoTree \/ tasks' > 0 => h.at = "resubscribing"
         /\ view'.tree # NoTree => view'.tree = world' \/ notice' # "none" \/ Rerendering(h)
  BY <1>1, <1>3, <1>7 DEF FreshInv, Fresh, Rerendering, ForgetsChange
<1>9. /\ view' \in ViewState /\ Kept(h.copy) /\ Kept(view') /\ queue' \in Seq(Envelope)
      /\ SnapshotLeads' /\ \A i \in DOMAIN queue' : Signed(queue'[i])
  BY <1>1, <1>3 DEF TypeOK, FaithInv, SnapshotLeads
<1>10. /\ world' \in Tree /\ tasks' \in Nat /\ notice' \in {"none", "changes", "resync"}
       /\ missed' \in BOOLEAN /\ revoked' \in BOOLEAN
       /\ spent' \in [changes : Nat, events : Nat, drops : Nat]
  BY <1>1, <1>3 DEF TypeOK
<1> HIDE DEF h
<1> QED
  BY <1>2, <1>3, <1>4, <1>5, <1>6, <1>8, <1>9, <1>10, HandlerMoves

(* register_view_subscriptions returns.                                    *)
LEMMA RegisteredInv ==
    ASSUME IInv, UNCHANGED host, NEW p \in Handler, Registered(p)
    PROVE  IInv'
<1>1. TypeOK /\ RegisterInv /\ SerialInv /\ FreshInv /\ FaithInv /\ SnapshotLeads
  BY DEF IInv
<1>2. view \in ViewState /\ handler[p] \in HandlerState /\ handler[p].msg \in Messages
  BY <1>1, HandlerFields DEF TypeOK
<1> DEFINE v == [view EXCEPT !.subs = "initialized"]
           h == IF handler[p].at = "resubscribing" THEN RefreshOf(v, FALSE)
                ELSE Routed(handler[p].msg, v)
<1>3. /\ Subscribing(p) /\ sub' = "mapped" /\ view' = v /\ Becomes(p, h)
      /\ UNCHANGED <<world, revoked, notice, missed, tasks, queue, wire, outbox, client, spent>>
  BY DEF Registered
<1>4. handler[p].at \in {"subscribing", "resubscribing"}
  BY <1>3 DEF Subscribing
<1>5. /\ v \in ViewState /\ v.subs = "initialized" /\ v.crev = view.crev /\ v.tree = view.tree
      /\ Kept(v)
  BY <1>1, <1>2, SubsType DEF FaithInv
<1> HIDE DEF v
<1>7. /\ h \in HandlerState /\ Kept(h.copy) /\ h.at \in {"idle", "render", "invoke"}
      /\ h.at = "render" /\ h.why = "refresh" => h.copy = v
      /\ handler[p].at = "resubscribing" => h.at = "render" /\ h.why = "refresh" /\ ~ h.ack
      /\ handler[p].at = "subscribing" /\ handler[p].msg.kind = "need" =>
            h.at = "render" /\ h.why = "need" /\ h.rev = NextRevision(v)
  <2>1. CASE handler[p].at = "resubscribing"
    BY <1>5, <2>1, RefreshType
  <2>2. CASE handler[p].at = "subscribing"
    BY <1>2, <1>5, <2>2, RoutedType, IdleType
  <2> QED
    BY <1>4, <2>1, <2>2
<1> HIDE DEF h
<1>8. RegisterInv'
  BY <1>1, <1>3, <1>5, <1>7, RegisterEnds
<1>9. Recovering => view'.crev >= client.rev /\ Counts(h) /\ Ahead(queue')
  <2>1. NextRevision(v) > v.crev /\ NextRevision(v) \in Nat /\ v.crev \in Nat /\ client.rev \in Nat
    BY <1>1, <1>5, NextIsLarger, ViewFields DEF TypeOK, Browser
  <2>2. Recovering => view.crev >= client.rev /\ Counts(handler[p]) /\ Ahead(queue)
    BY <1>4, CountsNow
  <2>3. Recovering /\ handler[p].at = "subscribing" => handler[p].msg.kind = "need"
    BY <2>2 DEF Counts
  <2>4. Recovering => Counts(h)
    BY <1>4, <1>5, <1>7, <2>1, <2>2, <2>3 DEF Counts
  <2> QED
    BY <1>3, <1>5, <2>2, <2>4
<1>10. Serial => \A q \in Handler : q # p => handler[q] = Idle
  BY <1>4, OthersIdle
<1>11. Serial => \A q \in Handler : q # p => handler[q].at = "idle"
  BY <1>10, IdleType
<1>12. Serial /\ ~ missed /\ view.tree # NoTree =>
          view.tree = world \/ notice # "none" \/ handler[p].at = "resubscribing"
  BY <1>1, <1>4, <1>11 DEF FreshInv, Fresh, Rerendering, ForgetsChange
<1>13. Serial /\ ~ missed' /\ view'.tree # NoTree =>
          view'.tree = world' \/ notice' # "none" \/ Rerendering(h)
  BY <1>3, <1>5, <1>7, <1>12 DEF Rerendering, ForgetsChange
<1>14. /\ queue' \in Seq(Envelope) /\ SnapshotLeads' /\ \A i \in DOMAIN queue' : Signed(queue'[i])
  BY <1>1, <1>3 DEF TypeOK, FaithInv, SnapshotLeads
<1>15. /\ world' \in Tree /\ tasks' \in Nat /\ notice' \in {"none", "changes", "resync"}
       /\ missed' \in BOOLEAN /\ revoked' \in BOOLEAN
       /\ spent' \in [changes : Nat, events : Nat, drops : Nat]
  BY <1>1, <1>3 DEF TypeOK
<1> QED
  BY <1>3, <1>5, <1>7, <1>8, <1>9, <1>10, <1>13, <1>14, <1>15, HandlerMoves

(* render_sync_tree answers with the tree of the current snapshot.         *)
LEMMA RenderInv ==
    ASSUME IInv, UNCHANGED host, NEW p \in Handler, Render(p)
    PROVE  IInv'
<1>1. TypeOK /\ RegisterInv /\ SerialInv /\ FreshInv /\ FaithInv /\ SnapshotLeads
  BY DEF IInv
<1> DEFINE h == [handler[p] EXCEPT !.at = "rendered", !.tree = world]
<1>2. /\ handler[p].at = "render" /\ Becomes(p, h)
      /\ missed' = (missed /\ (sub # "mapped" \/ revoked))
      /\ UNCHANGED <<world, sub, revoked, notice, view, tasks, queue, wire, outbox, client, spent>>
  BY DEF Render
<1>3. handler[p] \in HandlerState /\ world \in Tree /\ world \in Drawn
  BY <1>1 DEF TypeOK, Drawn
<1>4. /\ h \in HandlerState /\ h.at = "rendered" /\ h.tree = world
      /\ h.why = handler[p].why /\ h.rev = handler[p].rev /\ h.copy = handler[p].copy
  BY <1>3 DEF HandlerState
<1> HIDE DEF h
<1>5. Kept(h.copy) /\ Kept(view') /\ view' \in ViewState
  BY <1>1, <1>2, <1>4 DEF FaithInv, TypeOK
<1>6. RegisterInv'
  BY <1>1, <1>2, <1>4, RegisterKept DEF Subscribing
<1>7. Recovering => view'.crev >= client.rev /\ Counts(h) /\ Ahead(queue')
  <2>1. Recovering => view.crev >= client.rev /\ Counts(handler[p]) /\ Ahead(queue)
    BY <1>2, CountsNow
  <2>2. Recovering => Counts(h)
    BY <1>2, <1>4, <2>1 DEF Counts
  <2> QED
    BY <1>2, <2>1, <2>2
<1>8. Serial => \A q \in Handler : q # p => handler[q] = Idle
  BY <1>2, OthersIdle
<1>9. /\ Serial => (h.why = "refresh" => h.copy = view)
      /\ Serial /\ ~ missed' => sub = "mapped"
  BY <1>1, <1>2, <1>4 DEF SerialInv, FreshInv
<1>10. Rerendering(h)
  BY <1>4 DEF Rerendering
<1>11. /\ queue' \in Seq(Envelope) /\ SnapshotLeads' /\ \A i \in DOMAIN queue' : Signed(queue'[i])
  BY <1>1, <1>2 DEF TypeOK, FaithInv, SnapshotLeads
<1>12. /\ world' \in Tree /\ tasks' \in Nat /\ notice' \in {"none", "changes", "resync"}
       /\ sub' \in {"no", "live", "mapped"}
       /\ missed' \in BOOLEAN /\ revoked' \in BOOLEAN
       /\ spent' \in [changes : Nat, events : Nat, drops : Nat]
  BY <1>1, <1>2 DEF TypeOK
<1> QED
  BY <1>2, <1>3, <1>4, <1>5, <1>6, <1>7, <1>8, <1>9, <1>10, <1>11, <1>12, HandlerMoves
(* A handler stores the tree it rendered, and may have queued it.          *)
LEMMA FinishStores ==
    ASSUME IInv, UNCHANGED host, NEW p \in Handler, NEW h \in HandlerState, Becomes(p, h),
           Untouched, handler[p].at = "rendered", h.at \in {"idle", "invoke"}, Kept(h.copy),
           NEW n \in Nat, view' = Stored(view, n, handler[p].tree),
           Recovering => h.at = "idle" /\ n >= client.rev,
           \/ queue' = queue
           \/ \E e \in Envelope :
                 /\ Signed(e) /\ queue' = Queued(queue, e)
                 /\ \/ e.kind = "snapshot" /\ e.rev = n
                    \/ e.kind # "snapshot" /\ ~ HasPending(queue)
    PROVE  IInv'
<1>1. TypeOK /\ RegisterInv /\ SerialInv /\ FreshInv /\ FaithInv /\ SnapshotLeads
  BY DEF IInv
<1>2. UNCHANGED <<world, sub, revoked, notice, missed, tasks, wire, outbox, client, spent>>
  BY DEF Untouched
<1>3. view \in ViewState /\ handler[p].tree \in Tree /\ handler[p].tree \in Drawn
  BY <1>1 DEF TypeOK, FaithInv, Drawn
<1>4. /\ view' \in ViewState /\ Kept(view') /\ view'.crev = n /\ view'.subs = view.subs
      /\ view'.tree = handler[p].tree
  <2> DEFINE w == Stored(view, n, handler[p].tree)
  <2>1. /\ w \in ViewState /\ Kept(w) /\ w.crev = n /\ w.subs = view.subs
        /\ w.tree = handler[p].tree
    BY <1>3, StoredType
  <2>2. view' = w
    OBVIOUS
  <2> HIDE DEF w
  <2> QED
    BY <2>1, <2>2
<1>5. RegisterInv'
  BY <1>1, <1>2, <1>4, RegisterKept DEF Subscribing
<1>6. /\ queue' \in Seq(Envelope) /\ SnapshotLeads' /\ \A i \in DOMAIN queue' : Signed(queue'[i])
      /\ Recovering => Ahead(queue')
  <2>1. Recovering => Ahead(queue)
    BY CountsNow
  <2>2. CASE queue' = queue
    BY <1>1, <2>1, <2>2 DEF TypeOK, FaithInv, SnapshotLeads
  <2>3. CASE queue' # queue
    <3>1. PICK e \in Envelope :
                 /\ Signed(e) /\ queue' = Queued(queue, e)
                 /\ \/ e.kind = "snapshot" /\ e.rev = n
                    \/ e.kind # "snapshot" /\ ~ HasPending(queue)
      BY <2>3
    <3> QED
      BY <2>1, <3>1, QueueGrows
  <2> QED
    BY <2>2, <2>3
<1>7. Recovering => view'.crev >= client.rev /\ Counts(h) /\ Ahead(queue')
  BY <1>4, <1>6 DEF Counts
<1>8. Serial => \A q \in Handler : q # p => handler[q] = Idle
  BY OthersIdle
<1>9. Serial /\ ~ missed => sub = "mapped" /\ (handler[p].tree = world \/ notice # "none")
  BY <1>1 DEF FreshInv, Fresh
<1>10. /\ world' \in Tree /\ tasks' \in Nat /\ notice' \in {"none", "changes", "resync"}
       /\ sub' \in {"no", "live", "mapped"}
       /\ missed' \in BOOLEAN /\ revoked' \in BOOLEAN
       /\ spent' \in [changes : Nat, events : Nat, drops : Nat]
  BY <1>1, <1>2 DEF TypeOK
<1> QED
  BY <1>2, <1>4, <1>5, <1>6, <1>7, <1>8, <1>9, <1>10, HandlerMoves

(* What the handler at work knows when its render is back.                 *)
LEMMA FinishFacts ==
    ASSUME IInv, NEW p \in Handler, handler[p].at = "rendered"
    PROVE  /\ view \in ViewState /\ handler[p].tree \in Tree /\ handler[p].rev \in Nat
           /\ handler[p].msg \in Messages /\ handler[p].copy \in ViewState
           /\ Kept(handler[p].copy) /\ client.rev \in Nat
           /\ NextRevision(view) \in Nat
           /\ Idle \in HandlerState /\ Idle.at = "idle" /\ Kept(Idle.copy)
           /\ Recovering => \/ handler[p].why = "need" /\ handler[p].rev >= client.rev
                            \/ handler[p].why = "refresh" /\ handler[p].copy.crev >= client.rev
<1>1. TypeOK /\ FaithInv
  BY DEF IInv
<1>2. handler[p] \in HandlerState /\ view \in ViewState /\ client.rev \in Nat
  BY <1>1 DEF TypeOK, Browser
<1>3. Recovering => Counts(handler[p])
  BY CountsNow
<1>4. handler[p].tree \in Tree /\ Kept(handler[p].copy)
  BY <1>1 DEF FaithInv
<1> QED
  BY <1>2, <1>3, <1>4, HandlerFields, NextIsLarger, IdleType DEF Counts

(* needSnapshot                                                            *)
LEMMA FinishNeedInv ==
    ASSUME IInv, UNCHANGED host, NEW p \in Handler, FinishNeed(p)
    PROVE  IInv'
<1> DEFINE n == handler[p].rev
           e == Snapshot(n, handler[p].tree)
<1>1. /\ handler[p].at = "rendered" /\ handler[p].why = "need" /\ Becomes(p, Idle) /\ Untouched
      /\ queue' = Queued(queue, e) /\ view' = Stored(view, e.rev, e.tree)
  BY DEF FinishNeed, Rendered, SendAndStore
<1>2. n \in Nat /\ handler[p].tree \in Tree /\ (Recovering => n >= client.rev)
  BY <1>1, FinishFacts
<1>3. e \in Envelope /\ Signed(e) /\ e.kind = "snapshot" /\ e.rev = n /\ e.tree = handler[p].tree
  BY <1>2, SnapshotType
<1> HIDE DEF e, n
<1> QED
  BY <1>1, <1>2, <1>3, FinishFacts, FinishStores

(* haveView                                                                *)
LEMMA FinishHaveInv ==
    ASSUME IInv, UNCHANGED host, NEW p \in Handler, FinishHave(p)
    PROVE  IInv'
<1> DEFINE m == handler[p].msg
           n == NextRevision(view)
           e == Snapshot(n, handler[p].tree)
<1>1. /\ handler[p].at = "rendered" /\ handler[p].why = "have" /\ Becomes(p, Idle) /\ Untouched
      /\ \/ view' = Stored(view, m.rev, handler[p].tree) /\ queue' = queue
         \/ queue' = Queued(queue, e) /\ view' = Stored(view, e.rev, e.tree)
  BY DEF FinishHave, Rendered, SendAndStore, StoreOnly
<1>2. n \in Nat /\ m.rev \in Nat /\ handler[p].tree \in Tree /\ ~ Recovering
  BY <1>1, FinishFacts, MessageFields
<1>3. e \in Envelope /\ Signed(e) /\ e.kind = "snapshot" /\ e.rev = n /\ e.tree = handler[p].tree
  BY <1>2, SnapshotType
<1> HIDE DEF e, n, m
<1>4. CASE view' = Stored(view, m.rev, handler[p].tree) /\ queue' = queue
  BY <1>1, <1>2, <1>4, FinishFacts, FinishStores
<1>5. CASE queue' = Queued(queue, e) /\ view' = Stored(view, e.rev, e.tree)
  BY <1>1, <1>2, <1>3, <1>5, FinishFacts, FinishStores
<1> QED
  BY <1>1, <1>4, <1>5

(* A DOM event against an outdated view.                                   *)
LEMMA FinishStaleInv ==
    ASSUME IInv, UNCHANGED host, NEW p \in Handler, FinishStale(p)
    PROVE  IInv'
<1> DEFINE m == handler[p].msg
           n == handler[p].rev
           h == [Idle EXCEPT !.at = "invoke", !.msg = m]
           e == Snapshot(n, handler[p].tree)
<1>1. /\ handler[p].at = "rendered" /\ handler[p].why = "stale" /\ Untouched
      /\ \/ /\ view' = Stored(view, n, handler[p].tree) /\ queue' = queue
            /\ Becomes(p, h)
         \/ /\ queue' = Queued(queue, e) /\ view' = Stored(view, e.rev, e.tree)
            /\ Becomes(p, Idle)
  BY DEF FinishStale, Rendered, SendAndStore, StoreOnly
<1>2. n \in Nat /\ m \in Messages /\ handler[p].tree \in Tree /\ ~ Recovering
  BY <1>1, FinishFacts
<1>3. e \in Envelope /\ Signed(e) /\ e.kind = "snapshot" /\ e.rev = n /\ e.tree = handler[p].tree
  BY <1>2, SnapshotType
<1>4. h \in HandlerState /\ h.at = "invoke" /\ Kept(h.copy)
  BY <1>2, StartedType, IdleType
<1> HIDE DEF e, n, m, h
<1>5. CASE view' = Stored(view, n, handler[p].tree) /\ queue' = queue /\ Becomes(p, h)
  BY <1>1, <1>2, <1>4, <1>5, FinishStores
<1>6. CASE queue' = Queued(queue, e) /\ view' = Stored(view, e.rev, e.tree) /\ Becomes(p, Idle)
  BY <1>1, <1>2, <1>3, <1>6, FinishFacts, FinishStores
<1> QED
  BY <1>1, <1>5, <1>6

(* refresh_active_sync_view_for after its render.                          *)
LEMMA FinishRefreshInv ==
    ASSUME IInv, UNCHANGED host, NEW p \in Handler, FinishRefresh(p)
    PROVE  IInv'
<1> DEFINE v == handler[p].copy
           t == handler[p].tree
           n == NextRevision(v)
           same == Delta(v, v.srev, t)
           e == Update(v, t)
<1>1. /\ handler[p].at = "rendered" /\ handler[p].why = "refresh" /\ Becomes(p, Idle) /\ Untouched
      /\ \/ /\ v.tree = t /\ view' = view
            /\ queue' = queue \/ queue' = Queued(queue, same)
         \/ queue' = Queued(queue, e) /\ view' = Stored(view, e.rev, e.tree)
  BY DEF FinishRefresh, Rendered, SendAndStore
<1>2. v \in ViewState /\ Kept(v) /\ t \in Tree /\ (Recovering => v.crev >= client.rev)
  BY <1>1, FinishFacts
<1>3. n \in Nat /\ n > v.crev /\ v.crev \in Nat /\ v.srev \in Nat /\ client.rev \in Nat
  BY <1>1, <1>2, NextIsLarger, ViewFields, FinishFacts
<1>4. CASE queue' = Queued(queue, e) /\ view' = Stored(view, e.rev, e.tree)
  <2>1. /\ e \in Envelope /\ Signed(e) /\ e.rev = n /\ e.tree = t
        /\ e.kind = "snapshot" \/ ~ HasPending(queue)
    BY <1>2, UpdateType
  <2>2. Recovering => n >= client.rev
    BY <1>2, <1>3
  <2> HIDE DEF e, n
  <2> QED
    BY <1>1, <1>3, <1>4, <2>1, <2>2, FinishFacts, FinishStores
<1>5. CASE v.tree = t /\ view' = view /\ (queue' = queue \/ queue' = Queued(queue, same))
  <2>1. TypeOK /\ RegisterInv /\ SerialInv /\ FreshInv /\ FaithInv /\ SnapshotLeads
    BY DEF IInv
  <2>2. UNCHANGED <<world, sub, revoked, notice, missed, tasks, wire, outbox, client, spent>>
    BY <1>1 DEF Untouched
  <2>3. same \in Envelope /\ Signed(same) /\ same.kind = "delta" /\ same.rev = same.brev
    BY <1>2, <1>3, DeltaType
  <2>4. Recovering => view.crev >= client.rev /\ Ahead(queue)
    BY <1>1, CountsNow
  <2> HIDE DEF same
  <2>5. /\ queue' \in Seq(Envelope) /\ SnapshotLeads'
        /\ \A i \in DOMAIN queue' : Signed(queue'[i])
        /\ Recovering => Ahead(queue')
    <3>1. CASE queue' = queue
      BY <2>1, <2>4, <3>1 DEF TypeOK, FaithInv, SnapshotLeads
    <3>2. CASE queue' = Queued(queue, same)
      BY <2>3, <2>4, <3>2, QueueGrows
    <3> QED
      BY <1>5, <3>1, <3>2
  <2>6. Idle \in HandlerState /\ Idle.at = "idle" /\ Kept(Idle.copy) /\ Counts(Idle)
    BY IdleType DEF Counts
  <2>7. RegisterInv'
    BY <1>1, <1>5, <2>1, <2>2, <2>6, RegisterKept DEF Subscribing
  <2>8. Serial => \A q \in Handler : q # p => handler[q] = Idle
    BY <1>1, OthersIdle
  <2>9. /\ Serial => view = v
        /\ Serial /\ ~ missed => sub = "mapped" /\ (t = world \/ notice # "none")
    BY <1>1, <2>1 DEF SerialInv, FreshInv, Fresh
  <2>10. /\ world' \in Tree /\ tasks' \in Nat /\ notice' \in {"none", "changes", "resync"}
         /\ sub' \in {"no", "live", "mapped"} /\ view' \in ViewState /\ Kept(view')
         /\ missed' \in BOOLEAN /\ revoked' \in BOOLEAN
         /\ spent' \in [changes : Nat, events : Nat, drops : Nat]
    BY <1>5, <2>1, <2>2 DEF TypeOK, FaithInv
  <2> HIDE DEF v, t
  <2>11. Serial /\ ~ missed' => view'.tree = world' \/ notice' # "none"
    BY <1>5, <2>2, <2>9
  <2> QED
    BY <1>1, <1>5, <2>2, <2>4, <2>5, <2>6, <2>7, <2>8, <2>9, <2>10, <2>11, HandlerMoves
<1> QED
  BY <1>1, <1>4, <1>5
(* Where the view stands while one handler at most is at work.             *)
LEMMA SerialView ==
    ASSUME IInv, Serial, NEW p \in Handler, handler[p].at # "idle" \/ MayStart(p)
    PROVE  /\ \A q \in Handler : q # p => handler[q] = Idle
           /\ ~ missed /\ (view.tree # NoTree \/ tasks > 0) =>
                 sub = "mapped" \/ handler[p].at = "resubscribing"
           /\ ~ missed /\ view.tree # NoTree =>
                 view.tree = world \/ notice # "none" \/ Rerendering(handler[p])
<1>1. \A q \in Handler : q # p => handler[q] = Idle
  BY OthersIdle
<1>2. \A q \in Handler : q # p => handler[q].at = "idle"
  BY <1>1, IdleType
<1> QED
  BY <1>1, <1>2 DEF IInv, FreshInv, Fresh, Rerendering, ForgetsChange

(* The invocation of sync_event.                                           *)
LEMMA InvokeInv ==
    ASSUME IInv, RevokedInv, UNCHANGED host, NEW p \in Handler, NEW t \in Tree,
           NEW o \in {"done", "refresh", "suspended"}, Invoke(p, t, o)
    PROVE  IInv'
<1>1. TypeOK /\ RegisterInv /\ SerialInv /\ FreshInv /\ FaithInv /\ SnapshotLeads
  BY DEF IInv
<1> DEFINE h == IF o = "refresh" /\ handler[p].msg.refresh THEN RefreshOf(view, TRUE) ELSE Idle
<1>2. /\ handler[p].at = "invoke" /\ world' = t /\ Becomes(p, h)
      /\ notice' = IF t = world THEN notice ELSE Noticed("changes")
      /\ UNCHANGED <<sub, revoked, missed, view, queue, wire, outbox, client>>
  BY DEF Invoke
<1>3. /\ h \in HandlerState /\ Kept(h.copy) /\ h.at \in {"idle", "render"}
      /\ h.at = "render" => h.copy = view
  <2>1. view \in ViewState /\ Kept(view)
    BY <1>1 DEF TypeOK, FaithInv
  <2> QED
    BY <2>1, RefreshType, IdleType
<1> HIDE DEF h
<1>4. /\ spent' \in [changes : Nat, events : Nat, drops : Nat] /\ tasks' \in Nat
      /\ missed' \in BOOLEAN /\ revoked' \in BOOLEAN
  <2>1. /\ spent \in [changes : Nat, events : Nat, drops : Nat] /\ tasks \in Nat
        /\ missed \in BOOLEAN /\ revoked \in BOOLEAN
    BY <1>1 DEF TypeOK
  <2> QED
    BY <2>1 DEF Invoke
<1>5. /\ notice' \in {"none", "changes", "resync"}
      /\ Serial /\ ~ missed /\ sub = "mapped" =>
            (t = world /\ notice' = notice) \/ notice' # "none"
  BY <1>1, <1>2 DEF TypeOK, Noticed, RevokedInv
<1>6. RegisterInv'
  BY <1>1, <1>2, <1>3, RegisterKept DEF Subscribing
<1>7. ~ Recovering
  BY <1>2, CountsNow DEF Counts
<1>8. Serial /\ ~ missed => sub = "mapped"
  BY <1>1, <1>2 DEF FreshInv
<1>9. Serial => /\ \A q \in Handler : q # p => handler[q] = Idle
                /\ ~ missed /\ view.tree # NoTree => view.tree = world \/ notice # "none"
  BY <1>2, SerialView DEF Rerendering, ForgetsChange
<1>10. /\ queue' \in Seq(Envelope) /\ SnapshotLeads' /\ \A i \in DOMAIN queue' : Signed(queue'[i])
       /\ sub' \in {"no", "live", "mapped"} /\ view' \in ViewState /\ Kept(view')
  BY <1>1, <1>2 DEF TypeOK, FaithInv, SnapshotLeads
<1> QED
  BY <1>2, <1>3, <1>4, <1>5, <1>6, <1>7, <1>8, <1>9, <1>10, HandlerMoves

(* What a driver event leaves alone.                                       *)
LEMMA EventFacts ==
    ASSUME IInv, UNCHANGED <<world, queue>>, handler[Events] = Idle
    PROVE  /\ world' \in Tree /\ queue' \in Seq(Envelope) /\ SnapshotLeads'
           /\ \A i \in DOMAIN queue' : Signed(queue'[i])
           /\ Events \in Handler /\ ~ Subscribing(Events) /\ view \in ViewState /\ Kept(view)
           /\ Idle \in HandlerState /\ Idle.at = "idle" /\ Kept(Idle.copy) /\ Counts(Idle)
           /\ Recovering /\ (notice # "none" \/ tasks > 0) =>
                 view.crev >= client.rev /\ Ahead(queue)
<1>1. TypeOK /\ FaithInv /\ SnapshotLeads /\ RecoverInv
  BY DEF IInv
<1>2. /\ world' \in Tree /\ queue' \in Seq(Envelope) /\ SnapshotLeads'
      /\ \A i \in DOMAIN queue' : Signed(queue'[i])
      /\ view \in ViewState /\ Kept(view) /\ tasks \in Nat
  BY <1>1 DEF TypeOK, FaithInv, SnapshotLeads
<1>3. Events \in Handler
  BY DEF Handler
<1> QED
  BY <1>1, <1>2, <1>3, IdleType DEF RecoverInv, Counts, Subscribing

(* process_driver_event, SubscriptionReady.                                *)
LEMMA HandleNoticeInv ==
    ASSUME IInv, UNCHANGED host, NEW reached \in BOOLEAN, HandleNotice(reached)
    PROVE  IInv'
<1> DEFINE p == Events
<1>1. TypeOK /\ RegisterInv
  BY DEF IInv
<1>2. /\ handler[p] = Idle /\ MayStart(p) /\ notice # "none" /\ notice' = "none"
      /\ missed' = (missed \/ (~ reached /\ sub = "mapped"))
      /\ UNCHANGED <<world, tasks, queue, wire, outbox, client, spent>>
  BY DEF HandleNotice
<1>3. /\ world' \in Tree /\ queue' \in Seq(Envelope) /\ SnapshotLeads'
      /\ \A i \in DOMAIN queue' : Signed(queue'[i])
      /\ p \in Handler /\ ~ Subscribing(p) /\ view \in ViewState /\ Kept(view)
      /\ Idle \in HandlerState /\ Idle.at = "idle" /\ Kept(Idle.copy) /\ Counts(Idle)
      /\ Recovering => view.crev >= client.rev /\ Ahead(queue)
  BY <1>2, EventFacts
<1>4. /\ tasks' \in Nat /\ spent' \in [changes : Nat, events : Nat, drops : Nat]
      /\ missed \in BOOLEAN /\ missed' \in BOOLEAN /\ revoked \in BOOLEAN
      /\ sub \in {"no", "live", "mapped"}
  BY <1>1, <1>2 DEF TypeOK
<1>5. Serial => /\ \A q \in Handler : q # p => handler[q] = Idle
                /\ ~ missed /\ (view.tree # NoTree \/ tasks > 0) => sub = "mapped"
  BY <1>2, <1>3, SerialView
<1> HIDE DEF p
<1>6. CASE sub # "mapped" \/ ~ reached
  <2>1. UNCHANGED <<sub, revoked, view>> /\ Becomes(p, Idle)
    BY <1>1, <1>2, <1>3, <1>6 DEF HandleNotice, Becomes, TypeOK, p
  <2>2. RegisterInv'
    BY <1>1, <1>3, <2>1, RegisterKept
  <2> QED
    BY <1>2, <1>3, <1>4, <1>5, <1>6, <2>1, <2>2, HandlerMoves
<1>7. CASE sub = "mapped" /\ reached /\ notice = "resync"
  <2> DEFINE h == [Idle EXCEPT !.at = "resubscribing"]
  <2>1. /\ sub' = "no" /\ revoked' \in BOOLEAN
        /\ view' = [view EXCEPT !.subs = "initializing"] /\ Becomes(p, h)
    BY <1>7 DEF HandleNotice, p
  <2>2. h \in HandlerState /\ h.at = "resubscribing" /\ Kept(h.copy)
    BY <1>3 DEF HandlerState
  <2>3. /\ view' \in ViewState /\ view'.subs = "initializing" /\ view'.crev = view.crev
        /\ Kept(view')
    BY <1>3, <2>1, SubsType
  <2> HIDE DEF h
  <2>4. RegisterInv'
    BY <1>1, <1>3, <1>7, <2>1, <2>2, <2>3, RegisterStarts DEF RegisterInv
  <2>5. Counts(h) /\ Rerendering(h)
    BY <2>2 DEF Counts, Rerendering, ForgetsChange
  <2> QED
    BY <1>2, <1>3, <1>4, <1>5, <2>1, <2>2, <2>3, <2>4, <2>5, HandlerMoves
<1>8. CASE sub = "mapped" /\ reached /\ notice # "resync"
  <2> DEFINE h == RefreshOf(view, FALSE)
  <2>1. UNCHANGED <<sub, revoked, view>> /\ Becomes(p, h)
    BY <1>8 DEF HandleNotice, p
  <2>2. h \in HandlerState /\ h.at = "render" /\ h.why = "refresh" /\ h.copy = view /\ ~ h.ack
    BY <1>3, RefreshType
  <2> HIDE DEF h
  <2>3. RegisterInv'
    BY <1>1, <1>3, <2>1, <2>2, RegisterKept
  <2>4. Rerendering(h) /\ (Recovering => Counts(h))
    BY <1>3, <2>2 DEF Counts, Rerendering, ForgetsChange
  <2> QED
    BY <1>2, <1>3, <1>4, <1>5, <1>8, <2>1, <2>2, <2>3, <2>4, HandlerMoves
<1> QED
  BY <1>6, <1>7, <1>8

(* process_driver_event, the end of a suspended sync_event.                *)
LEMMA HandleTaskInv ==
    ASSUME IInv, UNCHANGED host, NEW x \in {"true", "other"}, HandleTask(x)
    PROVE  IInv'
<1> DEFINE p == Events
           h == IF x = "true" THEN Idle ELSE RefreshOf(view, TRUE)
<1>1. TypeOK /\ RegisterInv
  BY DEF IInv
<1>2. /\ handler[p] = Idle /\ MayStart(p) /\ tasks > 0 /\ tasks' = tasks - 1 /\ Becomes(p, h)
      /\ UNCHANGED <<world, sub, revoked, notice, missed, view, queue, wire, outbox, client, spent>>
  BY DEF HandleTask
<1>3. /\ world' \in Tree /\ queue' \in Seq(Envelope) /\ SnapshotLeads'
      /\ \A i \in DOMAIN queue' : Signed(queue'[i])
      /\ p \in Handler /\ ~ Subscribing(p) /\ view \in ViewState /\ Kept(view)
      /\ Idle \in HandlerState /\ Idle.at = "idle" /\ Kept(Idle.copy) /\ Counts(Idle)
      /\ Recovering => view.crev >= client.rev /\ Ahead(queue)
  BY <1>2, EventFacts
<1>4. /\ h \in HandlerState /\ Kept(h.copy) /\ h.at \in {"idle", "render"}
      /\ h.at = "render" => h.copy = view /\ h.why = "refresh"
  BY <1>3, RefreshType
<1> HIDE DEF h
<1>5. Recovering => view'.crev >= client.rev /\ Counts(h) /\ Ahead(queue')
  BY <1>2, <1>3, <1>4 DEF Counts
<1>6. RegisterInv'
  BY <1>1, <1>2, <1>3, <1>4, RegisterKept
<1>7. Serial => /\ \A q \in Handler : q # p => handler[q] = Idle
                /\ ~ missed => sub = "mapped"
                /\ ~ missed /\ view.tree # NoTree => view.tree = world \/ notice # "none"
  BY <1>2, <1>3, SerialView DEF Rerendering, ForgetsChange
<1>8. /\ tasks' \in Nat /\ spent' \in [changes : Nat, events : Nat, drops : Nat]
      /\ sub' \in {"no", "live", "mapped"} /\ notice' \in {"none", "changes", "resync"}
      /\ missed' \in BOOLEAN /\ revoked' \in BOOLEAN
  BY <1>1, <1>2 DEF TypeOK
<1> HIDE DEF p
<1> QED
  BY <1>2, <1>3, <1>4, <1>5, <1>6, <1>7, <1>8, HandlerMoves
-----------------------------------------------------------------------------
(* The world, the network and the browser.                                 *)

(* A commit changes the tree.                                              *)
LEMMA ChangeInv ==
    ASSUME IInv, RevokedInv, UNCHANGED host, NEW t \in Tree,
           NEW k \in {"changes", "resync", "revoked"}, Change(t, k)
    PROVE  IInv'
<1>1. TypeOK /\ FaithInv /\ SnapshotLeads /\ RegisterInv /\ RecoverInv /\ SerialInv /\ FreshInv
  BY DEF IInv
<1>2. /\ world' = t /\ notice' = Noticed(k)
      /\ UNCHANGED <<sub, missed, view, handler, tasks, queue, wire, outbox, client>>
  BY DEF Change
<1>3. /\ notice' \in {"none", "changes", "resync"}
      /\ sub = "no" => notice' = notice
      /\ Serial /\ ~ missed /\ sub # "no" => notice' # "none"
      /\ revoked' \in BOOLEAN
  BY <1>1, <1>2 DEF TypeOK, Noticed, RevokedInv, Change
<1>4. TypeOK'
  <2>1. spent \in [changes : Nat, events : Nat, drops : Nat]
    BY <1>1 DEF TypeOK
  <2>2. spent' \in [changes : Nat, events : Nat, drops : Nat]
    BY <2>1 DEF Change
  <2> QED
    BY <1>1, <1>2, <1>3, <2>2 DEF TypeOK
<1>5. FaithInv' /\ SnapshotLeads' /\ RegisterInv'
  BY <1>1, <1>2 DEF FaithInv, ClientFaithful, SnapshotLeads, RegisterInv, Subscribing
<1>6. RecoverInv'
  BY <1>1, <1>2, <1>3 DEF RecoverInv, Recovering, Ahead, Counts
<1>7. SerialInv'
  BY <1>1, <1>2 DEF SerialInv, Serial
<1>8. FreshInv'
  <2> SUFFICES ASSUME Serial, ~ missed
               PROVE  FreshInv'
    BY <1>2 DEF FreshInv, Serial
  <2>1. \A p \in Handler : handler[p].at = "rendered" => notice' # "none"
    BY <1>1, <1>3 DEF FreshInv
  <2>2. view.tree # NoTree => notice' # "none" \/ \E p \in Handler : Rerendering(handler[p])
    BY <1>1, <1>3 DEF FreshInv, Rerendering, ForgetsChange
  <2> QED
    BY <1>1, <1>2, <2>1, <2>2 DEF FreshInv, Fresh, Rerendering, ForgetsChange, NoTree
<1> QED
  BY <1>4, <1>5, <1>6, <1>7, <1>8 DEF IInv

(* What the writer, the network and the browser do.                        *)
LEMMA HostRests ==
    ASSUME IInv, UNCHANGED <<host, world, sub, revoked, notice, missed, view, handler, tasks>>,
           queue' \in Seq(Envelope), wire' \in Seq(Envelope), outbox' \subseteq Messages,
           client' \in Browser,
           spent' \in [changes : Nat, events : Nat, drops : Nat],
           ClientFaithful', client'.shown \in Tree, SnapshotLeads',
           \A i \in DOMAIN queue' : Signed(queue'[i]),
           \A i \in DOMAIN wire' : Signed(wire'[i]),
           Recovering' => /\ Recovering /\ client'.rev = client.rev /\ outbox' = outbox
                          /\ Ahead(queue') /\ Ahead(wire')
    PROVE  IInv'
<1>1. TypeOK /\ FaithInv /\ RegisterInv /\ RecoverInv /\ SerialInv /\ FreshInv
  BY DEF IInv
<1>2. TypeOK'
  BY <1>1 DEF TypeOK
<1>3. FaithInv'
  BY <1>1 DEF FaithInv, Kept, Signed
<1>4. RegisterInv'
  BY <1>1 DEF RegisterInv, Subscribing
<1>5. RecoverInv'
  <2> SUFFICES ASSUME Recovering'
               PROVE  RecoverInv'
    BY DEF RecoverInv
  <2>1. Ahead(queue)' /\ Ahead(wire)'
    BY DEF Ahead
  <2>2. \A p \in Handler : Counts(handler[p])' <=> Counts(handler[p])
    BY DEF Counts
  <2> QED
    BY <1>1, <2>1, <2>2 DEF RecoverInv
<1>6. SerialInv' /\ FreshInv'
  BY <1>1 DEF SerialInv, FreshInv, Serial, Fresh, Rerendering, ForgetsChange
<1> QED
  BY <1>2, <1>3, <1>4, <1>5, <1>6 DEF IInv

(* What these steps start from.                                            *)
LEMMA BrowserFacts ==
    ASSUME IInv
    PROVE  /\ queue \in Seq(Envelope) /\ wire \in Seq(Envelope) /\ outbox \subseteq Messages
           /\ client \in Browser
           /\ spent \in [changes : Nat, events : Nat, drops : Nat]
           /\ client.sig = Sig(client.rev, client.shown) /\ client.shown \in Tree
           /\ SnapshotLeads
           /\ \A i \in DOMAIN queue : Signed(queue[i])
           /\ \A i \in DOMAIN wire : Signed(wire[i])
           /\ Recovering => Ahead(queue) /\ Ahead(wire)
           /\ \A kind \in {"need", "have", "event"}, r \in BOOLEAN : Message(kind, r) \in Messages
<1>1. TypeOK /\ FaithInv /\ SnapshotLeads /\ RecoverInv
  BY DEF IInv
<1>2. client \in Browser
  BY <1>1 DEF TypeOK
<1>3. client.rev \in Nat /\ client.sig \in Signature
  BY <1>2 DEF Browser
<1>4. \A kind \in {"need", "have", "event"}, r \in BOOLEAN : Message(kind, r) \in Messages
  BY <1>3 DEF Message, Messages
<1> QED
  BY <1>1, <1>2, <1>4 DEF TypeOK, FaithInv, ClientFaithful, RecoverInv

(* The writer sends the first envelope.                                    *)
LEMMA TransmitInv ==
    ASSUME IInv, UNCHANGED host, Transmit
    PROVE  IInv'
<1>1. /\ queue # <<>> /\ wire' = Append(wire, Head(queue)) /\ queue' = Tail(queue)
      /\ UNCHANGED <<world, sub, revoked, notice, missed, view, handler, tasks, outbox, client,
                     spent>>
  BY DEF Transmit
<1>2. queue \in Seq(Envelope) /\ wire \in Seq(Envelope)
  BY BrowserFacts
<1>3. /\ queue' \in Seq(Envelope) /\ DOMAIN queue' = 1 .. (Len(queue) - 1)
      /\ \A i \in DOMAIN queue' : i + 1 \in DOMAIN queue /\ queue'[i] = queue[i + 1] /\ i + 1 > 1
      /\ 1 \in DOMAIN queue /\ Head(queue) = queue[1] /\ Head(queue) \in Envelope
  BY <1>1, <1>2
<1>4. /\ wire' \in Seq(Envelope)
      /\ \A i \in DOMAIN wire' : \/ i \in DOMAIN wire /\ wire'[i] = wire[i]
                                 \/ wire'[i] = queue[1]
  BY <1>1, <1>2, <1>3
<1>5. /\ \A i \in DOMAIN queue' : Signed(queue'[i])
      /\ \A i \in DOMAIN wire' : Signed(wire'[i])
  BY <1>3, <1>4, BrowserFacts
<1>6. SnapshotLeads'
  <2>1. \A i \in DOMAIN queue' : queue'[i].kind # "snapshot"
    BY <1>3, BrowserFacts DEF SnapshotLeads
  <2>2. \A i \in DOMAIN queue' : i > 1 => 1 \in DOMAIN queue'
    BY <1>3
  <2> QED
    BY <2>1, <2>2 DEF SnapshotLeads
<1>7. Recovering => Ahead(queue') /\ Ahead(wire')
  BY <1>3, <1>4, BrowserFacts DEF Ahead
<1>8. (Recovering' <=> Recovering) /\ ClientFaithful'
  BY <1>1, BrowserFacts DEF Recovering, ClientFaithful
<1> QED
  BY <1>1, <1>3, <1>4, <1>5, <1>6, <1>7, <1>8, BrowserFacts, HostRests

(* An envelope leaves the network; the others stay as they were.           *)
LEMMA WireShrinks ==
    ASSUME wire \in Seq(Envelope), NEW i \in DOMAIN wire
    PROVE  LET w == Without(wire, i) IN
           w \in Seq(Envelope) /\ \A j \in DOMAIN w : \E k \in DOMAIN wire : w[j] = wire[k]
<1> DEFINE a == SubSeq(wire, 1, i - 1)
           b == SubSeq(wire, i + 1, Len(wire))
<1>1. i \in 1 .. Len(wire) /\ Len(wire) \in Nat
  OBVIOUS
<1>2. /\ a \in Seq(Envelope) /\ Len(a) = i - 1
      /\ \A j \in 1 .. (i - 1) : a[j] = wire[j] /\ j \in DOMAIN wire
  BY <1>1
<1>3. /\ b \in Seq(Envelope) /\ Len(b) = Len(wire) - i
      /\ \A j \in 1 .. (Len(wire) - i) : b[j] = wire[i + j] /\ i + j \in DOMAIN wire
  BY <1>1
<1> HIDE DEF a, b
<1>4. /\ a \o b \in Seq(Envelope) /\ DOMAIN (a \o b) = 1 .. (Len(a) + Len(b))
      /\ \A j \in 1 .. (Len(a) + Len(b)) :
            (a \o b)[j] = IF j <= Len(a) THEN a[j] ELSE b[j - Len(a)]
  BY <1>2, <1>3, ConcatProperties
<1>5. ASSUME NEW j \in DOMAIN (a \o b)
      PROVE  \E k \in DOMAIN wire : (a \o b)[j] = wire[k]
  <2>1. CASE j <= Len(a)
    BY <1>1, <1>2, <1>3, <1>4, <2>1
  <2>2. CASE ~ (j <= Len(a))
    <3>1. j - Len(a) \in 1 .. (Len(wire) - i)
      BY <1>1, <1>2, <1>3, <1>4, <2>2
    <3> QED
      BY <1>3, <1>4, <2>2, <3>1
  <2> QED
    BY <2>1, <2>2
<1>6. Without(wire, i) = a \o b
  BY DEF Without, a, b
<1> QED
  BY <1>4, <1>5, <1>6
LEMMA LoseInv ==
    ASSUME IInv, UNCHANGED host, NEW i \in DOMAIN wire, Lose(i)
    PROVE  IInv'
<1>1. /\ wire' = Without(wire, i)
      /\ UNCHANGED <<world, sub, revoked, notice, missed, view, handler, tasks, queue, outbox,
                     client, spent>>
  BY DEF Lose
<1>2. wire' \in Seq(Envelope) /\ \A j \in DOMAIN wire' : \E k \in DOMAIN wire : wire'[j] = wire[k]
  BY <1>1, BrowserFacts, WireShrinks
<1>3. \A j \in DOMAIN wire' : Signed(wire'[j])
  BY <1>2, BrowserFacts
<1>4. Recovering => Ahead(wire')
  BY <1>2, BrowserFacts DEF Ahead
<1>5. (Recovering' <=> Recovering) /\ ClientFaithful' /\ SnapshotLeads'
  BY <1>1, BrowserFacts DEF Recovering, ClientFaithful, SnapshotLeads
<1> QED
  BY <1>1, <1>2, <1>3, <1>4, <1>5, BrowserFacts, HostRests

(* What the browser becomes when it takes or acknowledges an envelope.     *)
LEMMA AcceptedType ==
    ASSUME client \in Browser, NEW e \in Envelope, NEW t \in Drawn
    PROVE  /\ Accepted(e, t) \in Browser
           /\ Accepted(e, t).rev = e.rev /\ Accepted(e, t).sig = e.sig
           /\ Accepted(e, t).shown = t
           /\ Accepted(e, t).mode = "recovering" => client.mode = "recovering" /\ e.kind = "delta"
BY DEF Accepted, Envelope, Browser

LEMMA AcknowledgedType ==
    ASSUME client \in Browser, NEW e
    PROVE  /\ Acknowledged(e) \in Browser
           /\ Acknowledged(e).rev = client.rev /\ Acknowledged(e).sig = client.sig
           /\ Acknowledged(e).shown = client.shown /\ Acknowledged(e).mode = client.mode
BY DEF Acknowledged, Browser

(* handleEnvelope: a delta is taken only on the tree it was computed from. *)
LEMMA DeliverTakes ==
    ASSUME IInv, UNCHANGED host, NEW i \in DOMAIN wire, NEW again \in BOOLEAN, Deliver(i, again)
    PROVE  /\ client' \in Browser
           /\ ClientFaithful' /\ client'.shown \in Tree /\ outbox' \subseteq Messages
           /\ client'.mode = "recovering" => UNCHANGED <<client, outbox>>
           /\ client.mode = "recovering" /\ client' # client =>
                 wire[i].kind = "snapshot" /\ client'.rev = wire[i].rev
<1>1. PICK e \in Envelope : e = wire[i]
  BY BrowserFacts
<1>2. Signed(e) /\ e.kind \in {"snapshot", "delta"} /\ e.tree \in Drawn
  BY <1>1, BrowserFacts DEF Envelope
<1>3. /\ client \in Browser
      /\ client.sig = Sig(client.rev, client.shown) /\ client.shown \in Tree
      /\ outbox \subseteq Messages /\ Message("have", FALSE) \in Messages
  BY BrowserFacts
<1>4. IF e.kind = "snapshot" THEN HandleSnapshot(e) ELSE HandleDelta(e)
  BY <1>1 DEF Deliver
<1>5. CASE e.kind = "snapshot"
  <2>1. /\ outbox' = outbox
        /\ \/ client.mode = "synced" /\ client' = Acknowledged(e)
           \/ client' = Accepted(e, e.tree)
    BY <1>4, <1>5 DEF HandleSnapshot
  <2>2. CASE client.mode = "synced" /\ client' = Acknowledged(e)
    BY <1>3, <2>1, <2>2, AcknowledgedType DEF ClientFaithful
  <2>3. CASE client' = Accepted(e, e.tree)
    <3>1. /\ client' \in Browser
          /\ client'.rev = e.rev /\ client'.sig = e.sig /\ client'.shown = e.tree
          /\ client'.mode # "recovering"
      BY <1>2, <1>3, <1>5, <2>3, AcceptedType
    <3>2. e.sig = Sig(e.rev, e.tree) /\ e.tree \in Tree
      BY <1>2 DEF Signed
    <3> QED
      BY <1>1, <1>3, <1>5, <2>1, <3>1, <3>2 DEF ClientFaithful
  <2> QED
    BY <2>1, <2>2, <2>3
<1>6. CASE e.kind # "snapshot"
  <2>0. HandleDelta(e)
    BY <1>4, <1>6
  <2>1. CASE client.mode = "recovering"
    <3>1. UNCHANGED <<client, outbox>>
      BY <2>0, <2>1 DEF HandleDelta
    <3> QED
      BY <1>3, <3>1 DEF ClientFaithful
  <2>2. CASE client.mode # "recovering" /\ Outdated(e)
    <3>1. client' = Acknowledged(e) /\ outbox' = outbox
      BY <2>0, <2>2 DEF HandleDelta
    <3> QED
      BY <1>3, <2>2, <3>1, AcknowledgedType DEF ClientFaithful
  <2>3. CASE client.mode # "recovering" /\ ~ Outdated(e) /\ ~ BaseMatches(e)
    <3>1. outbox' = outbox \cup {Message("have", FALSE)} /\ client' = client
      BY <2>0, <2>3 DEF HandleDelta
    <3> QED
      BY <1>3, <2>3, <3>1 DEF ClientFaithful
  <2>4. CASE client.mode # "recovering" /\ ~ Outdated(e) /\ BaseMatches(e)
    <3>1. client' = Accepted(e, Patched(e)) /\ outbox' = outbox
      BY <2>0, <2>4 DEF HandleDelta
    <3>2. client.shown = e.from
      BY <1>2, <1>3, <2>4 DEF BaseMatches, Signed, Sig
    <3>3. Patched(e) = e.tree
      BY <3>2 DEF Patched
    <3> QED
      BY <1>2, <1>3, <2>4, <3>1, <3>3, AcceptedType DEF ClientFaithful, Signed
  <2> QED
    BY <2>1, <2>2, <2>3, <2>4
<1> QED
  BY <1>5, <1>6

LEMMA DeliverInv ==
    ASSUME IInv, UNCHANGED host, NEW i \in DOMAIN wire, NEW again \in BOOLEAN, Deliver(i, again)
    PROVE  IInv'
<1>1. /\ wire' = wire \/ wire' = Without(wire, i)
      /\ UNCHANGED <<world, sub, revoked, notice, missed, view, handler, tasks, queue, spent>>
  BY DEF Deliver
<1>2. wire' \in Seq(Envelope) /\ \A j \in DOMAIN wire' : \E k \in DOMAIN wire : wire'[j] = wire[k]
  BY <1>1, BrowserFacts, WireShrinks
<1>3. \A j \in DOMAIN wire' : Signed(wire'[j])
  BY <1>2, BrowserFacts
<1>4. Recovering => Ahead(wire')
  BY <1>2, BrowserFacts DEF Ahead
<1>5. Recovering' => Recovering /\ UNCHANGED <<client, outbox>>
  BY DeliverTakes DEF Recovering
<1>6. SnapshotLeads'
  BY <1>1, BrowserFacts DEF SnapshotLeads
<1> QED
  BY <1>1, <1>2, <1>3, <1>4, <1>5, <1>6, BrowserFacts, DeliverTakes, HostRests

(* The browser on a new connection asks for a snapshot.                    *)
LEMMA Reconnected ==
    ASSUME IInv, BrowserReconnects
    PROVE  /\ wire' \in Seq(Envelope) /\ DOMAIN wire' = {}
           /\ client' \in Browser /\ client.rev \in Nat
           /\ client'.rev = client.rev /\ client'.sig = client.sig /\ client'.shown = client.shown
           /\ client.mode # "initial" => client'.mode = "recovering"
           /\ outbox' \subseteq Messages
           /\ \A m \in outbox' : m.kind = "need" /\ m.rev = client.rev
           /\ ClientFaithful' /\ client'.shown \in Tree
<1>1. wire' \in Seq(Envelope) /\ DOMAIN wire' = {}
  BY DEF BrowserReconnects
<1>2. /\ client' \in Browser /\ client.rev \in Nat
      /\ client'.rev = client.rev /\ client'.sig = client.sig /\ client'.shown = client.shown
      /\ client.mode # "initial" => client'.mode = "recovering"
  BY BrowserFacts DEF BrowserReconnects, Browser
<1>3. outbox' \subseteq Messages /\ \A m \in outbox' : m.kind = "need" /\ m.rev = client.rev
  <2>1. Message("need", FALSE) \in Messages
    BY BrowserFacts
  <2>2. Message("need", FALSE).kind = "need" /\ Message("need", FALSE).rev = client.rev
    BY DEF Message
  <2> QED
    BY <2>1, <2>2 DEF BrowserReconnects
<1>4. ClientFaithful' /\ client'.shown \in Tree
  BY <1>2, BrowserFacts DEF ClientFaithful
<1> QED
  BY <1>1, <1>2, <1>3, <1>4

(* The host forgets the session.                                           *)
LEMMA ForgottenInv ==
    ASSUME IInv, UNCHANGED <<host, world>>, SessionForgotten, BrowserReconnects,
           spent' \in [changes : Nat, events : Nat, drops : Nat]
    PROVE  IInv'
<1>1. /\ sub' = "no" /\ revoked' = FALSE /\ notice' = "none" /\ missed' = FALSE
      /\ view' = NoView /\ tasks' = 0
      /\ handler' = [p \in Handler |-> Idle] /\ queue' = <<>>
  BY DEF SessionForgotten
<1>2. /\ handler' \in [Handler -> HandlerState]
      /\ \A p \in Handler : /\ handler'[p] = Idle /\ handler'[p].at = "idle"
                            /\ Kept(handler'[p].copy)
  BY <1>1, IdleType
<1>3. queue' \in Seq(Envelope) /\ DOMAIN queue' = {}
  BY <1>1
<1>4. TypeOK'
  <2>1. host \in Host /\ world \in Tree
    BY DEF IInv, TypeOK
  <2> QED
    BY <1>1, <1>2, <1>3, <2>1, Reconnected, IdleType DEF TypeOK
<1>5. FaithInv'
  BY <1>1, <1>2, <1>3, Reconnected, IdleType DEF FaithInv, Kept
<1>6. SnapshotLeads'
  BY <1>3 DEF SnapshotLeads
<1>7. RegisterInv'
  BY <1>1, <1>2 DEF RegisterInv, Subscribing, NoView
<1>8. RecoverInv'
  BY <1>1, <1>2, <1>3, Reconnected DEF RecoverInv, Ahead
<1>9. SerialInv' /\ FreshInv'
  BY <1>1, <1>2 DEF SerialInv, FreshInv, NoView, NoTree
<1> QED
  BY <1>4, <1>5, <1>6, <1>7, <1>8, <1>9 DEF IInv

(* The connection ends.                                                    *)
LEMMA DropInv ==
    ASSUME IInv, UNCHANGED host, Drop
    PROVE  IInv'
<1>1. BrowserReconnects /\ world' = world
  BY DEF Drop
<1>2. spent' \in [changes : Nat, events : Nat, drops : Nat]
  <2>1. spent \in [changes : Nat, events : Nat, drops : Nat]
    BY BrowserFacts
  <2> QED
    BY <2>1 DEF Drop
<1>3. CASE host.keepsSession
  <2>1. UNCHANGED <<sub, revoked, notice, missed, view, handler, tasks, queue>>
    BY <1>3 DEF Drop
  <2>2. ~ Recovering' /\ SnapshotLeads'
    BY <1>3, <2>1, BrowserFacts DEF Recovering, SnapshotLeads
  <2> QED
    BY <1>1, <1>2, <2>1, <2>2, Reconnected, BrowserFacts, HostRests
<1>4. CASE ~ host.keepsSession
  <2>1. SessionForgotten
    BY <1>4 DEF Drop
  <2> QED
    BY <1>1, <1>2, <2>1, ForgottenInv
<1> QED
  BY <1>3, <1>4

-----------------------------------------------------------------------------
(* Handlers that fail.                                                     *)

(* What the browser becomes when its request was refused, or not.          *)
LEMMA RefusedType ==
    ASSUME IInv
    PROVE  /\ Refused \in Browser
           /\ Refused.rev = client.rev /\ Refused.sig = client.sig
           /\ Refused.shown = client.shown /\ Refused.mode # "recovering"
BY BrowserFacts DEF Refused, Browser

(* A handler returns its error and leaves the record's tree as it is; a    *)
(* refresh that was asked for by the driver leaves a change forgotten.     *)
LEMMA HandlerFailsInv ==
    ASSUME IInv, UNCHANGED <<host, world, spent>>, NEW p \in Handler,
           handler[p].at \in {"subscribing", "resubscribing", "render"},
           NEW s \in {"no", "live", "mapped"}, s = sub \/ sub # "mapped",
           NEW v \in ViewState, Kept(v), v.crev = view.crev, v.tree = view.tree,
           HandlerFails(p, s, v),
           Becomes(p, Idle) /\ sub' = s /\ view' = v => RegisterInv'
    PROVE  IInv'
<1>1. TypeOK /\ FaithInv /\ SnapshotLeads
  BY DEF IInv
<1>2. spent' \in [changes : Nat, events : Nat, drops : Nat]
  BY BrowserFacts
<1>3. CASE OnError(p) = "closed"
  <2>1. SessionForgotten /\ BrowserReconnects
    BY <1>3 DEF HandlerFails
  <2> QED
    BY <1>2, <2>1, ForgottenInv
<1>4. CASE OnError(p) # "closed"
  <2>1. /\ Becomes(p, Idle) /\ sub' = s /\ view' = v
        /\ missed' = (missed \/ ForgetsChange(handler[p]))
        /\ revoked' = (revoked /\ s # "no")
        /\ client' = client \/ client' = Refused
        /\ UNCHANGED <<notice, tasks, queue, wire, outbox>>
    BY <1>4 DEF HandlerFails
  <2>2. /\ client' \in Browser /\ client'.rev = client.rev /\ client'.sig = client.sig
        /\ client'.shown = client.shown
        /\ client'.mode = "recovering" => client.mode = "recovering"
    BY <2>1, RefusedType, BrowserFacts
  <2>3. Idle \in HandlerState /\ Idle.at = "idle" /\ Kept(Idle.copy) /\ Counts(Idle)
    BY IdleType DEF Counts
  <2>4. RegisterInv'
    BY <2>1
  <2>5. Recovering => view'.crev >= client.rev /\ Ahead(queue')
    BY <2>1, CountsNow
  <2>6. Serial => \A q \in Handler : q # p => handler[q] = Idle
    BY OthersIdle
  <2>7. Serial /\ ~ missed' =>
          /\ view'.tree # NoTree \/ tasks' > 0 => sub' = "mapped"
          /\ view'.tree # NoTree => view'.tree = world' \/ notice' # "none"
    BY <2>1, SerialView DEF Rerendering, ForgetsChange
  <2>8. /\ queue' \in Seq(Envelope) /\ SnapshotLeads'
        /\ \A i \in DOMAIN queue' : Signed(queue'[i])
    BY <1>1, <2>1 DEF TypeOK, FaithInv, SnapshotLeads
  <2>9. /\ world' \in Tree /\ tasks' \in Nat /\ notice' \in {"none", "changes", "resync"}
        /\ missed' \in BOOLEAN /\ revoked' \in BOOLEAN
    BY <1>1, <2>1 DEF TypeOK, ForgetsChange
  <2> QED
    BY <1>2, <2>1, <2>2, <2>3, <2>4, <2>5, <2>6, <2>7, <2>8, <2>9, HandlerAnswers
<1> QED
  BY <1>3, <1>4

(* register_view_subscriptions fails.                                      *)
LEMMA RegisterFailsInv ==
    ASSUME IInv, UNCHANGED host, NEW p \in Handler, RegisterFails(p)
    PROVE  IInv'
<1> DEFINE v == [view EXCEPT !.subs = "none"]
<1>1. TypeOK /\ RegisterInv /\ FaithInv
  BY DEF IInv
<1>2. Subscribing(p) /\ HandlerFails(p, "no", v) /\ UNCHANGED <<world, spent>>
  BY DEF RegisterFails
<1>3. /\ v \in ViewState /\ v.subs = "none" /\ v.crev = view.crev /\ v.tree = view.tree
      /\ Kept(v)
  BY <1>1, SubsType DEF FaithInv, TypeOK
<1>4. sub # "mapped"
  BY <1>1, <1>2 DEF RegisterInv
<1> HIDE DEF v
<1>5. ASSUME Becomes(p, Idle), sub' = "no", view' = v
      PROVE  RegisterInv'
  BY <1>1, <1>2, <1>3, <1>5, IdleType, RegisterEnds
<1>6. handler[p].at \in {"subscribing", "resubscribing", "render"}
  BY <1>2 DEF Subscribing
<1> QED
  BY <1>2, <1>3, <1>4, <1>5, <1>6, HandlerFailsInv

(* render_sync_tree fails.                                                 *)
LEMMA RenderFailsInv ==
    ASSUME IInv, UNCHANGED host, NEW p \in Handler, RenderFails(p)
    PROVE  IInv'
<1>1. TypeOK /\ RegisterInv /\ FaithInv
  BY DEF IInv
<1>2. handler[p].at = "render" /\ HandlerFails(p, sub, view) /\ UNCHANGED <<world, spent>>
  BY DEF RenderFails
<1>3. view \in ViewState /\ Kept(view) /\ sub \in {"no", "live", "mapped"}
  BY <1>1 DEF FaithInv, TypeOK
<1>4. ASSUME Becomes(p, Idle), sub' = sub, view' = view
      PROVE  RegisterInv'
  BY <1>1, <1>2, <1>4, IdleType, RegisterKept DEF Subscribing
<1> QED
  BY <1>2, <1>3, <1>4, HandlerFailsInv

(* The browser polls, sends a DOM event, or gives up waiting for it.       *)
LEMMA BrowserInv ==
    ASSUME IInv, UNCHANGED host,
           Poll \/ EventTimesOut \/ \E refresh \in BOOLEAN : SendEvent(refresh)
    PROVE  /\ IInv'
           /\ client'.rev = client.rev /\ client'.mode = client.mode
<1>1. /\ UNCHANGED <<world, sub, revoked, notice, missed, view, handler, tasks, queue, wire>>
      /\ client' = client \/ \E b \in BOOLEAN : client' = [client EXCEPT !.inflight = b]
      /\ outbox' = outbox \/ \E k \in {"have", "event"}, r \in BOOLEAN :
                                outbox' = outbox \cup {Message(k, r)}
      /\ client.mode = "synced" \/ outbox' = outbox
  BY DEF Poll, EventTimesOut, SendEvent
<1>2. /\ client' \in Browser
      /\ client'.rev = client.rev /\ client'.sig = client.sig /\ client'.shown = client.shown
      /\ client'.mode = client.mode
  BY <1>1, BrowserFacts DEF Browser
<1>3. spent' \in [changes : Nat, events : Nat, drops : Nat]
  <2>1. spent \in [changes : Nat, events : Nat, drops : Nat]
    BY BrowserFacts
  <2>2. spent' = spent \/ spent' = [spent EXCEPT !.events = @ + 1]
    BY DEF Poll, EventTimesOut, SendEvent
  <2> QED
    BY <2>1, <2>2
<1>4. outbox' \subseteq Messages
  BY <1>1, BrowserFacts
<1>5. ClientFaithful' /\ client'.shown \in Tree /\ SnapshotLeads'
  BY <1>1, <1>2, BrowserFacts DEF ClientFaithful, SnapshotLeads
<1>6. Recovering' => Recovering /\ outbox' = outbox
  BY <1>1, <1>2 DEF Recovering
<1> QED
  BY <1>1, <1>2, <1>3, <1>4, <1>5, <1>6, BrowserFacts, HostRests
-----------------------------------------------------------------------------
(* The theorems.                                                           *)

(* A revocation is on record in the mailbox until the host reads it or     *)
(* fails.                                                                  *)
LEMMA RevokedStep ==
    ASSUME IInv, RevokedInv, [Next]_vars
    PROVE  RevokedInv'
<1>1. CASE UNCHANGED <<host, sub, revoked, notice, missed>>
  BY <1>1 DEF RevokedInv, Serial
<1>2. ASSUME NEW p \in Handler, NEW s, NEW v, HandlerFails(p, s, v), UNCHANGED host
      PROVE  RevokedInv'
  BY <1>2 DEF HandlerFails, SessionForgotten, RevokedInv, Serial
<1>3. ASSUME NEW p \in Handler, HostStep(p), UNCHANGED host
      PROVE  RevokedInv'
  <2>1. CASE Subscribe(p) \/ Registered(p)
    <3>1. UNCHANGED <<revoked, notice, missed>> /\ sub' \in {"live", "mapped"}
      BY <2>1 DEF Subscribe, Registered
    <3> QED
      BY <1>3, <3>1 DEF RevokedInv, Serial
  <2>2. CASE RegisterFails(p) \/ RenderFails(p)
    BY <1>2, <1>3, <2>2 DEF RegisterFails, RenderFails
  <2>3. CASE FinishNeed(p) \/ FinishHave(p) \/ FinishStale(p) \/ FinishRefresh(p)
    BY <1>1, <1>3, <2>3 DEF FinishNeed, FinishHave, FinishStale, FinishRefresh, Untouched
  <2>4. CASE \E t \in Tree, o \in {"done", "refresh", "suspended"} : Invoke(p, t, o)
    BY <1>3, <2>4 DEF Invoke, Noticed, RevokedInv, Serial
  <2>5. CASE Render(p)
    <3>1. /\ UNCHANGED <<sub, revoked, notice>>
          /\ missed' = (missed /\ (sub # "mapped" \/ revoked))
      BY <2>5 DEF Render
    <3> QED
      BY <1>3, <3>1 DEF RevokedInv, Serial
  <2> QED
    BY <1>3, <2>1, <2>2, <2>3, <2>4, <2>5 DEF HostStep
<1>4. ASSUME NEW t \in Tree, NEW k \in {"changes", "resync", "revoked"}, Change(t, k),
             UNCHANGED host
      PROVE  RevokedInv'
  BY <1>4 DEF Change, Noticed, RevokedInv, Serial
<1>5. ASSUME NEW reached \in BOOLEAN, HandleNotice(reached), UNCHANGED host
      PROVE  RevokedInv'
  <2>1. CASE sub = "mapped" /\ reached
    BY <1>5, <2>1 DEF HandleNotice, RevokedInv, Serial
  <2>2. CASE sub # "mapped" \/ ~ reached
    <3>1. /\ UNCHANGED <<sub, revoked>>
          /\ missed' = (missed \/ (~ reached /\ sub = "mapped"))
      BY <1>5, <2>2 DEF HandleNotice
    <3>2. Serial => sub # "live"
      <4>1. Events \in Handler /\ handler[Events] = Idle /\ MayStart(Events)
        BY <1>5 DEF HandleNotice, Handler
      <4>2. Serial => \A q \in Handler : handler[q] = Idle
        BY <4>1, OthersIdle
      <4>3. Serial => \A q \in Handler : ~ Subscribing(q)
        BY <4>2, IdleType DEF Subscribing
      <4> QED
        BY <4>3 DEF IInv, RegisterInv
    <3>3. sub \in {"no", "live", "mapped"}
      BY DEF IInv, TypeOK
    <3> QED
      BY <1>5, <2>2, <3>1, <3>2, <3>3 DEF RevokedInv, Serial
  <2> QED
    BY <2>1, <2>2
<1>6. CASE Drop /\ UNCHANGED host
  BY <1>1, <1>6 DEF Drop, SessionForgotten, RevokedInv, Serial
<1>7. CASE UNCHANGED vars
  BY <1>1, <1>7 DEF vars
<1>8. CASE Next
  <2>1. UNCHANGED host /\ Step
    BY <1>8 DEF Next
  <2>2. CASE \/ \E p \in Input, m \in outbox : Receive(p, m)
             \/ \E v \in {"true", "other"} : HandleTask(v)
             \/ Transmit
             \/ \E i \in DOMAIN wire : Lose(i) \/ \E again \in BOOLEAN : Deliver(i, again)
             \/ Poll \/ EventTimesOut \/ \E refresh \in BOOLEAN : SendEvent(refresh)
    BY <1>1, <2>1, <2>2 DEF Receive, HandleTask, Transmit, Lose, Deliver, Poll, EventTimesOut,
                            SendEvent
  <2> QED
    BY <1>3, <1>4, <1>5, <1>6, <2>1, <2>2 DEF Step
<1> QED
  BY <1>7, <1>8

LEMMA NextInv ==
    ASSUME IInv, RevokedInv, [Next]_vars
    PROVE  IInv'
<1>1. CASE UNCHANGED vars
  BY <1>1 DEF vars, IInv, TypeOK, FaithInv, ClientFaithful, Kept, Signed, SnapshotLeads, RegisterInv,
              Subscribing, RecoverInv, Recovering, Ahead, Counts, SerialInv, FreshInv, Serial, Fresh,
              Rerendering, ForgetsChange
<1>2. CASE Next
  <2>1. UNCHANGED host /\ Step
    BY <1>2 DEF Next
  <2>2. ASSUME NEW p \in Handler, HostStep(p)
        PROVE  IInv'
    BY <2>1, <2>2, SubscribeInv, RegisteredInv, RegisterFailsInv, RenderInv, RenderFailsInv,
       FinishNeedInv, FinishHaveInv, FinishStaleInv, FinishRefreshInv, InvokeInv DEF HostStep
  <2>3. CASE \/ \E p \in Input, m \in outbox : Receive(p, m)
             \/ \E t \in Tree, k \in {"changes", "resync", "revoked"} : Change(t, k)
             \/ \E reached \in BOOLEAN : HandleNotice(reached)
             \/ \E v \in {"true", "other"} : HandleTask(v)
    BY <2>1, <2>3, ReceiveInv, ChangeInv, HandleNoticeInv, HandleTaskInv
  <2>4. CASE \/ Transmit
             \/ \E i \in DOMAIN wire : Lose(i) \/ \E again \in BOOLEAN : Deliver(i, again)
             \/ Drop \/ Poll \/ EventTimesOut
             \/ \E refresh \in BOOLEAN : SendEvent(refresh)
    BY <2>1, <2>4, TransmitInv, LoseInv, DeliverInv, DropInv, BrowserInv
  <2> QED
    BY <2>1, <2>2, <2>3, <2>4 DEF Step
<1> QED
  BY <1>1, <1>2

LEMMA Inductive == Spec => [](IInv /\ RevokedInv)
<1>1. Init => RevokedInv
  BY DEF Init, RevokedInv
<1>2. IInv /\ RevokedInv /\ [Next]_vars => IInv' /\ RevokedInv'
  BY NextInv, RevokedStep
<1> QED
  BY <1>1, <1>2, InitInv, PTL DEF Spec

(* The flags of a view count the handlers that register it.                *)
LEMMA FlagsCount == RegisterInv => OneRegistration
<1> SUFFICES ASSUME RegisterInv
             PROVE  OneRegistration
  OBVIOUS
<1> DEFINE S == {p \in Handler : Subscribing(p)}
<1>1. CASE view.subs = "initializing"
  <2>1. PICK p \in Handler : Subscribing(p)
    BY <1>1 DEF RegisterInv
  <2>2. S = {p}
    BY <2>1 DEF RegisterInv
  <2>3. Cardinality({p}) = 1
    BY FS_Singleton
  <2> QED
    BY <1>1, <2>2, <2>3 DEF RegisterInv, OneRegistration
<1>2. CASE view.subs # "initializing"
  <2>1. S = {}
    BY <1>2 DEF RegisterInv
  <2> QED
    BY <1>2, <2>1, FS_EmptySet DEF RegisterInv, OneRegistration
<1> QED
  BY <1>1, <1>2

(* What the browser shows is what its signature says, a queued snapshot    *)
(* leads, and the subscription flags tell the truth: whatever the network  *)
(* loses, repeats and reorders, and however the handlers of                *)
(* route_sync_envelope and process_driver_event overlap and fail.          *)
THEOREM ViewAlwaysFaithful == Spec => []ViewFaithful
<1>1. IInv => ViewFaithful
  BY FlagsCount DEF IInv, FaithInv, ViewFaithful
<1> QED
  BY <1>1, Inductive, PTL

LEMMA RecoveryStep ==
    ASSUME IInv, [Next]_vars, Recovering, client'.mode = "synced"
    PROVE  client'.rev >= client.rev
<1>1. client.rev \in Nat /\ client.mode = "recovering"
  BY BrowserFacts DEF Recovering, Browser
<1>2. CASE client' = client
  BY <1>1, <1>2
<1>3. CASE client' # client
  <2>1. \/ Drop \/ Poll \/ EventTimesOut \/ \E refresh \in BOOLEAN : SendEvent(refresh)
        \/ \E i \in DOMAIN wire, again \in BOOLEAN : Deliver(i, again)
        \/ \E p \in Handler : RegisterFails(p) \/ RenderFails(p)
    <3>1. Step /\ UNCHANGED host
      BY <1>3 DEF Next, vars
    <3>2. ASSUME NEW p \in Handler
          PROVE  HostStep(p) => RegisterFails(p) \/ RenderFails(p)
      BY <1>3 DEF HostStep, Subscribe, Registered, Render, FinishNeed, FinishHave,
                  FinishStale, FinishRefresh, Invoke, Untouched
    <3> QED
      BY <1>3, <3>1, <3>2 DEF Step, Receive, Change, HandleNotice, HandleTask, Transmit, Lose
  <2>2. UNCHANGED host
    BY <1>3 DEF Next, vars
  <2>3. CASE Drop
    BY <1>1, <2>3, Reconnected DEF Drop
  <2>4. CASE Poll \/ EventTimesOut \/ \E refresh \in BOOLEAN : SendEvent(refresh)
    BY <1>1, <2>2, <2>4, BrowserInv
  <2>5. CASE \E i \in DOMAIN wire, again \in BOOLEAN : Deliver(i, again)
    <3>1. PICK i \in DOMAIN wire, again \in BOOLEAN : Deliver(i, again)
      BY <2>5
    <3>2. wire[i].kind = "snapshot" /\ client'.rev = wire[i].rev
      BY <1>1, <1>3, <2>2, <3>1, DeliverTakes
    <3> QED
      BY <3>1, <3>2, BrowserFacts DEF Ahead
  <2>6. CASE \E p \in Handler : RegisterFails(p) \/ RenderFails(p)
    <3>1. PICK p \in Handler : \/ HandlerFails(p, "no", [view EXCEPT !.subs = "none"])
                              \/ HandlerFails(p, sub, view)
      BY <2>6 DEF RegisterFails, RenderFails
    <3>2. BrowserReconnects \/ client' = client \/ client' = Refused
      BY <3>1 DEF HandlerFails
    <3> QED
      BY <1>1, <1>3, <3>2, Reconnected, RefusedType
  <2> QED
    BY <2>1, <2>3, <2>4, <2>5, <2>6
<1> QED
  BY <1>2, <1>3

(* After a reconnection the browser is never taken back: the host that     *)
(* forgot the session counts its revisions from the one the browser        *)
(* reported (next_view_revision), whatever was still on its way.           *)
THEOREM RecoveryNeverGoesBack == Spec => RecoveryAdvances
<1>1. IInv /\ [Next]_vars =>
        [~host.keepsSession /\ client.mode = "recovering" /\ client'.mode = "synced"
           => client'.rev >= client.rev]_vars
  BY RecoveryStep DEF Recovering
<1> QED
  BY <1>1, Inductive, PTL DEF Spec, RecoveryAdvances

(* No silent staleness: with handlers that do not overlap, a browser that  *)
(* agrees with the host's record while nothing is pending shows the        *)
(* current tree (ensure_view_subscriptions before the first render), also  *)
(* after renders and registrations that failed, unless it was              *)
(* process_driver_event that failed after it had drained the mailbox and   *)
(* the view was not rendered since with subscriptions in force.            *)
THEOREM SettledIsCurrent == Spec => []CurrentWhenSettled
<1>1. ASSUME IInv, Serial, ~ missed, Settled
      PROVE  client.shown = world
  <2>1. FaithInv /\ FreshInv
    BY <1>1 DEF IInv
  <2>2. view.tree = client.shown
    BY <1>1, <2>1 DEF Settled, FaithInv, ClientFaithful, Kept, Sig
  <2>3. view.tree # NoTree
    BY <2>1, <2>2, HostAssumption DEF FaithInv, NoTree
  <2>4. \A p \in Handler : ~ Rerendering(handler[p])
    BY <1>1, IdleType DEF Settled, Rerendering, ForgetsChange
  <2> QED
    BY <1>1, <2>1, <2>2, <2>3, <2>4 DEF FreshInv, Fresh, Settled
<1>2. IInv => CurrentWhenSettled
  BY <1>1 DEF CurrentWhenSettled, Serial
<1> QED
  BY <1>2, Inductive, PTL
=============================================================================
