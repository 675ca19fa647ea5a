------------------------------ MODULE ViewSync ------------------------------
(***************************************************************************)
(* One synchronized DOM view of one browser session: the WebTransport and  *)
(* HTTP/SSE hosts (webtransport-host/src/{sync,state,serve}.rs and         *)
(* web-host/src/sync.rs, which repeat the same functions) and the browser  *)
(* client (webtransport-host/sync-client.js).                              *)
(*                                                                         *)
(* The world is reduced to the tree `sync_view_tree` would return now.  A  *)
(* signature covers a revision and the payload, so it is the pair          *)
(* <<revision, tree>>.  A handler is a coroutine of the host: the datagram *)
(* reader, the stream reader, one POST request, the driver event handler.  *)
(* Every await in it ends a step; what runs between two awaits is one step.*)
(***************************************************************************)
EXTENDS Naturals, Sequences, FiniteSets

CONSTANTS
    Input,          \* the handlers that take messages of the browser
    Events,         \* the handler of driver events
    Tree,           \* the trees the view can have (positive numbers)
    Host            \* the hosts that may serve the session

\* What tells hosts apart, and the bounds on what happens to a session.
HostTraits ==
    [channel : [{"need", "have", "event"} -> SUBSET Input],   \* who takes a message
     queuedKinds : SUBSET {"snapshot", "delta"}, \* queued kinds that make a refresh a snapshot
     overlap : BOOLEAN,         \* may handlers await at the same time?
     reliable : BOOLEAN,        \* is the transport to the browser ordered and lossless?
     keepsSession : BOOLEAN,    \* does the session survive a reconnection (SSE)?
     failing : BOOLEAN,         \* can registering and rendering fail, and permissions be lost?
     onError : [Input -> {"logged", "refused", "closed"}],   \* what a handler's error does
     maxChanges : Nat,          \* bound: changes of the world
     maxEvents : Nat,           \* bound: DOM events sent
     maxDrops : Nat,            \* bound: lost connections
     maxRevision : Nat,         \* bound: revisions
     maxWire : Nat]             \* bound: envelopes in the network

ASSUME HostAssumption ==
    /\ Tree \subseteq Nat \ {0}
    /\ Events \notin Input
    /\ IsFiniteSet(Input)
    /\ \A h \in Host : h \in HostTraits /\ "snapshot" \in h.queuedKinds

VARIABLES
    host,       \* the host that serves the session
    world,      \* the tree a render started now returns
    sub,        \* the view's subscriptions in the runtime: no, live, mapped
    revoked,    \* the runtime has ended them for want of permission
    notice,     \* undelivered subscription messages: none, changes, resync
    missed,     \* history: a failing handler forgot a change it was told of
    view,       \* the host's record of the view
    handler,    \* what each coroutine of the host is waiting for
    tasks,      \* suspended sync_event tasks to be reported
    queue,      \* the session's output queue
    wire,       \* envelopes on their way to the browser
    outbox,     \* messages on their way to the host
    client,     \* the browser
    spent       \* how much of the bounded inputs was used

vars ==
    <<host, world, sub, revoked, notice, missed, view, handler, tasks, queue, wire, outbox, client,
      spent>>

Handler == Input \cup {Events}
NoTree == 0
NoSig == <<0, NoTree>>
Sig(rev, tree) == <<rev, tree>>

\* ActiveViewState::default()
NoView == [crev |-> 0, csig |-> NoSig, srev |-> 0, ssig |-> NoSig,
           tree |-> NoTree, subs |-> "none"]

NoMessage == [kind |-> "have", rev |-> 0, sig |-> NoSig, refresh |-> FALSE]

\* A handler between two messages; what it waits for sets the fields it uses.
Idle == [at |-> "idle", why |-> "", rev |-> 0, copy |-> NoView, msg |-> NoMessage,
         ack |-> FALSE, tree |-> NoTree]

\* The browser's messages: needSnapshot, haveView and a DOM event.
Message(kind, refresh) ==
    [kind |-> kind, rev |-> client.rev, sig |-> client.sig, refresh |-> refresh]

Larger(a, b) == IF a > b THEN a ELSE b

NextFromServerOnly(v) == v.srev + 1

\* next_view_revision
NextRevision(v) == Larger(v.srev, v.crev) + 1

\* SessionSyncState::record_incoming_view
Recorded(v, m) == [v EXCEPT !.crev = m.rev, !.csig = m.sig]

\* SessionSyncState::store_rendered_view
Stored(v, rev, tree) ==
    [v EXCEPT !.crev = rev, !.csig = Sig(rev, tree),
              !.srev = rev, !.ssig = Sig(rev, tree), !.tree = tree]

\* snapshot_envelope: the payload is the whole tree.
Snapshot(rev, tree) ==
    [kind |-> "snapshot", brev |-> 0, bsig |-> NoSig, from |-> NoTree,
     rev |-> rev, sig |-> Sig(rev, tree), tree |-> tree]

DeltaOnCurrent(v, rev, tree) ==
    [kind |-> "delta", brev |-> view.srev, bsig |-> view.ssig, from |-> v.tree,
     rev |-> rev, sig |-> Sig(rev, tree), tree |-> tree]

\* A delta names the view it is based on; its patches turn tree `from` into `tree`.
Delta(v, rev, tree) ==
    [kind |-> "delta", brev |-> v.srev, bsig |-> v.ssig, from |-> v.tree,
     rev |-> rev, sig |-> Sig(rev, tree), tree |-> tree]

QueuedBehind(q, e) == Append(q, e)

\* SessionOutput::send_sync_envelope: a snapshot replaces the view's queued envelopes.
Queued(q, e) == IF e.kind = "snapshot" THEN <<e>> ELSE Append(q, e)

\* SessionOutput::has_pending_view_sync
HasPending(q) == \E i \in DOMAIN q : q[i].kind \in host.queuedKinds

Init ==
    /\ host \in Host
    /\ world \in Tree
    /\ sub = "no" /\ revoked = FALSE /\ notice = "none" /\ missed = FALSE
    /\ view = NoView
    /\ handler = [p \in Handler |-> Idle]
    /\ tasks = 0
    /\ queue = <<>> /\ wire = <<>>
    /\ \E t \in Tree :      \* the page was rendered by the server with revision 1
        client = [rev |-> 1, sig |-> Sig(1, t), shown |-> t,
                  mode |-> "initial", inflight |-> FALSE, refused |-> FALSE]
    /\ outbox = {Message("need", FALSE)}
    /\ spent = [changes |-> 0, events |-> 0, drops |-> 0]

\* Only one handler awaits at a time unless they may overlap.
MayStart(p) == host.overlap \/ \A q \in Handler \ {p} : handler[q] = Idle
Becomes(p, s) == handler' = [handler EXCEPT ![p] = s]

-----------------------------------------------------------------------------
(* The host *)

\* A refresh copies the view's record before it renders.
RefreshOf(v, ack) ==
    [Idle EXCEPT !.at = "render", !.why = "refresh", !.copy = v, !.ack = ack]

\* route_sync_envelope after ensure_view_subscriptions, route_dom_event up to its first await.
Routed(m, v) ==
    CASE m.kind = "need" ->
            [Idle EXCEPT !.at = "render", !.why = "need", !.rev = NextRevision(v)]
      [] m.kind = "have" ->
            IF v.srev = m.rev /\ v.ssig = m.sig /\ v.tree # NoTree
            THEN Idle
            ELSE [Idle EXCEPT !.at = "render", !.why = "have", !.msg = m]
      [] m.kind = "event" ->
            IF m.refresh /\ (v.srev # m.rev \/ v.ssig # m.sig)
            THEN [Idle EXCEPT !.at = "render", !.why = "stale", !.rev = NextRevision(v), !.msg = m]
            ELSE [Idle EXCEPT !.at = "invoke", !.msg = m]

EnsureAgain(p, m, v) ==
    IF v.subs # "initialized"
    THEN /\ view' = [v EXCEPT !.subs = "initializing"]
         /\ Becomes(p, [Idle EXCEPT !.at = "subscribing", !.msg = m])
    ELSE /\ view' = v
         /\ Becomes(p, Routed(m, v))

\* ensure_view_subscriptions: the first handler registers, the others pass.
EnsureSubscriptions(p, m, v) ==
    IF v.subs = "none"
    THEN /\ view' = [v EXCEPT !.subs = "initializing"]
         /\ Becomes(p, [Idle EXCEPT !.at = "subscribing", !.msg = m])
    ELSE /\ view' = v
         /\ Becomes(p, Routed(m, v))

Receive(p, m) ==
    /\ p \in host.channel[m.kind]
    /\ handler[p] = Idle /\ MayStart(p)
    /\ NextRevision(Recorded(view, m)) <= host.maxRevision
    /\ outbox' = outbox \ {m}
    /\ EnsureSubscriptions(p, m, Recorded(view, m))
    /\ UNCHANGED <<world, sub, revoked, notice, missed, tasks, queue, wire, client, spent>>

Subscribing(p) == handler[p].at \in {"subscribing", "resubscribing"}

\* The runtime accepts the subscriptions; the host does not know their capabilities yet.
Subscribe(p) ==
    /\ Subscribing(p) /\ sub = "no"
    /\ sub' = "live"
    /\ UNCHANGED <<world, revoked, notice, missed, view, handler, tasks, queue, wire, outbox, client,
                   spent>>

\* register_view_subscriptions returns: the capabilities are mapped to the view.
Registered(p) ==
    /\ Subscribing(p) /\ sub = "live"
    /\ sub' = "mapped"
    /\ LET v == [view EXCEPT !.subs = "initialized"] IN
       /\ view' = v
       /\ Becomes(p, IF handler[p].at = "resubscribing"
                     THEN RefreshOf(v, FALSE) ELSE Routed(handler[p].msg, v))
    /\ UNCHANGED <<world, revoked, notice, missed, tasks, queue, wire, outbox, client, spent>>

-----------------------------------------------------------------------------
(* Errors *)

\* drop_session_writer: what the session's handlers still do finds no session.
SessionForgotten ==
    /\ sub' = "no" /\ revoked' = FALSE /\ notice' = "none" /\ missed' = FALSE
    /\ view' = NoView /\ tasks' = 0
    /\ handler' = [p \in Handler |-> Idle] /\ queue' = <<>>

\* connectionLost, then recoverView on the new connection; a page that never synced gives up.
BrowserReconnects ==
    /\ wire' = <<>>
    /\ client' = IF client.mode = "initial" THEN client
                 ELSE [client EXCEPT !.mode = "recovering", !.inflight = FALSE, !.refused = FALSE]
    /\ outbox' = IF client.mode = "initial" THEN {} ELSE {Message("need", FALSE)}

\* The error of a driver event or of a stream's message is logged, that of a POST refuses it,
\* that of a datagram ends read_datagram_loop and with it the session.
OnError(p) == IF p = Events THEN "logged" ELSE host.onError[p]

\* connect and recoverView when needView throws: disconnected, and no longer recovering.
Refused == [client EXCEPT !.mode = IF @ = "recovering" THEN "synced" ELSE @,
                          !.refused = @ \/ client.mode # "synced"]

AsksNeed(h) ==
    \/ h.at = "subscribing" /\ h.msg.kind = "need"
    \/ h.at = "render" /\ h.why = "need"

\* process_driver_event has drained the mailbox: nothing else will tell of the change.
ForgetsChange(h) ==
    \/ h.at = "resubscribing"
    \/ h.at = "render" /\ h.why = "refresh" /\ ~h.ack

\* The handler returns its error; s and v are the subscriptions and the record it leaves.
HandlerFails(p, s, v) ==
    IF OnError(p) = "closed"
    THEN SessionForgotten /\ BrowserReconnects
    ELSE /\ Becomes(p, Idle) /\ sub' = s /\ view' = v
         /\ revoked' = (revoked /\ s # "no")
         /\ missed' = (missed \/ ForgetsChange(handler[p]))
         /\ client' = IF OnError(p) = "refused" /\ AsksNeed(handler[p]) THEN Refused ELSE client
         /\ UNCHANGED <<notice, tasks, queue, wire, outbox>>

RegisterFailsMarked(p) ==
    /\ host.failing /\ Subscribing(p)
    /\ HandlerFails(p, "no", [view EXCEPT !.subs = "failed"])
    /\ UNCHANGED <<world, spent>>

\* register_view_subscriptions fails: what was accepted is cancelled, or never mapped to the
\* view, and the flags are reset.
RegisterFails(p) ==
    /\ host.failing /\ Subscribing(p)
    /\ HandlerFails(p, "no", [view EXCEPT !.subs = "none"])
    /\ UNCHANGED <<world, spent>>

-----------------------------------------------------------------------------
(* Rendering *)

\* render_sync_tree: the invocation reads one snapshot of the world.
Render(p) ==
    /\ handler[p].at = "render"
    /\ Becomes(p, [handler[p] EXCEPT !.at = "rendered", !.tree = world])
    /\ missed' = (missed /\ (sub # "mapped" \/ revoked))
    /\ UNCHANGED <<world, sub, revoked, notice, view, tasks, queue, wire, outbox, client, spent>>

\* ... or it aborts, suspends or returns no tree, and nothing is sent or stored.
RenderFails(p) ==
    /\ host.failing /\ handler[p].at = "render"
    /\ HandlerFails(p, sub, view)
    /\ UNCHANGED <<world, spent>>

SendAndStore(e) ==
    /\ queue' = Queued(queue, e)
    /\ view' = Stored(view, e.rev, e.tree)

StoreOnly(rev, tree) ==
    /\ view' = Stored(view, rev, tree)
    /\ UNCHANGED queue

Rendered(p, why) == handler[p].at = "rendered" /\ handler[p].why = why
Untouched == UNCHANGED <<world, sub, revoked, notice, missed, tasks, wire, outbox, client, spent>>

FinishNeed(p) ==
    /\ Rendered(p, "need")
    /\ SendAndStore(Snapshot(handler[p].rev, handler[p].tree))
    /\ Becomes(p, Idle) /\ Untouched

FinishHave(p) ==
    /\ Rendered(p, "have")
    /\ LET m == handler[p].msg
           t == handler[p].tree IN
       IF m.rev > 0 /\ Sig(m.rev, t) = m.sig
       THEN StoreOnly(m.rev, t)
       ELSE SendAndStore(Snapshot(NextRevision(view), t))
    /\ Becomes(p, Idle) /\ Untouched

\* A DOM event against an outdated view: recovery snapshot, or go on with the event.
FinishStale(p) ==
    /\ Rendered(p, "stale")
    /\ LET m == handler[p].msg
           h == handler[p] IN
       IF m.rev > h.rev
       THEN /\ SendAndStore(Snapshot(h.rev, h.tree))
            /\ Becomes(p, Idle)
       ELSE /\ StoreOnly(h.rev, h.tree)
            /\ Becomes(p, [Idle EXCEPT !.at = "invoke", !.msg = m])
    /\ Untouched

\* The envelope of refresh_active_sync_view_for when the tree changed.
Update(v, tree) ==
    IF HasPending(queue) \/ v.tree = NoTree
    THEN Snapshot(NextRevision(v), tree)
    ELSE Delta(v, NextRevision(v), tree)

\* Mutant of FinishRefresh: only acknowledgements are sent.
FinishRefreshDropped(p) ==
    /\ Rendered(p, "refresh")
    /\ LET v == handler[p].copy
           t == handler[p].tree IN
       IF v.tree = t \/ ~handler[p].ack
       THEN /\ queue' = IF handler[p].ack THEN Queued(queue, Delta(v, v.srev, t)) ELSE queue
            /\ UNCHANGED view
       ELSE SendAndStore(Update(v, t))
    /\ Becomes(p, Idle) /\ Untouched

\* refresh_active_sync_view_for after its render
FinishRefresh(p) ==
    /\ Rendered(p, "refresh")
    /\ LET v == handler[p].copy
           t == handler[p].tree IN
       IF v.tree = t
       THEN /\ queue' = IF handler[p].ack THEN Queued(queue, Delta(v, v.srev, t)) ELSE queue
            /\ UNCHANGED view
       ELSE SendAndStore(Update(v, t))
    /\ Becomes(p, Idle) /\ Untouched

\* A commit leaves a message for a live subscription: its changes, or a marker. A revoked one
\* gets no further message; the view's subscriptions are revoked together.
Noticed(kind) == IF sub = "no" \/ revoked THEN notice
                 ELSE IF kind = "changes" /\ notice # "resync" THEN "changes" ELSE "resync"

\* A commit changes the world, or only takes the permission to read it; a registration that the
\* runtime marks as revoked at once is one followed by such a commit.
Change(t, kind) ==
    /\ t # world \/ kind = "revoked"
    /\ kind = "revoked" => host.failing
    /\ spent.changes < host.maxChanges
    /\ world' = t
    /\ notice' = Noticed(kind)
    /\ revoked' = (revoked \/ (kind = "revoked" /\ sub # "no"))
    /\ spent' = [spent EXCEPT !.changes = @ + 1]
    /\ UNCHANGED <<sub, missed, view, handler, tasks, queue, wire, outbox, client>>

\* sync_event: it may change the world; it completes, suspends or aborts.
Invoke(p, t, outcome) ==
    /\ handler[p].at = "invoke"
    /\ t # world => spent.changes < host.maxChanges
    /\ NextRevision(view) <= host.maxRevision
    /\ world' = t
    /\ notice' = IF t = world THEN notice ELSE Noticed("changes")
    /\ spent' = IF t = world THEN spent ELSE [spent EXCEPT !.changes = @ + 1]
    /\ tasks' = IF outcome = "suspended" THEN tasks + 1 ELSE tasks
    /\ Becomes(p, IF outcome = "refresh" /\ handler[p].msg.refresh
                  THEN RefreshOf(view, TRUE) ELSE Idle)
    /\ UNCHANGED <<sub, revoked, missed, view, queue, wire, outbox, client>>

\* process_driver_event, SubscriptionReady: the views of the drained messages one after the
\* other; the error of an earlier one ends the loop before this view is reached.
HandleNotice(reached) ==
    /\ handler[Events] = Idle /\ MayStart(Events) /\ notice # "none"
    /\ ~reached => host.failing
    /\ NextRevision(view) <= host.maxRevision
    /\ notice' = "none"
    /\ missed' = (missed \/ (~reached /\ sub = "mapped"))
    /\ CASE sub # "mapped" \/ ~reached -> UNCHANGED <<sub, revoked, view, handler>>
         [] sub = "mapped" /\ reached /\ notice = "resync" ->
               /\ sub' = "no" /\ revoked' = FALSE
               /\ view' = [view EXCEPT !.subs = "initializing"]
               /\ Becomes(Events, [Idle EXCEPT !.at = "resubscribing"])
         [] OTHER ->
               /\ Becomes(Events, RefreshOf(view, FALSE))
               /\ UNCHANGED <<sub, revoked, view>>
    /\ UNCHANGED <<world, tasks, queue, wire, outbox, client, spent>>

\* process_driver_event, the end of a suspended sync_event
HandleTask(value) ==
    /\ handler[Events] = Idle /\ MayStart(Events) /\ tasks > 0
    /\ NextRevision(view) <= host.maxRevision
    /\ tasks' = tasks - 1
    /\ Becomes(Events, IF value = "true" THEN Idle ELSE RefreshOf(view, TRUE))
    /\ UNCHANGED <<world, sub, revoked, notice, missed, view, queue, wire, outbox, client, spent>>

-----------------------------------------------------------------------------
(* The writer and the network *)

Transmit ==
    /\ queue # <<>> /\ Len(wire) < host.maxWire
    /\ wire' = Append(wire, Head(queue))
    /\ queue' = Tail(queue)
    /\ UNCHANGED <<world, sub, revoked, notice, missed, view, handler, tasks, outbox, client,
                   spent>>

\* What is under way when the i-th message leaves the network.
Without(s, i) == SubSeq(s, 1, i - 1) \o SubSeq(s, i + 1, Len(s))

Lose(i) ==
    /\ ~host.reliable
    /\ wire' = Without(wire, i)
    /\ UNCHANGED <<world, sub, revoked, notice, missed, view, handler, tasks, queue, outbox,
                   client, spent>>

\* The connection ends: the WebTransport host forgets the session, the SSE host keeps it and a
\* new stream claims its queue.
Drop ==
    /\ client.mode # "initial" /\ spent.drops < host.maxDrops
    /\ spent' = [spent EXCEPT !.drops = @ + 1]
    /\ BrowserReconnects
    /\ IF host.keepsSession
       THEN UNCHANGED <<sub, revoked, notice, missed, view, handler, tasks, queue>>
       ELSE SessionForgotten
    /\ UNCHANGED world

-----------------------------------------------------------------------------
(* The browser *)

Accepted(e, shown) ==
    [client EXCEPT !.rev = e.rev, !.sig = e.sig, !.shown = shown, !.inflight = FALSE,
                   !.mode = IF @ = "recovering" /\ e.kind = "delta" THEN @ ELSE "synced"]

Same(e) == e.rev = client.rev /\ e.sig = client.sig
Outdated(e) == e.rev < client.rev \/ Same(e)
Acknowledged(e) == [client EXCEPT !.inflight = IF Same(e) THEN FALSE ELSE @]

\* Patches applied to any other tree than the one they were computed from give no known tree.
Patched(e) == IF client.shown = e.from THEN e.tree ELSE NoTree

HandleSnapshot(e) ==
    /\ client' = IF client.mode = "synced" /\ Outdated(e) THEN Acknowledged(e)
                 ELSE Accepted(e, e.tree)
    /\ UNCHANGED outbox

BaseMatches(e) == e.brev = client.rev /\ e.bsig = client.sig

HandleDelta(e) ==
    CASE client.mode = "recovering" -> UNCHANGED <<client, outbox>>
      [] client.mode # "recovering" /\ Outdated(e) -> client' = Acknowledged(e) /\ UNCHANGED outbox
      [] client.mode # "recovering" /\ ~Outdated(e) /\ ~BaseMatches(e) ->
            /\ outbox' = outbox \cup {Message("have", FALSE)}
            /\ UNCHANGED client
      [] OTHER -> client' = Accepted(e, Patched(e)) /\ UNCHANGED outbox

\* handleEnvelope; a datagram may arrive again and out of order.
Deliver(i, again) ==
    /\ host.reliable => i = 1 /\ ~again
    /\ wire' = IF again THEN wire ELSE Without(wire, i)
    /\ IF wire[i].kind = "snapshot" THEN HandleSnapshot(wire[i]) ELSE HandleDelta(wire[i])
    /\ UNCHANGED <<world, sub, revoked, notice, missed, view, handler, tasks, queue, spent>>

\* The poll timer: only while connected and no DOM event is in flight.
Poll ==
    /\ client.mode = "synced" /\ ~client.refused /\ ~client.inflight
    /\ outbox' = outbox \cup {Message("have", FALSE)}
    /\ UNCHANGED <<world, sub, revoked, notice, missed, view, handler, tasks, queue, wire,
                   client, spent>>

\* drainDomEvents sends one event at a time and waits for its acknowledgement.
SendEvent(refresh) ==
    /\ client.mode = "synced" /\ ~client.refused /\ ~client.inflight
    /\ spent.events < host.maxEvents
    /\ spent' = [spent EXCEPT !.events = @ + 1]
    /\ client' = [client EXCEPT !.inflight = refresh]
    /\ outbox' = outbox \cup {Message("event", refresh)}
    /\ UNCHANGED <<world, sub, revoked, notice, missed, view, handler, tasks, queue, wire>>

\* The timer of the event in flight, or its refusal.
EventTimesOut ==
    /\ client.inflight
    /\ client' = [client EXCEPT !.inflight = FALSE]
    /\ UNCHANGED <<world, sub, revoked, notice, missed, view, handler, tasks, queue, wire,
                   outbox, spent>>

HostStep(p) ==
    \/ Subscribe(p) \/ Registered(p) \/ RegisterFails(p) \/ Render(p) \/ RenderFails(p)
    \/ FinishNeed(p) \/ FinishHave(p) \/ FinishStale(p) \/ FinishRefresh(p)
    \/ \E t \in Tree, o \in {"done", "refresh", "suspended"} : Invoke(p, t, o)

Step ==
    \/ \E p \in Input, m \in outbox : Receive(p, m)
    \/ \E p \in Handler : HostStep(p)
    \/ \E t \in Tree, k \in {"changes", "resync", "revoked"} : Change(t, k)
    \/ \E reached \in BOOLEAN : HandleNotice(reached)
    \/ \E v \in {"true", "other"} : HandleTask(v)
    \/ Transmit
    \/ \E i \in DOMAIN wire : Lose(i) \/ \E again \in BOOLEAN : Deliver(i, again)
    \/ Drop \/ Poll \/ EventTimesOut
    \/ \E refresh \in BOOLEAN : SendEvent(refresh)

Next == UNCHANGED host /\ Step

Spec == Init /\ [][Next]_vars

-----------------------------------------------------------------------------
Drawn == Tree \cup {NoTree}
Signature == Nat \X Drawn
ViewState == [crev : Nat, csig : Signature, srev : Nat, ssig : Signature, tree : Drawn,
              subs : {"none", "initializing", "initialized"}]
Messages == [kind : {"need", "have", "event"}, rev : Nat, sig : Signature, refresh : BOOLEAN]
HandlerState ==
    [at : {"idle", "subscribing", "resubscribing", "render", "rendered", "invoke"},
     why : {"", "need", "have", "stale", "refresh"}, rev : Nat, copy : ViewState,
     msg : Messages, ack : BOOLEAN, tree : Drawn]
Envelope == [kind : {"snapshot", "delta"}, brev : Nat, bsig : Signature, from : Drawn,
             rev : Nat, sig : Signature, tree : Drawn]
Browser == [rev : Nat, sig : Signature, shown : Drawn, inflight : BOOLEAN, refused : BOOLEAN,
            mode : {"initial", "synced", "recovering"}]

\* Types of the host's record, its handlers and queues, and the browser.
TypeOK ==
    /\ host \in Host /\ world \in Tree /\ tasks \in Nat /\ missed \in BOOLEAN
    /\ revoked \in BOOLEAN
    /\ sub \in {"no", "live", "mapped"} /\ notice \in {"none", "changes", "resync"}
    /\ view \in ViewState
    /\ handler \in [Handler -> HandlerState]
    /\ queue \in Seq(Envelope) /\ wire \in Seq(Envelope)
    /\ outbox \subseteq Messages
    /\ client \in Browser
    /\ spent \in [changes : Nat, events : Nat, drops : Nat]

(***************************************************************************)
(* Whatever arrives late, twice, out of order or not at all, the tree the  *)
(* browser shows is the tree its revision and signature stand for: a delta *)
(* (refresh_active_sync_view_for) is only applied to the tree it was       *)
(* computed from (handleEnvelope).                                         *)
(***************************************************************************)
ClientFaithful == client.sig = Sig(client.rev, client.shown)

(***************************************************************************)
(* A slow browser costs at most one snapshot: send_sync_envelope drops     *)
(* what a snapshot supersedes, so a snapshot is only ever first in the     *)
(* queue, and while one is queued every change is coalesced into it.       *)
(***************************************************************************)
SnapshotLeads ==
    \A i \in DOMAIN queue :
        /\ queue[i].kind = "snapshot" => i = 1
        /\ i > 1 /\ queue[1].kind = "snapshot" => queue[i].rev = queue[i].brev

(***************************************************************************)
(* The flags ensure_view_subscriptions, register_view_subscriptions and    *)
(* reinstall_view_subscriptions keep tell the truth: a view marked         *)
(* initialized has mapped subscriptions, and exactly one handler registers *)
(* while it is marked initializing.                                        *)
(***************************************************************************)
OneRegistration ==
    /\ view.subs = "initialized" <=> sub = "mapped"
    /\ Cardinality({p \in Handler : Subscribing(p)}) = IF view.subs = "initializing" THEN 1 ELSE 0

(***************************************************************************)
(* The three together: what the browser shows, what is queued for it and   *)
(* what the host believes about its subscriptions are what they claim.     *)
(***************************************************************************)
ViewFaithful == ClientFaithful /\ SnapshotLeads /\ OneRegistration

(***************************************************************************)
(* After a reconnection the browser never accepts a revision older than    *)
(* the one it shows, although the WebTransport host has forgotten the      *)
(* session: next_view_revision counts from the revision the browser        *)
(* reports.                                                                *)
(***************************************************************************)
RecoveryAdvances ==
    [][~host.keepsSession /\ client.mode = "recovering" /\ client'.mode = "synced"
         => client'.rev >= client.rev]_vars

\* Host and browser agree and the host has nothing left to do: a poll changes nothing.
Settled ==
    /\ \A p \in Handler : handler[p] = Idle
    /\ notice = "none" /\ client.mode = "synced"
    /\ view.srev = client.rev /\ view.ssig = client.sig

(***************************************************************************)
(* No silent staleness: when the host's record and the browser agree and   *)
(* nothing is pending, the browser shows the current tree, because the     *)
(* subscriptions are registered before the first render                    *)
(* (ensure_view_subscriptions). Two things in the code break it and are    *)
(* left out: handlers that overlap, and process_driver_event failing       *)
(* between the drained mailbox and the render, until the next render of a  *)
(* view with subscriptions in force. Every other failing render or         *)
(* registration and every revocation is covered.                           *)
(***************************************************************************)
CurrentWhenSettled == ~host.overlap /\ ~missed /\ Settled => client.shown = world
=============================================================================
