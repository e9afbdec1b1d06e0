----------------------------- MODULE SendQueue -----------------------------
(***************************************************************************)
(* The outgoing message queue of one room: EventStore's processPending,    *)
(* messageFailed and messageSent slots, the pending table of the cache,    *)
(* the local echoes in the timeline tables, and the reply or edit target   *)
(* that TimelineModel keeps for the message being composed.                *)
(*                                                                         *)
(* Every slot runs on the UI thread, so one slot is one action.  Signals   *)
(* connected with Qt::QueuedConnection wait in uiq.  processPending is a   *)
(* direct connection: it runs inside the slot that emits it.               *)
(***************************************************************************)
EXTENDS Integers, Sequences, FiniteSets

CONSTANTS
  Txn,          \* transaction ids generate_txn_id can return
  NoTxn,        \* the empty current_txn
  Encrypted,    \* whether the room is encrypted
  MaxErrors,    \* the 10 of "current_txn_error_count > 10"
  MaxClock,     \* bound: last millisecond of the wall clock
  MaxUpsets     \* bound: restarts, limited syncs, timeline clears and rotations

ASSUME NoTxnAssumption == NoTxn \notin Txn
ASSUME EncryptedAssumption == Encrypted \in BOOLEAN
ASSUME BoundAssumption ==
  MaxErrors \in Nat /\ MaxClock \in Nat /\ MaxUpsets \in Nat

VARIABLES
  pending,      \* rows of the pending table: timestamp and transaction id
  stored,       \* transaction ids that are keys of the events table
  shown,        \* local echoes that still have a slot in the order tables
  behind,       \* local echoes older than the newest pagination token
  rel,          \* the relation of each stored local echo
  current_txn, error_count,
  session,      \* an outbound megolm session is stored for the room
  draft,        \* reply_ or edit_ of the TimelineModel
  uiq,          \* Qt events queued for the UI thread
  timers,       \* armed one second single shot timers
  requests,     \* send requests issued; cb: does their callback still run
  server,       \* events the homeserver accepted
  echoed,       \* accepted events already delivered by a sync
  now, upsets,
  queue,        \* "started" once processPending has run in this run of the program
  fails,        \* history: failures handled per transaction in this run
  history       \* history: messages queued and messageSent slots run, in order

vars == <<pending, stored, shown, behind, rel, current_txn, error_count, session,
          draft, uiq, timers, requests, server, echoed, now, upsets, queue,
          fails, history>>

tables == <<pending, stored, shown, behind, rel>>
clock  == <<now, upsets>>

----------------------------------------------------------------------------

\* A relation names a transaction id (a local echo) or a server event id.
Ref(kind, t) == [kind |-> kind, of |-> t]
NoRel == Ref("none", NoTxn)
Rel == [kind : {"none", "txn", "event"}, of : Txn \cup {NoTxn}]

UiEvent(ev, t, r) == [ev |-> ev, txn |-> t, rel |-> r]
UiEvents ==
  [ev : {"new"}, txn : {NoTxn}, rel : Rel]
    \cup [ev : {"failed", "sent", "draft"}, txn : Txn, rel : {NoRel}]

Requests == [txn : Txn, rel : Rel, at : {"wire", "server"}, cb : {"live", "gone"}]

Queued == {t \in Txn : \E i \in DOMAIN history : history[i] = <<"queued", t>>}
Accepted == {e.txn : e \in server}

IsPending(t) == \E p \in pending : p.txn = t
Sendable(t)  == IsPending(t) /\ t \in stored

\* removePendingStatus: every row that holds the transaction id is deleted.
RemovePending(P, t) == {p \in P : p.txn # t}

\* Faulty variant of FirstPending: the cursor runs from the newest row.
FirstPendingNewest(P, S) ==
  {p \in P : p.txn \in S /\ \A q \in P : q.txn \in S => p.ts >= q.ts}

\* firstPendingMessage: the oldest row whose event can still be read.  Rows
\* without an event are only skipped: the transaction that deletes them is
\* never committed.
FirstPending(P, S) ==
  {p \in P : p.txn \in S /\ \A q \in P : q.txn \in S => p.ts <= q.ts}

\* savePendingMessage: the table is keyed by the millisecond, so a row written
\* in the same millisecond replaces the one that is there.
PutPending(P, t) == {p \in P : p.ts # now} \cup {[ts |-> now, txn |-> t]}

\* Faulty variant of ProcessPending: no check of current_txn.
ProcessPendingUnguarded(cur, P, S, R) ==
  /\ IF FirstPending(P, S) = {}
       THEN current_txn' = cur /\ requests' = requests
       ELSE \E p \in FirstPending(P, S) :
              /\ current_txn' = p.txn
              /\ requests' = requests \cup
                   {[txn |-> p.txn, rel |-> R[p.txn], at |-> "wire", cb |-> "live"]}
  /\ queue' = "started"

\* Faulty variant of ProcessPending: current_txn is set, then the slot returns.
ProcessPendingStuck(cur, P, S, R) ==
  /\ IF cur # NoTxn \/ FirstPending(P, S) = {}
       THEN current_txn' = cur
       ELSE \E p \in FirstPending(P, S) : current_txn' = p.txn
  /\ requests' = requests
  /\ queue' = "started"

\* The processPending slot, run with current_txn = cur and the tables P, S, R.
ProcessPending(cur, P, S, R) ==
  /\ IF cur # NoTxn \/ FirstPending(P, S) = {}
       THEN current_txn' = cur /\ requests' = requests
       ELSE \E p \in FirstPending(P, S) :
              /\ current_txn' = p.txn
              /\ requests' = requests \cup
                   {[txn |-> p.txn, rel |-> R[p.txn], at |-> "wire", cb |-> "live"]}
  /\ queue' = "started"

\* Faulty variant of Rewrite: only the first pending event is looked at.
RewriteFirst(t) ==
  [q \in Txn |->
     IF /\ \E p \in FirstPending(pending, stored) : p.txn = q
        /\ rel[q] = Ref("txn", t)
       THEN Ref("event", t) ELSE rel[q]]

\* The loop of messageSent over the pending events.  In an encrypted room a
\* missing outbound session makes it skip the event.
Rewrite(t) ==
  [q \in Txn |->
     IF /\ Sendable(q) /\ rel[q] = Ref("txn", t)
        /\ Encrypted => session = "stored"
       THEN Ref("event", t) ELSE rel[q]]

----------------------------------------------------------------------------

Init ==
  /\ pending = {} /\ stored = {} /\ shown = {} /\ behind = {}
  /\ rel = [t \in Txn |-> NoRel]
  /\ current_txn = NoTxn /\ error_count = 0
  /\ session = "none" /\ draft = NoRel
  /\ uiq = <<>> /\ timers = 0
  /\ requests = {} /\ server = {} /\ echoed = {}
  /\ now = 0 /\ upsets = 0 /\ queue = "idle"
  /\ fails = [t \in Txn |-> 0] /\ history = <<>>

\* QDateTime::currentMSecsSinceEpoch, as long as nobody sets the clock back.
Tick == now < MaxClock /\ now' = now + 1

TimePasses ==
  /\ Tick
  /\ UNCHANGED <<tables, current_txn, error_count, session, draft, uiq, timers, requests,
                 server, echoed, upsets, queue, fails, history>>

\* The user picks a message to reply to or to edit, which takes some time.
SetReply ==
  /\ Tick
  /\ \E t \in Txn :
       \/ t \in shown  /\ draft' = Ref("txn", t)
       \/ t \in echoed /\ draft' = Ref("event", t)
  /\ UNCHANGED <<tables, current_txn, error_count, session, uiq, timers, requests,
                 server, echoed, upsets, queue, fails, history>>

\* InputBar builds the message with the current relation and sendMessageEvent
\* emits newMessageToSend, a queued signal.  Bound: one message per
\* transaction id.
UserSend ==
  /\ Cardinality({i \in DOMAIN uiq : uiq[i].ev = "new"}) + Cardinality(Queued)
       < Cardinality(Txn)
  /\ uiq' = Append(uiq, UiEvent("new", NoTxn, draft))
  /\ draft' = NoRel
  /\ UNCHANGED <<tables, current_txn, error_count, session, timers, requests,
                 server, echoed, clock, queue, fails, history>>

\* addPendingMessage (which encrypts, and so creates a session, in an encrypted
\* room) followed by EventStore::addPending.
HandleNew ==
  /\ uiq # <<>> /\ Head(uiq).ev = "new"
  /\ uiq' = Tail(uiq)
  /\ \E t \in Txn \ Queued :
       /\ rel' = [rel EXCEPT ![t] = Head(uiq).rel]
       /\ stored' = stored \cup {t}
       /\ shown' = shown \cup {t}
       /\ pending' = PutPending(pending, t)
       /\ history' = Append(history, <<"queued", t>>)
       /\ ProcessPending(current_txn, pending', stored', rel')
  /\ session' = IF Encrypted THEN "stored" ELSE session
  /\ UNCHANGED <<behind, error_count, draft, timers, server, echoed, clock, fails>>

\* Faulty variant of GivesUpNow: the counter is tested before it is incremented.
GivesUpLate(t) == current_txn = t /\ error_count > MaxErrors

\* "current_txn_error_count > 10" after the increment.
GivesUpNow(t) == current_txn = t /\ error_count + 1 > MaxErrors

\* The messageFailed slot.
HandleFailed ==
  /\ uiq # <<>> /\ Head(uiq).ev = "failed"
  /\ uiq' = Tail(uiq)
  /\ LET t      == Head(uiq).txn
         mine   == current_txn = t
         giveUp == GivesUpNow(t)
     IN /\ error_count' = IF giveUp THEN 0 ELSE IF mine THEN error_count + 1 ELSE error_count
        /\ pending' = IF giveUp THEN RemovePending(pending, t) ELSE pending
        /\ fails' = IF mine THEN [fails EXCEPT ![t] = @ + 1] ELSE fails
  /\ timers' = timers + 1
  /\ UNCHANGED <<stored, shown, behind, rel, current_txn, session, draft, requests,
                 server, echoed, clock, queue, history>>

\* Faulty variant of TimerFires: fires without having been armed.
TimerFiresUnarmed ==
  /\ timers' = timers - 1
  /\ ProcessPending(NoTxn, pending, stored, rel)
  /\ UNCHANGED <<tables, error_count, session, draft, uiq, server, echoed, clock,
                 fails, history>>

\* Faulty variant of TimerFires: current_txn is reset, processPending not emitted.
TimerFiresSilent ==
  /\ timers > 0
  /\ timers' = timers - 1
  /\ current_txn' = NoTxn
  /\ UNCHANGED <<tables, error_count, session, draft, uiq, requests, server, echoed,
                 clock, queue, fails, history>>

\* The single shot timer armed by messageFailed.
TimerFires ==
  /\ timers > 0
  /\ timers' = timers - 1
  /\ ProcessPending(NoTxn, pending, stored, rel)
  /\ UNCHANGED <<tables, error_count, session, draft, uiq, server, echoed, clock,
                 fails, history>>

\* EventStore's messageSent slot.
HandleSent ==
  /\ uiq # <<>> /\ Head(uiq).ev = "sent"
  /\ uiq' = Tail(uiq)
  /\ LET t == Head(uiq).txn
     IN /\ rel' = Rewrite(t)
        /\ pending' = RemovePending(pending, t)
        /\ history' = Append(history, <<"acked", t>>)
  /\ error_count' = 0
  /\ ProcessPending(NoTxn, pending', stored, rel')
  /\ UNCHANGED <<stored, shown, behind, session, draft, timers, server, echoed,
                 clock, fails>>

\* TimelineModel's slot on the same signal, a separate queued event.
HandleDraft ==
  /\ uiq # <<>> /\ Head(uiq).ev = "draft"
  /\ uiq' = Tail(uiq)
  /\ draft' = IF draft = Ref("txn", Head(uiq).txn)
                THEN Ref("event", Head(uiq).txn) ELSE draft
  /\ UNCHANGED <<tables, current_txn, error_count, session, timers, requests, server,
                 echoed, clock, queue, fails, history>>

----------------------------------------------------------------------------

\* External: the homeserver stores an event once per transaction id.
ServerAccept ==
  /\ \E r \in requests :
       /\ r.at = "wire"
       /\ server' = IF r.txn \in Accepted THEN server
                    ELSE server \cup {[txn |-> r.txn, rel |-> r.rel]}
       /\ requests' = (requests \ {r}) \cup
                        (IF r.cb = "live" THEN {[r EXCEPT !.at = "server"]} ELSE {})
  /\ UNCHANGED <<tables, current_txn, error_count, session, draft, uiq, timers, echoed,
                 clock, queue, fails, history>>

\* The request callback on success: messageSent has two queued receivers.
RespondOk ==
  /\ \E r \in requests :
       /\ r.cb = "live" /\ r.at = "server"
       /\ uiq' = uiq \o <<UiEvent("sent", r.txn, NoRel), UiEvent("draft", r.txn, NoRel)>>
       /\ requests' = requests \ {r}
  /\ UNCHANGED <<tables, current_txn, error_count, session, draft, timers, server,
                 echoed, clock, queue, fails, history>>

\* The request callback on an error.  The homeserver may have accepted the event,
\* or may still do so when the request is on its way.
RespondError ==
  /\ \E r \in requests :
       /\ r.cb = "live"
       /\ uiq' = Append(uiq, UiEvent("failed", r.txn, NoRel))
       /\ requests' = (requests \ {r}) \cup
                        (IF r.at = "wire" THEN {[r EXCEPT !.cb = "gone"]} ELSE {})
  /\ UNCHANGED <<tables, current_txn, error_count, session, draft, timers, server,
                 echoed, clock, queue, fails, history>>

----------------------------------------------------------------------------

QueuedBefore(s, t) ==
  \E i, j \in DOMAIN history :
    i < j /\ history[i] = <<"queued", s>> /\ history[j] = <<"queued", t>>

\* A sync delivers our own event.  The echo takes the place of the local echo
\* and carries the pagination token of the batch; without a local echo it is
\* appended like any other event.
SyncEcho ==
  /\ \E t \in Accepted \ echoed :
       /\ echoed' = echoed \cup {t}
       /\ IF t \in shown
            THEN /\ stored' = stored \ {t}
                 /\ shown' = shown \ {t}
                 /\ behind' = (behind \cup {s \in shown : QueuedBefore(s, t)}) \ {t}
                 /\ pending' = RemovePending(pending, t)
            ELSE /\ behind' = shown
                 /\ UNCHANGED <<stored, shown, pending>>
  /\ UNCHANGED <<rel, current_txn, error_count, session, draft, uiq, timers, requests,
                 server, clock, queue, fails, history>>

\* A sync appends somebody else's event with the token of its batch.
SyncOther ==
  /\ behind' = shown
  /\ UNCHANGED <<pending, stored, shown, rel, current_txn, error_count, session, draft,
                 uiq, timers, requests, server, echoed, clock, queue, fails, history>>

\* Bounds the disturbances of a behaviour.
Upset == upsets < MaxUpsets /\ upsets' = upsets + 1

\* A limited sync drops the order tables and the pending table.
SyncLimited ==
  /\ Upset
  /\ pending' = {} /\ shown' = {} /\ behind' = {}
  /\ \E X \in SUBSET Accepted : echoed' = echoed \cup X
  /\ UNCHANGED <<stored, rel, current_txn, error_count, session, draft, uiq, timers,
                 requests, server, now, queue, fails, history>>

\* /clear-timeline, or a change of the ignored users: everything older than the
\* newest pagination token is deleted, local echoes included.
ClearTimeline ==
  /\ Upset
  /\ stored' = stored \ behind
  /\ shown' = shown \ behind
  /\ behind' = {}
  /\ UNCHANGED <<pending, rel, current_txn, error_count, session, draft, uiq, timers,
                 requests, server, echoed, now, queue, fails, history>>

\* /rotate-megolm-session
RotateSession ==
  /\ Upset
  /\ session = "stored" /\ session' = "none"
  /\ UNCHANGED <<tables, current_txn, error_count, draft, uiq, timers, requests, server,
                 echoed, now, queue, fails, history>>

\* The program ends and starts again: the database survives, the rest does not.
\* Nothing emits processPending on start.
Restart ==
  /\ Upset
  /\ current_txn' = NoTxn /\ error_count' = 0 /\ draft' = NoRel
  /\ uiq' = <<>> /\ timers' = 0 /\ queue' = "idle"
  /\ requests' = {[r EXCEPT !.cb = "gone"] : r \in {q \in requests : q.at = "wire"}}
  /\ fails' = [t \in Txn |-> 0]
  /\ UNCHANGED <<tables, session, server, echoed, now, history>>

HandleUi == HandleNew \/ HandleFailed \/ HandleSent \/ HandleDraft

Next ==
  \/ SetReply \/ UserSend
  \/ HandleNew \/ HandleFailed \/ TimerFires \/ HandleSent \/ HandleDraft
  \/ ServerAccept \/ RespondOk \/ RespondError
  \/ SyncEcho \/ SyncOther \/ SyncLimited
  \/ ClearTimeline \/ RotateSession \/ TimePasses \/ Restart

Spec == Init /\ [][Next]_vars

\* The event loop runs, an armed timer fires and every request ends.
Fairness ==
  /\ WF_vars(HandleUi)
  /\ WF_vars(TimerFires)
  /\ WF_vars(RespondOk \/ RespondError)

FairSpec == Spec /\ Fairness

----------------------------------------------------------------------------

\* Every variable holds a value of its kind.
TypeOK ==
  /\ pending \subseteq [ts : Nat, txn : Txn]
  /\ stored \subseteq Txn /\ shown \subseteq Txn /\ behind \subseteq Txn
  /\ rel \in [Txn -> Rel]
  /\ current_txn \in Txn \cup {NoTxn} /\ error_count \in Nat
  /\ session \in {"none", "stored"} /\ draft \in Rel
  /\ uiq \in Seq(UiEvents) /\ timers \in Nat
  /\ requests \subseteq Requests
  /\ server \subseteq [txn : Txn, rel : Rel] /\ echoed \subseteq Txn
  /\ now \in Nat /\ upsets \in Nat /\ queue \in {"idle", "started"}
  /\ fails \in [Txn -> Nat]
  /\ history \in Seq({"queued", "acked"} \X Txn)

IsAnswer(e) == e.ev \in {"failed", "sent"}
Answers == {i \in DOMAIN uiq : IsAnswer(uiq[i])}
Live == {r \in requests : r.cb = "live"}

\* The queue works on one message at a time: there is never more than one live
\* request, unhandled answer or armed retry timer, whatever the order of
\* answers, retries, syncs and restarts, and it always belongs to current_txn.
OneAtATime ==
  /\ \A r, q \in Live : r = q
  /\ \A i, j \in Answers : i = j
  /\ timers <= 1
  /\ Live # {} => Answers = {} /\ timers = 0
  /\ Answers # {} => timers = 0
  /\ \A r \in Live : r.txn = current_txn
  /\ \A i \in Answers : uiq[i].txn = current_txn
  /\ current_txn = NoTxn => Live = {} /\ Answers = {} /\ timers = 0

\* The queue never wedges: a message being processed always has an answer or a
\* timer to come, and when nothing is being processed there is nothing to send,
\* except between a restart and the next message the user queues.
NeverWedged ==
  /\ current_txn # NoTxn => Live # {} \/ Answers # {} \/ timers = 1
  /\ current_txn = NoTxn /\ queue = "started" => \A t \in Txn : ~Sendable(t)

\* Messages reach the homeserver in the order they were queued: once a message
\* was sent, no message queued before it is still waiting, so a failure or a
\* retry never lets a later message overtake an earlier one.
InOrder ==
  \A s, t \in Txn :
    /\ QueuedBefore(s, t)
    /\ t \in Accepted \/ \E r \in requests : r.txn = t
    => ~Sendable(s)

\* "Replace the event_id in pending edits/replies/redactions with the actual
\* event_id": after messageSent of t has run, no message that was queued before
\* that still waits with a relation to the transaction id t.  (Rooms that are
\* not encrypted.)
AckRewritesQueued ==
  ~Encrypted => \A i, j \in DOMAIN history :
    (i < j /\ history[i][1] = "queued" /\ history[j][1] = "acked" /\ Sendable(history[i][2]))
      => rel[history[i][2]] # Ref("txn", history[j][2])

\* A message is given up after at most eleven failures, although the counter is
\* shared by all messages of the room and is not reset by the echo of one.
GivesUp == \A t \in Txn : fails[t] <= MaxErrors + 1

\* The queue as Outbox has it: what waits, in which order it was queued, and what
\* has been sent (accepted, or under way and possibly accepted later).
Waits  == {t \in Txn : Sendable(t)}
Before == {p \in Txn \X Txn : QueuedBefore(p[1], p[2])}
Sent   == Accepted \cup {r.txn : r \in requests}

Promise == INSTANCE Outbox WITH
  Message <- Txn, queued <- Queued, before <- Before, waiting <- Waits, sent <- Sent,
  accepted <- Accepted, disturbances <- upsets

\* The queue keeps its promise, whatever the order of answers, retries, echoes and
\* restarts: only the oldest message that waits is ever sent, and one that was not
\* sent is only lost to a cleared timeline, a limited sync, or a message queued in the
\* same millisecond.
FollowsOutbox == Promise!Spec

\* Once the queue has been started, every message that waits is sent, given up
\* or dropped, and does not wait forever behind failing ones.
Drains ==
  \A t \in Txn : (queue = "started" /\ Sendable(t)) ~> (~Sendable(t) \/ queue = "idle")
=============================================================================
