# A TLA+ model of nheko's core

nheko is a desktop client for Matrix, written in C++ on Qt. This directory holds
TLA+ specifications of the parts of it in which the order of things decides
whether the program is right: the queue of outgoing messages, the cached
timeline with its pagination, device verification, the sync loop, the cache of
device keys, and the Megolm and Olm sessions. TLC checks them on small
instances; the safety properties are also proved with TLAPS, for every value of the
constants, with the exceptions listed at the end of section 4.

All definitions are translated from the code under `src/src/`; `PROJECT.json`
gives the lines of every one of them.

## 1. Inventory

### How the parts run

* **The UI thread** runs every slot of `ChatPage`, `TimelineModel`, `EventStore`,
  `DeviceVerificationFlow` and so on. One slot runs to its end before the next
  begins. A *direct* signal is a call inside the emitting slot
  (`processPending`); a *queued* one (`Qt::QueuedConnection`: `messageSent`,
  `messageFailed`, `oldMessagesRetrieved`, `newMessageToSend`) is put in the
  event queue and everything may happen before its slot runs.
* **Network threads** of mtxclient run the callbacks of HTTP requests. Callbacks
  mostly emit queued signals, but some read the cache first
  (`EventStore::fetchMore`).
* **The cache** is an LMDB database (`Cache.cpp`): it survives a restart, and a
  write transaction is atomic. All other state is lost when the program ends.
* **The homeserver** answers, fails or stays silent; it accepts an event once per
  transaction id, and its answer may be lost although it did.
* **Other devices** speak the verification, key sharing and call protocols
  through to-device messages or room events.

### Components

| Component | State | Operations | Hard behaviour |
|---|---|---|---|
| Outgoing queue (`EventStore.cpp`, `TimelineModel.cpp`, `Cache.cpp`) | `pending` table, local echoes, `current_txn`, `current_txn_error_count`, `reply_`/`edit_` | addPending, processPending, messageSent, messageFailed, retry timer, sync echo | retries, lost answers, echo before answer, replies to messages that are not sent yet, restarts |
| Timeline cache (`Cache.cpp`, `EventStore.cpp`) | `event_order`, `event2order`, `order2msg`, `msg2order`, `first`, `last`, `noMoreMessages` | saveTimelineMessages, saveOldMessages, clearTimeline, deleteOldMessages, handleSync, fetchMore | token checked on one thread and used on another, limited syncs, syncs that are saved but not announced, echoes in older slots, hidden events and redactions |
| Device verification (`DeviceVerificationFlow.cpp`, `VerificationManager.cpp`) | `dvList`, per flow `state_`, `sender`, flags of sent messages, `their_keys`, `isMacVerified` | request, ready, start, accept, key, mac, cancel, timeout, comparison by the user | glare, lost and reordered messages, several devices, late answers |
| Device key cache (`Cache.cpp`, `Olm.cpp`) | `UserKeyCache` with its sync tokens, `verification_storage`, context objects of callbacks | updateUserKeys, markUserKeysOutOfDate, query_keys, markDeviceVerified, verificationStatus | an answer older than the change that made it necessary, remembered states that depend on two lists and are computed from a snapshot taken before the lock |
| Megolm sessions (`Olm.cpp`, `Cache.cpp`) | outbound session, whom it was shared with, inbound sessions | encrypt_group_message, saveInboundMegolmSession, importSessionKeys, handle_key_request_message | rotation while members and devices change, ratchet index, a crash between the writes of one message |
| Olm sessions (`Olm.cpp`, `Cache.cpp`) | sessions per device with `last_message_ts`, one-time keys, `rateLimit` | handle_olm_message, send_encrypted_to_device_messages, claim_keys callback | lost sessions, several sessions, one repair in ten hours |
| Sync loop (`ChatPage.cpp`) | `next_batch`, `isConnected_`, timers, open message boxes | tryInitialSync, trySync, handleSyncResponse, connectivity check, logout, dropToLoginPage | two loops at once, requests that vanish, a crash between the save and the effects of a sync |
| Room state cache (`Cache.cpp`) | members, state events, receipts, account data | saveState, saveStateEvent, updateReadReceipt | format migrations |
| Calls (`CallManager.cpp`, `WebRTCSession.cpp`) | call id, party id, session state, pending candidates | invite, answer, candidates, select answer, reject, hangup, timeout | glare, answers of several devices, late candidates |
| MatrixRTC (`MatrixRTCSession.cpp`, `LiveKitSession.cpp`) | memberships, call keys | join, leave, key rotation | keys and members in different orders |
| Models, dialogs, login, media, text | Qt models of the cache | display and forms | little state of their own |

### What makes each of them correct

* Queue: one message at a time, in order; no state in which it waits for nothing;
  a message that fails does not block the others for ever; a reply reaches the
  homeserver with the event id of its target.
* Timeline: order tables inverse to each other; no message twice, none skipped;
  the token in the oldest entry continues the timeline; the rows shown are the
  rows stored; scrolling ends at the beginning of the room and only there.
* Verification: a device is marked verified only after both users compared the
  same string; the sides agree on whose start counts; exactly one of several
  devices is taken; every flow ends.
* Sync loop: every event is stored exactly once, to-device messages are handed on
  at most once, the loop never dies, and the cache catches up.
* Key cache: a device list is "up to date" only if it has every announced change; a
  device keeps its keys; remembered trust is never higher than the tables justify;
  every caller of `query_keys` is answered.
* Megolm: no message can be read by somebody who left, all members can read it; an
  index is never used twice; a better inbound session is not replaced by a worse
  one.
* Olm: a channel whose messages cannot be decrypted does not stay broken.
* Calls: at most one call, the states of both ends converge, no candidate lost.

The hazards behind these properties are listed with their lines in
`PROJECT.json`.

## 2. Modules

```
Outbox <==     SendQueue <-- MCSendQueue      (TLC, refinement)
                         <-- SendQueueProofs  (TLAPS, refinement)
Timeline     <-- MCTimeline                   (TLC)
             <-- TimelineProofs               (TLAPS)
Verification <-- MCVerification               (TLC)
             <-- VerificationProofs           (TLAPS)
SyncStream <== SyncLoop  <-- MCSyncLoop       (TLC, refinement)
                         <-- SyncLoopProofs   (TLAPS, refinement)
DeviceKeys   <-- MCDeviceKeys                 (TLC)
             <-- DeviceKeysProofs             (TLAPS)
Megolm       <-- MCMegolm                     (TLC)
             <-- MegolmProofs                 (TLAPS)
Olm                                           (TLC)
             <-- OlmProofs                    (TLAPS)
Queues       lemmas about Qt's queue, for the proof modules
```

Definitions named as a *faulty variant* stand before the definition they vary.
They are not part of the specifications: each is a plausible mistake in that
piece of code that makes one of the properties fail, and shows that the property
depends on the code.

### SendQueue and Outbox

One room. `pending` holds the rows of the pending table (a millisecond and a
transaction id), `stored` the local echoes whose event is in the events table,
`shown` those that have a slot in the timeline, `behind` those that lie before
the newest pagination token (what `/clear-timeline` deletes). `uiq` is Qt's queue
for the UI thread, `timers` the number of armed one second timers and `requests`
the send requests. A request is on the `"wire"` or at the `"server"`; its
callback is `"live"` or `"gone"`, since a request whose caller got an error, or
whose program ended, may still be accepted.

| Action | Code |
|---|---|
| `SetReply`, `UserSend` | `setReply`, `setEdit`; `InputBar` and `sendMessageEvent` |
| `HandleNew` | `addPendingMessage`, `sendEncryptedMessage`, `EventStore::addPending` with `savePendingMessage` |
| `HandleSent`, `HandleDraft` | the `messageSent` slots of `EventStore` and of `TimelineModel` |
| `HandleFailed`, `TimerFires` | the `messageFailed` slot and its timer |
| `ProcessPending` | the `processPending` slot, inside each of the above that emits it |
| `RespondOk`, `RespondError` | callback of `send_room_message` |
| `SyncEcho`, `SyncOther`, `SyncLimited` | `saveTimelineMessages` |
| `ClearTimeline`, `RotateSession`, `Restart` | the commands, and a new process with the old database |
| `ServerAccept` | external: the homeserver |

Abstracted: contents; which devices a session is shared with (only whether an
outbound session is stored matters here); thread, reply and edit relations are
one relation. A message sent in the millisecond of another one replaces its row
(`PutPending`), as in the code. Not represented: `processPending` on an event
whose id does not begin with `m` or whose type has no message content; both
return with `current_txn` set, but `addPendingMessage` gives every message an id
with `m` and none of its visitors stores such a type.

`Outbox` is the abstract specification, a FIFO queue that may lose messages. A message
waits once it is queued; only the oldest of those that wait is sent; only what was sent
is accepted, now or much later; and a message leaves unsent in two ways only, a
disturbance (`/clear-timeline`, a limited sync) or another one queued in the same
millisecond, which takes its row. `FollowsOutbox` is `Outbox!Spec` with `waiting` the messages that
`processPending` can still send (`Waits`), `sent` those of which a request has been
made (`Sent`: accepted or under way) and `before` the order of the history. Retries, timers,
the slots and `current_txn` have no counterpart: each of their steps sends the oldest
message, finishes one that has been sent, or is a stutter.

### Timeline

The homeserver's copy of the room is `1..Newest`, with event 1 its creation; a
token is a position. `db` has the four tables, `view` is `first` and `last`, and
`noMore`, `paginating` are `noMoreMessages` and `m_paginationInProgress`. The
saving operations are functions on the tables; the loops over a batch
(`SaveTimelineMessages`, `SaveChunk`) are recursive functions of the number of events
done. `OldSaved` is the rest of `HandleOld` once the page is stored. `Response` is the callback on the network thread, which
compares tokens; `HandleOld` is the slot that stores the page, later.

The homeserver has the events up to `head`, the cache those up to `synced`: a page
without a token starts at `head`, or at a newer event that comes with it, and so it may
bring a message of ours whose local echo is still pending. `saveOldMessages` compares
event ids only (`Cache.cpp:4357`), and both then have a slot; `doubled` is the history of the
events that came so.

`handleSyncResponse` saves the tables and then tells `EventStore`. `Sync` and `SyncLimited` do both;
`SyncFails` is an LMDB error between the two, and `MapFull` the same with a full map, which
trims the cache in addition. (A full map inside `saveState` ends the program: `SyncLoop` has that
exit, and a restart follows.) `untold` is what `EventStore` has not been told of since: nothing, rows
that were appended, or tables that were replaced or trimmed.

Rooms for TLC contain all the kinds of
event the code tells apart: messages of others, our own (with local echo),
hidden ones, edits, and redactions, alone and in whole pages.

Abstracted: bodies, decryption, the relations table, and the content of a
redaction (which changes no order table). uint64 indices are integers around 0,
and the maximal value that stands for "empty" is the constant `NoIdx`, which is none of
them: `EmptyAssumption` says that indices never come near the ends of the range, of
which 2^63 events would be needed.

### Verification

Devices are numbers in the order the glare rule compares (user id, device id).
`flow[d][t]` is the flow of device `d` for transaction `t`; each handler is an
operator from a flow and a message to an `Effect`: the new flow, what is sent,
what is marked verified and what is signed. `Receive` gives a message to every
flow of the device, as the signals of `ChatPage` do; `ReceiveNew` is
`VerificationManager` creating a flow for an unknown request or start. `net` is a
set: messages arrive in any order and `Lose` is a request that failed, which the
code only logs. `TheyMatch` needs the same string on the other device's screen:
users do compare. `Dies` is a mac that comes before the key: libolm refuses to compute macs
without the other key, no slot catches the exception, and the program ends with all of its flows.
`Foreign` devices are other clients that may send start
themselves once ready, which nheko never does: that is where glare comes from.

Abstracted: emoji and decimals, the two mac methods, the content of macs (a mac is
right when both sides have the same secret and transaction), done messages (only
logged). Not modelled yet: verification in a room, `unverify`.

### SyncLoop and SyncStream

One account on one computer. The homeserver's events are numbered and a token is a
position. `token` is the row of the sync state table; `inflight` counts the sync
requests under way for each `since`; `uiq` is Qt's queue, `retry` and `throttled` are
armed single shot timers, `boxes` the message boxes that are open (each runs its own
event loop, so slots go on behind it). `shutdown()` of the HTTP client drops
any of the pending requests without a callback, and may be too late for others:
`Shutdown(S)` is nondeterministic.

| Action | Code |
|---|---|
| `UploadDone`, `InitialAnswer`, `InitialSave...`, `BootFails` | `tryInitialSync`, `startInitialSync` |
| `HandleTry`, `HandleDelayed`, `RetryFires`, `ThrottleFires` | `trySync` and the connections and timers that call it |
| `Answer`, `AnswerError` | callback of `sync` |
| `HandleSync`, `HandleDuplicate`, `HandleSyncFails` | `handleSyncResponse` with `saveState` and `handle_to_device_messages` |
| `HandleSyncFull`, `InitialSaveFull`, `CloseBox` | the handler of a full database in `saveState`: a box, then `exit(1)` |
| `Tick`, `ProbeOk`, `ProbeError`, `HandleLost`, `HandleRestored` | the connectivity timer and its slots |
| `UserLogout`, `HandleLogout`, `HandleDrop`, `AcceptLogout` | `initiateLogout`, `logout`, `dropToLoginPage`, `deleteConfigs` |
| `Crash`, `CrashInSync` | the process ends, between slots or behind the commit of `saveState` |

`SyncStream` is the abstract specification: first a copy of the account (possibly
several times, and then to-device messages may be handed on more than once), then a
prefix of the stream that only grows, each event written once. `FollowsStream` is
`SyncStream!Spec` with `phase` mapped from `boot` and `open`. The
specification admits that to-device messages are lost at a crash, since the token is
committed before they are handled.

Left out: one-time key counts, presence, invitations that are rejected, migrations,
a second login in the same process.

### DeviceKeys

Two users, the local one and another. The homeserver's changes of device lists are
numbered; a sync announces those up to some number. A row of the user keys table has
`updated` and `last` as in `UserKeyCache` (0 is the empty token), and as history the
number of changes its list contains. `requests` are the key queries: `"mark"` from
`markUserKeysOutOfDate`, `"query"` from `Cache::query_keys` with its context object in
`contexts`, `"send"` from `send_encrypted_to_device_messages`. Answers are made
(`ServerAnswers`), delivered (`QueryDone`, `MarkDone`) and stored (`HandleUpdate`) in
separate steps. The send path stores on the network thread: `SendDone` commits, and
`SendErase` takes the lock and erases the states, later (`erasing`).
`memo` is `verification_storage.status`; `Status` is what `verificationStatus_` computes.
`verificationStatus` begins its transaction before it takes the lock (`Cache.cpp:5632`, `5639`):
`ReadTables` is the first and `Remember` the rest, with `SendDone` and `SendErase` possibly in
between; the other steps of the UI thread wait (`UiIdle`). When no thread of the send path is under
way nothing can come between, and `VerificationStatus` is one step. `stale` is
history: the users whose remembered state is of a transaction that such a commit has overtaken.
`SeenBefore` follows the loop of `updateUserKeys`, which adds to the seen keys as it goes through
the list in the order of the device ids; a first row is stored without any check
(`FirstRow`, `unchecked`).
`roomVerificationStatus` never commits its transaction, so its mark is not written but
its query is sent. `verificationStatusChanged` only leads to another `VerificationStatus`
of the local user.

Left out: lists of more than 32 users in one call (the query is split), and device
lists whose own signatures are wrong (they are refused).

### Megolm

One encrypted room. An encryption is a job with one step per transaction: `EncryptNew` stores the
inbound and `SaveOutbound` the outbound side of a new session (or `EncryptKeep` uses the old
one), `Share` sends the room key, `Store` is `updateOutboundMegolmSession` with the ratchet behind the
message, and `Queue` puts the message among the pending ones, from where it is sent. `After` is their
order. Between any two of them key queries are answered on another thread and the program
may end. `Reencrypt` starts the job for a queued reply in `messageSent`, which has the last two
steps only. Messages count as sent when they are queued: what a crash loses before has
never left the program.
`record` is `SharedWithUsers` of the session data, which outbound and inbound sessions
share. Sharing sends the room key to the devices of a row, or queries the
devices first (`queries`, `QueryAnswer`). `given` is history: the lowest index of a session
that a device may have been handed, in whatever way. Session 0 belongs to somebody else
and only has an inbound side.

Left out: which devices are verified is constant; requests of our own devices for
sessions of others; decryption and its replay table; the online backup.

### Olm

Two devices with a channel. A device keeps its sessions in the order of
`last_message_ts`. Since sending stores seconds and receiving milliseconds, all
sessions that were last used to receive come first: `heard`, then `said`. A message names
its session and whether it is a pre-key message; it can be read if the session is stored
and opens one if its one-time key is not consumed. `CrashInOpen` is the end of the
program between the write of the account and that of the session; `DropSession`
stands for another client, or a restored database. Faults are bounded. `lost` is history:
the sessions that a device had and lost, by either of these. `OnlyLostUnreadable` says that
nothing else makes a message unreadable.

## 3. Runs

| Run | Instance | Shows |
|---|---|---|
| `send_queue` | 2 messages, gives up after 2 failures, clock 0..2, 2 disturbances, unencrypted | `OneAtATime`, `NeverWedged`, `AckRewritesQueued`, `GivesUp`, `FollowsOutbox` (refinement) |
| `send_queue_drains` | 2 messages, encrypted, 1 disturbance | `Drains` |
| `timeline` | 11 events, 6 of them before the first sync, pages of 2, 2 restarts, 1 sync not announced | `OrderInverse`, `NoGap`, `TokenContinues`, `StopsAtBeginning`, `ReachesBeginning` |
| `timeline_all` | 9 events, one limited sync, one not announced, one clear, restart and full database, trim to 2 entries | `WindowMatches`, `NoDuplicates` |
| `timeline_stale` | limited sync during a pagination | **violated**: `AnswerContinues` |
| `verification_any` | 3 devices, one asks two, the lower of them may send start | `SameSas`, `NoFalseAlarm`, `OneAccepts` |
| `verification_again` | 2 devices, each may create its flow twice and send start | `VerifiedConfirmed`, `Ends` |
| `verification_signed` | 2 devices | **violated**: `SignedConfirmed` |
| `sync_loop` | 2 events, both to-device messages, 2 checks, 1 outage, 1 fault | `LoopAlive`, `FollowsStream` (refinement), `CatchesUp` |
| `device_keys` | 2 users, 2 devices, 2 queries at a time, 2 changes or faults, a list that names a key twice | `FreshList`, `KeepsCurrent`, `KeysPinned`, `StatusCurrent`, `CallbackComes` |
| `megolm` | 2 users, 3 devices, 2 sessions, 3 messages, 2 changes (of members, devices, settings or received sessions), 1 fault | `IndexOnce`, `OnlyMembers`, `OnlyKnownDevices`, `AllCanRead`, `InboundImproves` |
| `olm` | 2 devices, 6 sessions, 1 message under way, 1 fault | `OnlyLostUnreadable`, `Recovers` |

Each run also checks the module's `TypeOK` once.

**Why the bounds suffice.** In the queue two messages give every pair of "first"
and "behind it", and a limit of two failures has the three cases of the counter
(first failure, last, given up); the invariants are proved without bounds. Two
disturbances allow a restart after a limited sync or a clear. The clock has room
for two messages in different milliseconds and one collision. In the timeline a
page has two events, so that a page is new, known, half known, hidden or made of
redactions; the rooms are laid out so that each occurs, and two requests may be
under way at once (a limited sync resets `paginating` while one is out).
Verification with three devices has a chosen one, one that is not chosen and the
initiator. The device that may send start is below the initiator in `verification_any` and above
it in `verification_again`, so both outcomes of the glare rule occur between the runs; with both
targets sending start the three devices have 2.6 million states, which pass too but take longer. A fourth device or a third message adds nothing that the
properties, which are about pairs, could tell apart. In the sync loop two events
give a prefix that is empty, partial or complete, and two probes let the connection
be restored by an older probe than the one that lost it. In the key cache two
changes and two queries give every order of a query and a change around it; the
other user's second list replaces a key, names the new one for both devices and has
another master key, and our own changes the user signing key. A fault takes the place of one
change; two changes with a fault besides pass too (3.7 million states, two and a half minutes on
four cores), and the five properties are proved for any number of both. In the Megolm room two sessions
are one before and one after a rotation, three messages are one before,
at and behind the limit of two, and the two devices of the other user
are a verified and an unverified one; one fault lets the program end between any two
transactions of an encryption. The bound on messages is one on indices too, and a
session received from elsewhere counts as a change. In the timeline one database that is
full and one sync that is not announced meet each other and every other disturbance. In the Olm channel `Recovers` contains that the bound
on sessions is never reached, so it cuts nothing off. With one message under way nothing
is reordered; `OnlyLostUnreadable`, for which the order matters, is proved for any number of
messages, and its inductive invariant was checked with two. The Olm instance with two
faults (and 7 sessions) passes as well, but takes over four minutes.

**Symmetry** is used for the transaction ids of `send_queue` and the slots of
`device_keys`, which have no liveness property. **Deadlock** is checked in the queue, where `SyncOther` is
always possible (a client may always sync), and in the key cache and Olm
instances; the timeline and verification instances end when their room is read or
their flows are over, the sync loop ends with a logout, and the Megolm room rests when all
messages of the instance are sent and all its changes used.

**Fairness.** `SendQueue!FairSpec`: weak fairness of the event loop, of the timer
and of the end of a request (mtxclient's requests time out). The homeserver need
not ever accept anything and syncs need not come. That a request ends in a callback is an
assumption of `SendQueue` and `DeviceKeys`: `http::client()->shutdown()`, which
`SyncLoop` models, drops requests without one (see section 5). `Timeline!FairSpec`: the view
asks for more while its top is visible (this is what Qt does with `canFetchMore`),
slots run, requests end, and a request that is made again and again sometimes
succeeds (strong fairness; without it nobody reaches the beginning).
`Verification!FairSpec`: only the timers. `SyncLoop!FairSpec`: weak fairness of the event
loop, the timers and the steps of the initial sync, somebody answers a
message box, and strong fairness of a sync and of a connectivity check that
succeeds: a request that is repeated for ever gets an answer with news some time.
`Olm!FairSpec`: the first device has messages to send again and again, requests are
answered, what was sent arrives and ten hours pass; the second device
need not send anything. Faults are bounded and never fair.

## 4. Proofs

Each proof module first states what holds of the operators, then has one lemma per
part of the inductive invariant, with one step per action, and ends with the
theorems. Every inductive invariant was checked by TLC on the instance of its run
before it was proved. `Queues` describes a queue of Qt events by the set of the events
in it, and what `Append` and `Tail` do to that set; no proof needs more of the order.

### SendQueue

`SendQueueProofs` proves for every finite or infinite set of transaction ids,
every retry limit and any number of disturbances, from the assumptions that
`NoTxn` is not a transaction id, `Encrypted` is Boolean and the bounds are
naturals:

* `TypeCorrect`: `Spec => []TypeOK`.
* `OneAtATimeCorrect`: `OneAtATime` is not inductive alone. When a timer or an
  answer is handled the slot starts a new request, which is safe only because
  nothing else was under way. `Control` adds that a message being processed has an
  answer or a timer to come.
* `NeverWedgedCorrect`: `Control` and `Idle` (an idle, started queue has nothing to
  send). `Idle` is kept because every slot that makes a message sendable, or
  clears `current_txn`, runs `processPending` before it ends; `FirstPendingEmpty`
  needs that a non-empty set of naturals has a least element.
* `InOrderCorrect`: `InOrder` with `OnlyQueued` (what is pending or sent was queued)
  and `RowsOrdered` (rows of earlier messages have earlier keys). No message of a
  later time is sent while an earlier one waits; the refinement below needs it.
* `ImplementsOutbox`: `Spec => FollowsOutbox`, the refinement of `Outbox`. A slot that
  ends in `processPending` sends the first row that can be sent, and by `RowsOrdered` that is
  the oldest message that waits (`ServeAfterProcessPending`); a message that is
  answered, echoed or given up has been sent, by `OneAtATime` and `Requested`
  (`AnswerSent`); and a new row takes the place of at most one other (`OneRowAtATime`).
  `PromiseStep` puts the actions together, one abstract step or stutter for each.
* `AckRewritesQueuedCorrect`: in an unencrypted room, from `OnlyQueued`.
* `GivesUpCorrect`: `error_count` belongs to the room while `fails` counts per
  message, so `GivesUp` alone is not inductive. `Requested` says that the message
  being processed has been sent to the homeserver, and `Retry` that only that
  message has failed and can still be sent, and that its failures are within
  `error_count`. With `InOrder` and `RowsOrdered` it is also the oldest row that can
  be sent (`RetriesCurrent`), so the timer takes the same message again and the
  counter goes on counting its failures.

### Verification

From the assumptions in the module (devices are numbers, in the order the glare rule
compares; an initiator is not among its targets; `None` is not a key, a commitment, an
error or a device), for any number of devices, transactions, foreign clients and flows that
a device makes again. `Steps` first shows that for each transaction a step is one of four: nothing
happens, a flow moves, a flow is dropped or a flow is made (`StepOf`). A flow moves as `Moves`
says, whichever handler runs; the lemmas `HandleStartMoves`, `HandleKeyMoves` and so on
are about one handler each, and the rest of the proofs no longer looks into them.

* `TypeCorrect`, from `StateInv`: flows connect the initiator with its targets (`Star`),
  messages go between the two (`MsgOK`), and what a flow has learned comes from flows that
  had been made (`Learned`).
* `OnlyOneAccepts`, from `Asks`: a target under the initiator's start (`Asked`) is the peer that
  the initiator's first flow has narrowed to. A flow that the initiator makes again comes from a
  start of a target, takes that one and never sends a start itself. While the initiator has made one
  flow, also accept and key only go to or come from that peer (`Choice`).
* `BothConfirmed`, from `Private` and `Confirmed`: the key of the initiator's flow is known to
  its peer only, so that a mac over it is from that peer, and a mac is only sent after
  "They match!". This holds also when flows are dropped and made again, since a new flow has a
  new key.
* `SameStrings` and `NoFalseAlarms`, from `Once`, for transactions in which no device makes
  its flow again. `Pair` relates two flows and the types of the messages between them,
  and is symmetric: once a device has taken the start of the other (`Took`), the other is and stays
  the sender, and a start of its own that is still under way loses by the glare rule; a key is only under way
  to a flow that waits for it. `Own` is the part about one flow. A move is one of the six turns of
  the exchange of keys (`Turns`), and `RestsPair` to `LearnsPair` are about one each;
  `NoAlarm` shows that the sixth, a key that is not expected, does not occur.

### SyncLoop

From `Last` at least 1 and bounds that are naturals, `SyncLoopProofs` proves for any
number of events, probes, outages and faults:

* `TypeCorrect`: `Spec => []TypeOK`.
* `NeverDies`: `Spec => []LoopAlive`. `Alive` is the same with the events of the queue
  as a set. It needs `Watched`: the connectivity timer runs while the client thinks it is
  offline, a probe is under way or its result waits in the queue. Each slot that takes the last thing under way off either starts
  `trySync`, arms a timer, or leaves the loop to the end of the login.
* `Implements`: `Spec => FollowsStream`, the refinement of `SyncStream`. `StreamInv` has
  `Copied` (the events stored are those up to the token, each once), `NoLoopYet` (until the
  account has been copied no request of the loop can be answered) and `Responses` (a
  queued response does not go back). A step is a copy, an extension, a drop of the
  account or a stutter (`CopyStep`, `ExtendStep`, `ForgetStep`, `StayStep`).

### DeviceKeys

From the assumptions in the module (two users; `NoKey` and `NoRow` are not a key and not
a row; devices are numbers, in the order in which the loop of `updateUserKeys` takes them),
for any set of devices, keys, lists (also lists that name one key for several devices) and
slots and any bounds:

* `TypeCorrect`, from `StateInv`, which describes requests, contexts, rows and queued
  events. In particular an answer is not older than the token its query was made for.
* `FreshLists` and `KeepsCurrentLists`, from `FreshInv`: an announced change is on the
  row of its user (`Announced`), and a list is not older than the token it is stored for
  unless the send path stored it (`Stored`).
* `PinnedKeys`, from `Pins`, `Carried` and the property itself: a key that passed the check is among the
  seen ones, its device has no other key, and it is on no other device unless the first
  list of the user, which is stored unchecked, gave it to one of the two (`Shared`); every key on
  a row has passed the check or is from that first list. `MergePins` is about one update.
* `StatusIsCurrent`: a remembered state depends on two rows; marks leave the keys of rows
  alone, so that the state computed from them stays the same, and every update of a row
  forgets what depends on it: at once on the UI thread (`Erased`), and on the send path
  after its commit (`ErasedLater`), until when the state is exempt. `StatusInv` adds what
  holds in between: while `verificationStatus` is between its snapshot and its lock, the state it
  has computed is that of the tables, or an update has overtaken it (`Fits`); only then is what
  it remembers `stale`.
* `CallbacksCome`, from `WaitInv`: a context has the slot of a query for its user, and a
  context that is about to be deleted has been called.

### Megolm

From the assumptions on owners, trusted devices and bounds, for any users, devices,
sessions and messages:

* `TypeCorrect` and `NoIndexTwice`, from `StateInv`: the stored ratchet stands behind every
  message on its way, and the index of a message that is encrypted and stored but not queued
  yet is behind all those of its session (`Ratchet`), so that a crash between any two
  transactions of an encryption may lose an index and never gives it out again; our
  inbound sessions begin at 0 (`SessionsOK`), records name devices with
  their owners (`RecordOK`), and `Busy` says what holds between the steps of
  `encrypt_group_message`, which index each step has among it: whoever is on the record is a
  member still, and all others are about to get the session.
* `MembersOnly` and `KnownDevicesOnly`, from `MembersInv`: who holds a session is on its
  record, about to be, or exempt (`HoldersShare`); and who is queried for is on the record
  and was a member at every message that the answer will make readable
  (`QueriesShare`).
* `EveryoneCanRead`, from `ReadInv`: whoever is on the record has been served or is about
  to be (`RecordServed`), and from the encryption of a message until it is queued everybody
  has been (`JobServed`).
* `InboundOnlyImproves`: the action property, from `SaveInboundIs`.

### Timeline

For a room of any length with any own, hidden and redacting events, pages and
batches of any size, from `SizeAssumption`, `KindAssumption` and `EmptyAssumption`.
Nothing bounds the number of requests, limited syncs, clears, trims, restarts or syncs that
`EventStore` is not told of.

A loop over a batch is a recursive function, so what it leaves is proved by induction on
its length. The library's induction theorems take an operator; `UpTo` states the same for a
set of positions (`LeastNat` gets it from the well-foundedness of `<`), and `BatchSteps` and
`ChunkSteps` use it to show that the recursive definitions mean what they say. After that
each of `SaveEvent`, `SaveOldEvent`, `Insert`, `Echo`, `Forget` has a lemma per invariant,
and each loop one that lifts it to the batch.

* `TypeCorrect` and `NeverTwice`, from `State`: the tables are `Sound` for the position of
  the sync, the homeserver's newest event (`head`) and the events in `doubled`. Every message's slot
  is the one that the inverse table has for it (`OwnSlots`), and no event is known together
  with its local echo (`Alone`), but for the `doubled` ones: those that a page without a
  token brought before the sync did. Neither a limited sync nor a clear, a trim or a stale
  page adds an exemption. An undisturbed timeline has its oldest token, so that all its pages
  begin below `synced`: there the tables are `Strict`, and nothing is doubled.
* `TablesInverse`, `TokenFits`, `NothingMissing`, `StopsAtTheEnd` and `AnswersFit`, from
  `Steady`: as long as the timeline is `Undisturbed` there are `f`, `l` and `t` such
  that the order table has no holes from `f` to `l`, its oldest entry holds the token `t`, and
  it knows exactly the events after `t`, but for redactions (`Whole`); at most one request or
  answer is under way, for that `t` (`Asked`). The step that matters is a page: stored
  below `t`, it leaves a table that is whole down to the new token, also when every event of
  it is hidden, and when all are redactions and one is kept to carry the token.
  `Undisturbed` excludes limited syncs, clears and trims, since the properties do not hold of the
  code after all of those: see below. A trim is excluded in one of two ways: either the cache
  keeps as many entries as the room has events (`NoTrim`, by counting: an event and its echo are
  never both there), or there was no restart and no full database.
* `WindowFitsTrims` and `WindowFits`, from `Framing`: the message tables have no holes
  (`Filled`), syncs only append rows (`Upwards`) and pages only put rows in front
  (`Downwards`), so the window stays their range, after limited syncs and for stale pages
  too. A trim takes the oldest entries of the order table, whose indices are not those of
  the rows. That their messages are the oldest rows is `Numbered`: every message has an
  index in both numberings, and they go the same way. Inserting, echoing, storing a page
  and trimming keep it (`InsertNumbered` to `TrimRows`). `Frames` says where the window is:
  it is the range of the tables, or, while `untold` is "rows", a part of it that begins at the
  oldest row; while it is "tables" nothing is said until a limited sync, a clear or a start
  of the program makes `EventStore` read both bounds. A trim needs inverse tables in which nothing is doubled besides, or it
  would delete by ids that are no longer those of its entries. `WindowFitsTrims` therefore
  assumes that of each trim (`[][Restart \/ MapFull => OrderInverse /\ doubled = {}]_vars`) and
  is about any number of restarts, full databases, limited syncs, syncs that fail after their
  commit, and pages; `WindowFits` has no such
  assumption, and is about the behaviours in which the rest of the invariants gives it: any
  number of restarts and full databases that trim nothing, or one that does, without a
  limited sync; or any number of limited syncs without a trim (`Kept`); in each case with any
  number of syncs that fail after their commit. Both exclude a clear, as `WindowMatches` itself
  does.

### Olm

From the assumptions in the module, for any number of sessions, messages under way and
faults, and any order in which messages arrive:

* `TypeCorrect`, from `State`. The part that is not about types is that a session has one
  row: storing one takes the old row off whichever of the two lists it is on. `Rows` says this
  of the two lists one at a time, so that the lemmas `RemoveRow` and `ConsRow` are about one
  list each; they follow the removal of a row position by position.
* `UnreadableIsLost`: `Spec => []OnlyLostUnreadable`, from `Channel`. `Had` are the
  sessions that a device has or has lost, and only grows. A device has had every session whose
  one-time key it consumed, its peer every session on which it received something
  (`replied`), and so whoever gets a message that is no pre-key message has had its session. A
  pre-key message opens its session unless the key is consumed, and then the
  session is one that the receiver has had, too. Sessions that both sides create at once
  and repairs are covered.

### Only model-checked

* Liveness (`Drains`, `ReachesBeginning`, `Ends`, `CatchesUp`, `Recovers`): out of the
  reach of the installed backends.
* `WindowMatches` after a trim (at a restart or for a full database) that found tables
  which were not inverse, or a doubled event, once they are inverse again. A stale page, a page after an earlier trim or a limited sync during a
  pagination write the front entry over with another event, so that an id is left in
  `event2order` without an entry. `timeline_all` contains such trims, and finds no
  violation.
* `OrderInverse`, `TokenContinues`, `NoGap` and `StopsAtBeginning` are checked and proved
  for an undisturbed timeline. Beyond it TLC says, on instances with one disturbance of
  a kind:

  | After | fails | holds on the instances checked |
  |---|---|---|
  | a limited sync during a pagination | all four | none |
  | a clear | `NoGap`, `TokenContinues` | `OrderInverse`, `StopsAtBeginning` |
  | a trim (restart or full database) | `OrderInverse`, `NoGap`, `TokenContinues` | `StopsAtBeginning` |

  `StopsAtBeginning` fails when any two of these come together. No run of the project records these failures: the recorded one,
  `timeline_stale`, is about `AnswerContinues`, which has the cause of the first
  line. What holds in the last column is not proved; an inductive invariant for it would
  have to describe tables with holes and overwritten front entries.

## 5. Where code and text disagree

The runs marked as violated have the code as it is; the traces are real
executions.

* **A page for an old timeline** is stored (`EventStore.cpp:938`): the token is
  compared on the network thread, and the queued slot does not compare it again.
* **Signatures are uploaded before our user has compared**
  (`DeviceVerificationFlow.cpp:342`), so that "They do not match!" comes too late
  for them.

Limits of what holds, found while the properties were stated. The models contain all
of them; the properties are stated so that they leave them out.

* A reply to a message that was echoed but not answered keeps the transaction id
  (`EventStore.cpp:191`): replies are rewritten only in `messageSent`, but when the answer
  is lost the sync removes the pending row and `messageSent` never runs.
* `/clear-timeline` hides the oldest message it keeps (`Cache.cpp:4495`): the do-while
  deletes at least one entry, and the message is never shown again as it still is in
  `event2order`.
* "Accepted by a different device" also ends verifications that have nothing to do with
  the ready message (`DeviceVerificationFlow.cpp:395`). The runs have one transaction, so
  they do not exercise this, and no property is about it.
* A mac that comes before the key ends the program: `calculate_mac`
  (`DeviceVerificationFlow.cpp:259`) throws for a SAS object that has no other key, and
  nobody catches it. `Dies` has this: it happens when a mac overtakes the key, or goes to a flow
  that was made again.

* `WindowMatches` fails after a clear (the message it hides keeps its `msg2order`
  entry), and after a trim of tables that a stale page has
  left without being inverse; it is restricted while `untold` is not "nothing" (next
  item). `TokenContinues` and `NoGap` fail after a trim, which deletes the entry
  with the token, and after a stale page. They are checked without these.
* When LMDB throws after `saveState` has committed (`ChatPage.cpp:872-878`), the tables hold
  the new events and `EventStore` is not told: its window ends before the range until the
  next sync that is told. When the exception was `MDB_MAP_FULL` or the sync was a limited one, the rows at
  the window's beginning may be gone, and stay in the window until both bounds are read
  again. `WindowMatches` follows this in `untold`.
* After a trim has taken the entry with the token, `fetchMore` asks without one, and the
  homeserver begins at its newest event. If that is a message of ours that was accepted and
  not yet synced, it gets a slot next to its local echo: `saveOldMessages` looks for
  the event id only (`Cache.cpp:4357`), although the comment there says "This check protects
  against duplicates in the timeline". `NoDuplicates` exempts just these events
  (`doubled`), and allows none in an undisturbed timeline.
* The requests under way are dropped without a callback by `shutdown()` (`ChatPage.cpp:66`,
  when the connection is found lost). `SyncLoop` has this; `NeverWedged`, `Drains` and
  `CallbackComes` are about requests that end: for a send request dropped in this way
  `current_txn` would stay set until the program starts again.
* `SameSas` and `NoFalseAlarm` hold for flows that are created once. A flow that is
  closed and created again by a late start has a new key, and the other side then
  reports a mismatch: safe, and `VerifiedConfirmed` still holds.
* In an encrypted room a reply is not rewritten when the outbound session has been
  dropped meanwhile; `AckRewritesQueued` is stated for unencrypted rooms.
* `trySync` gives up without a timer when the token cannot be read (`ChatPage.cpp:896`).
  The model has reading fail only after a logout; otherwise the loop would wait for the
  connection to be lost and restored.
* To-device messages are lost when the program ends between `saveState` and
  `handle_to_device_messages` (`ChatPage.cpp:808`): the token is already stored.
* `FreshList` and `KeepsCurrent` do not hold for a list that the send path stored
  (`Olm.cpp:1594`): it uses the token of the moment the answer comes, so a change
  announced while the query was under way is taken for included.
* The first list of a user is stored without filling the sets of seen keys and without any
  check (`Cache.cpp:5203`), also when it names one key for two devices. `KeysPinned` therefore begins with
  the second update, and exempts a key that the first list gave to one of the two devices.
* `verificationStatus` opens its transaction before it takes the lock (`Cache.cpp:5632`, `5639`). When
  the send path (`Olm.cpp:1594`) stores a list and forgets the states of its user in between,
  on a network thread, the state of the old snapshot is remembered and stays until the next
  update of the user or of our own keys. `StatusCurrent` exempts these states (`stale`), and those
  that the send path is just about to forget (`erasing`).
* Two callers of `query_keys` for the same user may both be called by the first answer,
  and one of them again by its own error.
* `OnlyMembers` exempts devices that got a session because they are verified, and those
  that got it in a call that was cut off by a crash before the record was stored
  (`Olm.cpp:731`). `AllCanRead` counts a device list that was queried as reached:
  when the query fails nobody tries again. A device that missed its room key cannot ask for
  the message it was added at, as the recorded index is the next one (`Olm.cpp:745`).
* The re-encryption of replies does not look at the members again
  (the comment at `EventStore.cpp:235` says so); `OnlyMembers` is about messages that went
  through `encrypt_group_message`.
* `Recovers` says that a broken channel is repaired, not that it stays so: because of the
  two units of time a device that receives something on an old session goes back to it,
  and each time the other side may need another claim.

## 6. Plan

1. Proofs: `OrderInverse` and `StopsAtBeginning` after clears, and `WindowMatches` after
   restarts on tables that are not inverse; both need an invariant of the entries that a
   page has written over.
2. Abstract specifications: a log with a known suffix for `Timeline` (TLC).
3. `Calls`: signalling of `CallManager` and `WebRTCSession` between devices. A model has
   to contain the threads of GStreamer, whose callbacks change the session state at
   any time; glare, a late answer and the echo of our own reject are the cases to look at.
4. One-time key uploads, the key backup, verification in a room over `SendQueue`, read
   receipts and the room state cache, MatrixRTC keys.

Not modelled, and not planned: GStreamer pipelines and media transport, image and media
caches, formatting of text and generated emoji tables, login forms, and Qt models that
are pure functions of the cache. They are I/O or have no state of their own.
