------------------------------ MODULE SyncLoop ------------------------------
(***************************************************************************)
(* ChatPage's sync loop for one account: the initial sync, trySync and      *)
(* handleSyncResponse, the retry and throttle timers, the connectivity      *)
(* check that cancels requests and starts another loop, the dialogs that    *)
(* end the program or the login, and restarts on the stored token.          *)
(*                                                                         *)
(* The homeserver's events are 1..head.  A token is a position, 0 the empty *)
(* one.  Slots of the UI thread are single actions; queued signals wait in  *)
(* uiq.  A message box runs an event loop of its own, so slots go on while  *)
(* one is open.                                                            *)
(***************************************************************************)
EXTENDS Integers, Sequences, FiniteSets

CONSTANTS
  Last,         \* bound: events the homeserver ever has
  ToDevice,     \* those of them that are to-device messages
  MaxProbes,    \* bound: connectivity checks whose result is not handled yet
  MaxOutages,   \* bound: connectivity checks that fail
  MaxFaults     \* bound: crashes and failures of the database

ASSUME LastAssumption == Last \in Nat \ {0}
ASSUME ToDeviceAssumption == ToDevice \subseteq 1..Last
ASSUME LoopBounds == MaxProbes \in Nat /\ MaxOutages \in Nat /\ MaxFaults \in Nat

VARIABLES
  head,         \* events the homeserver has
  open,         \* the database is open: the user is logged in
  token,        \* next_batch of the sync state table, 0 if it has no row
  boot,         \* progress of the initial sync
  arrived,      \* next_batch of the initial response that waits to be saved
  uiq,          \* Qt events queued for the UI thread
  retry,        \* armed RETRY_TIMEOUT timers
  throttled,    \* armed one second timers of handleSyncResponse
  inflight,     \* sync requests under way, per since token
  probes,       \* versions requests under way
  connected,    \* isConnected_
  ticking,      \* connectivityTimer_ is active
  boxes,        \* message boxes that are open
  outages, faults,
  saved,        \* history: how often each event was written by saveState
  handled       \* history: how often each to-device message was handed to olm

memory == <<boot, arrived, uiq, retry, throttled, inflight, probes, connected,
            ticking, boxes>>
disk == <<open, token, saved, handled>>
vars == <<head, disk, memory, outages, faults>>

----------------------------------------------------------------------------

Event    == 1..Last
Position == 0..Last

Ui(ev) == [ev |-> ev, since |-> 0, next |-> 0]
Response(s, n) == [ev |-> "sync", since |-> s, next |-> n]
UiEvents ==
  [ev : {"try", "delayed", "lost", "restored", "drop", "logout", "sync"},
   since : Position, next : Position]

Queued(ev) == \E i \in DOMAIN uiq : uiq[i].ev = ev

Unhandled(ev) == Cardinality({i \in DOMAIN uiq : uiq[i].ev = ev})

Slot(ev) == uiq # <<>> /\ Head(uiq).ev = ev

\* http::client()->shutdown(): a pending request is dropped, or its callback
\* still runs.  Dropped are those with a since token in S.
Shutdown(S) == [s \in Position |-> IF s \in S THEN 0 ELSE inflight[s]]

\* Faulty variant of TrySync: a request is not sent while another one is out.
TrySyncOnce(pending) ==
  /\ ticking' = TRUE
  /\ inflight' = IF open /\ \A s \in Position : pending[s] = 0
                   THEN [pending EXCEPT ![token] = @ + 1] ELSE pending

\* trySync, with the requests that are already under way.  It ends the loop
\* when the database is closed.
TrySync(pending) ==
  /\ ticking' = TRUE
  /\ inflight' = IF open THEN [pending EXCEPT ![token] = @ + 1] ELSE pending

\* saveState: one transaction for the token and everything in the response.
SaveState(s, n) ==
  /\ token' = n
  /\ saved' = [e \in Event |-> IF s < e /\ e <= n THEN saved[e] + 1 ELSE saved[e]]

\* handle_to_device_messages, as far as event k.
HandleToDevice(s, k) ==
  handled' = [e \in Event |-> IF e \in ToDevice /\ s < e /\ e <= k
                                THEN handled[e] + 1 ELSE handled[e]]

Init ==
  /\ head = 1
  /\ open = TRUE /\ token = 0
  /\ boot = "upload" /\ arrived = 0
  /\ uiq = <<>> /\ retry = 0 /\ throttled = 0
  /\ inflight = [s \in Position |-> 0] /\ probes = 0
  /\ connected = TRUE /\ ticking = FALSE
  /\ boxes = {}
  /\ outages = 0 /\ faults = 0
  /\ saved = [e \in Event |-> 0] /\ handled = [e \in Event |-> 0]

NewEvent == head < Last /\ head' = head + 1 /\ UNCHANGED <<disk, memory, outages, faults>>

----------------------------------------------------------------------------
\* Starting and stopping.

\* The program starts: bootstrap, then loadStateFromCache if there is a token
\* and tryInitialSync if there is none.
Start(up, t) ==
  /\ boot' = IF ~up THEN "none" ELSE IF t = 0 THEN "upload" ELSE "done"
  /\ uiq' = IF up /\ t # 0 THEN <<Ui("try")>> ELSE <<>>
  /\ arrived' = 0 /\ retry' = 0 /\ throttled' = 0
  /\ inflight' = [s \in Position |-> 0] /\ probes' = 0
  /\ connected' = TRUE /\ ticking' = FALSE /\ boxes' = {}

Crash ==
  /\ faults < MaxFaults /\ faults' = faults + 1
  /\ Start(open, token)
  /\ UNCHANGED <<head, disk, outages>>

\* The box of a full database or of dropToLoginPage is closed: exit(1).
CloseBox ==
  /\ boxes # {}
  /\ Start(open, token)
  /\ UNCHANGED <<head, disk, outages, faults>>

\* deleteConfigs: requests are cancelled and the cache is removed.
DeleteConfigs ==
  /\ \E S \in SUBSET Position : inflight' = Shutdown(S)
  /\ probes' \in 0..probes
  /\ open' = FALSE /\ token' = 0
  /\ saved' = [e \in Event |-> 0] /\ handled' = [e \in Event |-> 0]

\* The box of dropToLoginPage is answered with Ok.
AcceptLogout ==
  /\ "drop" \in boxes /\ boxes' = boxes \ {"drop"}
  /\ DeleteConfigs
  /\ UNCHANGED <<head, boot, arrived, uiq, retry, throttled, connected, ticking,
                 outages, faults>>

\* initiateLogout, whose request succeeds.
UserLogout ==
  /\ open /\ ~Queued("logout")
  /\ uiq' = Append(uiq, Ui("logout"))
  /\ UNCHANGED <<head, disk, boot, arrived, retry, throttled, inflight, probes,
                 connected, ticking, boxes, outages, faults>>

\* The slot logout.
HandleLogout ==
  /\ Slot("logout") /\ uiq' = Tail(uiq)
  /\ DeleteConfigs
  /\ ticking' = FALSE
  /\ UNCHANGED <<head, boot, arrived, retry, throttled, connected, boxes, outages, faults>>

\* dropToLoginPage, until its box is answered.
HandleDrop ==
  /\ Slot("drop") /\ uiq' = Tail(uiq)
  /\ \E S \in SUBSET Position : inflight' = Shutdown(S)
  /\ probes' \in 0..probes
  /\ ticking' = FALSE
  /\ boxes' = boxes \cup {"drop"}
  /\ UNCHANGED <<head, disk, boot, arrived, retry, throttled, connected, outages, faults>>

----------------------------------------------------------------------------
\* The initial sync.

\* Callback of upload_keys in tryInitialSync; a 404 also goes on.
UploadDone ==
  /\ boot = "upload" /\ boot' = "sync"
  /\ UNCHANGED <<head, disk, arrived, uiq, retry, throttled, inflight, probes,
                 connected, ticking, boxes, outages, faults>>

\* The key upload or the initial sync fails for good.  Errors of the network
\* and of a gateway repeat the initial sync at once, which changes nothing here.
BootFails ==
  /\ boot \in {"upload", "sync"} /\ boot' = "none"
  /\ uiq' = Append(uiq, Ui("drop"))
  /\ UNCHANGED <<head, disk, arrived, retry, throttled, inflight, probes,
                 connected, ticking, boxes, outages, faults>>

InitialAnswer ==
  /\ boot = "sync" /\ boot' = "save"
  /\ arrived' \in 1..head
  /\ UNCHANGED <<head, disk, uiq, retry, throttled, inflight, probes,
                 connected, ticking, boxes, outages, faults>>

\* saveState of a response without a since token writes the whole account.
SaveAll(n) ==
  /\ token' = n
  /\ saved' = [e \in Event |-> IF e <= n THEN 1 ELSE 0]

\* The zero timer of startInitialSync saves the response.
InitialSave ==
  /\ boot = "save" /\ open
  /\ SaveAll(arrived)
  /\ HandleToDevice(0, arrived)
  /\ boot' = "done" /\ uiq' = Append(uiq, Ui("try"))
  /\ UNCHANGED <<head, open, arrived, retry, throttled, inflight, probes, connected,
                 ticking, boxes, outages, faults>>

\* The initial sync is repeated: the database failed before the commit, behind
\* it when the messages up to k were handed on, or is closed.
InitialSaveFails ==
  /\ boot = "save" /\ boot' = "sync"
  /\ \/ ~open /\ UNCHANGED <<disk, faults>>
     \/ /\ open /\ faults < MaxFaults /\ faults' = faults + 1
        /\ \/ UNCHANGED disk
           \/ /\ SaveAll(arrived) /\ open' = open
              /\ \E k \in 0..arrived : HandleToDevice(0, k)
  /\ UNCHANGED <<head, arrived, uiq, retry, throttled, inflight, probes,
                 connected, ticking, boxes, outages>>

\* The database is full in saveState, which ends the program once its box is
\* closed.
InitialSaveFull ==
  /\ boot = "save" /\ open /\ boot' = "none"
  /\ faults < MaxFaults /\ faults' = faults + 1
  /\ boxes' = boxes \cup {"full"}
  /\ UNCHANGED <<head, disk, arrived, uiq, retry, throttled, inflight, probes,
                 connected, ticking, outages>>

----------------------------------------------------------------------------
\* The loop.

HandleTry ==
  /\ Slot("try") /\ uiq' = Tail(uiq)
  /\ TrySync(inflight)
  /\ UNCHANGED <<head, disk, boot, arrived, retry, throttled, probes, connected,
                 boxes, outages, faults>>

HandleDelayed ==
  /\ Slot("delayed") /\ uiq' = Tail(uiq)
  /\ retry' = retry + 1
  /\ UNCHANGED <<head, disk, boot, arrived, throttled, inflight, probes, connected,
                 ticking, boxes, outages, faults>>

\* Faulty variant of RetryFires: the timer is not a single shot timer.
RetryFiresAgain ==
  /\ ticking /\ retry' = retry - 1
  /\ TrySync(inflight)
  /\ UNCHANGED <<head, disk, boot, arrived, uiq, throttled, probes, connected,
                 boxes, outages, faults>>

RetryFires ==
  /\ retry > 0 /\ retry' = retry - 1
  /\ TrySync(inflight)
  /\ UNCHANGED <<head, disk, boot, arrived, uiq, throttled, probes, connected,
                 boxes, outages, faults>>

ThrottleFires ==
  /\ throttled > 0 /\ throttled' = throttled - 1
  /\ uiq' = Append(uiq, Ui("try"))
  /\ UNCHANGED <<head, disk, boot, arrived, retry, inflight, probes, connected,
                 ticking, boxes, outages, faults>>

\* The sync request is answered with what happened until n; a long poll that
\* times out answers with nothing.
Answer(s, n) ==
  /\ inflight[s] > 0 /\ inflight' = [inflight EXCEPT ![s] = @ - 1]
  /\ n >= s /\ n > 0 /\ n <= head
  /\ uiq' = Append(uiq, Response(s, n))
  /\ UNCHANGED <<head, disk, boot, arrived, retry, throttled, probes, connected,
                 ticking, boxes, outages, faults>>

\* The request fails, and with an unknown access token the login is over.
AnswerError(s) ==
  /\ inflight[s] > 0 /\ inflight' = [inflight EXCEPT ![s] = @ - 1]
  /\ \E ev \in {"delayed", "drop"} : uiq' = Append(uiq, Ui(ev))
  /\ UNCHANGED <<head, disk, boot, arrived, retry, throttled, probes, connected,
                 ticking, boxes, outages, faults>>

\* Faulty variant of Duplicate: every response is applied.
DuplicateNever(r) == ~open

\* handleSyncResponse drops a response whose since token is not the stored one.
Duplicate(r) == ~open \/ r.since # token

\* The end of handleSyncResponse, with the rest q of the queue: the next sync
\* follows at once or in a second.
Reschedule(q) ==
  \/ uiq' = Append(q, Ui("try")) /\ throttled' = throttled
  \/ uiq' = q /\ throttled' = throttled + 1

HandleDuplicate ==
  /\ Slot("sync") /\ Duplicate(Head(uiq)) /\ uiq' = Tail(uiq)
  /\ UNCHANGED <<head, disk, boot, arrived, retry, throttled, inflight, probes,
                 connected, ticking, boxes, outages, faults>>

HandleSync ==
  /\ Slot("sync") /\ ~Duplicate(Head(uiq))
  /\ LET r == Head(uiq) IN SaveState(r.since, r.next) /\ HandleToDevice(r.since, r.next)
  /\ Reschedule(Tail(uiq))
  /\ UNCHANGED <<head, open, boot, arrived, retry, inflight, probes, connected,
                 ticking, boxes, outages, faults>>

\* Faulty variant of HandleSyncFails: no further sync after an error.
HandleSyncFailsStops ==
  /\ Slot("sync") /\ ~Duplicate(Head(uiq))
  /\ faults < MaxFaults /\ faults' = faults + 1
  /\ uiq' = Tail(uiq)
  /\ UNCHANGED <<head, disk, throttled, boot, arrived, retry, inflight, probes, connected,
                 ticking, boxes, outages>>

\* The database fails before the commit, or behind it while the messages are
\* handed on.
HandleSyncFails ==
  /\ Slot("sync") /\ ~Duplicate(Head(uiq))
  /\ faults < MaxFaults /\ faults' = faults + 1
  /\ \/ UNCHANGED disk
     \/ LET r == Head(uiq)
        IN  /\ SaveState(r.since, r.next) /\ open' = open
            /\ \E k \in r.since..r.next : HandleToDevice(r.since, k)
  /\ Reschedule(Tail(uiq))
  /\ UNCHANGED <<head, boot, arrived, retry, inflight, probes, connected,
                 ticking, boxes, outages>>

\* saveState finds the database full.  handleSyncResponse never gets on.
HandleSyncFull ==
  /\ Slot("sync") /\ ~Duplicate(Head(uiq)) /\ uiq' = Tail(uiq)
  /\ faults < MaxFaults /\ faults' = faults + 1
  /\ boxes' = boxes \cup {"full"}
  /\ UNCHANGED <<head, disk, boot, arrived, retry, throttled, inflight, probes,
                 connected, ticking, outages>>

\* The program ends behind the commit of saveState: messages are lost.
CrashInSync ==
  /\ faults < MaxFaults /\ faults' = faults + 1
  /\ open' = open
  /\ \/ /\ Slot("sync") /\ ~Duplicate(Head(uiq))
        /\ LET r == Head(uiq)
           IN  /\ SaveState(r.since, r.next)
               /\ \E k \in r.since..r.next : HandleToDevice(r.since, k)
               /\ Start(open, r.next)
     \/ /\ boot = "save" /\ open
        /\ SaveAll(arrived)
        /\ \E k \in 0..arrived : HandleToDevice(0, k)
        /\ Start(open, arrived)
  /\ UNCHANGED <<head, outages>>

----------------------------------------------------------------------------
\* The connectivity check.

Tick ==
  /\ ticking /\ probes' = probes + 1
  /\ probes + Unhandled("lost") + Unhandled("restored") < MaxProbes
  /\ UNCHANGED <<head, disk, boot, arrived, uiq, retry, throttled, inflight,
                 connected, ticking, boxes, outages, faults>>

ProbeError ==
  /\ probes > 0 /\ probes' = probes - 1
  /\ outages < MaxOutages /\ outages' = outages + 1
  /\ uiq' = Append(uiq, Ui("lost"))
  /\ UNCHANGED <<head, disk, boot, arrived, retry, throttled, inflight,
                 connected, ticking, boxes, faults>>

\* isConnected_ is read on the network thread.
ProbeOk ==
  /\ probes > 0 /\ probes' = probes - 1
  /\ uiq' = IF connected THEN uiq ELSE Append(uiq, Ui("restored"))
  /\ UNCHANGED <<head, disk, boot, arrived, retry, throttled, inflight,
                 connected, ticking, boxes, outages, faults>>

\* The slot of connectionLost.
HandleLost ==
  /\ Slot("lost") /\ uiq' = Tail(uiq)
  /\ connected' = FALSE
  /\ \E S \in SUBSET Position : inflight' = Shutdown(S)
  /\ probes' \in 0..probes
  /\ UNCHANGED <<head, disk, boot, arrived, retry, throttled, ticking, boxes,
                 outages, faults>>

\* The slot of connectionRestored: another loop, whatever became of the old one.
HandleRestored ==
  /\ Slot("restored") /\ uiq' = Tail(uiq)
  /\ connected' = TRUE
  /\ \E S \in SUBSET Position : TrySync(Shutdown(S))
  /\ probes' \in 0..probes
  /\ UNCHANGED <<head, disk, boot, arrived, retry, throttled, boxes, outages, faults>>

----------------------------------------------------------------------------

EventLoop ==
  \/ HandleTry \/ HandleDelayed \/ HandleDuplicate \/ HandleSync \/ HandleSyncFails
  \/ HandleSyncFull \/ HandleLost \/ HandleRestored \/ HandleDrop \/ HandleLogout

Initial == UploadDone \/ BootFails \/ InitialAnswer \/ InitialSave \/ InitialSaveFails
             \/ InitialSaveFull

Network ==
  \/ NewEvent
  \/ \E s, n \in Position : Answer(s, n)
  \/ \E s \in Position : AnswerError(s)
  \/ ProbeError \/ ProbeOk

Next ==
  \/ EventLoop \/ Initial \/ Network
  \/ RetryFires \/ ThrottleFires \/ Tick
  \/ UserLogout \/ AcceptLogout \/ CloseBox \/ Crash \/ CrashInSync

Spec == Init /\ [][Next]_vars

\* The event loop and the timers run, requests end, somebody answers a box, and
\* a sync and a check that are repeated for ever sometimes succeed.
Fairness ==
  /\ WF_vars(EventLoop) /\ WF_vars(Initial)
  /\ WF_vars(RetryFires) /\ WF_vars(ThrottleFires) /\ WF_vars(Tick)
  /\ WF_vars(AcceptLogout \/ CloseBox)
  /\ SF_vars(ProbeOk)
  /\ \A s \in Position :
       SF_vars(\E n \in Position : (n > s \/ s = head) /\ Answer(s, n))

FairSpec == Spec /\ Fairness

----------------------------------------------------------------------------
\* Properties.

TypeOK ==
  /\ head \in Event
  /\ open \in BOOLEAN /\ token \in Position
  /\ boot \in {"upload", "sync", "save", "done", "none"} /\ arrived \in Position
  /\ uiq \in Seq(UiEvents)
  /\ retry \in Nat /\ throttled \in Nat
  /\ inflight \in [Position -> Nat] /\ probes \in Nat
  /\ connected \in BOOLEAN /\ ticking \in BOOLEAN
  /\ boxes \subseteq {"drop", "full"}
  /\ outages \in Nat /\ faults \in Nat
  /\ saved \in [Event -> Nat] /\ handled \in [Event -> Nat]

\* The loop never dies: while the user is logged in and no box waits for an
\* answer, something is under way that leads to a sync with the stored token.
\* Responses and requests for other tokens do not count, they are dropped.
LoopAlive ==
  open /\ boot = "done" /\ boxes = {} =>
    \/ retry + throttled > 0
    \/ inflight[token] > 0
    \/ \E ev \in {"try", "delayed", "restored", "drop", "logout"} : Queued(ev)
    \/ \E i \in DOMAIN uiq : uiq[i].ev = "sync" /\ uiq[i].since = token
    \/ ~connected /\ ticking

\* Every event the homeserver has reaches the cache, unless the login ends or
\* the user is told that something is wrong.
CatchesUp == \A e \in Event : head >= e ~> token >= e \/ ~open \/ boxes # {}

\* The sync loop implements the stream: nothing is skipped and nothing is
\* written or handed on twice, with any number of loops at work.
Stream == INSTANCE SyncStream
            WITH phase <- IF boot = "done" \/ (~open /\ boot = "none")
                            THEN "following" ELSE "copying"
FollowsStream == Stream!Spec
=============================================================================
