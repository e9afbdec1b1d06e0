---------------------------- MODULE Verification ----------------------------
(***************************************************************************)
(* Device verification over to-device messages: the flows that             *)
(* VerificationManager keeps on every device and the handlers that         *)
(* DeviceVerificationFlow connects to the messages of the protocol.        *)
(*                                                                         *)
(* Each message is a request of its own and a failed one is only logged,   *)
(* so messages are reordered and lost; none is duplicated.  Every handler  *)
(* runs on the UI thread of its device and is one action.  Emoji and       *)
(* decimals, and the two mac methods, are not told apart.  A done message  *)
(* is only logged and is left out.                                         *)
(***************************************************************************)
EXTENDS Integers

CONSTANTS
  Device,       \* devices, numbered in the order of (user id, device id)
  Txn,          \* transaction ids of the verifications
  Initiator,    \* Txn -> the device that starts it
  Targets,      \* Txn -> the devices it asks (verifyDevice, verifyOneOfDevices)
  Foreign,      \* devices with another client, which may send start after ready
  None,
  MaxKeys       \* bound: flows that a device creates for one transaction

\* The SAS key of a flow, by its device and the number of the flow; and the errors.
Key == Device \X Nat
Error == {"UnknownMethod", "MismatchedCommitment", "MismatchedSAS", "KeyMismatch",
          "Timeout", "User", "AcceptedOnOtherDevice", "OutOfOrder"}

ASSUME DeviceAssumption == Device \subseteq Nat /\ None \notin Device /\ Foreign \subseteq Device
ASSUME NoneAssumption == None \notin Key /\ None \notin Key \X Device /\ None \notin Error
ASSUME TxnAssumption ==
  /\ Initiator \in [Txn -> Device] /\ Targets \in [Txn -> (SUBSET Device) \ {{}}]
  /\ \A t \in Txn : Initiator[t] \notin Targets[t]
ASSUME MaxKeysAssumption == MaxKeys \in Nat \ {0}

VARIABLES
  flow,         \* the dvList of every device
  net,          \* messages under way
  made,         \* number of flows created so far; each has its own SAS key
  verified,     \* history of markDeviceVerified: device, peer, transaction
  signed,       \* history of keys_signatures_upload
  confirmed,    \* history: "They match!" pressed on a device
  shown         \* history: the short authentication strings displayed

vars == <<flow, net, made, verified, signed, confirmed, shown>>

----------------------------------------------------------------------------

NoFlow == [state |-> "None"]
Finished(f) == f.state \in {"None", "Success", "Failed"}

\* A flow.  start is the device whose start message is in canonical_json, sent
\* the flags startSent, acceptSent, keySent and macSent, seen whether their_keys
\* have arrived and isMacVerified.
NewFlow(d, t, role, peers, gen) ==
  [state |-> "PromptStartVerification", me |-> d, txn |-> t, role |-> role,
   peers |-> peers,
   peer  |-> IF \E p \in peers : peers = {p} THEN CHOOSE p \in peers : TRUE ELSE None,
   key   |-> <<d, gen>>, theirKey |-> None, start |-> None, commitment |-> None,
   sent  |-> {}, seen |-> {}, timer |-> "armed", err |-> None]

\* setState, and the flag of a message that is sent.
SetState(f, state) == [f EXCEPT !.state = state]
Flag(f, type) == [f EXCEPT !.sent = @ \cup {type}]

\* send(): one message to every device of the flow.
Send(f, type, data) ==
  {[to |-> p, from |-> f.me, txn |-> f.txn, type |-> type, data |-> data] : p \in f.peers}

\* The result of a handler.
Effect(f, out) == [flow |-> f, out |-> out, verified |-> {}, signed |-> {}]
Quiet(f) == Effect(f, {})

\* The SAS of two flows is the same when they agree on who sent start and on
\* both keys.
Sas(f) ==
  IF f.role = "sender" THEN <<f.key, f.theirKey, f.txn>> ELSE <<f.theirKey, f.key, f.txn>>
SharedSecret(f) == {f.key, f.theirKey}

\* Faulty variant of CancelVerification: error_ is not set.
CancelVerificationNoError(f, error) ==
  IF Finished(f) THEN Quiet(f)
  ELSE Effect(SetState(f, "Failed"),
              IF error = "AcceptedOnOtherDevice" THEN {} ELSE Send(f, "cancel", None))

\* cancelVerification
CancelVerification(f, error) ==
  IF Finished(f) THEN Quiet(f)
  ELSE Effect([SetState(f, "Failed") EXCEPT !.err = error],
              IF error = "AcceptedOnOtherDevice" THEN {} ELSE Send(f, "cancel", None))

StartVerificationRequest(f) ==
  IF "start" \in f.sent THEN Quiet(f)
  ELSE Effect(SetState(Flag([f EXCEPT !.start = f.me], "start"), "WaitingForOtherToAccept"),
              Send(f, "start", None))

AcceptVerificationRequest(f) ==
  IF Finished(f) \/ "accept" \in f.sent THEN Quiet(f)
  ELSE Effect(SetState(Flag(f, "accept"), "WaitingForKeys"),
              Send(f, "accept", <<f.key, f.start>>))

\* Faulty variant of AcceptDevice: the flow does not wait for the user.
AcceptDeviceEarly(f, out) ==
  IF "mac" \notin f.seen THEN Effect(SetState(f, "WaitingForMac"), out)
  ELSE [Effect(SetState(f, "Success"), out) EXCEPT !.verified = {<<f.me, f.peer, f.txn>>}]

\* acceptDevice
AcceptDevice(f, out) ==
  CASE "mac" \notin f.seen -> Effect(SetState(f, "WaitingForMac"), out)
    [] "mac" \in f.seen /\ f.state = "WaitingForMac" ->
         [Effect(SetState(f, "Success"), out) EXCEPT !.verified = {<<f.me, f.peer, f.txn>>}]
    [] OTHER -> Effect(f, out)

SendVerificationMac(f) ==
  IF "mac" \in f.sent THEN Quiet(f)
  ELSE AcceptDevice(SetState(Flag(f, "mac"), "WaitingForMac"),
                    Send(f, "mac", SharedSecret(f)))

SendVerificationKey(f) == IF "key" \in f.sent THEN {} ELSE Send(f, "key", f.key)

----------------------------------------------------------------------------

\* The start of the other device counts.
Yield(f, m) == [[f EXCEPT !.start = m.from] EXCEPT !.role = "receiver"]

\* Faulty variant of HandleStart: both sides discard their own start.
HandleStartBothYield(f, m) ==
  CASE Finished(f) \/ m.txn # f.txn -> Quiet(f)
    [] ~Finished(f) /\ m.txn = f.txn /\ m.from # f.peer ->
         CancelVerification(f, "AcceptedOnOtherDevice")
    [] OTHER ->
         LET g == Yield(f, m)
         IN IF f.state # "PromptStartVerification" THEN AcceptVerificationRequest(g) ELSE Quiet(g)

\* Faulty variant of HandleStart: canonical_json is not replaced.
HandleStartKeepsOwn(f, m) ==
  CASE Finished(f) \/ m.txn # f.txn -> Quiet(f)
    [] ~Finished(f) /\ m.txn = f.txn /\ m.from # f.peer ->
         CancelVerification(f, "AcceptedOnOtherDevice")
    [] OTHER ->
         LET yields == f.role = "receiver" \/ f.peer < f.me
             g == IF yields THEN [f EXCEPT !.role = "receiver"] ELSE f
         IN IF yields /\ f.state # "PromptStartVerification"
              THEN AcceptVerificationRequest(g) ELSE Quiet(g)

\* handleStartMessage.  Glare: the start of the smaller device wins.
HandleStart(f, m) ==
  CASE Finished(f) \/ m.txn # f.txn -> Quiet(f)
    [] ~Finished(f) /\ m.txn = f.txn /\ m.from # f.peer ->
         CancelVerification(f, "AcceptedOnOtherDevice")
    [] OTHER ->
         LET yields == f.role = "receiver" \/ f.peer < f.me
             g == IF yields THEN Yield(f, m) ELSE f
         IN IF yields /\ f.state # "PromptStartVerification"
              THEN AcceptVerificationRequest(g) ELSE Quiet(g)

HandleAccept(f, m) ==
  IF Finished(f) \/ m.txn # f.txn THEN Quiet(f)
  ELSE Effect([Flag(f, "key") EXCEPT !.commitment = m.data], SendVerificationKey(f))

\* The only handler that does not look at the state.
HandleCancel(f, m) ==
  IF f = NoFlow \/ m.txn # f.txn THEN Quiet(f)
  ELSE Quiet([SetState(f, "Failed") EXCEPT !.err = "User"])

HandleKey(f, m) ==
  LET expected == \/ f.state = "WaitingForKeys"
                  \/ f.role = "sender" /\ f.state = "WaitingForOtherToAccept"
      g == [f EXCEPT !.theirKey = m.data]
  IN CASE Finished(f) \/ m.txn # f.txn -> Quiet(f)
       [] ~Finished(f) /\ m.txn = f.txn /\ ~expected -> CancelVerification(f, "OutOfOrder")
       [] ~Finished(f) /\ m.txn = f.txn /\ expected /\ f.role = "sender"
            /\ f.commitment # <<m.data, f.start>> -> CancelVerification(g, "MismatchedCommitment")
       [] OTHER ->
            Effect(SetState(IF f.role = "sender" THEN g ELSE Flag(g, "key"), "CompareEmoji"),
                   IF f.role = "sender" THEN {} ELSE SendVerificationKey(f))

\* Both users have cross signing set up, so that there is a signature to upload.
\* The macs are computed over the keys that query_keys returned; without them
\* nothing matches.  The signatures are uploaded before acceptDevice runs.
HandleMac(f, m) ==
  CASE Finished(f) \/ m.txn # f.txn -> Quiet(f)
    [] ~Finished(f) /\ m.txn = f.txn
         /\ ("keys" \notin f.seen \/ m.data # SharedSecret(f)) ->
         CancelVerification(f, "KeyMismatch")
    [] OTHER ->
         [AcceptDevice([f EXCEPT !.seen = @ \cup {"mac"}], {})
            EXCEPT !.signed = {<<f.me, f.peer, f.txn>>}]

\* Faulty variant of HandleReady: deviceIds is not narrowed to the chosen device.
HandleReadyAll(f, m) ==
  LET chosen == [f EXCEPT !.peer = m.from]
  IN CASE Finished(f) -> Quiet(f)
       [] ~Finished(f) /\ f.role = "receiver" ->
            IF m.from # f.peer THEN CancelVerification(f, "AcceptedOnOtherDevice") ELSE Quiet(f)
       [] ~Finished(f) /\ f.role = "sender" /\ m.txn # f.txn -> Quiet(f)
       [] OTHER -> StartVerificationRequest(IF f.peer = None THEN chosen ELSE f)

\* Runs in every flow of the device: a flow that did not send the request does
\* not compare the transaction id.
HandleReady(f, m) ==
  LET chosen == [[f EXCEPT !.peer = m.from] EXCEPT !.peers = {m.from}]
      others == Send([f EXCEPT !.peers = @ \ {m.from}], "cancel", None)
      choose == f.peer = None /\ m.from \in f.peers
      start  == StartVerificationRequest(IF choose THEN chosen ELSE f)
  IN CASE Finished(f) -> Quiet(f)
       [] ~Finished(f) /\ f.role = "receiver" ->
            IF m.from # f.peer THEN CancelVerification(f, "AcceptedOnOtherDevice") ELSE Quiet(f)
       [] ~Finished(f) /\ f.role = "sender" /\ m.txn # f.txn -> Quiet(f)
       [] OTHER -> IF choose THEN [start EXCEPT !.out = @ \cup others] ELSE start

Handle(f, m) ==
  CASE m.type = "start"  -> HandleStart(f, m)
    [] m.type = "accept" -> HandleAccept(f, m)
    [] m.type = "cancel" -> HandleCancel(f, m)
    [] m.type = "key"    -> HandleKey(f, m)
    [] m.type = "mac"    -> HandleMac(f, m)
    [] m.type = "ready"  -> HandleReady(f, m)
    [] OTHER             -> Quiet(f)

----------------------------------------------------------------------------

Init ==
  /\ flow = [d \in Device |-> [t \in Txn |-> NoFlow]]
  /\ net = {} /\ made = [d \in Device |-> [t \in Txn |-> 0]]
  /\ verified = {} /\ signed = {} /\ confirmed = {} /\ shown = {}

Displayed(f) == IF f.state = "CompareEmoji" THEN {<<f.me, Sas(f)>>} ELSE {}

\* Applies an effect to one flow.
Apply(d, t, e) ==
  /\ flow' = [flow EXCEPT ![d][t] = e.flow]
  /\ net' = net \cup e.out
  /\ verified' = verified \cup e.verified
  /\ signed' = signed \cup e.signed
  /\ shown' = shown \cup Displayed(e.flow)

\* verifyDevice and verifyOneOfDevices
Initiate(d, t) ==
  /\ d = Initiator[t] /\ made[d][t] = 0
  /\ made' = [made EXCEPT ![d][t] = 1]
  /\ flow' = [flow EXCEPT ![d][t] = NewFlow(d, t, "sender", Targets[t], 1)]
  /\ UNCHANGED <<net, verified, signed, confirmed, shown>>

\* next() on the prompt.
Begin(d, t) ==
  LET f == flow[d][t]
  IN /\ f.state = "PromptStartVerification"
     /\ \/ f.role = "sender" /\ Apply(d, t, Effect(SetState(f, "WaitingForOtherToAccept"),
                                                   Send(f, "request", None)))
        \/ f.role = "receiver" /\ f.start = None
             /\ Apply(d, t, Effect(SetState(f, "WaitingForKeys"), Send(f, "ready", None)))
        \/ f.role = "receiver" /\ f.start # None /\ Apply(d, t, AcceptVerificationRequest(f))
     /\ UNCHANGED <<made, confirmed>>

\* next() on the comparison: the user has seen the same string on the other device.
TheyMatch(d, t) ==
  LET f == flow[d][t]
  IN /\ f.state = "CompareEmoji"
     /\ <<f.peer, Sas(f)>> \in shown
     /\ Apply(d, t, SendVerificationMac(f))
     /\ confirmed' = confirmed \cup {<<d, f.peer, t>>}
     /\ UNCHANGED made

\* cancel() and closing the dialog, which removes the flow; or only the latter.
Cancel(d, t) ==
  LET f == flow[d][t]
  IN /\ f # NoFlow
     /\ flow' = [flow EXCEPT ![d][t] = NoFlow]
     /\ \/ ~Finished(f) /\ net' = net \cup CancelVerification(f, "User").out
        \/ UNCHANGED net
     /\ UNCHANGED <<made, verified, signed, confirmed, shown>>

\* Faulty variant of Timeout: the flow does not send a cancel and stays.
TimeoutIgnored(d, t) ==
  LET f == flow[d][t]
  IN /\ f # NoFlow /\ f.timer = "armed"
     /\ Apply(d, t, Quiet([f EXCEPT !.timer = "off"]))
     /\ UNCHANGED <<made, confirmed>>

\* The two minute timer, started when the flow is created.
Timeout(d, t) ==
  LET f == flow[d][t]
  IN /\ f # NoFlow /\ f.timer = "armed"
     /\ Apply(d, t, CancelVerification([f EXCEPT !.timer = "off"], "Timeout"))
     /\ UNCHANGED <<made, confirmed>>

\* query_keys answers; their_keys is kept unless the device is not among them.
KeysArrive(d, t) ==
  LET f == flow[d][t]
  IN /\ f # NoFlow /\ "keys" \notin f.seen
     /\ flow' = [flow EXCEPT ![d][t] = [f EXCEPT !.seen = @ \cup {"keys"}]]
     /\ UNCHANGED <<net, made, verified, signed, confirmed, shown>>

\* VerificationManager creates a flow for an unknown request or start.
ReceiveNew(m) ==
  /\ m.type \in {"request", "start"} /\ flow[m.to][m.txn] = NoFlow
  /\ made[m.to][m.txn] < MaxKeys
  /\ LET gen == made[m.to][m.txn] + 1
         f   == NewFlow(m.to, m.txn, "receiver", {m.from}, gen)
         e   == IF m.type = "start" THEN HandleStart(f, m) ELSE Quiet(f)
     IN /\ flow' = [flow EXCEPT ![m.to][m.txn] = e.flow]
        /\ net' = (net \ {m}) \cup e.out
        /\ made' = [made EXCEPT ![m.to][m.txn] = gen]
  /\ UNCHANGED <<verified, signed, confirmed, shown>>

\* A mac that comes before the key: the SAS object has no other key to compute
\* macs with, and throws.
Fatal(m) ==
  LET f == flow[m.to][m.txn]
  IN m.type = "mac" /\ ~Finished(f) /\ f.theirKey = None

\* A message is delivered to every flow of the device.
Receive(m) ==
  LET e == [t \in Txn |-> Handle(flow[m.to][t], m)]
  IN /\ m.type \in {"request", "start"} => flow[m.to][m.txn] # NoFlow
     /\ ~Fatal(m)
     /\ flow' = [flow EXCEPT ![m.to] = [t \in Txn |-> e[t].flow]]
     /\ net' = (net \ {m}) \cup UNION {e[t].out : t \in Txn}
     /\ verified' = verified \cup UNION {e[t].verified : t \in Txn}
     /\ signed' = signed \cup UNION {e[t].signed : t \in Txn}
     /\ shown' = shown \cup UNION {Displayed(e[t].flow) : t \in Txn}
     /\ UNCHANGED <<made, confirmed>>

\* No slot catches the exception: the program ends and all of its flows with it.
\* The message is not delivered again, its sync is already saved.
Dies(m) ==
  /\ Fatal(m)
  /\ flow' = [flow EXCEPT ![m.to] = [t \in Txn |-> NoFlow]]
  /\ net' = net \ {m}
  /\ UNCHANGED <<made, verified, signed, confirmed, shown>>

\* send_to_device fails and only a warning is logged.
Lose(m) ==
  /\ net' = net \ {m}
  /\ UNCHANGED <<flow, made, verified, signed, confirmed, shown>>

\* External: another client sends start itself once it is ready.
ForeignStart(d, t) ==
  LET f == flow[d][t]
  IN /\ d \in Foreign
     /\ f.state = "WaitingForKeys" /\ f.role = "receiver" /\ f.start = None
     /\ Apply(d, t, StartVerificationRequest([f EXCEPT !.role = "sender"]))
     /\ UNCHANGED <<made, confirmed>>

Next ==
  \/ \E d \in Device, t \in Txn :
       \/ Initiate(d, t) \/ Begin(d, t) \/ TheyMatch(d, t) \/ Cancel(d, t)
       \/ Timeout(d, t) \/ KeysArrive(d, t) \/ ForeignStart(d, t)
  \/ \E m \in net : ReceiveNew(m) \/ Receive(m) \/ Dies(m) \/ Lose(m)

Spec == Init /\ [][Next]_vars

\* Only the timers are sure to fire.
FairSpec == Spec /\ \A d \in Device, t \in Txn : WF_vars(Timeout(d, t))

----------------------------------------------------------------------------

State == {"None", "PromptStartVerification", "WaitingForOtherToAccept", "WaitingForKeys",
          "CompareEmoji", "WaitingForMac", "Success", "Failed"}

\* A finished flow has a reason, and a flow that is compared has both keys.
TypeOK ==
  \A d \in Device, t \in Txn :
    LET f == flow[d][t]
    IN /\ f.state \in State
       /\ f.state = "Failed" <=> f # NoFlow /\ f.err # None
       /\ f.state \in {"CompareEmoji", "WaitingForMac", "Success"} => f.theirKey # None

\* A device is only marked as verified when the users of both devices pressed
\* "They match!", whatever order keys, macs and glare came in.
VerifiedConfirmed ==
  \A v \in verified : v \in confirmed /\ <<v[2], v[1], v[3]>> \in confirmed

\* No device closed its flow and made a new one, with a new key.
MadeOnce(t) == \A d \in Device : made[d][t] <= 1

\* Two devices that compare strings with each other show the same one: they
\* agree on whose start counts and on each other's keys, unless one of them
\* dropped its flow and a late start made it again.
SameSas ==
  \A d \in Device, t \in Txn :
    LET f == flow[d][t]
        g == flow[f.peer][t]
    IN /\ MadeOnce(t)
       /\ f.state = "CompareEmoji" /\ g.state = "CompareEmoji" /\ g.peer = d
       => Sas(f) = Sas(g)

\* Between clients that follow the protocol, and keep their flows, nothing is
\* ever reported as a mismatched commitment or as out of order.
NoFalseAlarm ==
  \A d \in Device, t \in Txn :
    MadeOnce(t) /\ flow[d][t] # NoFlow
    => flow[d][t].err \notin {"MismatchedCommitment", "OutOfOrder"}

\* When several devices were asked, only one of them accepts the start, even if
\* several were ready.
OneAccepts ==
  \A t \in Txn : \A d, e \in Targets[t] :
    flow[d][t] # NoFlow /\ flow[e][t] # NoFlow
    /\ "accept" \in flow[d][t].sent \cap flow[e][t].sent
    => d = e

\* Every flow ends within its timeout.
Ends == \A d \in Device, t \in Txn : ~Finished(flow[d][t]) ~> Finished(flow[d][t])

\* "If they differ, please press 'They do not match!' to abort verification!":
\* nothing is signed before the user has decided.
SignedConfirmed == signed \subseteq confirmed
=============================================================================
