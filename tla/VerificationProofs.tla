------------------------- MODULE VerificationProofs -------------------------
(***************************************************************************)
(* Theorems about Verification for any devices, transactions, foreign      *)
(* clients and number of flows.                                            *)
(***************************************************************************)
EXTENDS Verification, TLAPS

Flow ==
  [state : State \ {"None"}, me : Device, txn : Txn, role : {"sender", "receiver"},
   peers : SUBSET Device, peer : Device \cup {None}, key : Key, theirKey : Key \cup {None},
   start : Device \cup {None}, commitment : (Key \X Device) \cup {None},
   sent : SUBSET {"start", "accept", "key", "mac"}, seen : SUBSET {"keys", "mac"},
   timer : {"armed", "off"}, err : Error \cup {None}]

\* A flow by itself.
FlowOK(f) ==
  /\ f \in Flow
  /\ f.state = "Failed" <=> f.err # None
  /\ f.state \in {"CompareEmoji", "WaitingForMac", "Success"} => f.theirKey # None
  /\ f.start \in {None, f.me, f.peer}
  /\ f.role = "receiver" => f.start \in {None, f.peer}
  /\ "start" \in f.sent => f.start # None
  /\ f.peer # None => f.peers = {f.peer}

Basic == {"start", "accept", "key"}
Alarm == {"MismatchedCommitment", "OutOfOrder"}

\* How a flow f becomes g in the exchange of keys when it has received in and sends
\* out.  It goes on or ends without doing anything,
Rests(f, g, out) ==
  /\ g.role = f.role /\ g.start = f.start /\ g.commitment = f.commitment /\ g.theirKey = f.theirKey
  /\ \A s \in Basic : s \in g.sent <=> s \in f.sent
  /\ g.err = f.err \/ g.err \notin Alarm
  /\ \A o \in out : o.type \notin Basic
  /\ g.peer = f.peer \/ "start" \in f.sent
  /\ \/ g.state \in {f.state, "Failed", "Success"}
     \/ g.state = "WaitingForMac" /\ f.state = "CompareEmoji"
     \/ g.state = "WaitingForOtherToAccept" /\ f.state = "PromptStartVerification" /\ f.role = "sender"
     \/ g.state = "WaitingForKeys" /\ f.state = "PromptStartVerification"
\* sends start,
Starts(f, g, out) ==
  /\ f.role = "sender" \/ (f.start = None /\ f.state = "WaitingForKeys")
  /\ "start" \notin f.sent
  /\ g.role = "sender" /\ g.start = f.me /\ g.commitment = f.commitment /\ g.theirKey = f.theirKey
  /\ g.sent = f.sent \cup {"start"} /\ g.err = f.err /\ g.state = "WaitingForOtherToAccept"
  /\ g.peer # None /\ (f.peer = None \/ g.peer = f.peer)
  /\ \A o \in out : o.type \notin {"accept", "key"}
\* takes the start of its peer, and accepts it or has done so,
Accepts(f, g, out, in) ==
  /\ f.peer # None /\ g.peer = f.peer /\ g.err = f.err
  /\ g.role = "receiver" /\ g.start = f.peer /\ g.commitment = f.commitment /\ g.theirKey = f.theirKey
  /\ \/ f.role = "receiver" /\ f.start = f.peer
     \/ \E m \in in : m.type = "start" /\ m.from = f.peer /\ (f.role = "receiver" \/ f.peer < f.me)
  /\ \/ g.state = f.state /\ g.sent = f.sent
        /\ (f.state = "PromptStartVerification" \/ "accept" \in f.sent)
     \/ g.state = "WaitingForKeys" /\ g.sent = f.sent \cup {"accept"}
  /\ \A o \in out : o.type \notin {"start", "key"} /\ (o.type = "accept" => "accept" \in g.sent)
\* gets the commitment and sends its key,
Commits(f, g, out, in) ==
  /\ f.peer # None /\ g.peer = f.peer /\ g.err = f.err
  /\ g.role = f.role /\ g.start = f.start /\ g.theirKey = f.theirKey /\ g.state = f.state
  /\ \E m \in in : m.type = "accept" /\ g.commitment = m.data
  /\ g.sent = f.sent \cup {"key"}
  /\ \A o \in out : o.type \notin {"start", "accept"} /\ (o.type = "key" => "key" \notin f.sent)
\* gets the key of its peer,
Learns(f, g, out, in) ==
  /\ f.peer # None /\ g.peer = f.peer /\ g.err = f.err
  /\ g.role = f.role /\ g.start = f.start /\ g.commitment = f.commitment /\ g.state = "CompareEmoji"
  /\ \E m \in in : m.type = "key" /\ g.theirKey = m.data
  /\ g.sent = IF f.role = "sender" THEN f.sent ELSE f.sent \cup {"key"}
  /\ \A o \in out :
       o.type \notin {"start", "accept"} /\ (o.type = "key" => "key" \notin f.sent /\ f.role # "sender")
\* or gets a key that it does not expect, or that its commitment does not fit.
Alarms(f, in) ==
  /\ f.peer # None /\ ~Finished(f)
  /\ \E m \in in :
       /\ m.type = "key"
       /\ \/ f.state # "WaitingForKeys" /\ ~(f.role = "sender" /\ f.state = "WaitingForOtherToAccept")
          \/ f.role = "sender" /\ f.commitment # <<m.data, f.start>>

Fails(f, g, out) ==
  /\ g.role = f.role /\ g.start = f.start /\ g.state \in {f.state, "Failed"}
  /\ \A s \in Basic : s \in g.sent <=> s \in f.sent
  /\ \A o \in out : o.type \notin Basic

Turns(f, g, out, in) ==
  \/ Rests(f, g, out) \/ Starts(f, g, out) \/ Accepts(f, g, out, in) \/ Commits(f, g, out, in)
  \/ Learns(f, g, out, in) \/ (Alarms(f, in) /\ Fails(f, g, out))

\* What the handlers do to a flow that has received the messages in: e is the
\* effect, and C is confirmed afterwards.
SentBy(f, e, in, C) ==
  \A o \in e.out :
    /\ o = [to |-> o.to, from |-> f.me, txn |-> f.txn, type |-> o.type, data |-> o.data]
    /\ o.to \in f.peers
    /\ o.type = "request" => f.role = "sender" /\ f.state = "PromptStartVerification"
    /\ o.type \in {"start", "accept", "key", "mac"} => o.to \in e.flow.peers /\ e.flow.peer # None
    /\ o.type = "accept" => o.data = <<f.key, f.peer>> /\ f.peer # None /\ e.flow.start = f.peer
    /\ o.type = "key" => o.data = f.key /\ \E m \in in : m.type \in {"accept", "key"}
    /\ o.type = "mac" =>
         /\ o.data = SharedSecret(f) /\ f.theirKey # None
         /\ f.peer # None /\ <<f.me, f.peer, f.txn>> \in C

Moves(f, e, in, C) ==
  /\ FlowOK(e.flow)
  /\ e.flow.me = f.me /\ e.flow.txn = f.txn /\ e.flow.key = f.key
  /\ \/ e.flow.peer = f.peer /\ e.flow.peers = f.peers
     \/ f.peer = None /\ \E m \in in : m.type = "ready" /\ m.from = e.flow.peer
  /\ e.flow.role = f.role \/ f.peer # None
  /\ \/ e.flow.theirKey = f.theirKey
     \/ \E m \in in : m.type = "key" /\ e.flow.theirKey = m.data
  /\ \/ e.flow.start = f.start
     \/ e.flow.start = f.me
     \/ e.flow.start = f.peer /\ \E m \in in : m.type = "start" /\ m.from = f.peer
  /\ \/ e.flow.commitment = f.commitment
     \/ \E m \in in : m.type = "accept" /\ e.flow.commitment = m.data
  /\ "accept" \in e.flow.sent => "accept" \in f.sent \/ e.flow.start = f.peer
  /\ "key" \in e.flow.sent => "key" \in f.sent \/ \E m \in in : m.type \in {"accept", "key"}
  /\ "mac" \in e.flow.seen =>
       "mac" \in f.seen \/ \E m \in in : m.type = "mac" /\ m.data = SharedSecret(f)
  /\ e.flow.state = "WaitingForMac" =>
       f.state = "WaitingForMac" \/ (f.peer # None /\ <<f.me, f.peer, f.txn>> \in C)
  /\ \A v \in e.verified :
       /\ v = <<f.me, f.peer, f.txn>> /\ "mac" \in e.flow.seen
       /\ f.state = "WaitingForMac" \/ (f.peer # None /\ <<f.me, f.peer, f.txn>> \in C)
  /\ SentBy(f, e, in, C)
  /\ Turns(f, e.flow, e.out, in)

----------------------------------------------------------------------------
\* The handlers.

\* A message a flow may get: from one of its devices.
Heard(f, m) ==
  /\ f.peer = None /\ m.txn = f.txn => m.from \in f.peers
  /\ m.from \in Device /\ m.txn \in Txn
  /\ m.type = "key" => m.data \in Key
  /\ m.type = "accept" => m.data \in Key \X Device
  /\ m.type = "mac" => m.data \subseteq Key

\* The fields of a flow that handlers change.
Fields == {"state", "role", "peers", "peer", "theirKey", "start", "commitment", "sent",
           "seen", "timer", "err"}
Same(f, g, S) == g.me = f.me /\ g.txn = f.txn /\ g.key = f.key /\ \A x \in S : g[x] = f[x]

LEMMA EffectIs ==
  ASSUME NEW f, NEW out
  PROVE  /\ Effect(f, out).flow = f /\ Effect(f, out).out = out
         /\ Effect(f, out).verified = {} /\ Effect(f, out).signed = {}
BY DEF Effect

LEMMA SendIs ==
  ASSUME NEW f, NEW type, NEW data, NEW o \in Send(f, type, data)
  PROVE  /\ o = [to |-> o.to, from |-> f.me, txn |-> f.txn, type |-> type, data |-> data]
         /\ o.to \in f.peers /\ o.type = type /\ o.data = data /\ o.from = f.me /\ o.txn = f.txn
BY DEF Send

LEMMA QuietMoves ==
  ASSUME NEW f, FlowOK(f), NEW in, NEW C
  PROVE  Moves(f, Quiet(f), in, C)
<1>1. Turns(f, f, {}, in)
  BY DEF Turns, Rests
<1> QED BY <1>1, EffectIs DEF Moves, SentBy, Quiet

\* The messages of a flow have one type.
Sends(f, out, type, data) ==
  \A o \in out :
    /\ o = [to |-> o.to, from |-> f.me, txn |-> f.txn, type |-> type, data |-> data]
    /\ o.to \in f.peers /\ o.type = type /\ o.data = data

LEMMA SendSends ==
  ASSUME NEW f, NEW type, NEW data
  PROVE  Sends(f, Send(f, type, data), type, data) /\ Sends(f, {}, type, data)
BY SendIs DEF Sends

LEMMA TurnsMore ==
  ASSUME NEW f, NEW g, NEW out, NEW in, Turns(f, g, out, {})
  PROVE  Turns(f, g, out, in)
BY DEF Turns, Accepts, Commits, Learns, Alarms

\* A flow that has failed keeps all but its state and its error.
LEMMA FailedIs ==
  ASSUME NEW f, FlowOK(f), NEW error \in Error
  PROVE  LET g == [SetState(f, "Failed") EXCEPT !.err = error]
         IN /\ FlowOK(g) /\ Same(f, g, Fields \ {"state", "err"})
            /\ g.state = "Failed" /\ g.err = error
<1> DEFINE g == [SetState(f, "Failed") EXCEPT !.err = error]
<1>1. g = [f EXCEPT !.state = "Failed", !.err = error] /\ f \in Flow
  BY DEF SetState, FlowOK
<1> HIDE DEF g
<1>2. /\ g \in Flow /\ g.state = "Failed" /\ g.err = error
      /\ g.me = f.me /\ g.txn = f.txn /\ g.key = f.key
      /\ g.role = f.role /\ g.peers = f.peers /\ g.peer = f.peer
      /\ g.theirKey = f.theirKey /\ g.start = f.start /\ g.commitment = f.commitment
      /\ g.sent = f.sent /\ g.seen = f.seen /\ g.timer = f.timer
  BY <1>1 DEF Flow, State
<1>3. FlowOK(g)
  BY <1>2, NoneAssumption DEF FlowOK
<1>4. Same(f, g, Fields \ {"state", "err"})
  BY <1>2 DEF Same, Fields
<1> QED BY <1>2, <1>3, <1>4 DEF g

\* A flow that fails, and tells its devices or not.
LEMMA CancelIs ==
  ASSUME NEW f, FlowOK(f), NEW error \in Error
  PROVE  LET e == CancelVerification(f, error)
         IN /\ FlowOK(e.flow) /\ Same(f, e.flow, Fields \ {"state", "err"})
            /\ e.flow.state \in {f.state, "Failed"} /\ e.flow.err \in {f.err, error}
            /\ e.verified = {} /\ Sends(f, e.out, "cancel", None)
<1>1. CASE Finished(f)
  BY <1>1, EffectIs, SendSends DEF CancelVerification, Quiet, Same
<1>2. CASE ~Finished(f)
  <2> DEFINE g == [SetState(f, "Failed") EXCEPT !.err = error]
             out == IF error = "AcceptedOnOtherDevice" THEN {} ELSE Send(f, "cancel", None)
  <2>1. CancelVerification(f, error) = Effect(g, out)
    BY <1>2 DEF CancelVerification
  <2>2. FlowOK(g) /\ Same(f, g, Fields \ {"state", "err"})
    BY FailedIs
  <2>3. g.state = "Failed" /\ g.err = error
    BY FailedIs
  <2> HIDE DEF g
  <2>4. Sends(f, out, "cancel", None)
    BY SendSends
  <2> HIDE DEF out
  <2> QED BY <2>1, <2>2, <2>3, <2>4, EffectIs
<1> QED BY <1>1, <1>2

LEMMA CancelMoves ==
  ASSUME NEW f, FlowOK(f), NEW error \in Error, NEW in, NEW C,
         error \notin Alarm \/ Alarms(f, in)
  PROVE  Moves(f, CancelVerification(f, error), in, C)
<1>1. PICK e : e = CancelVerification(f, error)
  OBVIOUS
<1>2. Turns(f, e.flow, e.out, in)
  <2>1. CASE error \notin Alarm
    <3>1. Rests(f, e.flow, e.out)
      BY <1>1, <2>1, CancelIs DEF Rests, Same, Fields, Sends, Basic
    <3> QED BY <3>1 DEF Turns
  <2>2. CASE Alarms(f, in)
    <3>1. Fails(f, e.flow, e.out)
      BY <1>1, CancelIs DEF Fails, Same, Fields, Sends, Basic
    <3> QED BY <2>2, <3>1 DEF Turns
  <2> QED BY <2>1, <2>2
<1> QED BY <1>1, <1>2, CancelIs DEF Moves, SentBy, FlowOK, Same, Fields, Sends

LEMMA StartIs ==
  ASSUME NEW f, FlowOK(f), f.role = "sender", ~Finished(f)
  PROVE  LET e == StartVerificationRequest(f)
         IN /\ FlowOK(e.flow) /\ Same(f, e.flow, Fields \ {"state", "start", "sent"})
            /\ e.flow.state \in {f.state, "WaitingForOtherToAccept"} /\ e.verified = {}
            /\ e.flow.start \in {f.start, f.me} /\ e.flow.sent \in {f.sent, f.sent \cup {"start"}}
            /\ Sends(f, e.out, "start", None)
            /\ f.peer # None => Turns(f, e.flow, e.out, {})
            /\ \/ "start" \in f.sent /\ e.flow = f /\ e.out = {}
               \/ /\ "start" \notin f.sent /\ e.flow.sent = f.sent \cup {"start"}
                  /\ e.flow.start = f.me /\ e.flow.state = "WaitingForOtherToAccept"
<1>1. CASE "start" \in f.sent
  <2>1. Turns(f, f, {}, {})
    BY DEF Turns, Rests
  <2> QED BY <1>1, <2>1, EffectIs, SendSends DEF StartVerificationRequest, Quiet, Same
<1>2. CASE "start" \notin f.sent
  <2> DEFINE g == SetState(Flag([f EXCEPT !.start = f.me], "start"), "WaitingForOtherToAccept")
             out == Send(f, "start", None)
  <2>1. StartVerificationRequest(f) = Effect(g, out)
    BY <1>2 DEF StartVerificationRequest
  <2>2. FlowOK(g) /\ Same(f, g, Fields \ {"state", "start", "sent"})
    BY <1>2, NoneAssumption, DeviceAssumption DEF FlowOK, Flow, SetState, Flag, State, Same, Fields, Finished
  <2>3. g.state = "WaitingForOtherToAccept" /\ g.start = f.me /\ g.sent = f.sent \cup {"start"}
    BY DEF FlowOK, Flow, SetState, Flag
  <2> HIDE DEF g
  <2>4. Sends(f, out, "start", None)
    BY SendSends
  <2> HIDE DEF out
  <2>5. f.peer # None => Starts(f, g, out)
    BY <1>2, <2>2, <2>3, <2>4 DEF Starts, Same, Fields, Sends
  <2>6. f.peer # None => Turns(f, g, out, {})
    BY <2>5 DEF Turns
  <2> QED BY <1>2, <2>1, <2>2, <2>3, <2>4, <2>6, EffectIs
<1> QED BY <1>1, <1>2

LEMMA StartMoves ==
  ASSUME NEW f, FlowOK(f), f.peer # None, f.role = "sender", ~Finished(f), NEW in, NEW C
  PROVE  Moves(f, StartVerificationRequest(f), in, C)
<1>1. PICK e : e = StartVerificationRequest(f)
  OBVIOUS
<1>2. Turns(f, e.flow, e.out, in)
  BY <1>1, StartIs, TurnsMore
<1> QED BY <1>1, <1>2, StartIs DEF Moves, SentBy, FlowOK, Same, Fields, Sends

LEMMA AcceptIs ==
  ASSUME NEW f, FlowOK(f), f.peer # None, f.start = f.peer, ~Finished(f)
  PROVE  LET e == AcceptVerificationRequest(f)
         IN /\ FlowOK(e.flow) /\ Same(f, e.flow, Fields \ {"state", "sent"})
            /\ \/ "accept" \in f.sent /\ e.flow = f
               \/ e.flow.state = "WaitingForKeys" /\ e.flow.sent = f.sent \cup {"accept"}
            /\ Sends(f, e.out, "accept", <<f.key, f.start>>) /\ e.verified = {}
            /\ e.out # {} => "accept" \in e.flow.sent
<1>1. CASE "accept" \in f.sent
  BY <1>1, EffectIs, SendSends DEF AcceptVerificationRequest, Quiet, Same
<1>2. CASE "accept" \notin f.sent
  <2> DEFINE g == SetState(Flag(f, "accept"), "WaitingForKeys")
             out == Send(f, "accept", <<f.key, f.start>>)
  <2>1. AcceptVerificationRequest(f) = Effect(g, out)
    BY <1>2 DEF AcceptVerificationRequest
  <2>2. FlowOK(g) /\ Same(f, g, Fields \ {"state", "sent"})
    BY <1>2, NoneAssumption DEF FlowOK, Flow, SetState, Flag, State, Same, Fields, Finished
  <2>3. g.state = "WaitingForKeys" /\ g.sent = f.sent \cup {"accept"}
    BY DEF FlowOK, Flow, SetState, Flag
  <2> HIDE DEF g
  <2>4. Sends(f, out, "accept", <<f.key, f.start>>)
    BY SendSends
  <2> HIDE DEF out
  <2> QED BY <2>1, <2>2, <2>3, <2>4, EffectIs
<1> QED BY <1>1, <1>2

LEMMA AcceptMoves ==
  ASSUME NEW f, FlowOK(f), f.peer # None, f.start = f.peer, f.role = "receiver", NEW in, NEW C,
         f.state = "PromptStartVerification"
  PROVE  Moves(f, AcceptVerificationRequest(f), in, C)
<1>1. ~Finished(f)
  BY DEF Finished
<1>2. PICK e : e = AcceptVerificationRequest(f)
  OBVIOUS
<1>3. Turns(f, e.flow, e.out, in)
  <2>1. Accepts(f, e.flow, e.out, in)
    BY <1>1, <1>2, AcceptIs DEF Accepts, Same, Fields, Sends
  <2> QED BY <2>1 DEF Turns
<1> QED BY <1>1, <1>2, <1>3, AcceptIs DEF Moves, SentBy, FlowOK, Same, Fields, Sends

LEMMA HandleAcceptMoves ==
  ASSUME NEW f, FlowOK(f), f.peer # None, NEW m, Heard(f, m), m.type = "accept", NEW C
  PROVE  Moves(f, HandleAccept(f, m), {m}, C)
<1>1. CASE Finished(f) \/ m.txn # f.txn
  BY <1>1, QuietMoves DEF HandleAccept
<1>2. CASE ~(Finished(f) \/ m.txn # f.txn)
  <2> DEFINE g == [Flag(f, "key") EXCEPT !.commitment = m.data]
             out == SendVerificationKey(f)
  <2>1. HandleAccept(f, m) = Effect(g, out)
    BY <1>2 DEF HandleAccept
  <2>2. FlowOK(g) /\ Same(f, g, Fields \ {"commitment", "sent"})
    BY DEF FlowOK, Flow, Flag, Same, Fields, Heard
  <2>3. g.commitment = m.data /\ g.sent = f.sent \cup {"key"}
    BY DEF FlowOK, Flow, Flag
  <2> HIDE DEF g
  <2>4. Sends(f, out, "key", f.key) /\ (out # {} => "key" \notin f.sent)
    BY SendSends DEF SendVerificationKey
  <2> HIDE DEF out
  <2>5. Commits(f, g, out, {m})
    BY <2>2, <2>3, <2>4 DEF Commits, Same, Fields, Sends
  <2>6. Turns(f, g, out, {m})
    BY <2>5 DEF Turns
  <2> QED BY <2>1, <2>2, <2>3, <2>4, <2>6, EffectIs DEF Moves, SentBy, FlowOK, Same, Fields, Sends
<1> QED BY <1>1, <1>2

LEMMA HandleCancelMoves ==
  ASSUME NEW f, FlowOK(f), NEW m, NEW in, NEW C
  PROVE  Moves(f, HandleCancel(f, m), in, C)
<1>1. CASE m.txn # f.txn \/ f = NoFlow
  BY <1>1, QuietMoves DEF HandleCancel
<1>2. CASE ~(m.txn # f.txn \/ f = NoFlow)
  <2>0. PICK error \in Error : error = "User"
    BY DEF Error
  <2> DEFINE g == [SetState(f, "Failed") EXCEPT !.err = error]
  <2>1. HandleCancel(f, m) = Effect(g, {})
    BY <1>2, <2>0 DEF HandleCancel, Quiet
  <2>2. FlowOK(g) /\ Same(f, g, Fields \ {"state", "err"})
    BY FailedIs
  <2>3. g.state = "Failed" /\ g.err = error
    BY FailedIs
  <2> HIDE DEF g
  <2>4. Rests(f, g, {})
    BY <2>0, <2>2, <2>3 DEF Rests, Same, Fields, Alarm
  <2>5. Turns(f, g, {}, in)
    BY <2>4 DEF Turns
  <2> QED BY <2>1, <2>2, <2>3, <2>5, EffectIs DEF Moves, SentBy, FlowOK, Same, Fields
<1> QED BY <1>1, <1>2

LEMMA HandleStartMoves ==
  ASSUME NEW f, FlowOK(f), NEW m, Heard(f, m), m.type = "start", NEW C
  PROVE  Moves(f, HandleStart(f, m), {m}, C)
<1>1. CASE Finished(f) \/ m.txn # f.txn
  BY <1>1, QuietMoves DEF HandleStart
<1>2. CASE ~Finished(f) /\ m.txn = f.txn /\ m.from # f.peer
  BY <1>2, CancelMoves DEF HandleStart, Error, Alarm
<1>3. CASE ~Finished(f) /\ m.txn = f.txn /\ m.from = f.peer /\ ~(f.role = "receiver" \/ f.peer < f.me)
  <2>1. HandleStart(f, m) = Quiet(f)
    BY <1>3 DEF HandleStart
  <2> QED BY <2>1, QuietMoves
<1>4. CASE ~Finished(f) /\ m.txn = f.txn /\ m.from = f.peer /\ (f.role = "receiver" \/ f.peer < f.me)
  <2>0. f.peer # None
    BY <1>4, DeviceAssumption DEF Heard
  <2> DEFINE g == Yield(f, m)
  <2>1. /\ FlowOK(g) /\ Same(f, g, Fields \ {"start", "role"})
        /\ g.start = f.peer /\ g.role = "receiver"
    BY <1>4, <2>0 DEF FlowOK, Flow, Yield, Same, Fields, Heard
  <2>2. CASE f.state = "PromptStartVerification"
    <3>1. HandleStart(f, m) = Quiet(g)
      BY <1>4, <2>2 DEF HandleStart
    <3> HIDE DEF g
    <3>2. Accepts(f, g, {}, {m})
      BY <1>4, <2>0, <2>1, <2>2 DEF Accepts, Same, Fields
    <3>3. Turns(f, g, {}, {m})
      BY <3>2 DEF Turns
    <3> QED BY <2>0, <2>1, <1>4, <3>1, <3>3, EffectIs DEF Moves, SentBy, FlowOK, Same, Fields, Quiet
  <2>3. CASE f.state # "PromptStartVerification"
    <3>1. HandleStart(f, m) = AcceptVerificationRequest(g)
      BY <1>4, <2>3 DEF HandleStart
    <3> HIDE DEF g
    <3>2. PICK e : e = AcceptVerificationRequest(g)
      OBVIOUS
    <3>3. /\ FlowOK(e.flow) /\ Same(g, e.flow, Fields \ {"state", "sent"})
          /\ \/ "accept" \in g.sent /\ e.flow = g
             \/ e.flow.state = "WaitingForKeys" /\ e.flow.sent = g.sent \cup {"accept"}
          /\ Sends(g, e.out, "accept", <<g.key, g.start>>) /\ e.verified = {}
          /\ e.out # {} => "accept" \in e.flow.sent
      BY <1>4, <2>0, <2>1, <3>2, AcceptIs DEF Same, Fields, Finished
    <3>4. Accepts(f, e.flow, e.out, {m})
      BY <1>4, <2>0, <2>1, <3>3 DEF Accepts, Same, Fields, Sends
    <3>5. Turns(f, e.flow, e.out, {m})
      BY <3>4 DEF Turns
    <3> QED BY <2>0, <2>1, <1>4, <3>1, <3>2, <3>3, <3>5 DEF Moves, SentBy, FlowOK, Same, Fields, Sends
  <2> QED BY <2>2, <2>3
<1> QED BY <1>1, <1>2, <1>3, <1>4

LEMMA HandleKeyMoves ==
  ASSUME NEW f, FlowOK(f), f.peer # None, NEW m, Heard(f, m), m.type = "key", NEW C
  PROVE  Moves(f, HandleKey(f, m), {m}, C)
<1> DEFINE expected == \/ f.state = "WaitingForKeys"
                       \/ f.role = "sender" /\ f.state = "WaitingForOtherToAccept"
           g == [f EXCEPT !.theirKey = m.data]
<1>1. CASE Finished(f) \/ m.txn # f.txn
  BY <1>1, QuietMoves DEF HandleKey
<1>2. CASE ~Finished(f) /\ m.txn = f.txn /\ ~expected
  <2>1. Alarms(f, {m})
    BY <1>2 DEF Alarms
  <2> QED BY <1>2, <2>1, CancelMoves DEF HandleKey, Error
<1>3. FlowOK(g) /\ Same(f, g, Fields \ {"theirKey"}) /\ g.theirKey = m.data
  BY NoneAssumption DEF FlowOK, Flow, Same, Fields, Heard
<1>4. CASE /\ ~Finished(f) /\ m.txn = f.txn /\ expected /\ f.role = "sender"
           /\ f.commitment # <<m.data, f.start>>
  <2>1. PICK e : e = CancelVerification(g, "MismatchedCommitment")
    OBVIOUS
  <2>2. HandleKey(f, m) = e
    BY <1>4, <2>1 DEF HandleKey
  <2> HIDE DEF g
  <2>3. /\ FlowOK(e.flow) /\ Same(g, e.flow, Fields \ {"state", "err"})
        /\ e.flow.state \in {g.state, "Failed"} /\ e.verified = {}
        /\ Sends(g, e.out, "cancel", None)
    BY <1>3, <2>1, CancelIs DEF Error
  <2>4. Alarms(f, {m})
    BY <1>4 DEF Alarms
  <2>5. Turns(f, e.flow, e.out, {m})
    <3>1. Fails(f, e.flow, e.out)
      BY <1>3, <2>3 DEF Fails, Same, Fields, Sends, Basic
    <3> QED BY <2>4, <3>1 DEF Turns
  <2> QED BY <1>3, <2>2, <2>3, <2>5 DEF Moves, SentBy, FlowOK, Same, Fields, Sends
<1>5. CASE /\ ~Finished(f) /\ m.txn = f.txn /\ expected
           /\ ~(f.role = "sender" /\ f.commitment # <<m.data, f.start>>)
  <2> DEFINE h == IF f.role = "sender" THEN g ELSE Flag(g, "key")
             k == SetState(h, "CompareEmoji")
             out == IF f.role = "sender" THEN {} ELSE SendVerificationKey(f)
  <2>1. HandleKey(f, m) = Effect(k, out)
    BY <1>5 DEF HandleKey
  <2>2. FlowOK(h) /\ Same(g, h, Fields \ {"sent"}) /\ h.sent \in {g.sent, g.sent \cup {"key"}}
        /\ h.sent = IF f.role = "sender" THEN g.sent ELSE g.sent \cup {"key"}
    <3> HIDE DEF g
    <3> QED BY <1>3 DEF FlowOK, Flow, Flag, Same, Fields
  <2>3. FlowOK(k) /\ Same(h, k, Fields \ {"state"}) /\ k.state = "CompareEmoji"
    <3>1. h.theirKey # None /\ h.state # "Failed"
      BY <1>3, <1>5, <2>2, NoneAssumption DEF Same, Fields, Heard, Finished
    <3> HIDE DEF h
    <3> QED BY <2>2, <3>1 DEF FlowOK, Flow, SetState, State, Same, Fields
  <2> HIDE DEF k, h, g
  <2>4. Sends(f, out, "key", f.key) /\ (out # {} => f.role # "sender" /\ "key" \notin f.sent)
    BY SendSends DEF SendVerificationKey
  <2> HIDE DEF out
  <2>5. Learns(f, k, out, {m})
    BY <1>3, <2>2, <2>3, <2>4 DEF Learns, Same, Fields, Sends
  <2>6. Turns(f, k, out, {m})
    BY <2>5 DEF Turns
  <2> QED BY <1>3, <2>1, <2>2, <2>3, <2>4, <2>6, EffectIs DEF Moves, SentBy, FlowOK, Same, Fields, Sends
<1> QED BY <1>1, <1>2, <1>4, <1>5

\* After the mac of the other side, and the comparison.
LEMMA AcceptDeviceIs ==
  ASSUME NEW f, FlowOK(f), f.theirKey # None, ~Finished(f), NEW out
  PROVE  LET e == AcceptDevice(f, out)
         IN /\ FlowOK(e.flow) /\ Same(f, e.flow, Fields \ {"state"}) /\ e.out = out
            /\ e.flow.state \in {f.state, "WaitingForMac", "Success"}
            /\ e.flow.state = "WaitingForMac" => f.state = "WaitingForMac" \/ "mac" \notin f.seen
            /\ \A v \in e.verified :
                 v = <<f.me, f.peer, f.txn>> /\ "mac" \in f.seen /\ f.state = "WaitingForMac"
<1>1. \A x \in {"WaitingForMac", "Success"} :
        FlowOK(SetState(f, x)) /\ Same(f, SetState(f, x), Fields \ {"state"}) /\ SetState(f, x).state = x
  BY DEF FlowOK, Flow, SetState, State, Same, Fields, Finished
<1>2. CASE "mac" \notin f.seen
  BY <1>1, <1>2, EffectIs DEF AcceptDevice
<1>3. CASE "mac" \in f.seen /\ f.state = "WaitingForMac"
  <2>1. PICK g : g = SetState(f, "Success")
    OBVIOUS
  <2>2. AcceptDevice(f, out) = [Effect(g, out) EXCEPT !.verified = {<<f.me, f.peer, f.txn>>}]
    BY <1>3, <2>1 DEF AcceptDevice
  <2>3. /\ AcceptDevice(f, out).flow = g /\ AcceptDevice(f, out).out = out
        /\ AcceptDevice(f, out).verified = {<<f.me, f.peer, f.txn>>}
    BY <2>2 DEF Effect
  <2> QED BY <1>1, <1>3, <2>1, <2>3
<1>4. CASE "mac" \in f.seen /\ f.state # "WaitingForMac"
  BY <1>4, EffectIs DEF AcceptDevice, Same, Fields
<1> QED BY <1>2, <1>3, <1>4

LEMMA HandleMacMoves ==
  ASSUME NEW f, FlowOK(f), NEW m, Heard(f, m), m.type = "mac", NEW C
  PROVE  Moves(f, HandleMac(f, m), {m}, C)
<1>1. CASE Finished(f) \/ m.txn # f.txn
  BY <1>1, QuietMoves DEF HandleMac
<1>2. CASE ~Finished(f) /\ m.txn = f.txn /\ ("keys" \notin f.seen \/ m.data # SharedSecret(f))
  BY <1>2, CancelMoves DEF HandleMac, Error, Alarm
<1>3. CASE ~Finished(f) /\ m.txn = f.txn /\ "keys" \in f.seen /\ m.data = SharedSecret(f)
  <2> DEFINE g == [f EXCEPT !.seen = @ \cup {"mac"}]
  <2>1. FlowOK(g) /\ Same(f, g, Fields \ {"seen"}) /\ g.seen = f.seen \cup {"mac"}
    BY DEF FlowOK, Flow, Same, Fields
  <2>2. g.theirKey # None /\ ~Finished(g)
    BY <1>3, <2>1, NoneAssumption DEF SharedSecret, Heard, Same, Fields, Finished
  <2>3. PICK e : e = AcceptDevice(g, {})
    OBVIOUS
  <2>4. HandleMac(f, m) = [e EXCEPT !.signed = {<<f.me, f.peer, f.txn>>}]
    BY <1>3, <2>3 DEF HandleMac
  <2> HIDE DEF g
  <2>5. /\ FlowOK(e.flow) /\ Same(g, e.flow, Fields \ {"state"}) /\ e.out = {}
        /\ e.flow.state \in {g.state, "WaitingForMac", "Success"}
        /\ e.flow.state = "WaitingForMac" => g.state = "WaitingForMac" \/ "mac" \notin g.seen
        /\ \A v \in e.verified :
             v = <<g.me, g.peer, g.txn>> /\ "mac" \in g.seen /\ g.state = "WaitingForMac"
    BY <2>1, <2>2, <2>3, AcceptDeviceIs
  <2>6. Rests(f, e.flow, e.out)
    BY <2>1, <2>5 DEF Rests, Same, Fields
  <2>7. Turns(f, e.flow, e.out, {m})
    BY <2>6 DEF Turns
  <2>8. Moves(f, e, {m}, C)
    BY <1>3, <2>1, <2>5, <2>7 DEF Moves, SentBy, FlowOK, Same, Fields
  <2>9. \A s : /\ [e EXCEPT !.signed = s].flow = e.flow /\ [e EXCEPT !.signed = s].out = e.out
               /\ [e EXCEPT !.signed = s].verified = e.verified
    <3>1. PICK h, o, v : e = [flow |-> h, out |-> o, verified |-> v, signed |-> {}]
      BY <2>3, Zenon DEF AcceptDevice, Effect
    <3> QED BY <3>1
  <2> QED BY <2>4, <2>8, <2>9 DEF Moves, SentBy
<1> QED BY <1>1, <1>2, <1>3

LEMMA HandleReadyMoves ==
  ASSUME NEW f, FlowOK(f), NEW m, Heard(f, m), m.type = "ready", NEW C
  PROVE  /\ Moves(f, HandleReady(f, m), {m}, C)
         /\ m.txn # f.txn => Moves(f, HandleReady(f, m), {}, C)
<1>1. CASE Finished(f) \/ (f.role = "sender" /\ m.txn # f.txn)
  BY <1>1, QuietMoves DEF HandleReady
<1>2. CASE ~Finished(f) /\ f.role = "receiver"
  <2>1. HandleReady(f, m) = CancelVerification(f, "AcceptedOnOtherDevice") \/ HandleReady(f, m) = Quiet(f)
    BY <1>2 DEF HandleReady
  <2> QED BY <2>1, QuietMoves, CancelMoves DEF Error, Alarm
<1>3. CASE ~Finished(f) /\ f.role = "sender" /\ m.txn = f.txn
  <2>1. CASE f.peer # None
    <3>1. HandleReady(f, m) = StartVerificationRequest(f)
      BY <1>3, <2>1 DEF HandleReady
    <3> QED BY <1>3, <2>1, <3>1, StartMoves
  <2>2. CASE f.peer = None
    <3> DEFINE g == [[f EXCEPT !.peer = m.from] EXCEPT !.peers = {m.from}]
               h == [f EXCEPT !.peers = @ \ {m.from}]
    <3>1. FlowOK(g) /\ Same(f, g, Fields \ {"peer", "peers"}) /\ g.peer = m.from /\ g.peers = {m.from}
      BY <2>2, <1>3 DEF FlowOK, Flow, Same, Fields, Heard
    <3>2. h.me = f.me /\ h.txn = f.txn /\ h.peers \subseteq f.peers
      BY DEF FlowOK, Flow
    <3>3. PICK e : e = StartVerificationRequest(g)
      OBVIOUS
    <3>4. PICK others : others = Send(h, "cancel", None)
      OBVIOUS
    <3>5. HandleReady(f, m) = [e EXCEPT !.out = @ \cup others]
      BY <1>3, <2>2, <3>3, <3>4 DEF HandleReady, Heard
    <3> HIDE DEF g, h
    <3>6. Sends(h, others, "cancel", None)
      BY <3>4, SendSends
    <3>7. g.peer # None
      BY <3>1, DeviceAssumption DEF Heard
    <3>8. /\ FlowOK(e.flow) /\ Same(g, e.flow, Fields \ {"state", "start", "sent"})
          /\ e.flow.state \in {g.state, "WaitingForOtherToAccept"} /\ e.verified = {}
          /\ e.flow.start \in {g.start, g.me} /\ e.flow.sent \in {g.sent, g.sent \cup {"start"}}
          /\ Sends(g, e.out, "start", None)
          /\ \/ "start" \in g.sent /\ e.flow = g /\ e.out = {}
             \/ /\ "start" \notin g.sent /\ e.flow.sent = g.sent \cup {"start"}
                /\ e.flow.start = g.me /\ e.flow.state = "WaitingForOtherToAccept"
      BY <1>3, <3>1, <3>3, StartIs DEF Same, Fields, Finished
    <3>9. /\ HandleReady(f, m).flow = e.flow /\ HandleReady(f, m).out = e.out \cup others
          /\ HandleReady(f, m).verified = e.verified
      BY <3>3, <3>5 DEF StartVerificationRequest, Quiet, Effect
    <3>10. PICK x : x = HandleReady(f, m)
      OBVIOUS
    <3>11. SentBy(f, x, {m}, C)
      BY <1>3, <2>2, <3>1, <3>2, <3>6, <3>7, <3>8, <3>9, <3>10 DEF SentBy, Same, Fields, Sends, Heard
    <3>12. \A o \in x.out : o.type \in {"start", "cancel"}
      BY <3>6, <3>8, <3>9, <3>10 DEF Sends
    <3>13. Turns(f, e.flow, x.out, {m})
      <4>1. CASE "start" \in g.sent /\ e.flow = g /\ e.out = {}
        <5>1. \A o \in x.out : o.type = "cancel"
          BY <3>6, <3>9, <3>10, <4>1 DEF Sends
        <5>2. Rests(f, g, x.out)
          BY <3>1, <4>1, <5>1 DEF Rests, Same, Fields, Basic
        <5> QED BY <4>1, <5>2 DEF Turns
      <4>2. CASE /\ "start" \notin g.sent /\ e.flow.sent = g.sent \cup {"start"}
                 /\ e.flow.start = g.me /\ e.flow.state = "WaitingForOtherToAccept"
        <5>1. Starts(f, e.flow, x.out)
          BY <2>2, <3>1, <3>7, <3>8, <3>12, <4>2, <1>3 DEF Starts, Same, Fields
        <5> QED BY <5>1 DEF Turns
      <4> QED BY <3>8, <4>1, <4>2
    <3>14. Moves(f, x, {m}, C)
      BY <1>3, <2>2, <3>1, <3>8, <3>9, <3>10, <3>11, <3>13 DEF Moves, Same, Fields
    <3> QED BY <1>3, <3>10, <3>14
  <2> QED BY <2>1, <2>2
<1>4. f.role \in {"sender", "receiver"}
  BY DEF FlowOK, Flow
<1> QED BY <1>1, <1>2, <1>3, <1>4

----------------------------------------------------------------------------
\* The invariant.

Has(d, t) == flow[d][t] # NoFlow

TypeInv ==
  /\ flow \in [Device -> [Txn -> Flow \cup {NoFlow}]]
  /\ made \in [Device -> [Txn -> Nat]]
  /\ \A s \in shown : s[1] \in Device
  /\ \A v \in verified : v[3] \in Txn

\* Flows connect the initiator with its targets.
Star(d, t) ==
  Has(d, t) =>
    /\ FlowOK(flow[d][t])
    /\ flow[d][t].me = d /\ flow[d][t].txn = t /\ flow[d][t].key = <<d, made[d][t]>>
    /\ made[d][t] > 0
    /\ IF d = Initiator[t]
         THEN \/ /\ flow[d][t].peer = None /\ flow[d][t].peers = Targets[t]
                 /\ flow[d][t].role = "sender" /\ made[d][t] = 1
              \/ flow[d][t].peer \in Targets[t]
         ELSE d \in Targets[t] /\ flow[d][t].peer = Initiator[t]

\* A key of a flow that has been made.
Known(k, t) == k \in Key /\ k[2] > 0 /\ k[2] <= made[k[1]][t]

\* What a flow has learned came from flows that had been made.
Learned(f, t) ==
  /\ f.theirKey # None => Known(f.theirKey, t)
  /\ f.commitment # None => Known(f.commitment[1], t)
  /\ f.start # None => made[f.start][t] > 0

Plain(m) == m = [to |-> m.to, from |-> m.from, txn |-> m.txn, type |-> m.type, data |-> m.data]
MsgOK(m) ==
  /\ m.txn \in Txn /\ m.from \in Device /\ m.to \in Device
  /\ Plain(m) /\ made[m.from][m.txn] > 0
  /\ \/ m.from = Initiator[m.txn] /\ m.to \in Targets[m.txn]
     \/ m.to = Initiator[m.txn] /\ m.from \in Targets[m.txn]
  /\ m.type = "key" => Known(m.data, m.txn) /\ m.data[1] = m.from
  /\ m.type = "accept" =>
       /\ m.data \in Key \X Device
       /\ m.data[2] = m.to /\ Known(m.data[1], m.txn) /\ m.data[1][1] = m.from
  /\ m.type = "mac" => \A k \in m.data : Known(k, m.txn)

StateInv ==
  /\ TypeInv
  /\ \A d \in Device, t \in Txn : Star(d, t)
  /\ \A m \in net : MsgOK(m)
  /\ \A d \in Device, t \in Txn : Has(d, t) => Learned(flow[d][t], t)
  /\ \A t \in Txn : \A x \in Targets[t] : made[x][t] > 0 => made[Initiator[t]][t] > 0

\* Target x of t has had to do with a start of the initiator, or has been
\* accepted or given a key.
ChosenBy(msgs, f, x, t) ==
  \/ \E m \in msgs :
       /\ m.txn = t /\ x \in {m.from, m.to}
       /\ m.type \in {"accept", "key"} \/ (m.type = "start" /\ m.from = Initiator[t])
  \/ /\ f # NoFlow
     /\ \/ f.start = Initiator[t] \/ f.commitment # None
        \/ "accept" \in f.sent \/ "key" \in f.sent
Chosen(x, t) == ChosenBy(net, flow[x][t], x, t)

\* That is one target, the one the initiator has taken.
Choice(t) ==
  made[Initiator[t]][t] <= 1 =>
    /\ \A x, y \in Targets[t] : Chosen(x, t) /\ Chosen(y, t) => x = y
    /\ \A x \in Targets[t] : Chosen(x, t) =>
         made[Initiator[t]][t] = 1 /\ (Has(Initiator[t], t) => flow[Initiator[t]][t].peer = x)

ChoiceInv == \A t \in Txn : Choice(t)

\* Only p has got the key k of the initiator, and answers it.
KnownTo(k, p, t) ==
  /\ \A m \in net : m.txn = t /\ m.type = "key" /\ m.data = k => m.to = p
  /\ \A x \in Targets[t] : Has(x, t) /\ flow[x][t].theirKey = k => x = p
  /\ \A m \in net : m.txn = t /\ m.type = "mac" /\ m.to = Initiator[t] /\ k \in m.data => m.from = p
Private(t) ==
  Has(Initiator[t], t) => KnownTo(flow[Initiator[t]][t].key, flow[Initiator[t]][t].peer, t)

\* A mac comes after "They match!", and so does what follows from one.
Waiting(f, C, d, t) ==
  /\ f.state = "WaitingForMac" => f.peer # None /\ <<d, f.peer, t>> \in C
  /\ "mac" \in f.seen => f.peer # None /\ <<f.peer, d, t>> \in C
Confirmed(t) ==
  /\ \A m \in net : m.txn = t /\ m.type = "mac" => <<m.from, m.to, t>> \in confirmed
  /\ \A d \in Device : Has(d, t) => Waiting(flow[d][t], confirmed, d, t)
  /\ \A v \in verified : v[3] = t => v \in confirmed /\ <<v[2], v[1], t>> \in confirmed

ConfirmedInv == \A t \in Txn : Private(t) /\ Confirmed(t)

----------------------------------------------------------------------------
\* The steps, as one transaction t sees them.

\* Device d gets the messages in, sends out, and nothing else happens to t.
Around(d, t, in, out) ==
  /\ \A c \in Device \ {d} : flow'[c][t] = flow[c][t] /\ made'[c][t] = made[c][t]
  /\ in \subseteq net /\ \A m \in in : m.txn = t /\ m.to = d
  /\ \A m \in net' : m.txn = t => m \in (net \ in) \cup out
  /\ \A v \in confirmed : v \in confirmed'

MoveStep(d, t, in, e) ==
  /\ Around(d, t, in, e.out)
  /\ Has(d, t) /\ flow'[d][t] = e.flow /\ made'[d][t] = made[d][t]
  /\ Moves(flow[d][t], e, in, confirmed')
  /\ \A v \in verified' : v[3] = t => v \in verified \/ v \in e.verified

DropStep(d, t, out) ==
  /\ Around(d, t, {}, out)
  /\ Has(d, t) /\ flow'[d][t] = NoFlow /\ made'[d][t] = made[d][t]
  /\ Sends(flow[d][t], out, "cancel", None)
  /\ \A v \in verified' : v[3] = t => v \in verified

\* The flow g is created, by the user or by a message.
NewStep(d, t, in, g) ==
  /\ Around(d, t, in, {})
  /\ ~Has(d, t) /\ flow'[d][t] = g /\ made'[d][t] = made[d][t] + 1
  /\ FlowOK(g) /\ g.me = d /\ g.txn = t /\ g.key = <<d, made'[d][t]>>
  /\ g.state = "PromptStartVerification"
  /\ g.theirKey = None /\ g.commitment = None /\ g.sent = {} /\ g.seen = {}
  /\ \/ /\ d = Initiator[t] /\ made[d][t] = 0 /\ g.start = None
        /\ g.role = "sender"
        /\ (g.peer = None /\ g.peers = Targets[t]) \/ g.peer \in Targets[t]
     \/ /\ g.role = "receiver"
        /\ \E m \in in :
             /\ g.peer = m.from
             /\ (m.type = "request" /\ g.start = None) \/ (m.type = "start" /\ g.start = m.from)
  /\ \A v \in verified' : v[3] = t => v \in verified

IdleStep(t) ==
  /\ \A c \in Device : flow'[c][t] = flow[c][t] /\ made'[c][t] = made[c][t]
  /\ \A m \in net' : m.txn = t => m \in net
  /\ \A v \in confirmed : v \in confirmed'
  /\ \A v \in verified' : v[3] = t => v \in verified

StepOf(t) ==
  \/ IdleStep(t)
  \/ \E d \in Device, in \in SUBSET net : \E e : MoveStep(d, t, in, e)
  \/ \E d \in Device, out \in SUBSET net' : DropStep(d, t, out)
  \/ \E d \in Device, in \in SUBSET net : NewStep(d, t, in, flow'[d][t])

\* What holds for all transactions together.
Shape ==
  /\ flow' = [d \in Device |-> [t \in Txn |-> flow'[d][t]]]
  /\ made' = [d \in Device |-> [t \in Txn |-> made'[d][t]]]
  /\ \A x \in shown' : x \in shown \/ \E d \in Device, t \in Txn : x \in Displayed(flow'[d][t])
  /\ \A v \in verified' : v \in verified \/ v[3] \in Txn
  /\ \A m \in net' : m \in net \/ m.txn \in Txn

Step == Shape /\ \A s \in Txn : StepOf(s)

LEMMA HandleNone == ASSUME NEW m PROVE Handle(NoFlow, m) = Quiet(NoFlow)
<1>1. Finished(NoFlow)
  BY DEF Finished, NoFlow
<1> QED BY <1>1 DEF Handle, HandleStart, HandleAccept, HandleCancel, HandleKey, HandleMac, HandleReady

LEMMA HandleMoves ==
  ASSUME NEW f, FlowOK(f), NEW m, Heard(f, m), NEW C,
         f.peer = None /\ m.txn = f.txn => m.type \notin {"accept", "key"}
  PROVE  /\ m.txn = f.txn => Moves(f, Handle(f, m), {m}, C)
         /\ m.txn # f.txn => Moves(f, Handle(f, m), {}, C)
<1>1. CASE m.txn = f.txn
  <2>1. m.type = "start" => Moves(f, Handle(f, m), {m}, C)
    BY HandleStartMoves DEF Handle
  <2>2. m.type = "accept" => Moves(f, Handle(f, m), {m}, C)
    BY <1>1, HandleAcceptMoves DEF Handle
  <2>3. m.type = "cancel" => Moves(f, Handle(f, m), {m}, C)
    BY HandleCancelMoves DEF Handle
  <2>4. m.type = "key" => Moves(f, Handle(f, m), {m}, C)
    BY <1>1, HandleKeyMoves DEF Handle
  <2>5. m.type = "mac" => Moves(f, Handle(f, m), {m}, C)
    BY HandleMacMoves DEF Handle
  <2>6. m.type = "ready" => Moves(f, Handle(f, m), {m}, C)
    BY HandleReadyMoves DEF Handle
  <2>7. m.type \notin {"start", "accept", "cancel", "key", "mac", "ready"} => Handle(f, m) = Quiet(f)
    BY DEF Handle
  <2> QED BY <1>1, <2>1, <2>2, <2>3, <2>4, <2>5, <2>6, <2>7, QuietMoves
<1>2. CASE m.txn # f.txn
  <2>1. m.type = "ready" => Moves(f, Handle(f, m), {}, C)
    BY <1>2, HandleReadyMoves DEF Handle
  <2>2. m.type # "ready" => Handle(f, m) = Quiet(f)
    BY <1>2 DEF Handle, HandleStart, HandleAccept, HandleCancel, HandleKey, HandleMac
  <2> QED BY <1>2, <2>1, <2>2, QuietMoves
<1> QED BY <1>1, <1>2

\* An effect on one flow, seen by all transactions.
LEMMA ApplyStep ==
  ASSUME TypeInv, NEW d \in Device, NEW t \in Txn, Has(d, t), Star(d, t), NEW e, Apply(d, t, e),
         made' = made, confirmed \subseteq confirmed', Moves(flow[d][t], e, {}, confirmed')
  PROVE  Step
<1>1. /\ flow' = [flow EXCEPT ![d][t] = e.flow] /\ net' = net \cup e.out
      /\ verified' = verified \cup e.verified /\ shown' = shown \cup Displayed(e.flow)
  BY DEF Apply
<1>2. flow'[d][t] = e.flow /\ \A c \in Device, s \in Txn : c # d \/ s # t => flow'[c][s] = flow[c][s]
  BY <1>1 DEF TypeInv
<1>3. (\A o \in e.out : o.txn = t) /\ (\A v \in e.verified : v[3] = t)
  BY DEF Moves, SentBy, Star
<1>4. MoveStep(d, t, {}, e)
  BY <1>1, <1>2 DEF MoveStep, Around
<1>5. \A s \in Txn : s # t => IdleStep(s)
  BY <1>1, <1>2, <1>3 DEF IdleStep
<1>6. Shape
  <2>1. /\ flow' = [c \in Device |-> [s \in Txn |-> flow'[c][s]]]
        /\ made' = [c \in Device |-> [s \in Txn |-> made'[c][s]]]
    BY <1>1 DEF TypeInv
  <2>2. \A x \in shown' : x \in shown \/ \E c \in Device, s \in Txn : x \in Displayed(flow'[c][s])
    BY <1>1, <1>2
  <2> QED BY <1>1, <1>3, <2>1, <2>2 DEF Shape
<1> QED BY <1>4, <1>5, <1>6 DEF Step, StepOf

LEMMA BeginStep ==
  ASSUME StateInv, NEW d \in Device, NEW t \in Txn, Begin(d, t)
  PROVE  Step
<1>1. Has(d, t) /\ Star(d, t) /\ FlowOK(flow[d][t]) /\ UNCHANGED <<made, confirmed>> /\ TypeInv
  BY DEF Begin, Has, NoFlow, StateInv, Star
<1>2. PICK f : f = flow[d][t]
  OBVIOUS
<1>3. ASSUME NEW st \in {"WaitingForOtherToAccept", "WaitingForKeys"}, NEW type \in {"request", "ready"},
             st = "WaitingForOtherToAccept" => f.role = "sender",
             type = "request" => f.role = "sender",
             f.state = "PromptStartVerification", Apply(d, t, Effect(SetState(f, st), Send(f, type, None)))
      PROVE  Step
  <2>1. PICK g : g = SetState(f, st)
    OBVIOUS
  <2>2. FlowOK(g) /\ Same(f, g, Fields \ {"state"}) /\ g.state = st
    BY <1>1, <1>2, <1>3, <2>1 DEF FlowOK, Flow, SetState, State, Same, Fields
  <2>3. PICK out : out = Send(f, type, None)
    OBVIOUS
  <2>4. Sends(f, out, type, None)
    BY <2>3, SendSends
  <2>5. Rests(f, g, out)
    BY <1>3, <2>2, <2>4 DEF Rests, Same, Fields, Sends, Basic
  <2>6. Turns(f, g, out, {})
    BY <2>5 DEF Turns
  <2>7. Moves(f, Effect(g, out), {}, confirmed')
    BY <1>3, <2>2, <2>4, <2>6, EffectIs DEF Moves, SentBy, Same, Fields, Sends
  <2> QED BY <1>1, <1>2, <1>3, <2>1, <2>3, <2>7, ApplyStep
<1>4. ASSUME f.state = "PromptStartVerification", f.role = "receiver", f.start # None,
             Apply(d, t, AcceptVerificationRequest(f))
      PROVE  Step
  <2>1. f.peer # None /\ f.start = f.peer
    BY <1>1, <1>2, <1>4 DEF FlowOK
  <2> QED BY <1>1, <1>2, <1>4, <2>1, AcceptMoves, ApplyStep
<1> QED BY <1>2, <1>3, <1>4 DEF Begin

LEMMA MacMoves ==
  ASSUME NEW f, FlowOK(f), f.state = "CompareEmoji", f.peer # None, NEW C,
         <<f.me, f.peer, f.txn>> \in C
  PROVE  Moves(f, SendVerificationMac(f), {}, C)
<1>1. CASE "mac" \in f.sent
  BY <1>1, QuietMoves DEF SendVerificationMac
<1>2. CASE "mac" \notin f.sent
  <2>1. PICK g : g = SetState(Flag(f, "mac"), "WaitingForMac")
    OBVIOUS
  <2>2. /\ FlowOK(g) /\ Same(f, g, Fields \ {"state", "sent"}) /\ g.state = "WaitingForMac"
        /\ g.sent = f.sent \cup {"mac"}
    BY <2>1 DEF FlowOK, Flow, SetState, Flag, State, Same, Fields
  <2>3. PICK out : out = Send(f, "mac", SharedSecret(f))
    OBVIOUS
  <2>4. Sends(f, out, "mac", SharedSecret(f))
    BY <2>3, SendSends
  <2>5. PICK e : e = AcceptDevice(g, out)
    OBVIOUS
  <2>6. SendVerificationMac(f) = e
    BY <1>2, <2>1, <2>3, <2>5 DEF SendVerificationMac
  <2>7. f.theirKey # None
    BY DEF FlowOK
  <2>8. /\ FlowOK(e.flow) /\ Same(g, e.flow, Fields \ {"state"}) /\ e.out = out
        /\ e.flow.state \in {g.state, "WaitingForMac", "Success"}
        /\ \A v \in e.verified :
             v = <<g.me, g.peer, g.txn>> /\ "mac" \in g.seen /\ g.state = "WaitingForMac"
    BY <2>2, <2>5, <2>7, AcceptDeviceIs DEF Same, Fields, Finished
  <2>9. SentBy(f, e, {}, C)
    BY <2>2, <2>4, <2>7, <2>8 DEF SentBy, Same, Fields, Sends, FlowOK
  <2>10. Rests(f, e.flow, e.out)
    BY <2>2, <2>4, <2>8 DEF Rests, Same, Fields, Sends, Basic
  <2>11. Turns(f, e.flow, e.out, {})
    BY <2>10 DEF Turns
  <2> QED BY <2>2, <2>6, <2>8, <2>9, <2>11 DEF Moves, Same, Fields
<1> QED BY <1>1, <1>2

LEMMA TheyMatchStep ==
  ASSUME StateInv, NEW d \in Device, NEW t \in Txn, TheyMatch(d, t)
  PROVE  Step
<1>1. Has(d, t) /\ Star(d, t) /\ FlowOK(flow[d][t]) /\ TypeInv
  BY DEF TheyMatch, Has, NoFlow, StateInv, Star
<1>2. PICK f : f = flow[d][t]
  OBVIOUS
<1>3. /\ f.state = "CompareEmoji" /\ <<f.peer, Sas(f)>> \in shown
      /\ Apply(d, t, SendVerificationMac(f)) /\ made' = made
      /\ confirmed' = confirmed \cup {<<d, f.peer, t>>}
  BY <1>2 DEF TheyMatch
<1>4. f.peer # None
  BY <1>1, <1>3, DeviceAssumption DEF TypeInv
<1>5. f.me = d /\ f.txn = t
  BY <1>1, <1>2 DEF Star
<1>6. Moves(f, SendVerificationMac(f), {}, confirmed')
  BY <1>1, <1>2, <1>3, <1>4, <1>5, MacMoves
<1> QED BY <1>1, <1>2, <1>3, <1>6, ApplyStep

LEMMA TimeoutStep ==
  ASSUME StateInv, NEW d \in Device, NEW t \in Txn, Timeout(d, t)
  PROVE  Step
<1>1. Has(d, t) /\ Star(d, t) /\ FlowOK(flow[d][t]) /\ TypeInv
  BY DEF Timeout, Has, StateInv, Star
<1>2. PICK f : f = flow[d][t]
  OBVIOUS
<1>3. PICK g : g = [f EXCEPT !.timer = "off"]
  OBVIOUS
<1>4. PICK e : e = CancelVerification(g, "Timeout")
  OBVIOUS
<1>5. FlowOK(g) /\ Same(f, g, Fields \ {"timer"})
  BY <1>1, <1>2, <1>3 DEF FlowOK, Flow, Same, Fields
<1>6. Moves(f, e, {}, confirmed')
  <2>1. /\ FlowOK(e.flow) /\ Same(g, e.flow, Fields \ {"state", "err"})
        /\ e.flow.state \in {g.state, "Failed"} /\ e.flow.err \in {g.err, "Timeout"}
        /\ e.verified = {} /\ Sends(g, e.out, "cancel", None)
    BY <1>4, <1>5, CancelIs DEF Error
  <2>2. Rests(f, e.flow, e.out)
    BY <1>5, <2>1 DEF Rests, Same, Fields, Sends, Basic, Alarm
  <2>3. Turns(f, e.flow, e.out, {})
    BY <2>2 DEF Turns
  <2> QED BY <1>5, <2>1, <2>3 DEF Moves, SentBy, Same, Fields, Sends
<1>7. Apply(d, t, e) /\ UNCHANGED <<made, confirmed>>
  BY <1>2, <1>3, <1>4 DEF Timeout
<1> QED BY <1>1, <1>2, <1>6, <1>7, ApplyStep

LEMMA ForeignStep ==
  ASSUME StateInv, NEW d \in Device, NEW t \in Txn, ForeignStart(d, t)
  PROVE  Step
<1>1. Has(d, t) /\ Star(d, t) /\ FlowOK(flow[d][t]) /\ TypeInv
  BY DEF ForeignStart, Has, NoFlow, StateInv, Star
<1>2. PICK f : f = flow[d][t]
  OBVIOUS
<1>3. PICK g : g = [f EXCEPT !.role = "sender"]
  OBVIOUS
<1>4. PICK e : e = StartVerificationRequest(g)
  OBVIOUS
<1>5. /\ f.state = "WaitingForKeys" /\ f.role = "receiver" /\ f.start = None
      /\ Apply(d, t, e) /\ UNCHANGED <<made, confirmed>>
  BY <1>2, <1>3, <1>4 DEF ForeignStart
<1>6. f.peer # None
  BY <1>1, <1>2, <1>5, DeviceAssumption, TxnAssumption DEF Star
<1>7. FlowOK(g) /\ Same(f, g, Fields \ {"role"}) /\ g.role = "sender"
  BY <1>1, <1>2, <1>3, <1>5 DEF FlowOK, Flow, Same, Fields
<1>8. /\ FlowOK(e.flow) /\ Same(g, e.flow, Fields \ {"state", "start", "sent"})
      /\ e.flow.state \in {g.state, "WaitingForOtherToAccept"} /\ e.verified = {}
      /\ e.flow.start \in {g.start, g.me} /\ e.flow.sent \in {g.sent, g.sent \cup {"start"}}
      /\ Sends(g, e.out, "start", None)
      /\ \/ "start" \in g.sent /\ e.flow = g /\ e.out = {}
         \/ /\ "start" \notin g.sent /\ e.flow.sent = g.sent \cup {"start"}
            /\ e.flow.start = g.me /\ e.flow.state = "WaitingForOtherToAccept"
  BY <1>4, <1>5, <1>7, StartIs DEF Same, Fields, Finished
<1>9. Turns(f, e.flow, e.out, {})
  <2>1. Starts(f, e.flow, e.out)
    BY <1>5, <1>6, <1>7, <1>8 DEF Starts, Same, Fields, Sends, FlowOK
  <2> QED BY <2>1 DEF Turns
<1>10. Moves(f, e, {}, confirmed')
  BY <1>6, <1>7, <1>8, <1>9, <1>1, <1>2 DEF Moves, SentBy, Same, Fields, Sends, FlowOK
<1> QED BY <1>1, <1>2, <1>5, <1>10, ApplyStep

LEMMA CancelStep ==
  ASSUME StateInv, NEW d \in Device, NEW t \in Txn, Cancel(d, t)
  PROVE  Step
<1>1. Has(d, t) /\ Star(d, t) /\ FlowOK(flow[d][t]) /\ TypeInv
  BY DEF Cancel, Has, StateInv, Star
<1>2. PICK f : f = flow[d][t]
  OBVIOUS
<1>3. PICK e : e = CancelVerification(f, "User")
  OBVIOUS
<1>4. /\ flow' = [flow EXCEPT ![d][t] = NoFlow] /\ UNCHANGED <<made, verified, confirmed, shown>>
      /\ net' = net \cup e.out \/ net' = net
  BY <1>2, <1>3 DEF Cancel
<1>5. PICK out : out \in {e.out, {}} /\ net' = net \cup out
  BY <1>4
<1>6. Sends(f, out, "cancel", None)
  <2>1. Sends(f, e.out, "cancel", None)
    BY <1>1, <1>2, <1>3, CancelIs DEF Error
  <2>2. Sends(f, {}, "cancel", None)
    BY SendSends
  <2> QED BY <1>5, <2>1, <2>2
<1>7. flow'[d][t] = NoFlow /\ \A c \in Device, s \in Txn : c # d \/ s # t => flow'[c][s] = flow[c][s]
  BY <1>1, <1>4 DEF TypeInv
<1>8. \A o \in out : o.txn = t
  BY <1>1, <1>2, <1>6 DEF Sends, Star
<1>9. DropStep(d, t, out)
  BY <1>1, <1>2, <1>4, <1>5, <1>6, <1>7 DEF DropStep, Around
<1>10. out \in SUBSET net'
  BY <1>5
<1>11. \A s \in Txn : s # t => IdleStep(s)
  BY <1>4, <1>5, <1>7, <1>8 DEF IdleStep
<1>12. Shape
  BY <1>1, <1>4, <1>5, <1>8 DEF Shape, TypeInv
<1> QED BY <1>9, <1>10, <1>11, <1>12 DEF Step, StepOf

LEMMA KeysStep ==
  ASSUME StateInv, NEW d \in Device, NEW t \in Txn, KeysArrive(d, t)
  PROVE  Step
<1>1. Has(d, t) /\ Star(d, t) /\ FlowOK(flow[d][t]) /\ TypeInv
  BY DEF KeysArrive, Has, StateInv, Star
<1>2. PICK f : f = flow[d][t]
  OBVIOUS
<1>3. PICK g : g = [f EXCEPT !.seen = @ \cup {"keys"}]
  OBVIOUS
<1>4. flow' = [flow EXCEPT ![d][t] = g] /\ UNCHANGED <<net, made, verified, confirmed, shown>>
  BY <1>2, <1>3 DEF KeysArrive
<1>5. FlowOK(g) /\ Same(f, g, Fields \ {"seen"}) /\ g.seen = f.seen \cup {"keys"}
  BY <1>1, <1>2, <1>3 DEF FlowOK, Flow, Same, Fields
<1>6. Moves(f, Quiet(g), {}, confirmed')
  <2>1. Rests(f, g, {})
    BY <1>5 DEF Rests, Same, Fields
  <2>2. Turns(f, g, {}, {})
    BY <2>1 DEF Turns
  <2> QED BY <1>5, <2>2, EffectIs DEF Moves, SentBy, Same, Fields, Quiet
<1>7. flow'[d][t] = g /\ \A c \in Device, s \in Txn : c # d \/ s # t => flow'[c][s] = flow[c][s]
  BY <1>1, <1>4 DEF TypeInv
<1>8. MoveStep(d, t, {}, Quiet(g))
  BY <1>1, <1>2, <1>4, <1>6, <1>7, EffectIs DEF MoveStep, Around, Quiet
<1>9. \A s \in Txn : s # t => IdleStep(s)
  BY <1>4, <1>7 DEF IdleStep
<1>10. Shape
  BY <1>1, <1>4 DEF Shape, TypeInv
<1> QED BY <1>8, <1>9, <1>10 DEF Step, StepOf

\* A new flow, with one device or with several.
IsNew(g, d, t, role, peers, gen) ==
  /\ FlowOK(g) /\ g.me = d /\ g.txn = t /\ g.key = <<d, gen>> /\ g.role = role
  /\ g.state = "PromptStartVerification" /\ g.start = None
  /\ g.theirKey = None /\ g.commitment = None /\ g.sent = {} /\ g.seen = {}
  /\ g.peers = peers
  /\ g.peer = None \/ peers = {g.peer}
  /\ \A p : peers = {p} => g.peer = p

LEMMA NewFlowIs ==
  ASSUME NEW d \in Device, NEW t \in Txn, NEW role \in {"sender", "receiver"},
         NEW peers \in (SUBSET Device) \ {{}}, NEW gen \in Nat,
         NEW g, g = NewFlow(d, t, role, peers, gen)
  PROVE  IsNew(g, d, t, role, peers, gen)
<1>1. PICK peer : peer = IF \E p \in peers : peers = {p} THEN CHOOSE p \in peers : TRUE ELSE None
  OBVIOUS
<1>2. peer = None \/ (peers = {peer} /\ peer \in Device)
  BY <1>1
<1>3. \A p : peers = {p} => peer = p
  BY <1>1
<1>4. g = [state |-> "PromptStartVerification", me |-> d, txn |-> t, role |-> role,
           peers |-> peers, peer |-> peer, key |-> <<d, gen>>, theirKey |-> None, start |-> None,
           commitment |-> None, sent |-> {}, seen |-> {}, timer |-> "armed", err |-> None]
  BY <1>1 DEF NewFlow
<1>5. g \in Flow
  BY <1>2, <1>4 DEF Flow, State, Key
<1> QED BY <1>2, <1>3, <1>4, <1>5 DEF FlowOK, IsNew

LEMMA InitiateStep ==
  ASSUME StateInv, NEW d \in Device, NEW t \in Txn, Initiate(d, t)
  PROVE  Step
<1>1. TypeInv /\ Targets[t] \in (SUBSET Device) \ {{}}
  BY TxnAssumption DEF StateInv
<1>2. PICK g : g = NewFlow(d, t, "sender", Targets[t], 1)
  OBVIOUS
<1>3. /\ d = Initiator[t] /\ made[d][t] = 0 /\ made' = [made EXCEPT ![d][t] = 1]
      /\ flow' = [flow EXCEPT ![d][t] = g] /\ UNCHANGED <<net, verified, confirmed, shown>>
  BY <1>2 DEF Initiate
<1>0. ~Has(d, t)
  BY <1>3 DEF StateInv, Star
<1>4. /\ FlowOK(g) /\ g.me = d /\ g.txn = t /\ g.key = <<d, 1>> /\ g.role = "sender"
      /\ g.state = "PromptStartVerification" /\ g.start = None
      /\ g.theirKey = None /\ g.commitment = None /\ g.sent = {} /\ g.seen = {}
      /\ g.peers = Targets[t] /\ (g.peer = None \/ Targets[t] = {g.peer})
  <2>1. IsNew(g, d, t, "sender", Targets[t], 1)
    BY <1>1, <1>2, NewFlowIs
  <2> QED BY <2>1 DEF IsNew
<1>5. /\ flow'[d][t] = g /\ made'[d][t] = made[d][t] + 1 /\ made'[d][t] = 1
      /\ \A c \in Device, s \in Txn :
           c # d \/ s # t => flow'[c][s] = flow[c][s] /\ made'[c][s] = made[c][s]
  BY <1>1, <1>3 DEF TypeInv
<1>6. NewStep(d, t, {}, g)
  BY <1>0, <1>3, <1>4, <1>5 DEF NewStep, Around
<1>7. \A s \in Txn : s # t => IdleStep(s)
  BY <1>3, <1>5 DEF IdleStep
<1>8. Shape
  BY <1>1, <1>3 DEF Shape, TypeInv
<1> QED BY <1>5, <1>6, <1>7, <1>8 DEF Step, StepOf

LEMMA ReceiveNewStep ==
  ASSUME StateInv, NEW m \in net, ReceiveNew(m)
  PROVE  Step
<1>1. TypeInv /\ MsgOK(m) /\ m.txn \in Txn /\ m.from \in Device /\ m.to \in Device
  BY DEF StateInv, MsgOK
<1>2. PICK d \in Device : d = m.to
  BY <1>1
<1>3. PICK t \in Txn : t = m.txn
  BY <1>1
<1>4. PICK gen : gen = made[d][t] + 1
  OBVIOUS
<1>5. PICK f : f = NewFlow(d, t, "receiver", {m.from}, gen)
  OBVIOUS
<1>6. PICK e : e = IF m.type = "start" THEN HandleStart(f, m) ELSE Quiet(f)
  OBVIOUS
<1>7. /\ m.type \in {"request", "start"} /\ ~Has(d, t)
      /\ flow' = [flow EXCEPT ![d][t] = e.flow] /\ net' = (net \ {m}) \cup e.out
      /\ made' = [made EXCEPT ![d][t] = gen] /\ UNCHANGED <<verified, confirmed, shown>>
  BY <1>2, <1>3, <1>4, <1>5, <1>6 DEF ReceiveNew, Has
<1>8. /\ FlowOK(f) /\ f.me = d /\ f.txn = t /\ f.key = <<d, gen>> /\ f.role = "receiver"
      /\ f.state = "PromptStartVerification" /\ f.start = None
      /\ f.theirKey = None /\ f.commitment = None /\ f.sent = {} /\ f.seen = {}
      /\ f.peers = {m.from} /\ f.peer = m.from /\ gen \in Nat
  <2>1. gen \in Nat
    BY <1>1, <1>4 DEF TypeInv
  <2>2. {m.from} \in (SUBSET Device) \ {{}} /\ "receiver" \in {"sender", "receiver"}
    BY <1>1
  <2>3. PICK peers \in (SUBSET Device) \ {{}} : peers = {m.from}
    BY <2>2
  <2>4. IsNew(f, d, t, "receiver", peers, gen)
    BY <1>5, <2>1, <2>3, NewFlowIs
  <2> QED BY <2>1, <2>3, <2>4 DEF IsNew
<1>9. PICK g : g = IF m.type = "start" THEN Yield(f, m) ELSE f
  OBVIOUS
<1>10. e = Quiet(g)
  BY <1>2, <1>3, <1>6, <1>8, <1>9 DEF HandleStart, Finished
<1>11. /\ FlowOK(g) /\ Same(f, g, Fields \ {"start", "role"}) /\ g.role = "receiver"
       /\ (m.type = "request" /\ g.start = None) \/ (m.type = "start" /\ g.start = m.from)
  <2>1. FlowOK(Yield(f, m)) /\ Same(f, Yield(f, m), Fields \ {"start", "role"}) /\ Yield(f, m).start = m.from
       /\ Yield(f, m).role = "receiver"
    BY <1>1, <1>8 DEF FlowOK, Flow, Yield, Same, Fields
  <2> QED BY <1>7, <1>8, <1>9, <2>1 DEF Same
<1>12. /\ flow'[d][t] = g /\ made'[d][t] = gen
       /\ \A c \in Device, s \in Txn :
            c # d \/ s # t => flow'[c][s] = flow[c][s] /\ made'[c][s] = made[c][s]
  BY <1>1, <1>7, <1>10, EffectIs DEF TypeInv, Quiet
<1>13. net' = net \ {m}
  BY <1>7, <1>10, EffectIs DEF Quiet
<1>14. NewStep(d, t, {m}, g)
  BY <1>2, <1>3, <1>4, <1>7, <1>8, <1>11, <1>12, <1>13 DEF NewStep, Around, Same, Fields
<1>15. \A s \in Txn : s # t => IdleStep(s)
  BY <1>7, <1>12, <1>13 DEF IdleStep
<1>16. Shape
  BY <1>1, <1>7, <1>13 DEF Shape, TypeInv
<1> QED BY <1>12, <1>14, <1>15, <1>16 DEF Step, StepOf

\* A flow without a peer has not sent start, so nobody accepts or sends a key.
LEMMA HeardIs ==
  ASSUME StateInv, ChoiceInv, NEW m \in net, NEW t \in Txn, Has(m.to, t)
  PROVE  /\ Heard(flow[m.to][t], m)
         /\ flow[m.to][t].peer = None /\ m.txn = t => m.type \notin {"accept", "key"}
<1>1. /\ MsgOK(m) /\ m.to \in Device /\ m.from \in Device /\ m.txn \in Txn
      /\ Star(m.to, t)
  BY DEF StateInv, MsgOK
<1>2. PICK f : f = flow[m.to][t]
  OBVIOUS
<1>3. f.peer = None => m.to = Initiator[t] /\ f.peers = Targets[t] /\ made[m.to][t] = 1
  BY <1>1, <1>2, DeviceAssumption, TxnAssumption DEF Star
<1>4. f.peer = None /\ m.txn = t => m.from \in Targets[t]
  BY <1>1, <1>3, TxnAssumption DEF MsgOK
<1>5. Heard(f, m)
  BY <1>1, <1>2, <1>3, <1>4 DEF Heard, MsgOK, Known, Star
<1>6. ASSUME f.peer = None, m.txn = t, m.type \in {"accept", "key"} PROVE FALSE
  <2>1. Chosen(m.from, t)
    BY <1>6 DEF Chosen, ChosenBy, Has
  <2>2. f.peer = m.from
    BY <1>2, <1>3, <1>4, <1>6, <2>1 DEF ChoiceInv, Choice
  <2> QED BY <1>1, <1>6, <2>2, DeviceAssumption
<1> QED BY <1>2, <1>5, <1>6

LEMMA ReceiveStep ==
  ASSUME StateInv, ChoiceInv, NEW m \in net, Receive(m)
  PROVE  Step
<1>1. TypeInv /\ m.to \in Device /\ \A s \in Txn : Star(m.to, s)
  BY DEF StateInv, MsgOK
<1>2. PICK d \in Device : d = m.to
  BY <1>1
<1>3. PICK e : e = [t \in Txn |-> Handle(flow[d][t], m)]
  OBVIOUS
<1>4. /\ flow' = [flow EXCEPT ![d] = [t \in Txn |-> e[t].flow]]
      /\ net' = (net \ {m}) \cup UNION {e[t].out : t \in Txn}
      /\ verified' = verified \cup UNION {e[t].verified : t \in Txn}
      /\ shown' = shown \cup UNION {Displayed(e[t].flow) : t \in Txn}
      /\ UNCHANGED <<made, confirmed>>
  BY <1>2, <1>3 DEF Receive
<1>5. \A s \in Txn : e[s] = Handle(flow[d][s], m)
  BY <1>3
<1>6. \A s \in Txn : ~Has(d, s) => e[s].flow = flow[d][s] /\ e[s].out = {} /\ e[s].verified = {}
  BY <1>5, HandleNone, EffectIs DEF Has, Quiet
<1>7. ASSUME NEW s \in Txn, Has(d, s)
      PROVE  /\ m.txn = s => Moves(flow[d][s], e[s], {m}, confirmed')
             /\ m.txn # s => Moves(flow[d][s], e[s], {}, confirmed')
  <2>1. FlowOK(flow[d][s]) /\ flow[d][s].txn = s
    BY <1>1, <1>2, <1>7 DEF Star
  <2>2. /\ Heard(flow[d][s], m)
        /\ flow[d][s].peer = None /\ m.txn = s => m.type \notin {"accept", "key"}
    BY <1>2, <1>7, HeardIs
  <2>3. PICK f : f = flow[d][s]
    OBVIOUS
  <2>4. /\ FlowOK(f) /\ f.txn = s /\ Heard(f, m)
        /\ f.peer = None /\ m.txn = f.txn => m.type \notin {"accept", "key"}
    BY <2>1, <2>2, <2>3
  <2>5. /\ m.txn = f.txn => Moves(f, Handle(f, m), {m}, confirmed')
        /\ m.txn # f.txn => Moves(f, Handle(f, m), {}, confirmed')
    BY <2>4, HandleMoves
  <2> QED BY <1>5, <2>3, <2>4, <2>5
<1>8. \A s \in Txn : (\A o \in e[s].out : o.txn = s) /\ (\A v \in e[s].verified : v[3] = s)
  <2>1. ASSUME NEW s \in Txn, Has(d, s), NEW in, Moves(flow[d][s], e[s], in, confirmed')
        PROVE  (\A o \in e[s].out : o.txn = s) /\ (\A v \in e[s].verified : v[3] = s)
    <3>1. flow[d][s].txn = s
      BY <1>1, <1>2, <2>1 DEF Star
    <3> QED BY <2>1, <3>1 DEF Moves, SentBy
  <2> QED BY <1>6, <1>7, <2>1
<1>9. /\ \A s \in Txn : flow'[d][s] = e[s].flow
      /\ \A c \in Device \ {d}, s \in Txn : flow'[c][s] = flow[c][s]
  BY <1>1, <1>4 DEF TypeInv
<1>10. \A s \in Txn : \A o \in net' : o.txn = s => o \in (net \ {m}) \cup e[s].out
  BY <1>4, <1>8
<1>11. \A s \in Txn : \A v \in verified' : v[3] = s => v \in verified \/ v \in e[s].verified
  BY <1>4, <1>8
<1>12. ASSUME NEW s \in Txn PROVE StepOf(s)
  <2>1. CASE ~Has(d, s)
    <3>1. IdleStep(s)
      BY <1>4, <1>6, <1>9, <1>10, <1>11, <2>1 DEF IdleStep
    <3> QED BY <3>1 DEF StepOf
  <2>2. CASE Has(d, s) /\ m.txn = s
    <3>1. MoveStep(d, s, {m}, e[s])
      BY <1>2, <1>4, <1>7, <1>9, <1>10, <1>11, <2>2 DEF MoveStep, Around
    <3> QED BY <3>1 DEF StepOf
  <2>3. CASE Has(d, s) /\ m.txn # s
    <3>1. MoveStep(d, s, {}, e[s])
      BY <1>4, <1>7, <1>9, <1>10, <1>11, <2>3 DEF MoveStep, Around
    <3> QED BY <3>1 DEF StepOf
  <2> QED BY <2>1, <2>2, <2>3
<1>13. Shape
  <2>1. /\ flow' = [c \in Device |-> [s \in Txn |-> flow'[c][s]]]
        /\ made' = [c \in Device |-> [s \in Txn |-> made'[c][s]]]
    BY <1>1, <1>4 DEF TypeInv
  <2>2. \A x \in shown' : x \in shown \/ \E c \in Device, s \in Txn : x \in Displayed(flow'[c][s])
    BY <1>4, <1>9
  <2>3. \A v \in verified' : v \in verified \/ v[3] \in Txn
    BY <1>4, <1>8
  <2>4. \A o \in net' : o \in net \/ o.txn \in Txn
    BY <1>4, <1>8
  <2> QED BY <2>1, <2>2, <2>3, <2>4 DEF Shape
<1> QED BY <1>12, <1>13 DEF Step

LEMMA DiesStep ==
  ASSUME StateInv, NEW m \in net, Dies(m)
  PROVE  Step
<1>1. TypeInv /\ m.to \in Device /\ \A s \in Txn : Star(m.to, s)
  BY DEF StateInv, MsgOK
<1>2. PICK d \in Device : d = m.to
  BY <1>1
<1>3. /\ flow' = [flow EXCEPT ![d] = [t \in Txn |-> NoFlow]] /\ net' = net \ {m}
      /\ UNCHANGED <<made, verified, confirmed, shown>>
  BY <1>2 DEF Dies
<1>4. /\ \A s \in Txn : flow'[d][s] = NoFlow
      /\ \A c \in Device \ {d}, s \in Txn : flow'[c][s] = flow[c][s]
  BY <1>1, <1>3 DEF TypeInv
<1>5. ASSUME NEW s \in Txn PROVE StepOf(s)
  <2>1. CASE ~Has(d, s)
    <3>1. IdleStep(s)
      BY <1>3, <1>4, <2>1 DEF IdleStep, Has
    <3> QED BY <3>1 DEF StepOf
  <2>2. CASE Has(d, s)
    <3>1. Sends(flow[d][s], {}, "cancel", None)
      BY DEF Sends
    <3>2. DropStep(d, s, {})
      BY <1>3, <1>4, <2>2, <3>1 DEF DropStep, Around
    <3> QED BY <3>2 DEF StepOf
  <2> QED BY <2>1, <2>2
<1>6. Shape
  BY <1>1, <1>3, <1>4 DEF Shape, TypeInv
<1> QED BY <1>5, <1>6 DEF Step

\* Every step is one of these for every transaction.
LEMMA Steps ==
  ASSUME StateInv, ChoiceInv, [Next]_vars
  PROVE  Step
<1>1. ASSUME NEW d \in Device, NEW t \in Txn, Initiate(d, t) PROVE Step
  BY <1>1, InitiateStep
<1>2. ASSUME NEW d \in Device, NEW t \in Txn, Begin(d, t) PROVE Step
  BY <1>2, BeginStep
<1>3. ASSUME NEW d \in Device, NEW t \in Txn, TheyMatch(d, t) PROVE Step
  BY <1>3, TheyMatchStep
<1>4. ASSUME NEW d \in Device, NEW t \in Txn, Cancel(d, t) PROVE Step
  BY <1>4, CancelStep
<1>5. ASSUME NEW d \in Device, NEW t \in Txn, Timeout(d, t) PROVE Step
  BY <1>5, TimeoutStep
<1>6. ASSUME NEW d \in Device, NEW t \in Txn, KeysArrive(d, t) PROVE Step
  BY <1>6, KeysStep
<1>7. ASSUME NEW d \in Device, NEW t \in Txn, ForeignStart(d, t) PROVE Step
  BY <1>7, ForeignStep
<1>8. ASSUME NEW m \in net, ReceiveNew(m) PROVE Step
  BY <1>8, ReceiveNewStep
<1>9. ASSUME NEW m \in net, Receive(m) PROVE Step
  BY <1>9, ReceiveStep
<1>10. ASSUME NEW m \in net, Lose(m) PROVE Step
  BY <1>10 DEF Lose, Step, StepOf, IdleStep, Shape, StateInv, TypeInv
<1>11. ASSUME NEW m \in net, Dies(m) PROVE Step
  BY <1>11, DiesStep
<1>12. CASE UNCHANGED vars
  BY <1>12 DEF vars, Step, StepOf, IdleStep, Shape, StateInv, TypeInv
<1> QED BY <1>1, <1>2, <1>3, <1>4, <1>5, <1>6, <1>7, <1>8, <1>9, <1>10, <1>11, <1>12 DEF Next

----------------------------------------------------------------------------
\* The invariant is kept.

\* Numbers of flows only grow.
LEMMA Grows ==
  ASSUME StateInv, NEW t \in Txn, StepOf(t), NEW c \in Device
  PROVE  made[c][t] \in Nat /\ made'[c][t] \in Nat /\ made[c][t] <= made'[c][t]
<1>1. \A x \in Device : made[x][t] \in Nat
  BY DEF StateInv, TypeInv
<1>2. made'[c][t] = made[c][t] \/ made'[c][t] = made[c][t] + 1
  BY DEF StepOf, IdleStep, MoveStep, DropStep, NewStep, Around
<1> QED BY <1>1, <1>2

LEMMA StarStep ==
  ASSUME StateInv, NEW t \in Txn, StepOf(t), NEW c \in Device
  PROVE  Star(c, t)'
<1>1. \A x \in Device : Star(x, t) /\ made[x][t] \in Nat
  BY DEF StateInv, TypeInv
<1>2. \A m \in net : MsgOK(m)
  BY DEF StateInv
<1>3. flow'[c][t] = flow[c][t] /\ made'[c][t] = made[c][t] => Star(c, t)'
  BY <1>1 DEF Star, Has
<1>4. CASE IdleStep(t)
  BY <1>3, <1>4 DEF IdleStep
<1>5. ASSUME NEW d \in Device, NEW in \in SUBSET net, NEW e, MoveStep(d, t, in, e) PROVE Star(c, t)'
  <2>1. c # d => Star(c, t)'
    BY <1>3, <1>5 DEF MoveStep, Around
  <2>2. PICK f, g : f = flow[d][t] /\ g = e.flow
    OBVIOUS
  <2>3. /\ Has(d, t) /\ flow'[d][t] = g /\ made'[d][t] = made[d][t]
        /\ FlowOK(g) /\ g.me = f.me /\ g.txn = f.txn /\ g.key = f.key
        /\ g.role = f.role \/ f.peer # None
        /\ \/ g.peer = f.peer /\ g.peers = f.peers
           \/ f.peer = None /\ \E m \in in : m.type = "ready" /\ m.from = g.peer
    BY <1>5, <2>2 DEF MoveStep, Moves
  <2>4. f.peer = None => d = Initiator[t]
    BY <1>1, <2>2, <2>3, DeviceAssumption, TxnAssumption DEF Star
  <2>5. \A m \in in : d = Initiator[t] => m.from \in Targets[t]
    BY <1>2, <1>5, TxnAssumption DEF MoveStep, Around, MsgOK
  <2>6. Star(d, t)'
    BY <1>1, <2>2, <2>3, <2>4, <2>5 DEF Star, Has
  <2> QED BY <2>1, <2>6
<1>6. ASSUME NEW d \in Device, NEW out, DropStep(d, t, out) PROVE Star(c, t)'
  BY <1>3, <1>6 DEF DropStep, Around, Star, Has
<1>7. ASSUME NEW d \in Device, NEW in \in SUBSET net, NEW g, g = flow'[d][t], NewStep(d, t, in, g)
      PROVE  Star(c, t)'
  <2>1. c # d => Star(c, t)'
    BY <1>3, <1>7 DEF NewStep, Around
  <2>2. \A m \in in : /\ d = Initiator[t] => m.from \in Targets[t]
                      /\ d # Initiator[t] => d \in Targets[t] /\ m.from = Initiator[t]
    BY <1>2, <1>7, TxnAssumption DEF NewStep, Around, MsgOK
  <2>3. made'[d][t] > 0 /\ (made[d][t] = 0 => made'[d][t] = 1)
    BY <1>1, <1>7 DEF NewStep
  <2>4. /\ FlowOK(g) /\ g.me = d /\ g.txn = t /\ g.key = <<d, made'[d][t]>>
        /\ \/ /\ d = Initiator[t] /\ made[d][t] = 0
              /\ (g.peer = None /\ g.peers = Targets[t] /\ g.role = "sender") \/ g.peer \in Targets[t]
           \/ \E m \in in : g.peer = m.from
    BY <1>7 DEF NewStep
  <2>5. Star(d, t)'
    <3>1. CASE d = Initiator[t]
      <4>1. \/ g.peer = None /\ g.peers = Targets[t] /\ g.role = "sender" /\ made'[d][t] = 1
            \/ g.peer \in Targets[t]
        BY <2>2, <2>3, <2>4, <3>1
      <4> QED BY <1>7, <2>3, <2>4, <3>1, <4>1 DEF Star, Has
    <3>2. CASE d # Initiator[t]
      <4>1. d \in Targets[t] /\ g.peer = Initiator[t]
        BY <2>2, <2>4, <3>2
      <4> QED BY <1>7, <2>3, <2>4, <3>2, <4>1 DEF Star, Has
    <3> QED BY <3>1, <3>2
  <2> QED BY <2>1, <2>5
<1> QED BY <1>4, <1>5, <1>6, <1>7 DEF StepOf

LEMMA KnownStays ==
  ASSUME StateInv, NEW t \in Txn, StepOf(t), NEW k, Known(k, t)
  PROVE  Known(k, t)'
<1>1. k[1] \in Device /\ k[2] \in Nat /\ k \in Key
  BY DEF Known, Key
<1> QED BY <1>1, Grows DEF Known

LEMMA MessagesStep ==
  ASSUME StateInv, NEW t \in Txn, StepOf(t), NEW m \in net', m.txn = t
  PROVE  MsgOK(m)'
<1>1. \A x \in Device : Star(x, t)
  BY DEF StateInv
<1>2. \A k : Known(k, t) => Known(k, t)'
  BY KnownStays
<1>3. m \in net => MsgOK(m)'
  <2>1. ASSUME m \in net PROVE MsgOK(m)'
    <3>1. MsgOK(m) /\ m.from \in Device
      BY <2>1 DEF StateInv, MsgOK
    <3>2. made'[m.from][t] > 0
      BY <3>1, Grows DEF MsgOK
    <3> QED BY <1>2, <3>1, <3>2 DEF MsgOK
  <2> QED BY <2>1
<1>4. CASE IdleStep(t)
  BY <1>3, <1>4 DEF IdleStep
<1>5. ASSUME NEW d \in Device, NEW in \in SUBSET net, NEW e, MoveStep(d, t, in, e), m \notin net
      PROVE  MsgOK(m)'
  <2>1. PICK f : f = flow[d][t]
    OBVIOUS
  <2>2. /\ m.from = d /\ m.to \in f.peers /\ Plain(m)
        /\ m.type = "accept" => m.data = <<f.key, f.peer>> /\ f.peer # None
        /\ m.type = "key" => m.data = f.key
        /\ m.type = "mac" => m.data = {f.key, f.theirKey} /\ f.theirKey # None
    <3>1. m \in e.out /\ f.me = d /\ f.txn = t
      BY <1>1, <1>5, <2>1 DEF MoveStep, Around, Star
    <3> QED BY <1>5, <2>1, <3>1 DEF MoveStep, Moves, SentBy, SharedSecret, Plain
  <2>3. /\ Has(d, t) /\ FlowOK(f) /\ f \in Flow /\ f.key = <<d, made[d][t]>> /\ made[d][t] > 0
    BY <1>1, <1>5, <2>1 DEF MoveStep, Star, FlowOK
  <2>4. m.to \in Device /\ (d = Initiator[t] => m.to \in Targets[t])
        /\ (d # Initiator[t] => d \in Targets[t] /\ m.to = Initiator[t])
    <3>1. Targets[t] \subseteq Device /\ Initiator[t] \in Device
      BY TxnAssumption
    <3> QED BY <1>1, <2>1, <2>2, <2>3, <3>1, DeviceAssumption DEF Star, FlowOK
  <2>5. Known(f.key, t)
    <3>1. made[d][t] \in Nat
      BY DEF StateInv, TypeInv
    <3> QED BY <2>3, <3>1 DEF Known, Key
  <2>6. f.theirKey # None => Known(f.theirKey, t)
    BY <2>1, <2>3 DEF StateInv, Learned
  <2>7. m.type = "accept" =>
          m.data \in Key \X Device /\ m.data[2] = m.to /\ Known(m.data[1], t)' /\ m.data[1][1] = m.from
    <3>1. m.type = "accept" => m.data = <<f.key, m.to>> /\ f.key \in Key
      BY <2>2, <2>3 DEF FlowOK, Flow
    <3> QED BY <1>2, <2>2, <2>3, <2>4, <2>5, <3>1
  <2>8. m.type = "key" => m.data[1] = m.from
    BY <2>2, <2>3
  <2>9. m.type = "mac" => \A k \in m.data : Known(k, t)'
    BY <1>2, <2>2, <2>5, <2>6
  <2>10. m.type = "key" => Known(m.data, t)'
    BY <1>2, <2>2, <2>5
  <2>11. made'[d][t] > 0
    BY <1>5, <2>3 DEF MoveStep
  <2> QED BY <2>2, <2>4, <2>7, <2>8, <2>9, <2>10, <2>11 DEF MsgOK
<1>6. ASSUME NEW d \in Device, NEW out, DropStep(d, t, out), m \notin net PROVE MsgOK(m)'
  <2>1. PICK f : f = flow[d][t]
    OBVIOUS
  <2>2. m.type = "cancel" /\ m.from = f.me /\ m.to \in f.peers /\ Plain(m)
    BY <1>6, <2>1 DEF DropStep, Around, Sends, Plain
  <2>3. Has(d, t) /\ FlowOK(f) /\ f.me = d /\ made'[d][t] > 0
    BY <1>1, <1>6, <2>1 DEF DropStep, Star
  <2>4. m.to \in Device /\ (d = Initiator[t] => m.to \in Targets[t])
        /\ (d # Initiator[t] => d \in Targets[t] /\ m.to = Initiator[t])
    <3>1. Targets[t] \subseteq Device /\ Initiator[t] \in Device
      BY TxnAssumption
    <3> QED BY <1>1, <2>1, <2>2, <2>3, <3>1, DeviceAssumption DEF Star, FlowOK
  <2> QED BY <2>2, <2>3, <2>4 DEF MsgOK
<1>7. ASSUME NEW d \in Device, NEW in \in SUBSET net, NewStep(d, t, in, flow'[d][t]) PROVE MsgOK(m)'
  BY <1>3, <1>7 DEF NewStep, Around
<1> QED BY <1>3, <1>4, <1>5, <1>6, <1>7 DEF StepOf

\* What an actor other than the initiator does, it does because of a message.
LEMMA TargetMoves ==
  ASSUME StateInv, NEW t \in Txn, NEW d \in Targets[t], NEW in \in SUBSET net, NEW e,
         MoveStep(d, t, in, e)
  PROVE  /\ flow[d][t].me = d /\ flow[d][t].peer = Initiator[t] /\ d # Initiator[t] /\ d \in Device
         /\ e.flow.start = Initiator[t] => Chosen(d, t)
         /\ e.flow.commitment # None => Chosen(d, t)
         /\ "accept" \in e.flow.sent => Chosen(d, t)
         /\ "key" \in e.flow.sent => Chosen(d, t)
         /\ \A o \in e.out : o.from = d /\ (o.type \in {"accept", "key"} => Chosen(d, t))
<1>1. d \in Device /\ d # Initiator[t] /\ Star(d, t)
  BY TxnAssumption DEF StateInv
<1>2. PICK f, g : f = flow[d][t] /\ g = e.flow
  OBVIOUS
<1>3. Has(d, t) /\ f.me = d /\ f.peer = Initiator[t]
  BY <1>1, <1>2 DEF MoveStep, Star
<1>4. \A m \in in : m \in net /\ m.txn = t /\ m.to = d
  BY DEF MoveStep, Around
<1>5. \A m \in in : m.type \in {"accept", "key"} => Chosen(d, t)
  BY <1>4 DEF Chosen, ChosenBy, Has
<1>6. \A m \in in : m.type = "start" /\ m.from = Initiator[t] => Chosen(d, t)
  BY <1>4 DEF Chosen, ChosenBy, Has
<1>7. g.start = Initiator[t] => Chosen(d, t)
  <2>1. \/ g.start = f.start \/ g.start = d
        \/ \E m \in in : m.type = "start" /\ m.from = Initiator[t]
    BY <1>2, <1>3 DEF MoveStep, Moves
  <2> QED BY <1>1, <1>2, <1>3, <1>6, <2>1 DEF Chosen, ChosenBy, Has
<1>8. g.commitment # None => Chosen(d, t)
  <2>1. g.commitment = f.commitment \/ \E m \in in : m.type = "accept"
    BY <1>2 DEF MoveStep, Moves
  <2> QED BY <1>2, <1>3, <1>5, <2>1 DEF Chosen, ChosenBy, Has
<1>9. "accept" \in g.sent => Chosen(d, t)
  <2>1. "accept" \in g.sent => "accept" \in f.sent \/ g.start = Initiator[t]
    BY <1>2, <1>3 DEF MoveStep, Moves
  <2> QED BY <1>2, <1>3, <1>7, <2>1 DEF Chosen, ChosenBy, Has
<1>10. "key" \in g.sent => Chosen(d, t)
  <2>1. "key" \in g.sent => "key" \in f.sent \/ \E m \in in : m.type \in {"accept", "key"}
    BY <1>2 DEF MoveStep, Moves
  <2> QED BY <1>2, <1>3, <1>5, <2>1 DEF Chosen, ChosenBy, Has
<1>11. \A o \in e.out :
         /\ o.from = d
         /\ o.type = "accept" => g.start = Initiator[t]
         /\ o.type = "key" => \E m \in in : m.type \in {"accept", "key"}
  BY <1>2, <1>3 DEF MoveStep, Moves, SentBy
<1> QED BY <1>1, <1>2, <1>3, <1>5, <1>7, <1>8, <1>9, <1>10, <1>11

\* The initiator speaks to its peer only, once it does more than ask.
Speaks(d, f, e) ==
  /\ e.flow # NoFlow
  /\ \A o \in e.out :
       o.from = d /\ (o.type \in {"start", "accept", "key", "mac"} => o.to = e.flow.peer)
  /\ f.peer # None => e.flow.peer = f.peer

LEMMA InitiatorMoves ==
  ASSUME StateInv, NEW t \in Txn, NEW d \in Device, NEW in \in SUBSET net, NEW e,
         MoveStep(d, t, in, e)
  PROVE  Speaks(d, flow[d][t], e)
<1>1. Star(d, t)
  BY DEF StateInv
<1>2. PICK f, g : f = flow[d][t] /\ g = e.flow
  OBVIOUS
<1>3. Has(d, t) /\ f.me = d /\ flow'[d][t] = g /\ made'[d][t] = made[d][t]
  BY <1>1, <1>2 DEF MoveStep, Star
<1>4. FlowOK(g) /\ (f.peer # None => g.peer = f.peer)
  BY <1>2 DEF MoveStep, Moves
<1>5. g # NoFlow
  BY <1>4 DEF FlowOK, Flow, NoFlow, State
<1>6. \A o \in e.out : o.from = d /\ (o.type \in {"start", "accept", "key", "mac"} => o.to \in g.peers /\ g.peer # None)
  BY <1>2, <1>3 DEF MoveStep, Moves, SentBy
<1> QED BY <1>2, <1>4, <1>5, <1>6 DEF FlowOK, Speaks

\* A target is chosen by a step only as the peer of the initiator.
Takes(x, t) ==
  /\ Has(Initiator[t], t) /\ flow'[Initiator[t]][t] # NoFlow
  /\ flow'[Initiator[t]][t].peer = x /\ made'[Initiator[t]][t] = made[Initiator[t]][t]

LEMMA ChosenStep ==
  ASSUME StateInv, NEW t \in Txn, StepOf(t), NEW x \in Targets[t],
         ChosenBy(net', flow'[x][t], x, t), ~Chosen(x, t)
  PROVE  Takes(x, t)
<1>1. x \in Device /\ Initiator[t] \in Device /\ x # Initiator[t]
  BY TxnAssumption
<1>2. ~IdleStep(t)
  BY <1>1 DEF IdleStep, Chosen, ChosenBy, Has
<1>3. ASSUME NEW d \in Device, NEW out, DropStep(d, t, out) PROVE FALSE
  <2>1. \A m \in net' : m.txn = t => m \in net \/ m.type = "cancel"
    BY <1>3 DEF DropStep, Around, Sends
  <2>2. ~Has(x, t)' \/ flow'[x][t] = flow[x][t]
    BY <1>1, <1>3 DEF DropStep, Around, Has
  <2> QED BY <2>1, <2>2 DEF Chosen, ChosenBy, Has
<1>4. ASSUME NEW d \in Device, NEW in \in SUBSET net, NEW g, g = flow'[d][t], NewStep(d, t, in, g)
      PROVE  FALSE
  <2>1. \A m \in net' : m.txn = t => m \in net
    BY <1>4 DEF NewStep, Around
  <2>2. x # d => flow'[x][t] = flow[x][t]
    BY <1>1, <1>4 DEF NewStep, Around
  <2>3. CASE x # d
    BY <2>1, <2>2, <2>3 DEF Chosen, ChosenBy, Has
  <2>4. CASE x = d
    <3>1. g.commitment = None /\ g.sent = {}
      BY <1>4 DEF NewStep
    <3>2. g.start = None \/ \E m \in in : m.type = "start" /\ g.start = m.from
      BY <1>4 DEF NewStep
    <3>3. g.start = Initiator[t] => \E m \in net : m.txn = t /\ m.to = x /\ m.type = "start" /\ m.from = Initiator[t]
      BY <1>1, <1>4, <2>4, <3>2, DeviceAssumption DEF NewStep, Around
    <3> QED BY <1>4, <2>1, <2>4, <3>1, <3>3 DEF Chosen, ChosenBy, Has
  <2> QED BY <2>3, <2>4
<1>5. ASSUME NEW d \in Device, NEW in \in SUBSET net, NEW e, MoveStep(d, t, in, e)
      PROVE  d = Initiator[t] /\ e.flow.peer = x
  <2>0. d = Initiator[t] \/ d \in Targets[t]
    BY <1>5 DEF StateInv, Star, MoveStep
  <2>1. flow'[d][t] = e.flow /\ Has(d, t) /\ (x # d => flow'[x][t] = flow[x][t])
    BY <1>1, <1>5 DEF MoveStep, Around
  <2>2. \A m \in net' : m.txn = t => m \in net \/ m \in e.out
    BY <1>5 DEF MoveStep, Around
  <2>3. CASE d = x
    <3>0. ~Chosen(d, t) /\ d \in Targets[t]
      BY <2>3
    <3>1. /\ e.flow.start # Initiator[t] /\ e.flow.commitment = None
          /\ "accept" \notin e.flow.sent /\ "key" \notin e.flow.sent
          /\ \A o \in e.out : o.from = d /\ o.type \notin {"accept", "key"}
      BY <1>5, <3>0, TargetMoves
    <3>2. flow'[x][t] = e.flow
      BY <2>1, <2>3
    <3> QED BY <1>1, <2>2, <2>3, <3>1, <3>2 DEF Chosen, ChosenBy, Has
  <2>4. CASE d # x /\ d \in Targets[t]
    <3>1. flow[d][t].peer = Initiator[t] /\ d # Initiator[t] /\ Initiator[t] # None
      BY <1>1, <1>5, <2>4, TargetMoves, DeviceAssumption
    <3>2. \A o \in e.out : o.from = d /\ (o.type \in {"start", "accept", "key"} => o.to = Initiator[t])
      <4>1. Speaks(d, flow[d][t], e)
        BY <1>5, InitiatorMoves
      <4> QED BY <3>1, <4>1 DEF Speaks
    <3> QED BY <1>1, <2>1, <2>2, <2>4, <3>1, <3>2 DEF Chosen, ChosenBy, Has
  <2>5. CASE d = Initiator[t]
    <3>1. \A o \in e.out :
            o.from = d /\ (o.type \in {"start", "accept", "key"} => o.to = e.flow.peer)
      <4>1. Speaks(d, flow[d][t], e)
        BY <1>5, InitiatorMoves
      <4> QED BY <4>1 DEF Speaks
    <3> QED BY <1>1, <2>1, <2>2, <2>5, <3>1 DEF Chosen, ChosenBy, Has
  <2> QED BY <2>0, <2>3, <2>4, <2>5
<1>6. PICK d \in Device, in \in SUBSET net : \E e : MoveStep(d, t, in, e)
  BY <1>2, <1>3, <1>4 DEF StepOf
<1>7. PICK e : MoveStep(d, t, in, e)
  BY <1>6
<1>8. d = Initiator[t] /\ e.flow.peer = x /\ Speaks(d, flow[d][t], e)
  BY <1>5, <1>7, InitiatorMoves
<1> QED BY <1>7, <1>8 DEF Takes, Speaks, MoveStep

LEMMA ChoiceStep ==
  ASSUME StateInv, NEW t \in Txn, Choice(t), StepOf(t)
  PROVE  Choice(t)'
<1> DEFINE i == Initiator[t]
<1>1. i \in Device /\ Targets[t] \subseteq Device /\ i \notin Targets[t] /\ None \notin Device
  BY TxnAssumption, DeviceAssumption
<1>2. made[i][t] \in Nat /\ made'[i][t] \in Nat /\ made[i][t] <= made'[i][t]
  BY <1>1, Grows
<1> SUFFICES ASSUME made'[i][t] <= 1 PROVE Choice(t)'
  BY DEF Choice
<1>3. /\ \A x, y \in Targets[t] : Chosen(x, t) /\ Chosen(y, t) => x = y
      /\ \A x \in Targets[t] : Chosen(x, t) =>
           made[i][t] = 1 /\ (Has(i, t) => flow[i][t].peer = x)
  BY <1>2 DEF Choice
<1>4. ASSUME NEW x \in Targets[t], ChosenBy(net', flow'[x][t], x, t)
      PROVE  Chosen(x, t) \/ Takes(x, t)
  BY <1>4, ChosenStep
<1>5. ASSUME Has(i, t), flow[i][t].peer \in Device, flow'[i][t] # NoFlow
      PROVE  flow'[i][t].peer = flow[i][t].peer
  <2>1. flow[i][t].peer # None /\ Has(i, t)
    BY <1>1, <1>5
  <2>2. CASE IdleStep(t)
    BY <1>1, <2>2 DEF IdleStep
  <2>3. ASSUME NEW d \in Device, NEW in \in SUBSET net, NEW e, MoveStep(d, t, in, e)
        PROVE  flow'[i][t].peer = flow[i][t].peer
    BY <1>1, <2>1, <2>3 DEF MoveStep, Around, Moves
  <2>4. ASSUME NEW d \in Device, NEW out, DropStep(d, t, out)
        PROVE  flow'[i][t].peer = flow[i][t].peer
    BY <1>1, <1>5, <2>4 DEF DropStep, Around
  <2>5. ASSUME NEW d \in Device, NEW in \in SUBSET net, NewStep(d, t, in, flow'[d][t])
        PROVE  flow'[i][t].peer = flow[i][t].peer
    BY <1>1, <2>1, <2>5 DEF NewStep, Around
  <2> QED BY <2>2, <2>3, <2>4, <2>5 DEF StepOf
<1>6. ASSUME flow'[i][t] # NoFlow, ~Has(i, t) PROVE made[i][t] = 0
  <2>1. ~IdleStep(t)
    BY <1>1, <1>6 DEF IdleStep, Has
  <2>2. ASSUME NEW d \in Device, NEW in \in SUBSET net, NEW e, MoveStep(d, t, in, e) PROVE FALSE
    BY <1>1, <1>6, <2>2 DEF MoveStep, Around, Has
  <2>3. ASSUME NEW d \in Device, NEW out, DropStep(d, t, out) PROVE FALSE
    BY <1>1, <1>6, <2>3 DEF DropStep, Around, Has
  <2>4. ASSUME NEW d \in Device, NEW in \in SUBSET net, NewStep(d, t, in, flow'[d][t])
        PROVE  made'[i][t] = made[i][t] + 1
    BY <1>1, <1>6, <2>4 DEF NewStep, Around, Has
  <2>5. PICK d \in Device, in \in SUBSET net : NewStep(d, t, in, flow'[d][t])
    BY <2>1, <2>2, <2>3 DEF StepOf
  <2>6. made'[i][t] = made[i][t] + 1
    BY <2>4, <2>5
  <2>7. made'[i][t] <= 1
    OBVIOUS
  <2> QED BY <1>2, <2>6, <2>7
<1>7. ASSUME NEW x \in Targets[t], ChosenBy(net', flow'[x][t], x, t)
      PROVE  made'[i][t] = 1 /\ (flow'[i][t] # NoFlow => flow'[i][t].peer = x)
  <2>1. CASE Chosen(x, t)
    <3>1. made[i][t] = 1 /\ made'[i][t] = 1 /\ (Has(i, t) => flow[i][t].peer = x)
      BY <1>2, <1>3, <2>1
    <3> QED BY <1>1, <1>5, <1>6, <3>1
  <2>2. CASE Takes(x, t)
    <3>1. Has(i, t) /\ made'[i][t] = made[i][t] /\ flow'[i][t].peer = x
      BY <2>2 DEF Takes
    <3>2. made[i][t] > 0
      BY <1>1, <3>1 DEF StateInv, Star
    <3> QED BY <1>2, <3>1, <3>2
  <2> QED BY <1>4, <1>7, <2>1, <2>2
<1>8. ASSUME NEW x \in Targets[t], NEW y \in Targets[t],
             ChosenBy(net', flow'[x][t], x, t), ChosenBy(net', flow'[y][t], y, t)
      PROVE  x = y
  <2>1. CASE Chosen(x, t) /\ Chosen(y, t)
    BY <1>3, <2>1
  <2>2. CASE Takes(x, t) \/ Takes(y, t)
    <3>1. flow'[i][t] # NoFlow
      BY <2>2 DEF Takes
    <3>2. flow'[i][t].peer = x /\ flow'[i][t].peer = y
      BY <1>7, <1>8, <3>1
    <3> QED BY <3>2
  <2> QED BY <1>4, <1>8, <2>1, <2>2
<1> QED BY <1>7, <1>8 DEF Choice, Chosen, Has

LEMMA LearnedStep ==
  ASSUME StateInv, NEW t \in Txn, StepOf(t), NEW c \in Device,
         NEW f, flow'[c][t] = f, f # NoFlow
  PROVE  Learned(f, t)'
<1>1. \A g : Learned(g, t) /\ (g.start # None => g.start \in Device) => Learned(g, t)'
  BY KnownStays, Grows DEF Learned
<1>2. ASSUME NEW x \in Device, Has(x, t)
      PROVE  Learned(flow[x][t], t) /\ flow[x][t].start \in Device \cup {None}
             /\ flow[x][t].peer \in Device \cup {None} /\ flow[x][t].me = x /\ made[x][t] > 0
  BY <1>2 DEF StateInv, Star, FlowOK, Flow
<1>3. flow[c][t] = f => Learned(f, t)'
  <2>1. ASSUME flow[c][t] = f PROVE Learned(f, t)'
    <3>1. Learned(f, t) /\ f.start \in Device \cup {None}
      BY <1>2, <2>1 DEF Has
    <3> QED BY <1>1, <3>1
  <2> QED BY <2>1
<1>4. CASE IdleStep(t)
  BY <1>3, <1>4 DEF IdleStep
<1>5. ASSUME NEW d \in Device, NEW in \in SUBSET net, NEW e, MoveStep(d, t, in, e)
      PROVE  Learned(f, t)'
  <2>1. CASE c # d
    BY <1>3, <1>5, <2>1 DEF MoveStep, Around
  <2>2. CASE c = d
    <3>1. PICK g : g = flow[d][t]
      OBVIOUS
    <3>2. f = e.flow /\ Has(d, t) /\ Learned(g, t) /\ g.me = d /\ made[d][t] > 0
          /\ g.start \in Device \cup {None} /\ g.peer \in Device \cup {None}
      BY <1>2, <1>5, <2>2, <3>1 DEF MoveStep
    <3>3. \A m \in in :
            /\ m.from \in Device /\ made[m.from][t] > 0
            /\ m.type = "key" => Known(m.data, t)
            /\ m.type = "accept" => Known(m.data[1], t)
      BY <1>5 DEF MoveStep, Around, StateInv, MsgOK
    <3>4. /\ f.theirKey = g.theirKey \/ \E m \in in : m.type = "key" /\ f.theirKey = m.data
          /\ \/ f.start = g.start \/ f.start = d
             \/ f.start = g.peer /\ \E m \in in : m.type = "start" /\ m.from = g.peer
          /\ f.commitment = g.commitment \/ \E m \in in : m.type = "accept" /\ f.commitment = m.data
      BY <1>5, <3>1, <3>2 DEF MoveStep, Moves
    <3>5. Learned(f, t) /\ (f.start # None => f.start \in Device)
      BY <3>2, <3>3, <3>4 DEF Learned
    <3> QED BY <1>1, <3>5
  <2> QED BY <2>1, <2>2
<1>6. ASSUME NEW d \in Device, NEW out, DropStep(d, t, out)
      PROVE  Learned(f, t)'
  BY <1>3, <1>6 DEF DropStep, Around
<1>7. ASSUME NEW d \in Device, NEW in \in SUBSET net, NewStep(d, t, in, flow'[d][t])
      PROVE  Learned(f, t)'
  <2>1. CASE c # d
    BY <1>3, <1>7, <2>1 DEF NewStep, Around
  <2>2. CASE c = d
    <3>1. \A m \in in : m.from \in Device /\ made[m.from][t] > 0
      BY <1>7 DEF NewStep, Around, StateInv, MsgOK
    <3>2. f.theirKey = None /\ f.commitment = None /\ (f.start = None \/ \E m \in in : f.start = m.from)
      BY <1>7, <2>2 DEF NewStep
    <3>3. Learned(f, t) /\ (f.start # None => f.start \in Device)
      BY <3>1, <3>2 DEF Learned
    <3> QED BY <1>1, <3>3
  <2> QED BY <2>1, <2>2
<1> QED BY <1>4, <1>5, <1>6, <1>7 DEF StepOf

\* The initiator is the first to make a flow.
LEMMA FirstStep ==
  ASSUME StateInv, NEW t \in Txn, StepOf(t), NEW x \in Targets[t], made'[x][t] > 0
  PROVE  made'[Initiator[t]][t] > 0
<1>1. x \in Device /\ Initiator[t] \in Device /\ x # Initiator[t]
  BY TxnAssumption
<1>2. made[Initiator[t]][t] > 0 => made'[Initiator[t]][t] > 0
  BY <1>1, Grows
<1>3. CASE made'[x][t] = made[x][t]
  BY <1>2, <1>3 DEF StateInv
<1>4. CASE made'[x][t] # made[x][t]
  <2>1. PICK d \in Device, in \in SUBSET net : NewStep(d, t, in, flow'[d][t])
    BY <1>1, <1>4 DEF StepOf, IdleStep, MoveStep, DropStep, Around
  <2>2. x = d
    BY <1>1, <1>4, <2>1 DEF NewStep, Around
  <2>3. PICK m \in in : TRUE
    BY <1>1, <2>1, <2>2 DEF NewStep
  <2>4. MsgOK(m) /\ m.to = x /\ m.txn = t
    BY <2>1, <2>2, <2>3 DEF NewStep, Around, StateInv
  <2> QED BY <1>1, <1>2, <2>4 DEF MsgOK
<1> QED BY <1>3, <1>4

LEMMA StateStep ==
  ASSUME StateInv, Step
  PROVE  StateInv'
<1>1. \A t \in Txn : StepOf(t)
  BY DEF Step
<1>2. \A d \in Device, t \in Txn : Star(d, t)'
  BY <1>1, StarStep
<1>3. \A m \in net' : MsgOK(m)'
  <2>1. \A m \in net' : m.txn \in Txn
    BY DEF Step, Shape, StateInv, MsgOK
  <2> QED BY <1>1, <2>1, MessagesStep
<1>4. \A d \in Device, t \in Txn : Has(d, t)' => Learned(flow[d][t], t)'
  <2>1. \A d \in Device, t \in Txn : \A f : flow'[d][t] = f /\ f # NoFlow => Learned(f, t)'
    BY <1>1, LearnedStep
  <2> QED BY <2>1 DEF Has, Learned, Known
<1>6. \A t \in Txn : \A x \in Targets[t] : made'[x][t] > 0 => made'[Initiator[t]][t] > 0
  BY <1>1, FirstStep
<1>5. TypeInv'
  <2>1. \A d \in Device, t \in Txn :
          flow'[d][t] # NoFlow => flow'[d][t] \in Flow /\ flow'[d][t].me = d
    BY <1>2 DEF Star, Has, FlowOK
  <2>2. flow' \in [Device -> [Txn -> Flow \cup {NoFlow}]]
    BY <2>1 DEF Step, Shape
  <2>3. made' \in [Device -> [Txn -> Nat]]
    <3>1. \A d \in Device, t \in Txn : made'[d][t] \in Nat
      BY <1>1, Grows
    <3> QED BY <3>1 DEF Step, Shape
  <2>4. \A x \in shown' : x[1] \in Device
    <3>1. ASSUME NEW d \in Device, NEW t \in Txn, NEW x \in Displayed(flow'[d][t])
          PROVE  x[1] \in Device
      <4>1. flow'[d][t].state = "CompareEmoji" /\ x[1] = flow'[d][t].me
        BY <3>1 DEF Displayed
      <4>2. flow'[d][t] # NoFlow
        BY <4>1 DEF NoFlow
      <4> QED BY <2>1, <4>1, <4>2
    <3> QED BY <3>1 DEF Step, Shape, StateInv, TypeInv
  <2>5. \A v \in verified' : v[3] \in Txn
    BY DEF Step, Shape, StateInv, TypeInv
  <2> QED BY <2>2, <2>3, <2>4, <2>5 DEF TypeInv
<1> QED BY <1>2, <1>3, <1>4, <1>5, <1>6 DEF StateInv

LEMMA InitState == Init => StateInv /\ ChoiceInv
<1> SUFFICES ASSUME Init PROVE StateInv /\ ChoiceInv
  OBVIOUS
<1>1. \A d \in Device, t \in Txn : flow[d][t] = NoFlow /\ made[d][t] = 0
  BY DEF Init
<1>2. StateInv
  BY <1>1, TxnAssumption DEF Init, StateInv, TypeInv, Star, Has
<1>3. ASSUME NEW t \in Txn, NEW x \in Targets[t] PROVE ~Chosen(x, t)
  BY <1>1, TxnAssumption DEF Init, Chosen, ChosenBy
<1> QED BY <1>2, <1>3 DEF ChoiceInv, Choice

THEOREM AlwaysState == Spec => [](StateInv /\ ChoiceInv)
<1>1. StateInv /\ ChoiceInv /\ [Next]_vars => StateInv' /\ ChoiceInv'
  <2> SUFFICES ASSUME StateInv, ChoiceInv, [Next]_vars PROVE StateInv' /\ ChoiceInv'
    OBVIOUS
  <2>1. Step
    BY Steps
  <2>2. \A t \in Txn : Choice(t)'
    BY <2>1, ChoiceStep DEF Step, ChoiceInv
  <2> QED BY <2>1, <2>2, StateStep DEF ChoiceInv
<1> QED BY <1>1, InitState, PTL DEF Spec

\* Whatever is received, in any order, a flow is in one of the states of the code,
\* it fails with a reason, and it is compared only with the key of the other side.
THEOREM TypeCorrect == Spec => []TypeOK
<1>1. StateInv => TypeOK
  <2> SUFFICES ASSUME StateInv, NEW d \in Device, NEW t \in Txn
               PROVE  LET f == flow[d][t]
                      IN /\ f.state \in State
                         /\ f.state = "Failed" <=> f # NoFlow /\ f.err # None
                         /\ f.state \in {"CompareEmoji", "WaitingForMac", "Success"} => f.theirKey # None
    BY DEF TypeOK
  <2>1. CASE Has(d, t)
    BY <2>1 DEF StateInv, Star, FlowOK, Flow, Has
  <2>2. CASE ~Has(d, t)
    BY <2>2 DEF Has, NoFlow, State
  <2> QED BY <2>1, <2>2
<1> QED BY <1>1, AlwaysState, PTL

LEMMA PrivateStep ==
  ASSUME StateInv, NEW t \in Txn, Private(t), StepOf(t)
  PROVE  Private(t)'
<1> DEFINE i == Initiator[t]
<1>1. /\ i \in Device /\ Targets[t] \subseteq Device /\ i \notin Targets[t] /\ None \notin Device
      /\ \A x \in Device : Star(x, t) /\ made[x][t] \in Nat
  BY TxnAssumption, DeviceAssumption DEF StateInv, TypeInv
<1>2. PICK k, p : k = flow'[i][t].key /\ p = flow'[i][t].peer
  OBVIOUS
<1> SUFFICES ASSUME flow'[i][t] # NoFlow PROVE KnownTo(k, p, t)'
  BY <1>2 DEF Private, KnownTo, Has
<1> SUFFICES
      /\ \A m \in net' : m.txn = t /\ m.type = "key" /\ m.data = k => m.to = p
      /\ \A x \in Targets[t] : flow'[x][t] # NoFlow /\ flow'[x][t].theirKey = k => x = p
      /\ \A m \in net' : m.txn = t /\ m.type = "mac" /\ m.to = i /\ k \in m.data => m.from = p
  BY DEF KnownTo, Has
<1>3. ASSUME Has(i, t), flow[i][t].key = k, flow[i][t].peer # None => flow[i][t].peer = p
      PROVE  KnownTo(k, p, t)
  <2>1. KnownTo(k, flow[i][t].peer, t)
    BY <1>3 DEF Private
  <2>2. \A m \in net : m.to \in Device /\ m.from \in Device
    BY DEF StateInv, MsgOK
  <2>3. CASE flow[i][t].peer = p
    BY <2>1, <2>3
  <2>4. CASE flow[i][t].peer = None
    BY <1>1, <2>1, <2>2, <2>4 DEF KnownTo
  <2> QED BY <1>3, <2>3, <2>4
<1>4. CASE IdleStep(t)
  <2>1. flow'[i][t] = flow[i][t] /\ \A x \in Targets[t] : flow'[x][t] = flow[x][t]
    BY <1>1, <1>4 DEF IdleStep
  <2>2. KnownTo(k, p, t)
    BY <1>2, <1>3, <2>1 DEF Has
  <2> QED BY <1>4, <2>1, <2>2 DEF KnownTo, Has, IdleStep
<1>5. ASSUME NEW d \in Device, NEW in \in SUBSET net, NEW e, MoveStep(d, t, in, e), d = i
      PROVE  /\ \A m \in net' : m.txn = t /\ m.type = "key" /\ m.data = k => m.to = p
             /\ \A x \in Targets[t] : flow'[x][t] # NoFlow /\ flow'[x][t].theirKey = k => x = p
             /\ \A m \in net' : m.txn = t /\ m.type = "mac" /\ m.to = i /\ k \in m.data => m.from = p
  <2>1. Has(i, t) /\ flow'[i][t] = e.flow /\ \A x \in Targets[t] : flow'[x][t] = flow[x][t]
    BY <1>1, <1>5 DEF MoveStep, Around
  <2>2. /\ flow[i][t].peer # None => e.flow.peer = flow[i][t].peer
        /\ \A o \in e.out : o.from = i /\ (o.type \in {"key", "mac"} => o.to = e.flow.peer)
    <3>1. Speaks(d, flow[d][t], e)
      BY <1>5, InitiatorMoves
    <3> QED BY <1>5, <3>1 DEF Speaks
  <2>3. flow[i][t].key = k
    BY <1>2, <1>5, <2>1 DEF MoveStep, Moves
  <2>4. KnownTo(k, p, t)
    BY <1>2, <1>3, <2>1, <2>2, <2>3
  <2>5. p # i
    <3>1. Star(i, t)'
      BY <1>1, <1>5, StarStep DEF StepOf
    <3> QED BY <1>1, <1>2, <3>1 DEF Star, Has
  <2>6. \A m \in net' : m.txn = t => m \in net \/ m \in e.out
    BY <1>5 DEF MoveStep, Around
  <2> QED BY <1>2, <2>1, <2>2, <2>4, <2>5, <2>6 DEF KnownTo, Has
<1>6. ASSUME NEW d \in Device, NEW in \in SUBSET net, NEW e, MoveStep(d, t, in, e), d # i
      PROVE  /\ \A m \in net' : m.txn = t /\ m.type = "key" /\ m.data = k => m.to = p
             /\ \A x \in Targets[t] : flow'[x][t] # NoFlow /\ flow'[x][t].theirKey = k => x = p
             /\ \A m \in net' : m.txn = t /\ m.type = "mac" /\ m.to = i /\ k \in m.data => m.from = p
  <2>1. Has(d, t) /\ flow'[d][t] = e.flow /\ \A c \in Device \ {d} : flow'[c][t] = flow[c][t]
    BY <1>6 DEF MoveStep, Around
  <2>2. flow'[i][t] = flow[i][t] /\ Has(i, t)
    BY <1>1, <1>6, <2>1 DEF Has
  <2>3. KnownTo(k, p, t)
    BY <1>2, <1>3, <2>2
  <2>4. PICK f : f = flow[d][t]
    OBVIOUS
  <2>5. d \in Targets[t] /\ f.me = d /\ f.key[1] = d /\ k[1] = i
    BY <1>1, <1>2, <1>6, <2>1, <2>2, <2>4 DEF Star
  <2>6. e.flow.theirKey = k => d = p
    <3>1. e.flow.theirKey = f.theirKey \/ \E m \in in : m.type = "key" /\ e.flow.theirKey = m.data
      BY <1>6, <2>4 DEF MoveStep, Moves
    <3>2. \A m \in in : m \in net /\ m.txn = t /\ m.to = d
      BY <1>6 DEF MoveStep, Around
    <3> QED BY <2>1, <2>3, <2>4, <2>5, <3>1, <3>2 DEF KnownTo
  <2>7. \A o \in e.out :
          /\ o.from = d
          /\ o.type = "key" => o.data = f.key
          /\ o.type = "mac" => o.data = {f.key, f.theirKey}
    BY <1>6, <2>4, <2>5 DEF MoveStep, Moves, SentBy, SharedSecret
  <2>8. \A m \in net' : m.txn = t => m \in net \/ m \in e.out
    BY <1>6 DEF MoveStep, Around
  <2>9. \A m \in e.out : (m.type = "key" => m.data # k) /\ (m.type = "mac" /\ k \in m.data => m.from = p)
    BY <1>6, <2>1, <2>3, <2>4, <2>5, <2>7 DEF KnownTo
  <2>10. \A x \in Targets[t] : flow'[x][t] # NoFlow /\ flow'[x][t].theirKey = k => x = p
    BY <1>1, <2>1, <2>3, <2>6 DEF KnownTo, Has
  <2> QED BY <2>3, <2>8, <2>9, <2>10 DEF KnownTo
<1>7. ASSUME NEW d \in Device, NEW out, DropStep(d, t, out)
      PROVE  /\ \A m \in net' : m.txn = t /\ m.type = "key" /\ m.data = k => m.to = p
             /\ \A x \in Targets[t] : flow'[x][t] # NoFlow /\ flow'[x][t].theirKey = k => x = p
             /\ \A m \in net' : m.txn = t /\ m.type = "mac" /\ m.to = i /\ k \in m.data => m.from = p
  <2>1. d # i /\ flow'[i][t] = flow[i][t] /\ Has(i, t)
    BY <1>1, <1>7 DEF DropStep, Around, Has
  <2>2. \A x \in Targets[t] : flow'[x][t] # NoFlow => flow'[x][t] = flow[x][t]
    BY <1>1, <1>7 DEF DropStep, Around
  <2>3. \A m \in net' : m.txn = t => m \in net \/ m.type = "cancel"
    BY <1>7 DEF DropStep, Around, Sends
  <2>4. KnownTo(k, p, t)
    BY <1>2, <1>3, <2>1
  <2> QED BY <2>2, <2>3, <2>4 DEF KnownTo, Has
<1>8. ASSUME NEW d \in Device, NEW in \in SUBSET net, NewStep(d, t, in, flow'[d][t])
      PROVE  /\ \A m \in net' : m.txn = t /\ m.type = "key" /\ m.data = k => m.to = p
             /\ \A x \in Targets[t] : flow'[x][t] # NoFlow /\ flow'[x][t].theirKey = k => x = p
             /\ \A m \in net' : m.txn = t /\ m.type = "mac" /\ m.to = i /\ k \in m.data => m.from = p
  <2>1. \A m \in net' : m.txn = t => m \in net
    BY <1>8 DEF NewStep, Around
  <2>2. \A c \in Device : c # d => flow'[c][t] = flow[c][t]
    BY <1>8 DEF NewStep, Around
  <2>3. flow'[d][t].theirKey = None /\ made'[d][t] = made[d][t] + 1 /\ flow'[d][t].key = <<d, made'[d][t]>>
    BY <1>8 DEF NewStep
  <2>4. k # None
    <3>1. Star(i, t)'
      BY <1>1, <1>8, StarStep DEF StepOf
    <3>2. flow'[i][t].key \in Key
      BY <3>1 DEF Star, FlowOK, Flow, Has
    <3> QED BY <1>2, <3>2, NoneAssumption
  <2>5. CASE d # i
    <3>1. flow'[i][t] = flow[i][t] /\ Has(i, t)
      BY <1>1, <2>2, <2>5 DEF Has
    <3>2. KnownTo(k, p, t)
      BY <1>2, <1>3, <3>1
    <3> QED BY <1>1, <2>1, <2>2, <2>3, <2>4, <3>2 DEF KnownTo, Has
  <2>6. CASE d = i
    <3>1. k = <<i, made[i][t] + 1>>
      BY <1>2, <2>3, <2>6
    <3>2. ~Known(k, t)
      BY <1>1, <3>1 DEF Known
    <3>3. \A m \in net : m.txn = t => (m.type = "key" => m.data # k) /\ (m.type = "mac" => k \notin m.data)
      BY <3>2 DEF StateInv, MsgOK
    <3>4. \A x \in Targets[t] : Has(x, t) => flow[x][t].theirKey # k
      BY <1>1, <2>4, <3>2 DEF StateInv, Learned
    <3>5. \A x \in Targets[t] : flow'[x][t] = flow[x][t]
      BY <1>1, <2>2, <2>6
    <3> QED BY <2>1, <3>3, <3>4, <3>5 DEF Has
  <2> QED BY <2>5, <2>6
<1> QED BY <1>4, <1>5, <1>6, <1>7, <1>8 DEF StepOf

\* A mac with the keys of a flow is from its peer.
LEMMA MacFrom ==
  ASSUME StateInv, NEW t \in Txn, Private(t), NEW d \in Device, Has(d, t),
         NEW m \in net, m.txn = t, m.to = d, m.type = "mac", m.data = SharedSecret(flow[d][t])
  PROVE  m.from = flow[d][t].peer /\ m.from \in Device
<1>1. Star(d, t) /\ MsgOK(m) /\ Initiator[t] \notin Targets[t]
  BY TxnAssumption DEF StateInv
<1>2. CASE d = Initiator[t]
  BY <1>1, <1>2 DEF Private, KnownTo, SharedSecret, MsgOK
<1>3. CASE d # Initiator[t]
  BY <1>1, <1>3 DEF Star, MsgOK
<1> QED BY <1>2, <1>3

LEMMA ConfirmedStep ==
  ASSUME StateInv, NEW t \in Txn, Private(t), Confirmed(t), StepOf(t)
  PROVE  Confirmed(t)'
<1> SUFFICES
      /\ \A m \in net' : m.txn = t /\ m.type = "mac" => <<m.from, m.to, t>> \in confirmed'
      /\ \A c \in Device : flow'[c][t] # NoFlow => Waiting(flow'[c][t], confirmed', c, t)
      /\ \A v \in verified' : v[3] = t => v \in confirmed' /\ <<v[2], v[1], t>> \in confirmed'
  BY DEF Confirmed, Has
<1>1. \A v \in confirmed : v \in confirmed'
  BY DEF StepOf, IdleStep, MoveStep, DropStep, NewStep, Around
<1>2. \A m \in net : m.txn = t /\ m.type = "mac" => <<m.from, m.to, t>> \in confirmed'
  BY <1>1 DEF Confirmed
<1>3. \A v \in verified : v[3] = t => v \in confirmed' /\ <<v[2], v[1], t>> \in confirmed'
  BY <1>1 DEF Confirmed
<1>4. ASSUME NEW c \in Device, flow'[c][t] = flow[c][t], flow'[c][t] # NoFlow
      PROVE  Waiting(flow'[c][t], confirmed', c, t)
  <2>1. Waiting(flow[c][t], confirmed, c, t)
    BY <1>4 DEF Confirmed, Has
  <2> QED BY <1>1, <1>4, <2>1 DEF Waiting
<1>5. CASE IdleStep(t)
  BY <1>2, <1>3, <1>4, <1>5 DEF IdleStep
<1>6. ASSUME NEW d \in Device, NEW in \in SUBSET net, NEW e, MoveStep(d, t, in, e)
      PROVE  /\ \A m \in net' : m.txn = t /\ m.type = "mac" => <<m.from, m.to, t>> \in confirmed'
             /\ \A c \in Device : flow'[c][t] # NoFlow => Waiting(flow'[c][t], confirmed', c, t)
             /\ \A v \in verified' : v[3] = t => v \in confirmed' /\ <<v[2], v[1], t>> \in confirmed'
  <2>1. PICK f, g : f = flow[d][t] /\ g = e.flow
    OBVIOUS
  <2>2. /\ Has(d, t) /\ FlowOK(f) /\ f.me = d /\ f.txn = t /\ flow'[d][t] = g
        /\ Waiting(f, confirmed, d, t)
    BY <1>6, <2>1 DEF MoveStep, StateInv, Star, Confirmed
  <2>3. f.peer # None => g.peer = f.peer
    BY <1>6, <2>1 DEF MoveStep, Moves
  <2>4. \A m \in net' : m.txn = t => m \in net \/ m \in e.out
    BY <1>6 DEF MoveStep, Around
  <2>5. \A o \in e.out : o.type = "mac" => <<o.from, o.to, t>> \in confirmed'
    <3>1. \A o \in e.out : o.type = "mac" =>
            o.from = d /\ o.to \in f.peers /\ f.peer # None /\ <<d, f.peer, t>> \in confirmed'
      BY <1>6, <2>1, <2>2 DEF MoveStep, Moves, SentBy
    <3> QED BY <2>2, <3>1 DEF FlowOK
  <2>6. g.state = "WaitingForMac" => f.peer # None /\ <<d, f.peer, t>> \in confirmed'
    <3>1. g.state = "WaitingForMac" =>
            f.state = "WaitingForMac" \/ (f.peer # None /\ <<d, f.peer, t>> \in confirmed')
      BY <1>6, <2>1, <2>2 DEF MoveStep, Moves
    <3> QED BY <1>1, <2>2, <3>1 DEF Waiting
  <2>7. "mac" \in g.seen => f.peer # None /\ <<f.peer, d, t>> \in confirmed'
    <3>1. "mac" \in g.seen => "mac" \in f.seen \/ \E m \in in : m.type = "mac" /\ m.data = SharedSecret(f)
      BY <1>6, <2>1 DEF MoveStep, Moves
    <3>2. \A m \in in : m \in net /\ m.txn = t /\ m.to = d
      BY <1>6 DEF MoveStep, Around
    <3>3. \A m \in in : m.type = "mac" /\ m.data = SharedSecret(f) => m.from = f.peer /\ m.from \in Device
      BY <2>1, <2>2, <3>2, MacFrom
    <3> QED BY <1>1, <1>2, <2>2, <3>1, <3>2, <3>3, DeviceAssumption DEF Waiting
  <2>8. Waiting(g, confirmed', d, t)
    BY <2>3, <2>6, <2>7 DEF Waiting
  <2>9. \A v \in e.verified : v \in confirmed' /\ <<v[2], v[1], t>> \in confirmed'
    <3>1. \A v \in e.verified :
            /\ v = <<d, f.peer, t>> /\ "mac" \in g.seen
            /\ f.state = "WaitingForMac" \/ (f.peer # None /\ <<d, f.peer, t>> \in confirmed')
      BY <1>6, <2>1, <2>2 DEF MoveStep, Moves
    <3> QED BY <1>1, <2>2, <2>7, <3>1 DEF Waiting
  <2>10. \A c \in Device : c # d => flow'[c][t] = flow[c][t]
    BY <1>6 DEF MoveStep, Around
  <2>11. \A v \in verified' : v[3] = t => v \in verified \/ v \in e.verified
    BY <1>6 DEF MoveStep
  <2>12. ASSUME NEW c \in Device, flow'[c][t] # NoFlow PROVE Waiting(flow'[c][t], confirmed', c, t)
    <3>1. CASE c = d
      BY <2>2, <2>8, <3>1
    <3>2. CASE c # d
      BY <1>4, <2>10, <2>12, <3>2
    <3> QED BY <3>1, <3>2
  <2> QED BY <1>2, <1>3, <2>4, <2>5, <2>9, <2>11, <2>12
<1>7. ASSUME NEW d \in Device, NEW out, DropStep(d, t, out)
      PROVE  /\ \A m \in net' : m.txn = t /\ m.type = "mac" => <<m.from, m.to, t>> \in confirmed'
             /\ \A c \in Device : flow'[c][t] # NoFlow => Waiting(flow'[c][t], confirmed', c, t)
             /\ \A v \in verified' : v[3] = t => v \in confirmed' /\ <<v[2], v[1], t>> \in confirmed'
  <2>1. \A c \in Device : flow'[c][t] # NoFlow => flow'[c][t] = flow[c][t]
    BY <1>7 DEF DropStep, Around
  <2>2. \A m \in net' : m.txn = t => m \in net \/ m.type = "cancel"
    BY <1>7 DEF DropStep, Around, Sends
  <2>3. \A v \in verified' : v[3] = t => v \in verified
    BY <1>7 DEF DropStep
  <2> QED BY <1>2, <1>3, <1>4, <2>1, <2>2, <2>3
<1>8. ASSUME NEW d \in Device, NEW in \in SUBSET net, NewStep(d, t, in, flow'[d][t])
      PROVE  /\ \A m \in net' : m.txn = t /\ m.type = "mac" => <<m.from, m.to, t>> \in confirmed'
             /\ \A c \in Device : flow'[c][t] # NoFlow => Waiting(flow'[c][t], confirmed', c, t)
             /\ \A v \in verified' : v[3] = t => v \in confirmed' /\ <<v[2], v[1], t>> \in confirmed'
  <2>1. \A c \in Device : c # d => flow'[c][t] = flow[c][t]
    BY <1>8 DEF NewStep, Around
  <2>2. Waiting(flow'[d][t], confirmed', d, t)
    <3>1. flow'[d][t].state = "PromptStartVerification" /\ flow'[d][t].seen = {}
      BY <1>8 DEF NewStep
    <3> QED BY <3>1 DEF Waiting
  <2>3. \A m \in net' : m.txn = t => m \in net
    BY <1>8 DEF NewStep, Around
  <2>4. \A v \in verified' : v[3] = t => v \in verified
    BY <1>8 DEF NewStep
  <2>5. ASSUME NEW c \in Device, flow'[c][t] # NoFlow PROVE Waiting(flow'[c][t], confirmed', c, t)
    <3>1. CASE c = d
      BY <2>2, <3>1
    <3>2. CASE c # d
      BY <1>4, <2>1, <2>5, <3>2
    <3> QED BY <3>1, <3>2
  <2> QED BY <1>2, <1>3, <2>3, <2>4, <2>5
<1> QED BY <1>5, <1>6, <1>7, <1>8 DEF StepOf

LEMMA AlwaysConfirmed == Spec => [](StateInv /\ ConfirmedInv)
<1>1. Init => ConfirmedInv
  BY TxnAssumption DEF Init, ConfirmedInv, Private, KnownTo, Confirmed, Has
<1>2. StateInv /\ ChoiceInv /\ ConfirmedInv /\ [Next]_vars => ConfirmedInv'
  <2> SUFFICES ASSUME StateInv, ChoiceInv, ConfirmedInv, [Next]_vars, NEW t \in Txn
               PROVE  Private(t)' /\ Confirmed(t)'
    BY DEF ConfirmedInv
  <2>1. StepOf(t)
    BY Steps DEF Step
  <2> QED BY <2>1, PrivateStep, ConfirmedStep DEF ConfirmedInv
<1> QED BY <1>1, <1>2, AlwaysState, PTL DEF Spec

\* A device is marked as verified only after "They match!" on both sides, for any
\* order of keys, macs and glare: the initiator gives its key to one device, so
\* that a mac over it is from that device, and acceptDevice waits for its user.
THEOREM BothConfirmed == Spec => []VerifiedConfirmed
<1>1. StateInv /\ ConfirmedInv => VerifiedConfirmed
  BY DEF VerifiedConfirmed, StateInv, TypeInv, ConfirmedInv, Confirmed
<1> QED BY <1>1, AlwaysConfirmed, PTL

----------------------------------------------------------------------------
\* The flows that a device makes again are not among those that ask, so that one
\* target gets the start of the initiator.

AskedBy(msgs, f, x, t) ==
  \/ \E m \in msgs : m.txn = t /\ m.type = "start" /\ m.from = Initiator[t] /\ m.to = x
  \/ f # NoFlow /\ (f.start = Initiator[t] \/ "accept" \in f.sent)
Asked(x, t) == AskedBy(net, flow[x][t], x, t)

Asks(t) ==
  /\ \A m \in net : m.txn = t /\ m.type = "request" => m.from = Initiator[t]
  /\ \A x \in Targets[t] :
       Has(x, t) /\ flow[x][t].state = "PromptStartVerification" => flow[x][t].role = "receiver"
  /\ Has(Initiator[t], t) /\ flow[Initiator[t]][t].role = "receiver"
       => flow[Initiator[t]][t].start # None
  /\ \A x, y \in Targets[t] : Asked(x, t) /\ Asked(y, t) => x = y
  /\ \A x \in Targets[t] : Asked(x, t) =>
       /\ made[Initiator[t]][t] > 0
       /\ Has(Initiator[t], t) /\ flow[Initiator[t]][t].role = "sender"
            => flow[Initiator[t]][t].peer = x

\* Who sends start, and when roles change.
Roles(f, h, out) ==
  /\ h.role = "receiver" => (f.role = "receiver" /\ h.start = f.start) \/ (h.start = f.peer /\ f.peer # None)
  /\ h.role = "sender" => f.role = "sender" \/ f.start = None
  /\ h.state = "PromptStartVerification" =>
       f.state = "PromptStartVerification" /\ h.role \in {f.role, "receiver"}
  /\ \A o \in out : o.type = "start" => h.role = "sender"

LEMMA TurnRoles ==
  ASSUME NEW f, NEW h, NEW out, NEW in, Turns(f, h, out, in), FlowOK(f), FlowOK(h)
  PROVE  Roles(f, h, out)
<1>1. f.role \in {"sender", "receiver"} /\ h.role \in {"sender", "receiver"}
  BY DEF FlowOK, Flow
<1>2. CASE Rests(f, h, out)
  BY <1>1, <1>2 DEF Rests, Roles, Basic
<1>3. CASE Starts(f, h, out)
  BY <1>1, <1>3 DEF Starts, Roles
<1>4. CASE Accepts(f, h, out, in)
  BY <1>1, <1>4 DEF Accepts, Roles
<1>5. CASE Commits(f, h, out, in)
  BY <1>1, <1>5 DEF Commits, Roles
<1>6. CASE Learns(f, h, out, in)
  BY <1>1, <1>6 DEF Learns, Roles
<1>7. CASE Fails(f, h, out)
  BY <1>1, <1>7 DEF Fails, Roles, Basic
<1> QED BY <1>2, <1>3, <1>4, <1>5, <1>6, <1>7 DEF Turns

LEMMA MoveRoles ==
  ASSUME StateInv, NEW t \in Txn, NEW d \in Device, NEW in \in SUBSET net, NEW e,
         MoveStep(d, t, in, e)
  PROVE  Roles(flow[d][t], e.flow, e.out) /\ FlowOK(flow[d][t]) /\ FlowOK(e.flow)
<1>1. FlowOK(flow[d][t])
  BY DEF StateInv, Star, MoveStep
<1>2. FlowOK(e.flow) /\ Turns(flow[d][t], e.flow, e.out, in)
  BY DEF MoveStep, Moves
<1> QED BY <1>1, <1>2, TurnRoles

\* The flow of the initiator.
LEMMA InitiatorStep ==
  ASSUME StateInv, NEW t \in Txn, Asks(t), StepOf(t),
         NEW i, i = Initiator[t], NEW h, h = flow'[i][t], h # NoFlow
  PROVE  /\ h.role = "receiver" => h.start # None
         /\ h.role = "sender" =>
              \/ made[i][t] = 0
              \/ /\ Has(i, t) /\ flow[i][t].role = "sender"
                 /\ flow[i][t].peer # None => h.peer = flow[i][t].peer
<1>1. i \in Device /\ i \notin Targets[t]
  BY TxnAssumption
<1>2. CASE flow[i][t] = h
  BY <1>2 DEF Asks, Has
<1>3. CASE IdleStep(t)
  BY <1>1, <1>2, <1>3 DEF IdleStep
<1>4. ASSUME NEW d \in Device, NEW in \in SUBSET net, NEW e, MoveStep(d, t, in, e), d = i
      PROVE  /\ h.role = "receiver" => h.start # None
             /\ h.role = "sender" =>
                  /\ Has(i, t) /\ flow[i][t].role = "sender"
                  /\ flow[i][t].peer # None => h.peer = flow[i][t].peer
  <2>1. PICK f : f = flow[i][t]
    OBVIOUS
  <2>2. h = e.flow /\ Has(i, t) /\ (f.peer # None => h.peer = f.peer)
    BY <1>4, <2>1 DEF MoveStep, Moves
  <2>3. Roles(f, h, e.out) /\ f.role \in {"sender", "receiver"}
    <3>1. Roles(flow[d][t], e.flow, e.out) /\ FlowOK(flow[d][t])
      BY <1>4, MoveRoles
    <3> QED BY <1>4, <2>1, <2>2, <3>1 DEF FlowOK, Flow
  <2>4. f.role = "receiver" => f.start # None
    BY <2>1, <2>2 DEF Asks
  <2> QED BY <2>1, <2>2, <2>3, <2>4 DEF Roles
<1>5. ASSUME NEW d \in Device, NEW in \in SUBSET net, NEW e, MoveStep(d, t, in, e), d # i
      PROVE  flow[i][t] = h
  BY <1>1, <1>5 DEF MoveStep, Around
<1>6. ASSUME NEW d \in Device, NEW out, DropStep(d, t, out) PROVE flow[i][t] = h
  BY <1>1, <1>6 DEF DropStep, Around
<1>7. ASSUME NEW d \in Device, NEW in \in SUBSET net, NEW g, g = flow'[d][t], NewStep(d, t, in, g)
      PROVE  \/ flow[i][t] = h
             \/ h.role = "sender" /\ made[i][t] = 0
             \/ h.role = "receiver" /\ h.start # None
  <2>1. CASE d # i
    BY <1>1, <1>7, <2>1 DEF NewStep, Around
  <2>2. CASE d = i
    <3>1. \A m \in in : /\ m.txn = t /\ m.to = i /\ m \in net
                        /\ m.type # "request" /\ m.from # None
      <4>1. \A m \in in : m.txn = t /\ m.to = i /\ m \in net /\ MsgOK(m)
        BY <1>7, <2>2 DEF NewStep, Around, StateInv
      <4> QED BY <1>1, <4>1, DeviceAssumption DEF Asks, MsgOK
    <3> QED BY <1>7, <2>2, <3>1 DEF NewStep
  <2> QED BY <2>1, <2>2
<1> QED BY <1>2, <1>3, <1>4, <1>5, <1>6, <1>7 DEF StepOf

\* A target is asked by the flow that has asked all, when it has taken it.
Invites(i, x, t) ==
  /\ Has(i, t) /\ flow'[i][t] # NoFlow
  /\ flow'[i][t].role = "sender" /\ flow'[i][t].peer = x

LEMMA AskedStep ==
  ASSUME StateInv, NEW t \in Txn, Asks(t), StepOf(t), NEW x \in Targets[t],
         AskedBy(net', flow'[x][t], x, t), ~Asked(x, t)
  PROVE  Invites(Initiator[t], x, t)
<1>1. x \in Device /\ Initiator[t] \in Device /\ x # Initiator[t]
  BY TxnAssumption
<1>2. ~IdleStep(t)
  BY <1>1 DEF IdleStep, Asked, AskedBy
<1>3. ASSUME NEW d \in Device, NEW out, DropStep(d, t, out) PROVE FALSE
  <2>1. \A m \in net' : m.txn = t => m \in net \/ m.type = "cancel"
    BY <1>3 DEF DropStep, Around, Sends
  <2>2. flow'[x][t] = NoFlow \/ flow'[x][t] = flow[x][t]
    BY <1>1, <1>3 DEF DropStep, Around
  <2> QED BY <2>1, <2>2 DEF Asked, AskedBy
<1>4. ASSUME NEW d \in Device, NEW in \in SUBSET net, NEW g, g = flow'[d][t], NewStep(d, t, in, g)
      PROVE  FALSE
  <2>1. \A m \in net' : m.txn = t => m \in net
    BY <1>4 DEF NewStep, Around
  <2>2. CASE x # d
    <3>1. flow'[x][t] = flow[x][t]
      BY <1>1, <1>4, <2>2 DEF NewStep, Around
    <3> QED BY <2>1, <3>1 DEF Asked, AskedBy
  <2>3. CASE x = d
    <3>1. g.sent = {} /\ (g.start = None \/ \E m \in in : m.type = "start" /\ g.start = m.from)
      BY <1>4 DEF NewStep
    <3>2. \A m \in in : m \in net /\ m.txn = t /\ m.to = x
      BY <1>4, <2>3 DEF NewStep, Around
    <3>3. g.start # Initiator[t]
      BY <1>1, <3>1, <3>2, DeviceAssumption DEF Asked, AskedBy
    <3> QED BY <1>4, <2>1, <2>3, <3>1, <3>3 DEF Asked, AskedBy
  <2> QED BY <2>2, <2>3
<1>5. PICK d \in Device, in \in SUBSET net : \E e : MoveStep(d, t, in, e)
  BY <1>2, <1>3, <1>4 DEF StepOf
<1>6. PICK e : MoveStep(d, t, in, e)
  BY <1>5
<1>7. /\ flow'[d][t] = e.flow /\ Has(d, t) /\ (x # d => flow'[x][t] = flow[x][t])
      /\ \A m \in net' : m.txn = t => m \in net \/ m \in e.out
  BY <1>1, <1>6 DEF MoveStep, Around
<1>8. Speaks(d, flow[d][t], e) /\ Roles(flow[d][t], e.flow, e.out)
  BY <1>6, InitiatorMoves, MoveRoles
<1>9. CASE d = Initiator[t]
  <2>1. \E m \in e.out : m.type = "start" /\ m.to = x
    BY <1>1, <1>7, <1>9 DEF Asked, AskedBy
  <2>2. e.flow.role = "sender" /\ e.flow.peer = x /\ e.flow # NoFlow
    BY <1>8, <2>1 DEF Roles, Speaks
  <2> QED BY <1>7, <1>9, <2>2 DEF Invites
<1>10. CASE d # Initiator[t]
  <2>1. \A m \in e.out : m.from # Initiator[t]
    BY <1>8, <1>10 DEF Speaks
  <2>2. x = d
    BY <1>7, <2>1 DEF Asked, AskedBy
  <2>3. flow[x][t].peer = Initiator[t] /\ flow[x][t].me = x
    BY <1>1, <1>7, <2>2 DEF StateInv, Star
  <2>4. \A m \in in : m \in net /\ m.txn = t /\ m.to = x
    BY <1>6, <2>2 DEF MoveStep, Around
  <2>5. e.flow.start = Initiator[t] \/ "accept" \in e.flow.sent
    BY <1>7, <2>1, <2>2 DEF Asked, AskedBy
  <2>6. /\ "accept" \in e.flow.sent => "accept" \in flow[x][t].sent \/ e.flow.start = Initiator[t]
        /\ \/ e.flow.start = flow[x][t].start \/ e.flow.start = x
           \/ \E m \in in : m.type = "start" /\ m.from = Initiator[t]
    BY <1>6, <2>2, <2>3 DEF MoveStep, Moves
  <2>7. Asked(x, t)
    BY <1>1, <1>7, <2>2, <2>4, <2>5, <2>6 DEF Asked, AskedBy, Has
  <2> QED BY <2>7
<1> QED BY <1>9, <1>10

\* Requests come from the initiator, and a target that asks has been asked.
LEMMA RequestStep ==
  ASSUME StateInv, NEW t \in Txn, Asks(t), StepOf(t)
  PROVE  /\ \A m \in net' : m.txn = t /\ m.type = "request" => m.from = Initiator[t]
         /\ \A x \in Targets[t] :
              flow'[x][t] # NoFlow /\ flow'[x][t].state = "PromptStartVerification"
              => flow'[x][t].role = "receiver"
<1>1. Initiator[t] \in Device /\ Targets[t] \subseteq Device /\ Initiator[t] \notin Targets[t]
  BY TxnAssumption
<1>2. \A m \in net : m.txn = t /\ m.type = "request" => m.from = Initiator[t]
  BY DEF Asks
<1>3. \A x \in Targets[t] : flow[x][t] # NoFlow /\ flow[x][t].state = "PromptStartVerification"
                            => flow[x][t].role = "receiver"
  BY DEF Asks, Has
<1>4. CASE IdleStep(t)
  BY <1>1, <1>2, <1>3, <1>4 DEF IdleStep
<1>5. ASSUME NEW d \in Device, NEW in \in SUBSET net, NEW e, MoveStep(d, t, in, e)
      PROVE  /\ \A m \in net' : m.txn = t /\ m.type = "request" => m.from = Initiator[t]
             /\ \A x \in Targets[t] :
                  flow'[x][t] # NoFlow /\ flow'[x][t].state = "PromptStartVerification"
                  => flow'[x][t].role = "receiver"
  <2>1. PICK f : f = flow[d][t]
    OBVIOUS
  <2>2. /\ flow'[d][t] = e.flow /\ f # NoFlow /\ f.me = d
        /\ \A c \in Device \ {d} : flow'[c][t] = flow[c][t]
        /\ \A m \in net' : m.txn = t => m \in net \/ m \in e.out
    BY <1>5, <2>1 DEF MoveStep, Around, Has, StateInv, Star
  <2>3. \A o \in e.out : o.from = d /\ (o.type = "request" => f.role = "sender" /\ f.state = "PromptStartVerification")
    BY <1>5, <2>1, <2>2 DEF MoveStep, Moves, SentBy
  <2>4. d = Initiator[t] \/ d \in Targets[t]
    BY <1>5 DEF MoveStep, StateInv, Star
  <2>5. \A m \in net' : m.txn = t /\ m.type = "request" => m.from = Initiator[t]
    BY <1>2, <1>3, <2>1, <2>2, <2>3, <2>4
  <2>6. d \in Targets[t] /\ e.flow.state = "PromptStartVerification" => e.flow.role = "receiver"
    <3>1. Roles(f, e.flow, e.out)
      BY <1>5, <2>1, MoveRoles
    <3> QED BY <1>3, <2>1, <2>2, <3>1 DEF Roles
  <2> QED BY <1>1, <1>3, <2>2, <2>5, <2>6
<1>6. ASSUME NEW d \in Device, NEW out, DropStep(d, t, out)
      PROVE  /\ \A m \in net' : m.txn = t /\ m.type = "request" => m.from = Initiator[t]
             /\ \A x \in Targets[t] :
                  flow'[x][t] # NoFlow /\ flow'[x][t].state = "PromptStartVerification"
                  => flow'[x][t].role = "receiver"
  <2>1. \A m \in net' : m.txn = t => m \in net \/ m.type = "cancel"
    BY <1>6 DEF DropStep, Around, Sends
  <2>2. \A x \in Targets[t] : flow'[x][t] # NoFlow => flow'[x][t] = flow[x][t]
    BY <1>1, <1>6 DEF DropStep, Around
  <2> QED BY <1>2, <1>3, <2>1, <2>2
<1>7. ASSUME NEW d \in Device, NEW in \in SUBSET net, NEW g, g = flow'[d][t], NewStep(d, t, in, g)
      PROVE  /\ \A m \in net' : m.txn = t /\ m.type = "request" => m.from = Initiator[t]
             /\ \A x \in Targets[t] :
                  flow'[x][t] # NoFlow /\ flow'[x][t].state = "PromptStartVerification"
                  => flow'[x][t].role = "receiver"
  <2>1. \A m \in net' : m.txn = t => m \in net
    BY <1>7 DEF NewStep, Around
  <2>2. \A c \in Device \ {d} : flow'[c][t] = flow[c][t]
    BY <1>7 DEF NewStep, Around
  <2>3. d \in Targets[t] => g.role = "receiver"
    BY <1>1, <1>7 DEF NewStep
  <2> QED BY <1>1, <1>2, <1>3, <1>7, <2>1, <2>2, <2>3
<1> QED BY <1>4, <1>5, <1>6, <1>7 DEF StepOf

LEMMA AsksStep ==
  ASSUME StateInv, NEW t \in Txn, Asks(t), StepOf(t)
  PROVE  Asks(t)'
<1>1. PICK i \in Device : i = Initiator[t]
  BY TxnAssumption
<1>2. made[i][t] \in Nat /\ made'[i][t] \in Nat /\ made[i][t] <= made'[i][t] /\ (Has(i, t) => made[i][t] > 0)
  BY Grows DEF StateInv, Star
<1>3. /\ \A x, y \in Targets[t] : Asked(x, t) /\ Asked(y, t) => x = y
      /\ \A x \in Targets[t] : Asked(x, t) =>
           made[i][t] > 0 /\ (Has(i, t) /\ flow[i][t].role = "sender" => flow[i][t].peer = x)
  BY <1>1 DEF Asks
<1>4. ASSUME flow'[i][t] # NoFlow
      PROVE  /\ flow'[i][t].role = "receiver" => flow'[i][t].start # None
             /\ flow'[i][t].role = "sender" =>
                  \/ made[i][t] = 0
                  \/ /\ Has(i, t) /\ flow[i][t].role = "sender"
                     /\ flow[i][t].peer # None => flow'[i][t].peer = flow[i][t].peer
  BY <1>1, <1>4, InitiatorStep
<1>5. \A x \in Targets[t] : x # None
  BY TxnAssumption, DeviceAssumption
<1>6. ASSUME NEW x \in Targets[t], AskedBy(net', flow'[x][t], x, t)
      PROVE  /\ made'[i][t] > 0
             /\ flow'[i][t] # NoFlow /\ flow'[i][t].role = "sender" => flow'[i][t].peer = x
  <2>1. CASE Asked(x, t)
    BY <1>2, <1>3, <1>4, <1>5, <2>1
  <2>2. CASE ~Asked(x, t)
    BY <1>1, <1>2, <1>6, <2>2, AskedStep DEF Invites
  <2> QED BY <2>1, <2>2
<1>7. ASSUME NEW x \in Targets[t], NEW y \in Targets[t],
             AskedBy(net', flow'[x][t], x, t), AskedBy(net', flow'[y][t], y, t)
      PROVE  x = y
  <2>1. CASE Asked(x, t) /\ Asked(y, t)
    BY <1>3, <2>1
  <2>2. CASE ~(Asked(x, t) /\ Asked(y, t))
    <3>1. flow'[i][t] # NoFlow /\ flow'[i][t].role = "sender"
      BY <1>1, <1>7, <2>2, AskedStep DEF Invites
    <3> QED BY <1>6, <1>7, <3>1
  <2> QED BY <2>1, <2>2
<1> QED BY <1>1, <1>4, <1>6, <1>7, RequestStep DEF Asks, Asked, Has

AsksInv == \A t \in Txn : Asks(t)

\* Of the devices that verifyOneOfDevices asks, at most one sends accept, whatever
\* ready messages cross: the flow of the initiator narrows to one device for
\* good, and a flow that it makes after that never sends start.
THEOREM OnlyOneAccepts == Spec => []OneAccepts
<1>1. Init => AsksInv
  BY TxnAssumption DEF Init, AsksInv, Asks, Asked, AskedBy, Has
<1>2. StateInv /\ ChoiceInv /\ AsksInv /\ [Next]_vars => AsksInv'
  <2> SUFFICES ASSUME StateInv, ChoiceInv, AsksInv, [Next]_vars, NEW t \in Txn PROVE Asks(t)'
    BY DEF AsksInv
  <2> QED BY Steps, AsksStep DEF Step, AsksInv
<1>3. AsksInv => OneAccepts
  <2> SUFFICES ASSUME AsksInv, NEW t \in Txn, NEW d \in Targets[t], NEW e \in Targets[t],
                      flow[d][t] # NoFlow, flow[e][t] # NoFlow,
                      "accept" \in flow[d][t].sent \cap flow[e][t].sent
               PROVE  d = e
    BY DEF OneAccepts
  <2>1. Asked(d, t) /\ Asked(e, t)
    BY DEF Asked, AskedBy
  <2> QED BY <2>1 DEF AsksInv, Asks
<1> QED BY <1>1, <1>2, <1>3, AlwaysState, PTL DEF Spec

----------------------------------------------------------------------------
\* Two flows that talk to each other, f of device d and g of device p; a and b are
\* the types of the messages under way from d to p and from p to d.

Met(f, p) == f # NoFlow /\ f.peer = p

\* d has taken the start of p.
Took(f, g, a, d, p) ==
  \/ Met(f, p) /\ f.start = p
  \/ "accept" \in a
  \/ Met(g, d) /\ g.commitment # None

Agree(f, g, a, b, d, p) ==
  /\ Took(f, g, a, d, p) =>
       /\ Met(g, d) => g.role = "sender" /\ g.start = p /\ "start" \in g.sent
       /\ Met(f, p) => f.role = "receiver" /\ f.start = p
       /\ "start" \in a => p < d
  /\ "start" \in b /\ Met(g, d) => "start" \in g.sent
  /\ "accept" \in a /\ Met(f, p) => "accept" \in f.sent
  /\ Met(g, d) /\ g.commitment # None =>
       g.commitment = <<<<d, 1>>, p>> /\ (Met(f, p) => "accept" \in f.sent)
  /\ "key" \in b =>
       /\ Met(g, d) => "key" \in g.sent
       /\ Met(f, p) => f.theirKey = None /\ ("accept" \in f.sent \/ "key" \in f.sent)
  /\ Met(f, p) /\ f.theirKey # None =>
       f.theirKey = <<p, 1>> /\ (Met(g, d) => "key" \in g.sent)

Pair(f, g, a, b, d, p) == Agree(f, g, a, b, d, p) /\ Agree(g, f, b, a, p, d)

\* One flow, in the exchange of keys.
Own(f) ==
  /\ f.state = "PromptStartVerification" => \A s \in Basic : s \notin f.sent
  /\ f.state = "WaitingForOtherToAccept" => f.role = "sender"
  /\ "accept" \in f.sent => f.role = "receiver" /\ f.start = f.peer /\ f.peer # None
  /\ "start" \in f.sent => f.start = f.me \/ "accept" \in f.sent
  /\ f.start = f.me => "start" \in f.sent
  /\ f.role = "receiver" /\ "start" \in f.sent => "accept" \in f.sent
  /\ "key" \in f.sent => "accept" \in f.sent \/ f.commitment # None
  /\ f.state \in {"CompareEmoji", "WaitingForMac"} =>
       IF f.role = "sender" THEN f.commitment # None ELSE "key" \in f.sent
  /\ f.peer = None =>
       /\ f.start = None /\ f.commitment = None /\ f.theirKey = None
       /\ \A s \in Basic : s \notin f.sent
  /\ f.err \notin Alarm
Side(f, d) == f # NoFlow /\ f.me = d /\ f.role \in {"sender", "receiver"} /\ Own(f)

\* Messages that are lost, received or of other types.
Less(a, a2) == \A s \in Basic : s \in a2 => s \in a

LEMMA PairLess ==
  ASSUME NEW f, NEW g, NEW a, NEW b, NEW a2, NEW b2, NEW d, NEW p,
         Pair(f, g, a, b, d, p), Less(a, a2), Less(b, b2)
  PROVE  Pair(f, g, a2, b2, d, p)
BY DEF Pair, Agree, Took, Basic, Less

\* Only a flow that has met the other one counts.
LEMMA PairUnmet ==
  ASSUME NEW f, NEW g, NEW h, NEW a, NEW b, NEW a2, NEW b2, NEW d, NEW p,
         Pair(f, g, a, b, d, p), ~Met(h, p), Less(a, a2), Less(b, b2)
  PROVE  Pair(h, g, a2, b2, d, p)
BY DEF Pair, Agree, Took, Basic, Less

\* The messages that a flow gets from its peer.
Got(in, b, b2, d, p) ==
  /\ b2 \subseteq b
  /\ \A m \in in :
       /\ m.type = "start" /\ m.from = p => "start" \in b
       /\ m.type = "accept" => "accept" \in b /\ m.data = <<<<p, 1>>, d>>
       /\ m.type = "key" => "key" \in b /\ "key" \notin b2 /\ m.data = <<p, 1>>
Gives(out, a, a2) == \A s \in a2 : s \in a \/ \E o \in out : o.type = s

\* The flow f of d becomes h.
Meeting(f, g, h, d, p) ==
  /\ d \in Device /\ p \in Device /\ d # p /\ d # None /\ p # None
  /\ Side(f, d) /\ f.peer = p /\ (g # NoFlow => Side(g, p))
  /\ h # NoFlow /\ h.me = d /\ h.peer = p

LEMMA RestsPair ==
  ASSUME NEW f, NEW g, NEW h, NEW a, NEW b, NEW a2, NEW b2, NEW d, NEW p, NEW out,
         Meeting(f, g, h, d, p), Pair(f, g, a, b, d, p), Gives(out, a, a2), b2 \subseteq b,
         Rests(f, h, out)
  PROVE  Own(h) /\ Pair(h, g, a2, b2, d, p)
<1>1. Own(h)
  BY DEF Meeting, Side, Own, Rests, Basic
<1>2. /\ "start" \in a2 => "start" \in a
      /\ "accept" \in a2 => "accept" \in a
      /\ "key" \in a2 => "key" \in a
      /\ "start" \in h.sent <=> "start" \in f.sent
      /\ "accept" \in h.sent <=> "accept" \in f.sent
      /\ "key" \in h.sent <=> "key" \in f.sent
      /\ h.role = f.role /\ h.start = f.start /\ h.theirKey = f.theirKey
      /\ h.commitment = f.commitment
  BY DEF Gives, Rests, Basic
<1>3. Met(f, p) /\ Met(h, p)
  BY DEF Meeting, Side, Met
<1>4. Agree(h, g, a2, b2, d, p)
  BY <1>2, <1>3 DEF Pair, Agree, Took, Met
<1>5. Agree(g, h, b2, a2, p, d)
  BY <1>2, <1>3 DEF Pair, Agree, Took, Met
<1> QED BY <1>1, <1>4, <1>5 DEF Pair

LEMMA StartsPair ==
  ASSUME NEW f, NEW g, NEW h, NEW a, NEW b, NEW a2, NEW b2, NEW d, NEW p, NEW out,
         Meeting(f, g, h, d, p), Pair(f, g, a, b, d, p), Gives(out, a, a2), b2 \subseteq b,
         Starts(f, h, out)
  PROVE  Own(h) /\ Pair(h, g, a2, b2, d, p)
<1>1. Met(f, p) /\ Met(h, p)
  BY DEF Meeting, Side, Met
<1>2. ~Took(f, g, a, d, p)
  BY <1>1 DEF Meeting, Side, Pair, Agree, Starts
<1>3. f.commitment = None
  BY <1>1 DEF Meeting, Side, Pair, Agree, Took, Starts
<1>4. "accept" \notin f.sent /\ "key" \notin f.sent
  BY <1>2, <1>3, <1>1 DEF Meeting, Side, Own, Took
<1>5. Own(h)
  BY <1>3, <1>4 DEF Meeting, Side, Own, Starts, Basic
<1>6. /\ "accept" \in a2 => "accept" \in a
      /\ "key" \in a2 => "key" \in a
      /\ h.role = "sender" /\ h.start = d /\ d # p /\ h.theirKey = f.theirKey
      /\ h.commitment = None /\ h.sent = f.sent \cup {"start"}
  BY <1>3 DEF Gives, Starts, Meeting, Side
<1>7. Agree(h, g, a2, b2, d, p)
  BY <1>1, <1>2, <1>6 DEF Pair, Agree, Took, Met
<1>8. Agree(g, h, b2, a2, p, d)
  BY <1>1, <1>2, <1>3, <1>6 DEF Pair, Agree, Took, Met
<1> QED BY <1>5, <1>7, <1>8 DEF Pair

LEMMA AcceptsPair ==
  ASSUME NEW f, NEW g, NEW h, NEW a, NEW b, NEW a2, NEW b2, NEW d, NEW p, NEW out, NEW in,
         Meeting(f, g, h, d, p), Pair(f, g, a, b, d, p), Gives(out, a, a2), Got(in, b, b2, d, p),
         Accepts(f, h, out, in)
  PROVE  Own(h) /\ Pair(h, g, a2, b2, d, p)
<1>1. Met(f, p) /\ Met(h, p) /\ h.start = p /\ h.role = "receiver" /\ h.commitment = f.commitment
  BY DEF Meeting, Side, Met, Accepts
<1>2. \/ f.role = "receiver" /\ f.start = p
      \/ "start" \in b /\ (f.role = "receiver" \/ p < d)
  BY DEF Accepts, Got, Meeting, Side
<1>3. ~Took(g, f, b, p, d)
  <2> SUFFICES ASSUME Took(g, f, b, p, d) PROVE FALSE
    OBVIOUS
  <2>1. f.role = "sender" /\ f.start = d /\ ("start" \in b => d < p)
    BY <1>1 DEF Pair, Agree
  <2>2. d \in Nat /\ p \in Nat
    BY DeviceAssumption DEF Meeting
  <2> QED BY <1>2, <2>1, <2>2
<1>4. f.commitment = None
  BY <1>1, <1>3 DEF Took
<1>5. Met(g, d) => g.role = "sender" /\ g.start = p /\ "start" \in g.sent
  <2>1. CASE f.start = p
    BY <1>1, <2>1 DEF Pair, Agree, Took
  <2>2. CASE "start" \in b
    BY <1>3, <2>2 DEF Meeting, Side, Own, Pair, Agree, Took, Met
  <2> QED BY <1>2, <2>1, <2>2
<1>6. "start" \in a2 => p < d
  <2>1. "start" \in a2 => "start" \in a
    BY DEF Gives, Accepts
  <2>2. CASE f.start = p
    BY <1>1, <2>1, <2>2 DEF Pair, Agree, Took
  <2>3. CASE f.start # p
    <3>1. "start" \in a => "start" \in f.sent
      BY <1>1 DEF Pair, Agree
    <3> QED BY <1>1, <1>2, <2>1, <2>3, <3>1 DEF Meeting, Side, Own
  <2> QED BY <2>2, <2>3
<1>7. /\ f.sent \subseteq h.sent /\ h.theirKey = f.theirKey
      /\ "start" \in a2 => "start" \in a
      /\ "accept" \in a2 => "accept" \in a \/ "accept" \in h.sent
      /\ "key" \in a2 => "key" \in a
      /\ "start" \in h.sent <=> "start" \in f.sent
      /\ "key" \in h.sent <=> "key" \in f.sent
      /\ b2 \subseteq b
  BY DEF Accepts, Gives, Got
<1>8. Own(h)
  BY <1>1, <1>4, <1>7 DEF Meeting, Side, Own, Accepts, Basic
<1>9. Agree(h, g, a2, b2, d, p)
  <2>1. "accept" \in a2 => "accept" \in h.sent
    BY <1>1, <1>7 DEF Pair, Agree
  <2>2. Met(g, d) /\ g.commitment # None => g.commitment = <<<<d, 1>>, p>> /\ "accept" \in h.sent
    BY <1>1, <1>7 DEF Pair, Agree
  <2>3. "key" \in b2 =>
          /\ Met(g, d) => "key" \in g.sent
          /\ h.theirKey = None /\ ("accept" \in h.sent \/ "key" \in h.sent)
    BY <1>1, <1>7 DEF Pair, Agree
  <2>4. h.theirKey # None => h.theirKey = <<p, 1>> /\ (Met(g, d) => "key" \in g.sent)
    BY <1>1, <1>7 DEF Pair, Agree
  <2> QED BY <1>1, <1>5, <1>6, <2>1, <2>2, <2>3, <2>4 DEF Agree
<1>10. Agree(g, h, b2, a2, p, d)
  BY <1>1, <1>3, <1>4, <1>5, <1>7 DEF Pair, Agree, Took, Met
<1> QED BY <1>8, <1>9, <1>10 DEF Pair

LEMMA CommitsPair ==
  ASSUME NEW f, NEW g, NEW h, NEW a, NEW b, NEW a2, NEW b2, NEW d, NEW p, NEW out, NEW in,
         Meeting(f, g, h, d, p), Pair(f, g, a, b, d, p), Gives(out, a, a2), Got(in, b, b2, d, p),
         Commits(f, h, out, in)
  PROVE  Own(h) /\ Pair(h, g, a2, b2, d, p)
<1>1. Met(f, p) /\ Met(h, p) /\ "accept" \in b /\ h.commitment = <<<<p, 1>>, d>>
  BY DEF Meeting, Side, Met, Commits, Got
<1>2. Took(g, f, b, p, d)
  BY <1>1 DEF Took
<1>3. f.role = "sender" /\ f.start = d /\ "start" \in f.sent
  BY <1>1, <1>2 DEF Pair, Agree
<1>4. Own(h)
  <2>1. h.commitment # None
    BY <1>1, NoneAssumption DEF Meeting, Key
  <2> QED BY <1>3, <2>1 DEF Meeting, Side, Own, Commits, Basic
<1>5. /\ h.role = "sender" /\ h.start = d /\ h.theirKey = f.theirKey /\ h.sent = f.sent \cup {"key"}
      /\ "start" \in a2 => "start" \in a
      /\ "accept" \in a2 => "accept" \in a
      /\ "key" \in a2 => "key" \in a \/ "key" \notin f.sent
      /\ b2 \subseteq b
  BY <1>3 DEF Commits, Gives, Got
<1>6. Agree(h, g, a2, b2, d, p)
  BY <1>1, <1>3, <1>5 DEF Meeting, Pair, Agree, Took, Met
<1>7. Agree(g, h, b2, a2, p, d)
  BY <1>1, <1>2, <1>3, <1>5 DEF Meeting, Pair, Agree, Took, Met
<1> QED BY <1>4, <1>6, <1>7 DEF Pair

LEMMA LearnsPair ==
  ASSUME NEW f, NEW g, NEW h, NEW a, NEW b, NEW a2, NEW b2, NEW d, NEW p, NEW out, NEW in,
         Meeting(f, g, h, d, p), Pair(f, g, a, b, d, p), Gives(out, a, a2), Got(in, b, b2, d, p),
         Learns(f, h, out, in)
  PROVE  Own(h) /\ Pair(h, g, a2, b2, d, p)
<1>1. Met(f, p) /\ Met(h, p) /\ "key" \in b /\ "key" \notin b2 /\ h.theirKey = <<p, 1>>
  BY DEF Meeting, Side, Met, Learns, Got
<1>2. /\ Met(g, d) => "key" \in g.sent
      /\ "accept" \in f.sent \/ "key" \in f.sent
  BY <1>1 DEF Pair, Agree
<1>3. f.role = "sender" => f.commitment # None
  BY <1>2 DEF Meeting, Side, Own
<1>4. "accept" \in f.sent \/ f.commitment # None
  BY <1>2 DEF Meeting, Side, Own
<1>5. /\ h.role = f.role /\ h.start = f.start /\ h.commitment = f.commitment
      /\ f.sent \subseteq h.sent /\ (\A s \in h.sent : s \in f.sent \/ s = "key")
      /\ f.role = "receiver" => "key" \in h.sent
      /\ "start" \in a2 => "start" \in a
      /\ "accept" \in a2 => "accept" \in a
      /\ "key" \in a2 => "key" \in a \/ ("key" \notin f.sent /\ "key" \in h.sent)
      /\ b2 \subseteq b
  BY DEF Learns, Gives, Got, Meeting, Side
<1>6. Own(h)
  BY <1>1, <1>3, <1>4, <1>5 DEF Meeting, Side, Own, Learns, Basic
<1>7. Agree(h, g, a2, b2, d, p)
  BY <1>1, <1>2, <1>5 DEF Meeting, Pair, Agree, Took, Met
<1>8. Agree(g, h, b2, a2, p, d)
  BY <1>1, <1>2, <1>5 DEF Meeting, Pair, Agree, Took, Met
<1> QED BY <1>6, <1>7, <1>8 DEF Pair

\* A key that arrives is expected, and fits the commitment.
LEMMA NoAlarm ==
  ASSUME NEW f, NEW g, NEW h, NEW a, NEW b, NEW b2, NEW d, NEW p, NEW in,
         Meeting(f, g, h, d, p), Pair(f, g, a, b, d, p), Got(in, b, b2, d, p), FlowOK(f)
  PROVE  ~Alarms(f, in)
<1> SUFFICES ASSUME Alarms(f, in) PROVE FALSE
  OBVIOUS
<1>1. Met(f, p) /\ "key" \in b /\ \A m \in in : m.type = "key" => m.data = <<p, 1>>
  BY DEF Meeting, Side, Met, Alarms, Got
<1>2. f.theirKey = None /\ ("accept" \in f.sent \/ "key" \in f.sent)
  BY <1>1 DEF Pair, Agree
<1>3. f.state \in State \ {"None", "CompareEmoji", "WaitingForMac", "Success"}
  BY <1>2 DEF FlowOK, Flow
<1>4. f.state \in {"WaitingForOtherToAccept", "WaitingForKeys"}
  BY <1>2, <1>3 DEF Alarms, Finished, State, Meeting, Side, Own, Basic
<1>5. f.state = "WaitingForOtherToAccept" => f.role = "sender"
  BY DEF Meeting, Side, Own
<1>6. f.role = "sender" => f.commitment # None
  BY <1>2 DEF Meeting, Side, Own
<1>7. f.role = "sender" => f.commitment = <<<<p, 1>>, d>> /\ f.start = d
  BY <1>1, <1>6 DEF Pair, Agree, Took
<1> QED BY <1>1, <1>4, <1>5, <1>7 DEF Alarms

LEMMA TurnPair ==
  ASSUME NEW f, NEW g, NEW h, NEW a, NEW b, NEW a2, NEW b2, NEW d, NEW p, NEW out, NEW in,
         Meeting(f, g, h, d, p), Pair(f, g, a, b, d, p), Gives(out, a, a2), Got(in, b, b2, d, p),
         FlowOK(f), Turns(f, h, out, in)
  PROVE  Own(h) /\ Pair(h, g, a2, b2, d, p)
<1>1. b2 \subseteq b
  BY DEF Got
<1> QED BY <1>1, RestsPair, StartsPair, AcceptsPair, CommitsPair, LearnsPair, NoAlarm DEF Turns

\* The initiator starts with the first device that is ready.
LEMMA FirstPair ==
  ASSUME NEW f, NEW g, NEW h, NEW a, NEW b, NEW a2, NEW b2, NEW d, NEW p, NEW out,
         Side(f, d), f.peer = None, h.me = d, h.peer = p, d # p, p # None, d # None,
         Starts(f, h, out), Pair(f, g, a, b, d, p), Gives(out, a, a2), b2 \subseteq b,
         \A s \in Basic : s \notin a, "accept" \notin b, "key" \notin b,
         Met(g, d) => g.start # d /\ g.commitment = None /\ g.theirKey = None
  PROVE  Own(h) /\ Pair(h, g, a2, b2, d, p)
<1>1. /\ h.role = "sender" /\ h.start = d /\ h.commitment = None /\ h.theirKey = None
      /\ "start" \in h.sent /\ "accept" \notin h.sent /\ "key" \notin h.sent
      /\ h.state = "WaitingForOtherToAccept" /\ h.err = f.err
  BY DEF Side, Own, Starts, Basic
<1>2. Own(h)
  BY <1>1 DEF Side, Own
<1>3. "accept" \notin a2 /\ "key" \notin a2
  BY DEF Gives, Starts, Basic
<1>4. Agree(h, g, a2, b2, d, p)
  BY <1>1, <1>3 DEF Pair, Agree, Took
<1>5. Agree(g, h, b2, a2, p, d)
  BY <1>1, <1>3 DEF Pair, Agree, Took
<1> QED BY <1>2, <1>4, <1>5 DEF Pair

\* A device makes its first flow: nothing of it has been seen before.
LEMMA NewPair ==
  ASSUME NEW f, NEW g, NEW h, NEW a, NEW b, NEW a2, NEW b2, NEW d, NEW p,
         Pair(f, g, a, b, d, p), g # NoFlow => Side(g, p), d # p, d # None, p # None,
         h.commitment = None, h.theirKey = None, h.sent = {},
         h.start = None \/ (h.start = p /\ h.role = "receiver" /\ "start" \in b),
         Met(g, d) => g.start # d /\ g.commitment = None /\ g.theirKey = None,
         \A s \in Basic : s \notin a2, b2 \subseteq b, "accept" \notin b, "key" \notin b
  PROVE  Pair(h, g, a2, b2, d, p)
<1>1. "start" \notin a2 /\ "accept" \notin a2 /\ "key" \notin a2
  BY DEF Basic
<1>2. "start" \in b /\ Met(g, d) => g.role = "sender" /\ g.start = p /\ "start" \in g.sent
  BY DEF Pair, Agree, Side, Own, Met
<1>3. Agree(h, g, a2, b2, d, p)
  BY <1>1, <1>2 DEF Agree, Took
<1>4. Agree(g, h, b2, a2, p, d)
  BY <1>1 DEF Agree, Took
<1> QED BY <1>3, <1>4 DEF Pair

----------------------------------------------------------------------------
\* The flows of a transaction, while no device makes its flow again.

Linked(d, p, t) ==
  \/ d = Initiator[t] /\ p \in Targets[t]
  \/ p = Initiator[t] /\ d \in Targets[t]

\* The types of the messages from d to p.
Way(msgs, d, p, t) == {m.type : m \in {n \in msgs : n.txn = t /\ n.from = d /\ n.to = p}}
PairIn(f, g, msgs, d, p, t) == Pair(f, g, Way(msgs, d, p, t), Way(msgs, p, d, t), d, p)

Once(t) ==
  MadeOnce(t) =>
    /\ \A d \in Device : Has(d, t) => Own(flow[d][t])
    /\ \A d, p \in Device : Linked(d, p, t) => PairIn(flow[d][t], flow[p][t], net, d, p, t)
    /\ \A m \in net : m.txn = t /\ m.type \in {"accept", "key"} => made[m.to][t] > 0

LEMMA LinkedIs ==
  ASSUME NEW t \in Txn, NEW d, NEW p, Linked(d, p, t)
  PROVE  d \in Device /\ p \in Device /\ d # p /\ d # None /\ p # None /\ Linked(p, d, t)
BY TxnAssumption, DeviceAssumption DEF Linked

LEMMA PairTurned ==
  ASSUME NEW f, NEW g, NEW msgs, NEW d, NEW p, NEW t, PairIn(f, g, msgs, d, p, t)
  PROVE  PairIn(g, f, msgs, p, d, t)
BY DEF PairIn, Pair

LEMMA WayLess ==
  ASSUME NEW M, NEW N, NEW d, NEW p, NEW t,
         \A m \in N : m.txn = t /\ m.from = d /\ m.to = p /\ m.type \in Basic => m \in M
  PROVE  Less(Way(M, d, p, t), Way(N, d, p, t))
BY DEF Less, Way

\* Accept and key are only under way between the initiator and its peer.
LEMMA FromPeer ==
  ASSUME StateInv, NEW t \in Txn, Choice(t), MadeOnce(t), NEW m \in net, m.txn = t,
         Has(m.to, t), m.type \in {"accept", "key"}
  PROVE  m.from = flow[m.to][t].peer /\ m.from # None /\ Linked(m.to, m.from, t)
<1>1. MsgOK(m) /\ m.to \in Device /\ m.from \in Device /\ Star(m.to, t) /\ m.from # None
  BY DeviceAssumption DEF StateInv, MsgOK
<1>2. CASE m.to = Initiator[t]
  <2>1. m.from \in Targets[t]
    BY <1>1, <1>2, TxnAssumption DEF MsgOK
  <2>2. Chosen(m.from, t)
    BY DEF Chosen, ChosenBy
  <2>3. made[Initiator[t]][t] <= 1
    BY <1>1, <1>2 DEF MadeOnce
  <2> QED BY <1>1, <1>2, <2>1, <2>2, <2>3 DEF Choice, Linked
<1>3. CASE m.to # Initiator[t]
  BY <1>1, <1>3 DEF Star, MsgOK, Linked
<1> QED BY <1>2, <1>3

\* The device d of a linked pair moves.
LEMMA MoveOnce ==
  ASSUME StateInv, NEW t \in Txn, Private(t), Choice(t), MadeOnce(t), Once(t),
         NEW d, NEW p, Linked(d, p, t), NEW in \in SUBSET net, NEW e, MoveStep(d, t, in, e)
  PROVE  PairIn(e.flow, flow[p][t], net', d, p, t) /\ (e.flow.peer = p => Own(e.flow))
<1>1. PICK f, g, h : f = flow[d][t] /\ g = flow[p][t] /\ h = e.flow
  OBVIOUS
<1>2. PICK a, b : a = Way(net, d, p, t) /\ b = Way(net, p, d, t)
  OBVIOUS
<1>3. PICK a2, b2 : a2 = Way(net', d, p, t) /\ b2 = Way(net', p, d, t)
  OBVIOUS
<1>4. /\ d \in Device /\ p \in Device /\ d # p /\ d # None /\ p # None
      /\ Linked(p, d, t) /\ Star(d, t) /\ Star(p, t)
  BY LinkedIs DEF StateInv
<1>5. /\ Has(d, t) /\ f # NoFlow /\ Moves(f, e, in, confirmed')
      /\ in \subseteq net /\ \A m \in in : m.txn = t /\ m.to = d
      /\ \A m \in net' : m.txn = t => m \in (net \ in) \cup e.out
  BY <1>1 DEF MoveStep, Around, Has
<1>6. FlowOK(f) /\ f.me = d /\ f.txn = t /\ f.role \in {"sender", "receiver"} /\ Own(f) /\ Side(f, d)
  BY <1>1, <1>4, <1>5 DEF Star, FlowOK, Flow, Once, Side
<1>7. g # NoFlow => Side(g, p)
  BY <1>1, <1>4 DEF Star, Has, FlowOK, Flow, Once, Side
<1>8. FlowOK(h) /\ h # NoFlow /\ h.me = d /\ Turns(f, h, e.out, in)
  BY <1>1, <1>5, <1>6 DEF Moves, FlowOK, Flow, NoFlow, State
<1>9. Speaks(d, f, e)
  BY <1>1, <1>4, InitiatorMoves
<1>10. Pair(f, g, a, b, d, p)
  BY <1>1, <1>2, <1>4 DEF Once, PairIn
<1>11. b2 \subseteq b
  BY <1>2, <1>3, <1>4, <1>5, <1>9 DEF Way, Speaks
<1>12. Gives(e.out, a, a2)
  BY <1>2, <1>3, <1>5 DEF Way, Gives
<1>13. CASE h.peer # p
  <2>1. \A o \in e.out : o.type \in Basic => o.to # p
    BY <1>1, <1>9, <1>13 DEF Speaks, Basic
  <2>2. Less(a, a2)
    BY <1>2, <1>3, <1>5, <2>1, WayLess
  <2>3. ~Met(h, p) /\ Less(b, b2)
    BY <1>11, <1>13 DEF Met, Less
  <2>4. Pair(h, g, a2, b2, d, p)
    BY <1>10, <2>2, <2>3, PairUnmet
  <2> QED BY <1>1, <1>3, <1>13, <2>4 DEF PairIn
<1>14. CASE h.peer = p /\ f.peer = p
  <2>1. \A m \in in : m.type \in {"accept", "key"} => m.from = p
    BY <1>1, <1>4, <1>5, <1>14, FromPeer
  <2>2. \A m \in in :
          /\ m.type = "start" /\ m.from = p => "start" \in b
          /\ m.type = "accept" => "accept" \in b
          /\ m.type = "key" => "key" \in b
    BY <1>2, <1>5, <2>1 DEF Way
  <2>3. \A k : Known(k, t) /\ k[1] = p => k = <<p, 1>>
    <3>1. made[p][t] \in Nat /\ made[p][t] <= 1
      BY <1>4 DEF StateInv, TypeInv, MadeOnce
    <3> QED BY <3>1 DEF Known, Key
  <2>4. \A m \in net : m.txn = t /\ m.type = "key" /\ m.from = p => m.data = <<p, 1>> /\ Plain(m)
    BY <2>3 DEF StateInv, MsgOK
  <2>5. \A m \in in : m.type = "accept" => m.data = <<<<p, 1>>, d>>
    BY <1>5, <2>1, <2>3 DEF StateInv, MsgOK
  <2>6. \A m \in in : m.type = "key" => "key" \notin b2
    <3> SUFFICES ASSUME NEW m \in in, m.type = "key", "key" \in b2 PROVE FALSE
      OBVIOUS
    <3>1. PICK n \in net' : n.txn = t /\ n.from = p /\ n.to = d /\ n.type = "key"
      BY <1>3 DEF Way
    <3>2. n \in net \ in
      BY <1>4, <1>5, <1>9, <3>1 DEF Speaks
    <3>3. n = m
      BY <1>5, <2>1, <2>4, <3>1, <3>2 DEF Plain
    <3> QED BY <3>2, <3>3
  <2>7. Got(in, b, b2, d, p)
    BY <1>5, <1>11, <2>1, <2>2, <2>4, <2>5, <2>6 DEF Got
  <2>8. Meeting(f, g, h, d, p)
    BY <1>4, <1>6, <1>7, <1>8, <1>14 DEF Meeting
  <2>9. Own(h) /\ Pair(h, g, a2, b2, d, p)
    BY <1>6, <1>8, <1>10, <1>12, <2>7, <2>8, TurnPair
  <2> QED BY <1>1, <1>3, <2>9 DEF PairIn
<1>15. CASE h.peer = p /\ f.peer # p
  <2>1. f.peer = None /\ d = Initiator[t] /\ p \in Targets[t] /\ f.key = <<d, 1>>
    BY <1>1, <1>4, <1>5, <1>9, <1>15, DeviceAssumption, TxnAssumption DEF Star, Speaks, Linked
  <2>2. Starts(f, h, e.out)
    BY <1>4, <1>6, <1>8, <1>15, <2>1 DEF Turns, Rests, Accepts, Commits, Learns, Alarms, Own, Basic
  <2>3. ~Chosen(p, t)
    BY <1>1, <1>4, <1>5, <2>1 DEF Choice, MadeOnce
  <2>4. /\ \A s \in Basic : s \notin a
        /\ "accept" \notin b /\ "key" \notin b
    BY <1>2, <2>1, <2>3 DEF Way, Basic, Chosen, ChosenBy
  <2>5. g # NoFlow => g.start # d /\ g.commitment = None
    BY <1>1, <2>1, <2>3 DEF Chosen, ChosenBy
  <2>6. Met(g, d) => g.theirKey = None
    <3>1. g # NoFlow => g.theirKey # <<d, 1>>
      BY <1>1, <1>4, <1>5, <2>1 DEF Private, KnownTo, Has
    <3>2. Met(g, d) /\ g.theirKey # None => g.theirKey = <<d, 1>>
      BY <1>10 DEF Pair, Agree
    <3> QED BY <3>1, <3>2 DEF Met
  <2>7. Met(g, d) => g.start # d /\ g.commitment = None /\ g.theirKey = None
    BY <2>5, <2>6 DEF Met
  <2>8. Own(h) /\ Pair(h, g, a2, b2, d, p)
    BY <1>4, <1>6, <1>8, <1>10, <1>11, <1>12, <1>15, <2>1, <2>2, <2>4, <2>7, FirstPair
  <2> QED BY <1>1, <1>3, <2>8 DEF PairIn
<1> QED BY <1>13, <1>14, <1>15

\* It makes its first flow.
LEMMA NewOnce ==
  ASSUME StateInv, NEW t \in Txn, MadeOnce(t), Once(t), NEW d, NEW p, Linked(d, p, t),
         NEW in \in SUBSET net, NEW h, h = flow'[d][t], NewStep(d, t, in, h), made[d][t] = 0
  PROVE  PairIn(h, flow[p][t], net', d, p, t)
<1>1. PICK g : g = flow[p][t]
  OBVIOUS
<1>2. PICK a, b : a = Way(net, d, p, t) /\ b = Way(net, p, d, t)
  OBVIOUS
<1>3. PICK a2, b2 : a2 = Way(net', d, p, t) /\ b2 = Way(net', p, d, t)
  OBVIOUS
<1>4. /\ d \in Device /\ p \in Device /\ d # p /\ d # None /\ p # None /\ Star(p, t)
      /\ made[p][t] \in Nat
  BY LinkedIs DEF StateInv, TypeInv
<1>5. /\ in \subseteq net /\ \A m \in in : m.txn = t /\ m.to = d
      /\ \A m \in net' : m.txn = t => m \in net
      /\ h.commitment = None /\ h.theirKey = None /\ h.sent = {} /\ FlowOK(h)
  BY DEF NewStep, Around
<1>6. \A m \in net : m.txn = t => m.from # d /\ m.to \in Device
  BY DEF StateInv, MsgOK
<1>7. \A m \in net : m.txn = t /\ m.to = d => m.type \notin {"accept", "key"}
  BY <1>4 DEF Once
<1>8. "accept" \notin b /\ "key" \notin b /\ b2 \subseteq b /\ a2 = {}
  BY <1>2, <1>3, <1>5, <1>6, <1>7 DEF Way
<1>9. Pair(flow[d][t], g, a, b, d, p)
  BY <1>1, <1>2, <1>4 DEF Once, PairIn
<1>10. g # NoFlow => Side(g, p)
  BY <1>1, <1>4 DEF Star, Has, FlowOK, Flow, Once, Side
<1>11. Met(g, d) => g.start # d /\ g.commitment = None /\ g.theirKey = None
  <2>1. g # NoFlow => Learned(g, t)
    BY <1>1, <1>4 DEF StateInv, Has
  <2>2. ~Known(<<d, 1>>, t)
    BY DEF Known
  <2>3. /\ Met(g, d) /\ g.theirKey # None => g.theirKey = <<d, 1>>
        /\ Met(g, d) /\ g.commitment # None => g.commitment = <<<<d, 1>>, p>>
    BY <1>9 DEF Pair, Agree
  <2> QED BY <1>4, <2>1, <2>2, <2>3 DEF Learned, Met
<1>12. h.start = None \/ (h.start = p /\ h.role = "receiver" /\ "start" \in b)
  <2>1. CASE h.start # None
    <3>1. PICK m \in in : h.role = "receiver" /\ m.type = "start" /\ h.start = m.from
      BY <2>1 DEF NewStep
    <3>2. MsgOK(m) /\ m.to = d /\ m.txn = t /\ m \in net
      BY <1>5, <3>1 DEF StateInv
    <3>3. m.from = p
      <4>1. CASE d = Initiator[t]
        <5>1. made[m.from][t] > 0 /\ m.from \in Targets[t]
          BY <3>2, <4>1, TxnAssumption DEF MsgOK
        <5>2. made[d][t] > 0
          BY <4>1, <5>1 DEF StateInv
        <5> QED BY <5>2
      <4>2. CASE d # Initiator[t]
        BY <3>2, <4>2 DEF MsgOK, Linked
      <4> QED BY <4>1, <4>2
    <3> QED BY <1>2, <3>1, <3>2, <3>3 DEF Way
  <2> QED BY <2>1
<1>13. Pair(h, g, a2, b2, d, p)
  BY <1>4, <1>5, <1>8, <1>9, <1>10, <1>11, <1>12, NewPair
<1> QED BY <1>1, <1>3, <1>13 DEF PairIn

\* Each flow, after a step.
LEMMA OwnStep ==
  ASSUME StateInv, NEW t \in Txn, Private(t), Choice(t), MadeOnce(t), Once(t), StepOf(t),
         NEW c \in Device, flow'[c][t] # NoFlow
  PROVE  Own(flow'[c][t])
<1>1. flow'[c][t] = flow[c][t] => Own(flow'[c][t])
  BY DEF Once, Has
<1>2. CASE IdleStep(t)
  BY <1>1, <1>2 DEF IdleStep
<1>3. ASSUME NEW d \in Device, NEW in \in SUBSET net, NEW e, MoveStep(d, t, in, e)
      PROVE  Own(flow'[c][t])
  <2>1. CASE c # d
    BY <1>1, <1>3, <2>1 DEF MoveStep, Around
  <2>2. CASE c = d
    <3>1. PICK f, h : f = flow[d][t] /\ h = e.flow
      OBVIOUS
    <3>2. /\ flow'[c][t] = h /\ Own(f) /\ f.me = d /\ h.me = d
          /\ f.peer # None => h.peer = f.peer
          /\ Turns(f, h, e.out, in) /\ FlowOK(f) /\ d # None
      BY <1>3, <2>2, <3>1, DeviceAssumption DEF MoveStep, Moves, Once, StateInv, Star
    <3>3. CASE h.peer = None
      <4>1. f.peer = None
        BY <3>2, <3>3
      <4>2. Rests(f, h, e.out)
        BY <3>2, <3>3, <4>1 DEF Turns, Starts, Accepts, Commits, Learns, Alarms
      <4>3. Own(h)
        BY <3>2, <3>3, <4>1, <4>2 DEF Own, Rests, Basic, FlowOK
      <4> QED BY <3>2, <4>3
    <3>4. CASE h.peer # None
      <4>1. Star(d, t)'
        BY <1>3, StarStep
      <4>2. Linked(d, h.peer, t)
        BY <2>2, <3>2, <3>4, <4>1 DEF Star, Has, Linked
      <4> QED BY <1>3, <3>1, <3>2, <4>2, MoveOnce
    <3> QED BY <3>3, <3>4
  <2> QED BY <2>1, <2>2
<1>4. ASSUME NEW d \in Device, NEW out, DropStep(d, t, out) PROVE Own(flow'[c][t])
  BY <1>1, <1>4 DEF DropStep, Around
<1>5. ASSUME NEW d \in Device, NEW in \in SUBSET net, NEW h, h = flow'[d][t], NewStep(d, t, in, h)
      PROVE  Own(flow'[c][t])
  <2>1. CASE c # d
    BY <1>1, <1>5, <2>1 DEF NewStep, Around
  <2>2. CASE c = d
    <3>1. Star(d, t)' /\ flow'[d][t] # NoFlow /\ d # None
      BY <2>2, StarStep, DeviceAssumption
    <3>2. h.peer # d
      BY <1>5, <3>1, TxnAssumption, DeviceAssumption DEF Star, Has
    <3>3. /\ h.state = "PromptStartVerification" /\ h.commitment = None /\ h.theirKey = None
          /\ h.sent = {} /\ h.me = d /\ FlowOK(h)
          /\ h.start = None \/ (h.start = h.peer /\ h.peer # None)
      <4>1. \A m \in in : m.from # None
        BY <1>5, DeviceAssumption DEF NewStep, Around, StateInv, MsgOK
      <4> QED BY <1>5, <4>1 DEF NewStep
    <3>4. h.err \notin Alarm
      BY <3>3, NoneAssumption DEF FlowOK, Alarm, Error
    <3>5. Own(h)
      BY <3>1, <3>2, <3>3, <3>4 DEF Own, Basic
    <3> QED BY <1>5, <2>2, <3>5
  <2> QED BY <2>1, <2>2
<1> QED BY <1>2, <1>3, <1>4, <1>5 DEF StepOf

\* Two linked flows, after a step.
LEMMA PairStep ==
  ASSUME StateInv, NEW t \in Txn, Private(t), Choice(t), MadeOnce(t), MadeOnce(t)', Once(t), StepOf(t),
         NEW x, NEW y, Linked(x, y, t)
  PROVE  PairIn(flow'[x][t], flow'[y][t], net', x, y, t)
<1>1. x \in Device /\ y \in Device /\ x # y /\ Linked(y, x, t)
  BY LinkedIs
<1>2. PairIn(flow[x][t], flow[y][t], net, x, y, t)
  BY <1>1 DEF Once
<1>3. ASSUME /\ \A m \in net' : m.txn = t /\ m.from = x /\ m.to = y /\ m.type \in Basic => m \in net
             /\ \A m \in net' : m.txn = t /\ m.from = y /\ m.to = x /\ m.type \in Basic => m \in net
      PROVE  Less(Way(net, x, y, t), Way(net', x, y, t)) /\ Less(Way(net, y, x, t), Way(net', y, x, t))
  BY <1>3, WayLess
<1>4. CASE IdleStep(t)
  <2>1. flow'[x][t] = flow[x][t] /\ flow'[y][t] = flow[y][t]
    BY <1>1, <1>4 DEF IdleStep
  <2>2. Less(Way(net, x, y, t), Way(net', x, y, t)) /\ Less(Way(net, y, x, t), Way(net', y, x, t))
    BY <1>3, <1>4 DEF IdleStep
  <2> QED BY <1>2, <2>1, <2>2, PairLess DEF PairIn
<1>5. ASSUME NEW d \in Device, NEW in \in SUBSET net, NEW e, MoveStep(d, t, in, e)
      PROVE  PairIn(flow'[x][t], flow'[y][t], net', x, y, t)
  <2>1. flow'[d][t] = e.flow /\ \A c \in Device \ {d} : flow'[c][t] = flow[c][t]
    BY <1>5 DEF MoveStep, Around
  <2>2. CASE d = x
    <3>1. PairIn(e.flow, flow[y][t], net', x, y, t)
      BY <1>5, <2>2, MoveOnce
    <3> QED BY <1>1, <2>1, <2>2, <3>1
  <2>3. CASE d = y
    <3>1. PairIn(e.flow, flow[x][t], net', y, x, t)
      BY <1>1, <1>5, <2>3, MoveOnce
    <3> QED BY <1>1, <2>1, <2>3, <3>1, PairTurned
  <2>4. CASE d # x /\ d # y
    <3>1. flow'[x][t] = flow[x][t] /\ flow'[y][t] = flow[y][t]
      BY <1>1, <2>1, <2>4
    <3>2. \A o \in e.out : o.from = d
      <4>1. Speaks(d, flow[d][t], e)
        BY <1>5, InitiatorMoves
      <4> QED BY <4>1 DEF Speaks
    <3>3. \A m \in net' : m.txn = t => m \in net \/ m \in e.out
      BY <1>5 DEF MoveStep, Around
    <3>4. Less(Way(net, x, y, t), Way(net', x, y, t)) /\ Less(Way(net, y, x, t), Way(net', y, x, t))
      BY <1>3, <2>4, <3>2, <3>3
    <3> QED BY <1>2, <3>1, <3>4, PairLess DEF PairIn
  <2> QED BY <2>2, <2>3, <2>4
<1>6. ASSUME NEW d \in Device, NEW out, DropStep(d, t, out)
      PROVE  PairIn(flow'[x][t], flow'[y][t], net', x, y, t)
  <2>1. flow'[d][t] = NoFlow /\ \A c \in Device \ {d} : flow'[c][t] = flow[c][t]
    BY <1>6 DEF DropStep, Around
  <2>2. \A m \in net' : m.txn = t /\ m.type \in Basic => m \in net
    BY <1>6 DEF DropStep, Around, Sends, Basic
  <2>3. Less(Way(net, x, y, t), Way(net', x, y, t)) /\ Less(Way(net, y, x, t), Way(net', y, x, t))
    BY <1>3, <2>2
  <2>4. CASE d = x
    <3>1. ~Met(flow'[x][t], y) /\ flow'[y][t] = flow[y][t]
      BY <1>1, <2>1, <2>4 DEF Met
    <3> QED BY <1>2, <2>3, <3>1, PairUnmet DEF PairIn
  <2>5. CASE d = y
    <3>1. ~Met(flow'[y][t], x) /\ flow'[x][t] = flow[x][t]
      BY <1>1, <2>1, <2>5 DEF Met
    <3>2. PairIn(flow[y][t], flow[x][t], net, y, x, t)
      BY <1>2, PairTurned
    <3>3. PairIn(flow'[y][t], flow'[x][t], net', y, x, t)
      BY <2>3, <3>1, <3>2, PairUnmet DEF PairIn
    <3> QED BY <3>3, PairTurned
  <2>6. CASE d # x /\ d # y
    BY <1>1, <1>2, <2>1, <2>3, <2>6, PairLess DEF PairIn
  <2> QED BY <2>4, <2>5, <2>6
<1>7. ASSUME NEW d \in Device, NEW in \in SUBSET net, NEW h, h = flow'[d][t], NewStep(d, t, in, h)
      PROVE  PairIn(flow'[x][t], flow'[y][t], net', x, y, t)
  <2>1. \A c \in Device \ {d} : flow'[c][t] = flow[c][t]
    BY <1>7 DEF NewStep, Around
  <2>2. \A m \in net' : m.txn = t => m \in net
    BY <1>7 DEF NewStep, Around
  <2>3. made[d][t] = 0
    <3>1. made'[d][t] = made[d][t] + 1 /\ made'[d][t] <= 1 /\ made[d][t] \in Nat
      BY <1>7 DEF NewStep, MadeOnce, StateInv, TypeInv
    <3> QED BY <3>1
  <2>4. CASE d = x
    <3>1. PairIn(h, flow[y][t], net', x, y, t)
      BY <1>7, <2>3, <2>4, NewOnce
    <3> QED BY <1>1, <1>7, <2>1, <2>4, <3>1
  <2>5. CASE d = y
    <3>1. PairIn(h, flow[x][t], net', y, x, t)
      BY <1>1, <1>7, <2>3, <2>5, NewOnce
    <3> QED BY <1>1, <1>7, <2>1, <2>5, <3>1, PairTurned
  <2>6. CASE d # x /\ d # y
    <3>1. Less(Way(net, x, y, t), Way(net', x, y, t)) /\ Less(Way(net, y, x, t), Way(net', y, x, t))
      BY <1>3, <2>2
    <3> QED BY <1>1, <1>2, <2>1, <2>6, <3>1, PairLess DEF PairIn
  <2> QED BY <2>4, <2>5, <2>6
<1> QED BY <1>4, <1>5, <1>6, <1>7 DEF StepOf

\* Who is sent accept or a key has made a flow.
LEMMA AddressedStep ==
  ASSUME StateInv, NEW t \in Txn, Choice(t), MadeOnce(t), Once(t), StepOf(t),
         NEW m \in net', m.txn = t, m.type \in {"accept", "key"}
  PROVE  made'[m.to][t] > 0
<1>1. m \in net => made'[m.to][t] > 0
  <2>1. ASSUME m \in net PROVE made'[m.to][t] > 0
    <3>1. m.to \in Device /\ made[m.to][t] > 0
      BY <2>1 DEF StateInv, MsgOK, Once
    <3> QED BY <3>1, Grows
  <2> QED BY <2>1
<1>2. CASE m \in net
  BY <1>1, <1>2
<1>3. CASE m \notin net
  <2>1. ~IdleStep(t)
    BY <1>3 DEF IdleStep
  <2>2. ~ \E d \in Device, out \in SUBSET net' : DropStep(d, t, out)
    BY <1>3 DEF DropStep, Around, Sends
  <2>3. ~ \E d \in Device, in \in SUBSET net : NewStep(d, t, in, flow'[d][t])
    BY <1>3 DEF NewStep, Around
  <2>4. PICK d \in Device, in \in SUBSET net : \E e : MoveStep(d, t, in, e)
    BY <2>1, <2>2, <2>3 DEF StepOf
  <2>5. PICK e : MoveStep(d, t, in, e)
    BY <2>4
  <2>6. PICK f, h : f = flow[d][t] /\ h = e.flow
    OBVIOUS
  <2>7. /\ Has(d, t) /\ m \in e.out /\ flow'[d][t] = h /\ FlowOK(h) /\ h # NoFlow
        /\ in \subseteq net /\ \A n \in in : n.txn = t /\ n.to = d
    BY <1>3, <2>5, <2>6 DEF MoveStep, Moves, Around, FlowOK, Flow, NoFlow, State
  <2>8. m.to = h.peer /\ (f.peer # None => h.peer = f.peer)
    <3>1. Speaks(d, f, e)
      BY <2>5, <2>6, InitiatorMoves
    <3> QED BY <2>6, <2>7, <3>1 DEF Speaks
  <2>9. /\ m.type = "accept" => f.peer # None /\ h.start = f.peer
        /\ m.type = "key" => \E n \in in : n.type \in {"accept", "key"}
    BY <2>5, <2>6, <2>7 DEF MoveStep, Moves, SentBy
  <2>10. CASE m.type = "accept"
    <3>1. Learned(h, t)'
      BY <2>7, LearnedStep
    <3> QED BY <2>8, <2>9, <2>10, <3>1 DEF Learned
  <2>11. CASE m.type = "key"
    <3>1. PICK n \in in : n.type \in {"accept", "key"}
      BY <2>9, <2>11
    <3>2. n.from = f.peer /\ n.from # None
      BY <2>6, <2>7, <3>1, FromPeer
    <3>3. n.from \in Device /\ made[n.from][t] > 0
      BY <2>7, <3>1 DEF StateInv, MsgOK
    <3> QED BY <2>8, <3>2, <3>3, Grows
  <2> QED BY <2>10, <2>11
<1> QED BY <1>2, <1>3

LEMMA OnceStep ==
  ASSUME StateInv, NEW t \in Txn, Private(t), Choice(t), Once(t), StepOf(t)
  PROVE  Once(t)'
<1> SUFFICES ASSUME MadeOnce(t)' PROVE Once(t)'
  BY DEF Once
<1>1. MadeOnce(t)
  <2>1. \A c \in Device : made'[c][t] <= 1
    BY DEF MadeOnce
  <2> QED BY <2>1, Grows DEF MadeOnce
<1>2. \A d \in Device : flow'[d][t] # NoFlow => Own(flow'[d][t])
  BY <1>1, OwnStep
<1>3. \A d, p \in Device : Linked(d, p, t) => PairIn(flow'[d][t], flow'[p][t], net', d, p, t)
  BY <1>1, PairStep
<1>4. \A m \in net' : m.txn = t /\ m.type \in {"accept", "key"} => made'[m.to][t] > 0
  BY <1>1, AddressedStep
<1> QED BY <1>2, <1>3, <1>4 DEF Once, Has

OnceInv == \A t \in Txn : Once(t)

LEMMA AlwaysOnce == Spec => [](StateInv /\ OnceInv)
<1>1. Init => OnceInv
  <2> SUFFICES ASSUME Init, NEW t \in Txn PROVE Once(t)
    BY DEF OnceInv
  <2>1. net = {} /\ \A d \in Device : flow[d][t] = NoFlow
    BY DEF Init
  <2>2. \A d, p \in Device : Linked(d, p, t) => flow[d][t] = NoFlow /\ flow[p][t] = NoFlow
    BY <2>1
  <2>3. \A d, p : Way(net, d, p, t) = {}
    BY <2>1 DEF Way
  <2>4. \A d, p : Pair(NoFlow, NoFlow, {}, {}, d, p)
    BY DEF Pair, Agree, Took, Met
  <2> QED BY <2>1, <2>2, <2>3, <2>4 DEF Once, Has, PairIn
<1>2. StateInv /\ ChoiceInv /\ ConfirmedInv /\ OnceInv /\ [Next]_vars => OnceInv'
  <2> SUFFICES ASSUME StateInv, ChoiceInv, ConfirmedInv, OnceInv, [Next]_vars, NEW t \in Txn
               PROVE  Once(t)'
    BY DEF OnceInv
  <2>1. StepOf(t)
    BY Steps DEF Step
  <2> QED BY <2>1, OnceStep DEF OnceInv, ConfirmedInv, ChoiceInv
<1> QED BY <1>1, <1>2, AlwaysState, AlwaysConfirmed, PTL DEF Spec

\* Two devices that compare strings show the same one, for any order of ready,
\* start, accept and key and any glare: who has taken the start of the other is
\* the receiver on both sides, and each key is the one its sender has.
THEOREM SameStrings == Spec => []SameSas
<1>1. StateInv /\ OnceInv => SameSas
  <2> SUFFICES ASSUME StateInv, OnceInv, NEW d \in Device, NEW t \in Txn, MadeOnce(t),
                      NEW f, NEW g, f = flow[d][t], g = flow[f.peer][t],
                      f.state = "CompareEmoji", g.state = "CompareEmoji", g.peer = d
               PROVE  Sas(f) = Sas(g)
    BY DEF SameSas
  <2>1. f # NoFlow /\ g # NoFlow
    BY DEF NoFlow
  <2>2. PICK p : p = f.peer
    OBVIOUS
  <2>3. Star(d, t) /\ FlowOK(f) /\ f.theirKey # None /\ f.me = d /\ f.txn = t /\ Own(f)
        /\ made[d][t] = 1 /\ f.key = <<d, 1>>
    BY <2>1 DEF StateInv, TypeInv, Star, Has, FlowOK, OnceInv, Once, MadeOnce
  <2>4. p # None
    BY <2>2, <2>3 DEF Own
  <2>5. Linked(d, p, t) /\ p \in Device /\ Linked(p, d, t)
    BY <2>1, <2>2, <2>3, <2>4, LinkedIs DEF Star, Has, Linked
  <2>6. Star(p, t) /\ FlowOK(g) /\ g.theirKey # None /\ g.me = p /\ g.txn = t /\ Own(g)
        /\ made[p][t] = 1 /\ g.key = <<p, 1>>
    <3>1. p \in Device /\ g = flow[p][t] /\ Has(p, t)
      BY <2>1, <2>2, <2>5 DEF Has
    <3>2. Star(p, t) /\ Own(g) /\ made[p][t] \in Nat /\ made[p][t] <= 1
      BY <3>1 DEF StateInv, TypeInv, OnceInv, Once, MadeOnce
    <3> QED BY <3>1, <3>2 DEF Star, FlowOK
  <2>7. PICK a, b : Pair(f, g, a, b, d, p)
    BY <2>2, <2>5 DEF OnceInv, Once, PairIn
  <2>8. Met(f, p) /\ Met(g, d) /\ d # p
    BY <2>1, <2>2, <2>5, LinkedIs DEF Met
  <2>9. f.theirKey = <<p, 1>> /\ g.theirKey = <<d, 1>>
    BY <2>3, <2>6, <2>7, <2>8 DEF Pair, Agree
  <2>10. f.role \in {"sender", "receiver"} /\ g.role \in {"sender", "receiver"}
    BY <2>3, <2>6 DEF FlowOK, Flow
  <2>11. CASE f.role = "sender"
    <3>1. f.commitment # None
      BY <2>3, <2>11 DEF Own
    <3>2. Took(g, f, b, p, d)
      BY <2>8, <3>1 DEF Took
    <3>3. g.role = "receiver"
      BY <2>7, <2>8, <3>2 DEF Pair, Agree
    <3> QED BY <2>3, <2>6, <2>9, <2>11, <3>3 DEF Sas
  <2>12. CASE f.role = "receiver"
    <3>1. "accept" \in f.sent \/ f.commitment # None
      BY <2>3, <2>12 DEF Own
    <3>2. Took(f, g, a, d, p) \/ Took(g, f, b, p, d)
      BY <2>2, <2>3, <2>8, <3>1 DEF Took, Own
    <3>3. g.role = "sender"
      BY <2>7, <2>8, <2>12, <3>2 DEF Pair, Agree
    <3> QED BY <2>3, <2>6, <2>9, <2>12, <3>3 DEF Sas
  <2> QED BY <2>10, <2>11, <2>12
<1> QED BY <1>1, AlwaysOnce, PTL

\* A key that arrives is expected and fits the commitment, whatever order the
\* messages of clients that keep to the protocol come in.
THEOREM NoFalseAlarms == Spec => []NoFalseAlarm
<1>1. StateInv /\ OnceInv => NoFalseAlarm
  BY DEF NoFalseAlarm, OnceInv, Once, Has, Own, Alarm
<1> QED BY <1>1, AlwaysOnce, PTL
=============================================================================
