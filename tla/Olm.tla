-------------------------------- MODULE Olm --------------------------------
(***************************************************************************)
(* Olm sessions between two devices: how send_encrypted_to_device_messages  *)
(* picks or creates a session, how a received message is decrypted or       *)
(* opens a session, and the dummy message on a new session that repairs a   *)
(* channel whose messages cannot be decrypted any more.                     *)
(*                                                                         *)
(* The sessions a device has stored are kept in the order of their          *)
(* last_message_ts, the latest first.  Sending writes seconds and receiving *)
(* writes milliseconds, so all sessions last used to receive (heard) come   *)
(* before those last used to send (said).  No two of them are used in the   *)
(* same second.  The homeserver never runs out of one-time keys.            *)
(***************************************************************************)
EXTENDS Integers, Sequences, SequencesExt, FiniteSets

CONSTANTS
  Senders,          \* the devices that have messages of their own to send
  MaxSessions,      \* bound: sessions that are created
  MaxNet,           \* bound: messages under way
  MaxFaults         \* bound: lost messages, failed claims, crashes

ASSUME SendersAssumption == Senders \subseteq {1, 2}
ASSUME OlmBounds == MaxSessions \in Nat /\ MaxNet \in Nat /\ MaxFaults \in Nat

VARIABLES
  store,            \* the olm sessions each device has stored
  replied,          \* sessions on which it has received a message
  consumed,         \* sessions whose one-time key has left its account
  creator,          \* the device that created each session, so far
  claim,            \* a claim_keys request is under way
  limited,          \* rateLimit holds a time less than ten hours ago
  net,              \* to-device messages under way
  lost,             \* history: sessions that a device had and has no longer
  faults

vars == <<store, replied, consumed, creator, claim, limited, net, lost, faults>>

----------------------------------------------------------------------------

Device == {1, 2}
Peer(d) == 3 - d
Session == 1..MaxSessions
Message == [to : Device, s : Session, pre : BOOLEAN]

Held(d) == ToSet(store[d].heard) \cup ToSet(store[d].said)

\* getLatestOlmSession
Latest(d) == Head(store[d].heard \o store[d].said)

\* Faulty variant of Said: the session is stored beside its old row.
SaidTwice(st, s) ==
  [heard |-> st.heard, said |-> <<s>> \o RemoveFirst(st.said, s)]

\* Faulty variant of Heard: a session that was just opened is not stored.
HeardKnown(st, s) ==
  IF s \in ToSet(st.heard) \cup ToSet(st.said)
    THEN [heard |-> <<s>> \o RemoveFirst(st.heard, s), said |-> RemoveFirst(st.said, s)]
    ELSE st

\* saveOlmSession with a time in seconds, and in milliseconds.  A session has one row.
Said(st, s) ==
  [heard |-> RemoveFirst(st.heard, s), said |-> <<s>> \o RemoveFirst(st.said, s)]

Heard(st, s) ==
  [heard |-> <<s>> \o RemoveFirst(st.heard, s), said |-> RemoveFirst(st.said, s)]

\* A message on a session is a pre-key message until the other device answers
\* on that session.
Cipher(d, s) == [to |-> Peer(d), s |-> s, pre |-> s \notin replied[d]]

\* No session, or one that is not wanted: one-time keys are claimed, at most
\* once in ten hours.  Otherwise the message is dropped.
Claim(d) ==
  /\ claim' = [claim EXCEPT ![d] = @ \/ ~limited[d]]
  /\ limited' = [limited EXCEPT ![d] = TRUE]

Init ==
  /\ store = [d \in Device |-> [heard |-> <<>>, said |-> <<>>]]
  /\ replied = [d \in Device |-> {}] /\ consumed = [d \in Device |-> {}]
  /\ creator = <<>>
  /\ claim = [d \in Device |-> FALSE] /\ limited = [d \in Device |-> FALSE]
  /\ net = {} /\ faults = 0 /\ lost = [d \in Device |-> {}]

Fault == faults < MaxFaults /\ faults' = faults + 1

----------------------------------------------------------------------------

\* send_encrypted_to_device_messages.  The session is stored before the
\* message is sent.
Send(d) ==
  /\ d \in Senders /\ Held(d) # {}
  /\ Cardinality(net) < MaxNet
  /\ store' = [store EXCEPT ![d] = Said(@, Latest(d))]
  /\ net' = net \cup {Cipher(d, Latest(d))}
  /\ UNCHANGED <<replied, consumed, creator, claim, limited, lost, faults>>

SendFirst(d) ==
  /\ d \in Senders /\ Held(d) = {}
  /\ Claim(d)
  /\ UNCHANGED <<store, replied, consumed, creator, net, lost, faults>>

\* The callback of claim_keys creates a session and sends on it.
ClaimAnswer(d) ==
  LET s == Len(creator) + 1
  IN  /\ claim[d] /\ claim' = [claim EXCEPT ![d] = FALSE]
      /\ s \in Session /\ Cardinality(net) < MaxNet
      /\ creator' = Append(creator, d)
      /\ store' = [store EXCEPT ![d] = Said(@, s)]
      /\ net' = net \cup {Cipher(d, s)}
      /\ UNCHANGED <<replied, consumed, limited, lost, faults>>

ClaimFails(d) ==
  /\ claim[d] /\ claim' = [claim EXCEPT ![d] = FALSE]
  /\ Fault
  /\ UNCHANGED <<store, replied, consumed, creator, limited, net, lost>>

TenHours(d) ==
  /\ limited[d] /\ ~claim[d]
  /\ limited' = [limited EXCEPT ![d] = FALSE]
  /\ UNCHANGED <<store, replied, consumed, creator, claim, net, lost, faults>>

----------------------------------------------------------------------------
\* handle_olm_message.

Readable(m) == m.s \in Held(m.to)
Opens(m) == ~Readable(m) /\ m.pre /\ m.s \notin consumed[m.to]

\* try_olm_decryption finds the session, or handle_pre_key_olm_message opens it.
Decrypt(m) ==
  /\ m \in net /\ net' = net \ {m}
  /\ Readable(m) \/ Opens(m)
  /\ store' = [store EXCEPT ![m.to] = Heard(@, m.s)]
  /\ replied' = [replied EXCEPT ![m.to] = @ \cup {m.s}]
  /\ consumed' = IF Opens(m) THEN [consumed EXCEPT ![m.to] = @ \cup {m.s}] ELSE consumed
  /\ UNCHANGED <<creator, claim, limited, lost, faults>>

\* Faulty variant of Recover: a pre-key message that opens no session is dropped.
RecoverNormal(m) ==
  /\ m \in net /\ net' = net \ {m}
  /\ ~Readable(m) /\ ~Opens(m)
  /\ IF m.pre THEN UNCHANGED <<claim, limited>> ELSE Claim(m.to)
  /\ UNCHANGED <<store, replied, consumed, creator, lost, faults>>

\* The message cannot be decrypted: a dummy message on a new session.
Recover(m) ==
  /\ m \in net /\ net' = net \ {m}
  /\ ~Readable(m) /\ ~Opens(m)
  /\ Claim(m.to)
  /\ UNCHANGED <<store, replied, consumed, creator, lost, faults>>

\* send_to_device or the query for the sender's keys fails.
Lose(m) ==
  /\ m \in net /\ net' = net \ {m}
  /\ Fault
  /\ UNCHANGED <<store, replied, consumed, creator, claim, limited, lost>>

\* The program ends and starts again.
Restart(d) ==
  /\ claim' = [claim EXCEPT ![d] = FALSE]
  /\ limited' = [limited EXCEPT ![d] = FALSE]

Crash(d) ==
  /\ Restart(d) /\ Fault
  /\ UNCHANGED <<store, replied, consumed, creator, net, lost>>

\* It ends when the account has been stored without the one-time key and the
\* session has not been stored yet.
CrashInOpen(m) ==
  /\ m \in net /\ net' = net \ {m}
  /\ Opens(m)
  /\ consumed' = [consumed EXCEPT ![m.to] = @ \cup {m.s}]
  /\ lost' = [lost EXCEPT ![m.to] = @ \cup {m.s}]
  /\ Restart(m.to) /\ Fault
  /\ UNCHANGED <<store, replied, creator>>

\* External: a client drops a session, or its database is restored from a backup.
DropSession(d, s) ==
  /\ s \in Held(d) /\ Fault
  /\ store' = [store EXCEPT ![d] = [heard |-> RemoveFirst(@.heard, s), said |-> RemoveFirst(@.said, s)]]
  /\ lost' = [lost EXCEPT ![d] = @ \cup {s}]
  /\ UNCHANGED <<replied, consumed, creator, claim, limited, net>>

Receive(d) == \E m \in net : m.to = d /\ (Decrypt(m) \/ Recover(m))

Next ==
  \/ \E d \in Device :
       \/ Send(d) \/ SendFirst(d) \/ ClaimAnswer(d) \/ ClaimFails(d) \/ TenHours(d)
       \/ Receive(d) \/ Crash(d) \/ \E s \in Session : DropSession(d, s)
  \/ \E m \in net : Lose(m) \/ CrashInOpen(m)

Spec == Init /\ [][Next]_vars

\* The first device has messages to send, requests are answered, what was sent
\* arrives, and time passes.  The other device need not send anything.
Fairness ==
  /\ SF_vars(Send(1) \/ SendFirst(1))
  /\ \A d \in Device :
       SF_vars(ClaimAnswer(d)) /\ WF_vars(TenHours(d)) /\ WF_vars(Receive(d))

FairSpec == Spec /\ Fairness

----------------------------------------------------------------------------
\* Properties.

\* Every variable holds a value of its kind, and a session has one row.
TypeOK ==
  /\ store \in [Device -> [heard : Seq(Session), said : Seq(Session)]]
  /\ \A d \in Device : IsInjective(store[d].heard \o store[d].said)
  /\ replied \in [Device -> SUBSET Session] /\ consumed \in [Device -> SUBSET Session]
  /\ creator \in Seq(Device) /\ Len(creator) <= MaxSessions
  /\ claim \in [Device -> BOOLEAN] /\ limited \in [Device -> BOOLEAN]
  /\ net \subseteq Message /\ lost \in [Device -> SUBSET Session]
  /\ faults \in 0..MaxFaults

\* A message that cannot be decrypted is on a session that its receiver had and has
\* lost, when the program ended between the write of the account and that of the
\* session, or with the database.  Whatever else goes wrong (sessions created on both
\* sides at once, messages lost or reordered, claims that fail, restarts), the dummy
\* message that repairs the channel is not needed.
OnlyLostUnreadable == \A m \in net : Readable(m) \/ Opens(m) \/ m.s \in lost[m.to]

\* What d sends next cannot be decrypted.
Broken(d) ==
  /\ Held(d) # {}
  /\ LET m == Cipher(d, Latest(d)) IN ~Readable(m) /\ ~Opens(m)

\* A device that keeps sending is not left with a broken channel, although a
\* session is picked by times in two units, which lets a sender return to an old
\* session, and although one repair in ten hours is all that is tried.  The bound
\* on sessions is never reached, so it cuts no repair off.
Recovers == [](Len(creator) < MaxSessions) /\ (Broken(1) ~> ~Broken(1))
=============================================================================
