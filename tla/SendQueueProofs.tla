-------------------------- MODULE SendQueueProofs --------------------------
(***************************************************************************)
(* Theorems about SendQueue for any number of messages, any retry limit    *)
(* and any number of disturbances.                                         *)
(***************************************************************************)
EXTENDS SendQueue, TLAPS, SequenceTheorems, WellFoundedInduction

\* References and queued Qt events have the types of TypeOK.
LEMMA RefType ==
  ASSUME NEW t \in Txn \cup {NoTxn}
  PROVE  /\ Ref("none", t) \in Rel /\ Ref("txn", t) \in Rel /\ Ref("event", t) \in Rel
         /\ NoRel \in Rel
BY DEF Ref, Rel, NoRel

\* The head of a non-empty queue of the UI thread is one of its events.
LEMMA UiHead ==
  ASSUME uiq \in Seq(UiEvents), uiq # <<>>
  PROVE  /\ Head(uiq) \in UiEvents /\ Tail(uiq) \in Seq(UiEvents)
         /\ Head(uiq) = uiq[1] /\ 1 \in DOMAIN uiq
OBVIOUS

\* What processPending leaves in current_txn and in the requests.
LEMMA ProcessPendingType ==
  ASSUME NEW cur \in Txn \cup {NoTxn}, NEW P \in SUBSET [ts : Nat, txn : Txn], NEW S,
         NEW R \in [Txn -> Rel],
         requests \subseteq Requests,
         ProcessPending(cur, P, S, R)
  PROVE  /\ current_txn' \in Txn \cup {NoTxn} /\ queue' \in {"idle", "started"}
         /\ requests' \subseteq Requests
<1>1. CASE cur # NoTxn \/ FirstPending(P, S) = {}
  BY <1>1 DEF ProcessPending
<1>2. CASE ~(cur # NoTxn \/ FirstPending(P, S) = {})
  <2>1. PICK p \in FirstPending(P, S) :
          /\ current_txn' = p.txn
          /\ requests' = requests \cup
               {[txn |-> p.txn, rel |-> R[p.txn], at |-> "wire", cb |-> "live"]}
    BY <1>2 DEF ProcessPending
  <2>2. p.txn \in Txn /\ R[p.txn] \in Rel
    BY <2>1 DEF FirstPending
  <2> QED BY <2>1, <2>2 DEF ProcessPending, Requests
<1> QED BY <1>1, <1>2

\* Every step preserves the types.
LEMMA TypeStep == TypeOK /\ [Next]_vars => TypeOK'
<1> SUFFICES ASSUME TypeOK, [Next]_vars PROVE TypeOK'
  OBVIOUS
<1> USE NoTxnAssumption, EncryptedAssumption, RefType
<1>1. CASE SetReply
  BY <1>1 DEF SetReply, TypeOK, tables, Tick, Ref, Rel
<1>2. CASE UserSend
  <2>1. UiEvent("new", NoTxn, draft) \in UiEvents
    BY DEF TypeOK, UiEvent, UiEvents
  <2>2. uiq' \in Seq(UiEvents)
    BY <1>2, <2>1 DEF UserSend, TypeOK
  <2> QED BY <1>2, <2>2 DEF UserSend, TypeOK, tables, clock
<1>3. CASE HandleNew
  <2>1. PICK t \in Txn \ Queued :
          /\ rel' = [rel EXCEPT ![t] = Head(uiq).rel]
          /\ stored' = stored \cup {t}
          /\ shown' = shown \cup {t}
          /\ pending' = PutPending(pending, t)
          /\ history' = Append(history, <<"queued", t>>)
          /\ ProcessPending(current_txn, pending', stored', rel')
    BY <1>3 DEF HandleNew
  <2>2. Head(uiq) \in UiEvents /\ Tail(uiq) \in Seq(UiEvents)
    BY <1>3, UiHead DEF HandleNew, TypeOK
  <2>3. rel' \in [Txn -> Rel] /\ pending' \subseteq [ts : Nat, txn : Txn]
    BY <2>1, <2>2 DEF TypeOK, PutPending, UiEvents
  <2>4. history' \in Seq({"queued", "acked"} \X Txn)
    BY <2>1 DEF TypeOK
  <2>5. /\ current_txn' \in Txn \cup {NoTxn} /\ queue' \in {"idle", "started"}
        /\ requests' \subseteq Requests
    BY <2>1, <2>3, ProcessPendingType DEF TypeOK
  <2> QED BY <1>3, <2>1, <2>2, <2>3, <2>4, <2>5 DEF HandleNew, TypeOK, clock
<1>4. CASE HandleFailed
  <2>1. Head(uiq) \in UiEvents /\ Tail(uiq) \in Seq(UiEvents)
    BY <1>4, UiHead DEF HandleFailed, TypeOK
  <2>2. pending' \subseteq [ts : Nat, txn : Txn] /\ error_count' \in Nat
    BY <1>4 DEF HandleFailed, TypeOK, RemovePending
  <2>3. fails' \in [Txn -> Nat]
    <3>1. \/ fails' = fails
          \/ fails' = [fails EXCEPT ![Head(uiq).txn] = fails[Head(uiq).txn] + 1]
      BY <1>4 DEF HandleFailed
    <3>2. fails \in [Txn -> Nat] /\ Head(uiq).txn \in Txn
      BY <1>4, <2>1 DEF HandleFailed, TypeOK, UiEvents
    <3> QED BY <3>1, <3>2
  <2> QED BY <1>4, <2>1, <2>2, <2>3 DEF HandleFailed, TypeOK, clock
<1>5. CASE TimerFires
  <2>1. /\ current_txn' \in Txn \cup {NoTxn} /\ queue' \in {"idle", "started"}
        /\ requests' \subseteq Requests
    BY <1>5, ProcessPendingType DEF TimerFires, TypeOK
  <2> QED BY <1>5, <2>1 DEF TimerFires, TypeOK, tables, clock
<1>6. CASE HandleSent
  <2>1. Head(uiq) \in UiEvents /\ Tail(uiq) \in Seq(UiEvents) /\ uiq' = Tail(uiq)
    BY <1>6, UiHead DEF HandleSent, TypeOK
  <2>2. rel' \in [Txn -> Rel] /\ pending' \subseteq [ts : Nat, txn : Txn]
    BY <1>6, <2>1 DEF HandleSent, TypeOK, RemovePending, Rewrite, UiEvents
  <2>3. history' \in Seq({"queued", "acked"} \X Txn)
    BY <1>6, <2>1 DEF HandleSent, TypeOK, UiEvents
  <2>4. /\ current_txn' \in Txn \cup {NoTxn} /\ queue' \in {"idle", "started"}
        /\ requests' \subseteq Requests
    BY <1>6, <2>2, ProcessPendingType DEF HandleSent, TypeOK
  <2> QED BY <1>6, <2>1, <2>2, <2>3, <2>4 DEF HandleSent, TypeOK, clock
<1>7. CASE HandleDraft
  <2>1. Head(uiq) \in UiEvents /\ Tail(uiq) \in Seq(UiEvents)
    BY <1>7, UiHead DEF HandleDraft, TypeOK
  <2>2. draft' \in Rel
    BY <1>7, <2>1 DEF HandleDraft, TypeOK, UiEvents
  <2> QED BY <1>7, <2>1, <2>2 DEF HandleDraft, TypeOK, tables, clock
<1>8. CASE ServerAccept
  <2>1. PICK r \in requests :
          /\ server' = IF r.txn \in Accepted THEN server
                       ELSE server \cup {[txn |-> r.txn, rel |-> r.rel]}
          /\ requests' = (requests \ {r}) \cup
                           (IF r.cb = "live" THEN {[r EXCEPT !.at = "server"]} ELSE {})
    BY <1>8 DEF ServerAccept
  <2>2. r \in Requests
    BY DEF TypeOK
  <2>3. server' \subseteq [txn : Txn, rel : Rel]
    BY <2>1, <2>2 DEF TypeOK, Requests
  <2>4. requests' \subseteq Requests
    BY <2>1, <2>2 DEF TypeOK, Requests
  <2> QED BY <1>8, <2>3, <2>4 DEF ServerAccept, TypeOK, tables, clock
<1>9. CASE RespondOk
  <2>1. PICK r \in requests :
          /\ uiq' = uiq \o <<UiEvent("sent", r.txn, NoRel), UiEvent("draft", r.txn, NoRel)>>
          /\ requests' = requests \ {r}
    BY <1>9 DEF RespondOk
  <2>2. UiEvent("sent", r.txn, NoRel) \in UiEvents /\ UiEvent("draft", r.txn, NoRel) \in UiEvents
    BY <2>1 DEF TypeOK, UiEvent, UiEvents, NoRel, Ref, Rel, Requests
  <2>3. uiq' \in Seq(UiEvents)
    BY <2>1, <2>2 DEF TypeOK
  <2> QED BY <1>9, <2>1, <2>3 DEF RespondOk, TypeOK, tables, clock
<1>10. CASE RespondError
  <2>1. PICK r \in requests :
          /\ uiq' = Append(uiq, UiEvent("failed", r.txn, NoRel))
          /\ requests' = (requests \ {r}) \cup
                           (IF r.at = "wire" THEN {[r EXCEPT !.cb = "gone"]} ELSE {})
    BY <1>10 DEF RespondError
  <2>2. UiEvent("failed", r.txn, NoRel) \in UiEvents
    BY <2>1 DEF TypeOK, UiEvent, UiEvents, NoRel, Ref, Rel, Requests
  <2>3. uiq' \in Seq(UiEvents)
    BY <2>1, <2>2 DEF TypeOK
  <2> QED BY <1>10, <2>1, <2>3 DEF RespondError, TypeOK, tables, clock, Requests
<1>11. CASE SyncEcho
  BY <1>11 DEF SyncEcho, TypeOK, RemovePending, Accepted, clock
<1>12. CASE SyncOther
  BY <1>12 DEF SyncOther, TypeOK, clock
<1>13. CASE SyncLimited
  BY <1>13 DEF SyncLimited, TypeOK, Upset, Accepted
<1>14. CASE ClearTimeline
  BY <1>14 DEF ClearTimeline, TypeOK, Upset
<1>15. CASE RotateSession
  BY <1>15 DEF RotateSession, TypeOK, Upset, tables
<1>16. CASE TimePasses
  BY <1>16 DEF TimePasses, TypeOK, Tick, tables
<1>17. CASE Restart
  <2>1. requests' \subseteq Requests
    <3>1. requests' = {[r EXCEPT !.cb = "gone"] : r \in {q \in requests : q.at = "wire"}}
      BY <1>17 DEF Restart
    <3>2. requests \subseteq Requests
      BY DEF TypeOK
    <3> QED BY <3>1, <3>2 DEF Requests
  <2>2. fails' \in [Txn -> Nat] /\ uiq' \in Seq(UiEvents) /\ draft' \in Rel
    BY <1>17 DEF Restart
  <2> QED BY <1>17, <2>1, <2>2 DEF Restart, TypeOK, Upset, tables
<1>18. CASE UNCHANGED vars
  BY <1>18 DEF vars, TypeOK
<1> QED
  BY <1>1, <1>2, <1>3, <1>4, <1>5, <1>6, <1>7, <1>8, <1>9, <1>10, <1>11, <1>12, <1>13,
     <1>14, <1>15, <1>16, <1>17, <1>18 DEF Next

\* Every state of the send queue is well typed.
THEOREM TypeCorrect == Spec => []TypeOK
<1>1. Init => TypeOK
  BY EncryptedAssumption DEF Init, TypeOK, NoRel, Ref, Rel
<1> QED BY <1>1, TypeStep, PTL DEF Spec

----------------------------------------------------------------------------

\* Taking the head of the queue of the UI thread shifts the answers in it.
LEMMA AnswersTail ==
  ASSUME TypeOK, uiq # <<>>, uiq' = Tail(uiq)
  PROVE  /\ \A i \in Answers' : i + 1 \in Answers /\ uiq'[i] = uiq[i + 1]
         /\ \A i \in Answers : i # 1 => i - 1 \in Answers'
         /\ 1 \in Answers <=> IsAnswer(Head(uiq))
<1>1. /\ uiq \in Seq(UiEvents) /\ Len(uiq) \in Nat /\ Len(uiq) > 0
      /\ Len(uiq') = Len(uiq) - 1 /\ DOMAIN uiq' = 1..(Len(uiq) - 1)
      /\ DOMAIN uiq = 1..Len(uiq)
      /\ \A i \in 1..(Len(uiq) - 1) : uiq'[i] = uiq[i + 1]
  BY DEF TypeOK
<1>2. \A i \in Answers' : i + 1 \in Answers /\ uiq'[i] = uiq[i + 1]
  BY <1>1 DEF Answers, IsAnswer
<1>3. \A i \in Answers : i # 1 => i - 1 \in Answers'
  BY <1>1 DEF Answers, IsAnswer
<1>4. 1 \in Answers <=> IsAnswer(Head(uiq))
  BY <1>1 DEF Answers, IsAnswer
<1> QED BY <1>2, <1>3, <1>4

\* Appending to the queue of the UI thread keeps the answers where they are.
LEMMA AnswersAppend ==
  ASSUME TypeOK, NEW e \in UiEvents, uiq' = Append(uiq, e)
  PROVE  /\ \A i \in Answers : i \in Answers' /\ uiq'[i] = uiq[i]
         /\ \A i \in Answers' : i \in Answers \/ (i = Len(uiq) + 1 /\ uiq'[i] = e /\ IsAnswer(e))
         /\ IsAnswer(e) => Len(uiq) + 1 \in Answers' /\ uiq'[Len(uiq) + 1] = e
<1>1. /\ uiq \in Seq(UiEvents) /\ Len(uiq) \in Nat
      /\ DOMAIN uiq = 1..Len(uiq) /\ DOMAIN uiq' = 1..(Len(uiq) + 1)
      /\ \A i \in 1..Len(uiq) : uiq'[i] = uiq[i]
      /\ uiq'[Len(uiq) + 1] = e
  BY DEF TypeOK
<1> QED BY <1>1 DEF Answers, IsAnswer

\* The answer of a successful request is one "sent" event.
LEMMA AnswersSent ==
  ASSUME TypeOK, NEW t \in Txn,
         uiq' = uiq \o <<UiEvent("sent", t, NoRel), UiEvent("draft", t, NoRel)>>
  PROVE  /\ \A i \in Answers : i \in Answers' /\ uiq'[i] = uiq[i]
         /\ \A i \in Answers' : i \in Answers \/ i = Len(uiq) + 1
         /\ Len(uiq) + 1 \in Answers' /\ uiq'[Len(uiq) + 1].txn = t
<1> DEFINE a == UiEvent("sent", t, NoRel)
           b == UiEvent("draft", t, NoRel)
<1>1. a.ev = "sent" /\ a.txn = t /\ b.ev = "draft" /\ a \in UiEvents /\ b \in UiEvents
  BY DEF UiEvent, UiEvents
<1> HIDE DEF a, b
<1>2. /\ uiq \in Seq(UiEvents) /\ Len(uiq) \in Nat
      /\ DOMAIN uiq = 1..Len(uiq) /\ DOMAIN uiq' = 1..(Len(uiq) + 2)
      /\ \A i \in 1..Len(uiq) : uiq'[i] = uiq[i]
      /\ uiq'[Len(uiq) + 1] = a /\ uiq'[Len(uiq) + 2] = b
  <2>1. uiq' = uiq \o <<a, b>>
    BY DEF a, b
  <2> QED BY <1>1, <2>1 DEF TypeOK
<1> QED BY <1>1, <1>2 DEF Answers, IsAnswer

\* processPending, run while nothing is being processed, either starts one
\* request for current_txn or finds nothing to send.
LEMMA StartNext ==
  ASSUME TypeOK, NEW P \in SUBSET [ts : Nat, txn : Txn], NEW S, NEW R,
         ProcessPending(NoTxn, P, S, R), Live = {}
  PROVE  \/ current_txn' = NoTxn /\ Live' = {} /\ FirstPending(P, S) = {}
         \/ /\ current_txn' \in Txn
            /\ \E r \in Live' : Live' = {r} /\ r.txn = current_txn'
<1>1. CASE FirstPending(P, S) = {}
  BY <1>1 DEF ProcessPending, Live
<1>2. CASE FirstPending(P, S) # {}
  <2>1. PICK p \in FirstPending(P, S) :
          /\ current_txn' = p.txn
          /\ requests' = requests \cup
               {[txn |-> p.txn, rel |-> R[p.txn], at |-> "wire", cb |-> "live"]}
    BY <1>2 DEF ProcessPending
  <2>2. p.txn \in Txn
    BY <2>1 DEF FirstPending
  <2>3. Live' = {[txn |-> p.txn, rel |-> R[p.txn], at |-> "wire", cb |-> "live"]}
    BY <2>1 DEF Live
  <2> QED BY <2>1, <2>2, <2>3
<1> QED BY <1>1, <1>2

\* What the message being processed waits for.
Waiting == Live # {} \/ Answers # {} \/ timers = 1

\* The part of the invariant that the exclusion argument needs: exactly one
\* request, answer or timer exists while current_txn is set, and none otherwise.
Control == OneAtATime /\ (current_txn # NoTxn => Waiting)

\* Every step preserves the exclusion argument.
LEMMA ControlStep == TypeOK /\ Control /\ [Next]_vars => Control'
<1> SUFFICES ASSUME TypeOK, Control, [Next]_vars PROVE Control'
  OBVIOUS
<1> USE NoTxnAssumption
<1>q. ASSUME UNCHANGED <<uiq, timers, requests, current_txn>> PROVE Control'
  BY <1>q DEF Control, Waiting, OneAtATime, Live, Answers
<1>2. CASE UserSend
  <2>1. UiEvent("new", NoTxn, draft) \in UiEvents /\ ~IsAnswer(UiEvent("new", NoTxn, draft))
    BY DEF TypeOK, UiEvent, UiEvents, IsAnswer
  <2>2. Answers' = Answers /\ \A i \in Answers : uiq'[i] = uiq[i]
    BY <1>2, <2>1, AnswersAppend DEF UserSend
  <2>3. UNCHANGED <<timers, requests, current_txn>>
    BY <1>2 DEF UserSend
  <2> QED BY <2>2, <2>3 DEF Control, Waiting, OneAtATime, Live
<1>3. CASE HandleNew
  <2>1. /\ \A i \in Answers' : i + 1 \in Answers /\ uiq'[i] = uiq[i + 1]
        /\ \A i \in Answers : i - 1 \in Answers'
        /\ timers' = timers
    BY <1>3, AnswersTail DEF HandleNew, IsAnswer
  <2>2. PICK t \in Txn \ Queued : /\ pending' = PutPending(pending, t)
                                  /\ ProcessPending(current_txn, pending', stored', rel')
    BY <1>3 DEF HandleNew
  <2>3. Answers' \subseteq Nat
    <3>1. uiq' \in Seq(UiEvents)
      BY TypeStep DEF TypeOK
    <3> QED BY <3>1 DEF Answers
  <2>4. CASE current_txn # NoTxn
    <3>1. UNCHANGED <<requests, current_txn, timers>>
      BY <2>1, <2>2, <2>4 DEF ProcessPending
    <3> QED BY <2>1, <2>3, <3>1 DEF Control, Waiting, OneAtATime, Live
  <2>5. CASE current_txn = NoTxn
    <3>1. Live = {} /\ Answers = {} /\ timers = 0
      BY <2>5 DEF Control, OneAtATime
    <3>2. Answers' = {} /\ timers' = 0
      BY <2>1, <3>1
    <3>3. pending' \subseteq [ts : Nat, txn : Txn]
      BY TypeStep DEF TypeOK
    <3>4. \/ current_txn' = NoTxn /\ Live' = {}
          \/ current_txn' \in Txn /\ \E r \in Live' : Live' = {r} /\ r.txn = current_txn'
      BY <2>2, <2>5, <3>1, <3>3, StartNext
    <3> QED BY <3>2, <3>4 DEF Control, Waiting, OneAtATime
  <2> QED BY <2>4, <2>5
<1>4. CASE HandleFailed
  <2>1. 1 \in Answers
    BY <1>4, AnswersTail DEF HandleFailed, IsAnswer
  <2>2. Answers' = {}
    BY <1>4, <2>1, AnswersTail DEF HandleFailed, Control, OneAtATime, Answers, TypeOK
  <2>3. Live = {} /\ timers = 0 /\ current_txn # NoTxn
    BY <2>1 DEF Control, OneAtATime
  <2>4. timers' = 1 /\ UNCHANGED <<requests, current_txn>>
    BY <1>4, <2>3 DEF HandleFailed
  <2> QED BY <2>2, <2>3, <2>4 DEF Control, Waiting, OneAtATime, Live
<1>5. CASE TimerFires
  <2>1. Live = {} /\ Answers = {} /\ timers = 1
    BY <1>5 DEF TimerFires, Control, OneAtATime, TypeOK
  <2>2. Answers' = {} /\ timers' = 0
    BY <1>5, <2>1 DEF TimerFires, Answers
  <2>3. \/ current_txn' = NoTxn /\ Live' = {}
        \/ current_txn' \in Txn /\ \E r \in Live' : Live' = {r} /\ r.txn = current_txn'
    BY <1>5, <2>1, StartNext DEF TimerFires, TypeOK
  <2> QED BY <2>2, <2>3 DEF Control, Waiting, OneAtATime
<1>6. CASE HandleSent
  <2>1. 1 \in Answers
    BY <1>6, AnswersTail DEF HandleSent, IsAnswer
  <2>2. Answers' = {}
    BY <1>6, <2>1, AnswersTail DEF HandleSent, Control, OneAtATime, Answers, TypeOK
  <2>3. Live = {} /\ timers = 0
    BY <2>1 DEF Control, OneAtATime
  <2>4. pending' \subseteq [ts : Nat, txn : Txn]
    BY TypeStep DEF TypeOK
  <2>5. \/ current_txn' = NoTxn /\ Live' = {}
        \/ current_txn' \in Txn /\ \E r \in Live' : Live' = {r} /\ r.txn = current_txn'
    BY <1>6, <2>3, <2>4, StartNext DEF HandleSent
  <2>6. timers' = 0
    BY <1>6, <2>3 DEF HandleSent
  <2> QED BY <2>2, <2>5, <2>6 DEF Control, Waiting, OneAtATime
<1>7. CASE HandleDraft
  <2>1. /\ \A i \in Answers' : i + 1 \in Answers /\ uiq'[i] = uiq[i + 1]
        /\ \A i \in Answers : i - 1 \in Answers'
        /\ UNCHANGED <<timers, requests, current_txn>>
    BY <1>7, AnswersTail DEF HandleDraft, IsAnswer
  <2>2. Answers' \subseteq Nat
    BY TypeStep DEF TypeOK, Answers
  <2>3. ASSUME NEW i \in Answers', NEW j \in Answers' PROVE i = j
    <3>1. i + 1 \in Answers /\ j + 1 \in Answers
      BY <2>1
    <3>2. i + 1 = j + 1
      BY <3>1 DEF Control, OneAtATime
    <3> QED BY <2>2, <3>2
  <2>4. Live' = Live /\ (Answers' = {} <=> Answers = {})
    BY <2>1 DEF Live
  <2>5. \A i \in Answers' : uiq'[i].txn = current_txn'
    BY <2>1 DEF Control, OneAtATime
  <2> QED BY <2>1, <2>3, <2>4, <2>5 DEF Control, Waiting, OneAtATime
<1>8. CASE ServerAccept
  <2>1. PICK r \in requests :
          requests' = (requests \ {r}) \cup
                        (IF r.cb = "live" THEN {[r EXCEPT !.at = "server"]} ELSE {})
    BY <1>8 DEF ServerAccept
  <2>2. r \in Requests
    BY DEF TypeOK
  <2>3. UNCHANGED <<uiq, timers, current_txn>> /\ Answers' = Answers
    BY <1>8 DEF ServerAccept, Answers
  <2>4. CASE r.cb = "live"
    <3>1. Live = {r}
      BY <2>4 DEF Control, OneAtATime, Live
    <3>2. Live' = {[r EXCEPT !.at = "server"]}
      BY <2>1, <2>2, <2>4, <3>1 DEF Live, Requests
    <3>3. [r EXCEPT !.at = "server"].txn = r.txn
      BY <2>2 DEF Requests
    <3> QED BY <2>3, <3>1, <3>2, <3>3 DEF Control, Waiting, OneAtATime
  <2>5. CASE r.cb # "live"
    <3>1. Live' = Live
      BY <2>1, <2>5 DEF Live
    <3> QED BY <2>3, <3>1 DEF Control, Waiting, OneAtATime
  <2> QED BY <2>4, <2>5
<1>9. CASE RespondOk
  <2>1. PICK r \in requests :
          /\ r.cb = "live"
          /\ uiq' = uiq \o <<UiEvent("sent", r.txn, NoRel), UiEvent("draft", r.txn, NoRel)>>
          /\ requests' = requests \ {r}
    BY <1>9 DEF RespondOk
  <2>2. r.txn \in Txn /\ UNCHANGED <<timers, current_txn>>
    BY <1>9 DEF TypeOK, Requests, RespondOk
  <2>3. Live = {r} /\ Answers = {} /\ timers = 0 /\ r.txn = current_txn
    BY <2>1 DEF Control, OneAtATime, Live
  <2>4. Live' = {}
    BY <2>1, <2>3 DEF Live
  <2>5. Answers' = {Len(uiq) + 1} /\ uiq'[Len(uiq) + 1].txn = r.txn
    BY <2>1, <2>2, <2>3, AnswersSent
  <2> QED BY <2>2, <2>3, <2>4, <2>5 DEF Control, Waiting, OneAtATime
<1>10. CASE RespondError
  <2>1. PICK r \in requests :
          /\ r.cb = "live"
          /\ uiq' = Append(uiq, UiEvent("failed", r.txn, NoRel))
          /\ requests' = (requests \ {r}) \cup
                           (IF r.at = "wire" THEN {[r EXCEPT !.cb = "gone"]} ELSE {})
    BY <1>10 DEF RespondError
  <2>2. r \in Requests /\ UNCHANGED <<timers, current_txn>>
    BY <1>10 DEF TypeOK, RespondError
  <2>3. Live = {r} /\ Answers = {} /\ timers = 0 /\ r.txn = current_txn
    BY <2>1 DEF Control, OneAtATime, Live
  <2>4. Live' = {}
    BY <2>1, <2>2, <2>3 DEF Live, Requests
  <2>5. /\ UiEvent("failed", r.txn, NoRel) \in UiEvents
        /\ IsAnswer(UiEvent("failed", r.txn, NoRel))
        /\ UiEvent("failed", r.txn, NoRel).txn = r.txn
    BY <2>2 DEF UiEvent, UiEvents, IsAnswer, Requests
  <2>6. Answers' = {Len(uiq) + 1} /\ uiq'[Len(uiq) + 1].txn = r.txn
    BY <2>1, <2>3, <2>5, AnswersAppend
  <2> QED BY <2>2, <2>3, <2>4, <2>6 DEF Control, Waiting, OneAtATime
<1>17. CASE Restart
  <2>1. current_txn' = NoTxn /\ timers' = 0 /\ Answers' = {}
    BY <1>17 DEF Restart, Answers
  <2>2. requests' = {[r EXCEPT !.cb = "gone"] : r \in {q \in requests : q.at = "wire"}}
    BY <1>17 DEF Restart
  <2>3. Live' = {}
    BY <2>2 DEF Live, TypeOK, Requests
  <2> QED BY <2>1, <2>3 DEF Control, Waiting, OneAtATime
<1>18. CASE UNCHANGED vars
  BY <1>18, <1>q DEF vars
<1> QED
  BY <1>q, <1>2, <1>3, <1>4, <1>5, <1>6, <1>7, <1>8, <1>9, <1>10, <1>17, <1>18
  DEF Next, SetReply, SyncEcho, SyncOther, SyncLimited, ClearTimeline, RotateSession, TimePasses

\* At most one request, answer or retry timer exists, and it is current_txn's.
THEOREM OneAtATimeCorrect == Spec => []OneAtATime
<1>1. Init => Control
  BY DEF Init, Control, OneAtATime, Live, Answers
<1>2. Control => OneAtATime
  BY DEF Control
<1> QED BY <1>1, <1>2, TypeCorrect, ControlStep, PTL DEF Spec

----------------------------------------------------------------------------

\* firstPendingMessage finds nothing only when no row has a readable event.
LEMMA FirstPendingEmpty ==
  ASSUME NEW P \in SUBSET [ts : Nat, txn : Txn], NEW S, FirstPending(P, S) = {}
  PROVE  \A p \in P : p.txn \notin S
<1> SUFFICES ASSUME NEW q \in P, q.txn \in S PROVE FALSE
  OBVIOUS
<1> DEFINE T == {p.ts : p \in {x \in P : x.txn \in S}}
<1>1. T \subseteq Nat /\ T # {}
  OBVIOUS
<1> DEFINE L == OpToRel(<, Nat)
<1>2. \A x \in T : \A y \in T : y < x => <<y, x>> \in L
  BY <1>1 DEF OpToRel
<1>w. IsWellFoundedOn(L, Nat)
  BY NatLessThanWellFounded
<1> HIDE DEF T, L
<1>3. \E x \in T : \A y \in T : ~(<<y, x>> \in L)
  BY <1>1, <1>w, WFMin
<1>m. PICK m \in T : \A y \in T : ~(<<y, m>> \in L)
  BY <1>3
<1>4. ASSUME NEW y \in T PROVE m <= y
  <2>1. ~(y < m)
    BY <1>2, <1>m, Zenon
  <2> QED BY <1>1, <2>1
<1>5. PICK p \in P : p.txn \in S /\ p.ts = m
  BY <1>4 DEF T
<1>6. \A r \in P : r.txn \in S => p.ts <= r.ts
  BY <1>4, <1>5 DEF T
<1> QED BY <1>5, <1>6 DEF FirstPending

\* When nothing is being processed, nothing waits.
Idle == current_txn = NoTxn /\ queue = "started" => \A t \in Txn : ~Sendable(t)

\* processPending leaves current_txn empty only when nothing can be sent.
LEMMA IdleAfterProcessPending ==
  ASSUME TypeOK', NEW cur, NEW R, ProcessPending(cur, pending', stored', R)
  PROVE  Idle'
<1>1. ASSUME current_txn' = NoTxn PROVE FirstPending(pending', stored') = {}
  <2> SUFFICES ASSUME FirstPending(pending', stored') # {} PROVE FALSE
    OBVIOUS
  <2>1. cur = NoTxn
    BY <1>1 DEF ProcessPending
  <2>2. PICK p \in FirstPending(pending', stored') : current_txn' = p.txn
    BY <2>1 DEF ProcessPending
  <2>3. p.txn \in Txn
    BY <2>2 DEF FirstPending, TypeOK
  <2> QED BY <1>1, <2>2, <2>3, NoTxnAssumption
<1>2. pending' \in SUBSET [ts : Nat, txn : Txn]
  BY DEF TypeOK
<1> QED BY <1>1, <1>2, FirstPendingEmpty DEF Idle, Sendable, IsPending

\* Every step keeps the queue from wedging.
LEMMA IdleStep == TypeOK /\ Idle /\ Control /\ [Next]_vars => Idle'
<1> SUFFICES ASSUME TypeOK, Idle, Control, [Next]_vars PROVE Idle'
  OBVIOUS
<1>t. TypeOK'
  BY TypeStep
<1>q. ASSUME UNCHANGED <<current_txn, queue>>, pending' \subseteq pending, stored' \subseteq stored
      PROVE  Idle'
  BY <1>q DEF Idle, Sendable, IsPending
<1>1. CASE HandleNew
  <2>1. PICK t \in Txn : ProcessPending(current_txn, pending', stored', rel')
    BY <1>1 DEF HandleNew
  <2> QED BY <1>t, <2>1, IdleAfterProcessPending
<1>2. CASE TimerFires
  <2>1. ProcessPending(NoTxn, pending', stored', rel')
    BY <1>2 DEF TimerFires, tables
  <2> QED BY <1>t, <2>1, IdleAfterProcessPending
<1>3. CASE HandleSent
  <2>1. ProcessPending(NoTxn, pending', stored', rel')
    BY <1>3 DEF HandleSent
  <2> QED BY <1>t, <2>1, IdleAfterProcessPending
<1>4. CASE HandleFailed
  <2>1. UNCHANGED <<current_txn, queue, stored>> /\ pending' \subseteq pending
    BY <1>4 DEF HandleFailed, RemovePending
  <2> QED BY <2>1, <1>q
<1>5. CASE SyncEcho
  <2>1. UNCHANGED <<current_txn, queue>> /\ pending' \subseteq pending /\ stored' \subseteq stored
    BY <1>5 DEF SyncEcho, RemovePending
  <2> QED BY <2>1, <1>q
<1>6. CASE SyncLimited
  BY <1>6, <1>q DEF SyncLimited
<1>7. CASE ClearTimeline
  BY <1>7, <1>q DEF ClearTimeline
<1>8. CASE Restart
  BY <1>8 DEF Restart, Idle
<1>9. CASE UNCHANGED vars
  BY <1>9, <1>q DEF vars
<1> QED
  BY <1>q, <1>1, <1>2, <1>3, <1>4, <1>5, <1>6, <1>7, <1>8, <1>9
  DEF Next, SetReply, UserSend, HandleDraft, ServerAccept, RespondOk, RespondError,
      SyncOther, RotateSession, TimePasses, tables, clock

\* The queue never wedges: it waits for an answer or a timer, or has no work.
THEOREM NeverWedgedCorrect == Spec => []NeverWedged
<1>1. Init => Control /\ Idle
  BY DEF Init, Control, OneAtATime, Live, Answers, Idle
<1>2. Control /\ Idle => NeverWedged
  BY DEF Control, Waiting, Idle, NeverWedged
<1> QED BY <1>1, <1>2, TypeCorrect, ControlStep, IdleStep, PTL DEF Spec

----------------------------------------------------------------------------

\* Only queued messages have rows, requests or events, and no row is from the future.
OnlyQueued ==
  /\ \A p \in pending : p.ts <= now /\ p.txn \in Queued
  /\ \A r \in requests : r.txn \in Queued
  /\ Accepted \subseteq Queued

\* The timestamps order the rows the way the messages were queued.
RowsOrdered ==
  \A p, q \in pending : QueuedBefore(p.txn, q.txn) => p.ts < q.ts

Order == OnlyQueued /\ RowsOrdered /\ InOrder

\* What an entry appended to the history does to the order of the messages.
LEMMA HistoryQueued ==
  ASSUME TypeOK, NEW t \in Txn, history' = Append(history, <<"queued", t>>)
  PROVE  /\ Queued' = Queued \cup {t}
         /\ \A a, b \in Txn : QueuedBefore(a, b)' <=> QueuedBefore(a, b) \/ (a \in Queued /\ b = t)
<1>1. /\ Len(history) \in Nat
      /\ DOMAIN history = 1..Len(history) /\ DOMAIN history' = 1..(Len(history) + 1)
      /\ \A i \in 1..Len(history) : history'[i] = history[i]
      /\ history'[Len(history) + 1] = <<"queued", t>>
  BY DEF TypeOK
<1>2. Queued' = Queued \cup {t}
  BY <1>1 DEF Queued
<1>3. ASSUME NEW a \in Txn, NEW b \in Txn, QueuedBefore(a, b)'
      PROVE  QueuedBefore(a, b) \/ (a \in Queued /\ b = t)
  <2>1. PICK i \in DOMAIN history', j \in DOMAIN history' :
          i < j /\ history'[i] = <<"queued", a>> /\ history'[j] = <<"queued", b>>
    BY <1>3 DEF QueuedBefore
  <2>2. i \in 1..Len(history) /\ history[i] = <<"queued", a>>
    BY <1>1, <2>1
  <2>3. CASE j = Len(history) + 1
    BY <1>1, <2>1, <2>2, <2>3 DEF Queued
  <2>4. CASE j # Len(history) + 1
    BY <1>1, <2>1, <2>2, <2>4 DEF QueuedBefore
  <2> QED BY <2>3, <2>4
<1>4. ASSUME NEW a \in Txn, NEW b \in Txn, QueuedBefore(a, b) \/ (a \in Queued /\ b = t)
      PROVE  QueuedBefore(a, b)'
  <2>1. CASE QueuedBefore(a, b)
    BY <1>1, <2>1 DEF QueuedBefore
  <2>2. CASE a \in Queued /\ b = t
    <3>1. PICK i \in DOMAIN history : history[i] = <<"queued", a>>
      BY <2>2 DEF Queued
    <3>2. i < Len(history) + 1 /\ history'[i] = <<"queued", a>>
      BY <1>1, <3>1
    <3> QED BY <1>1, <2>2, <3>1, <3>2 DEF QueuedBefore
  <2> QED BY <1>4, <2>1, <2>2
<1> QED BY <1>2, <1>3, <1>4

\* A messageSent slot leaves the order of the messages alone.
LEMMA HistoryAcked ==
  ASSUME TypeOK, NEW t \in Txn, history' = Append(history, <<"acked", t>>)
  PROVE  /\ Queued' = Queued
         /\ \A a, b \in Txn : QueuedBefore(a, b)' <=> QueuedBefore(a, b)
<1>1. /\ Len(history) \in Nat
      /\ DOMAIN history = 1..Len(history) /\ DOMAIN history' = 1..(Len(history) + 1)
      /\ \A i \in 1..Len(history) : history'[i] = history[i]
      /\ history'[Len(history) + 1] = <<"acked", t>>
  BY DEF TypeOK
<1>2. \A x : history'[Len(history) + 1] # <<"queued", x>>
  BY <1>1
<1>3. Queued' = Queued
  BY <1>1, <1>2, SMTT(30) DEF Queued
<1>4. ASSUME NEW a \in Txn, NEW b \in Txn, QueuedBefore(a, b)' PROVE QueuedBefore(a, b)
  <2>1. PICK i \in DOMAIN history', j \in DOMAIN history' :
          i < j /\ history'[i] = <<"queued", a>> /\ history'[j] = <<"queued", b>>
    BY <1>4 DEF QueuedBefore
  <2>2. i \in DOMAIN history /\ j \in DOMAIN history
    BY <1>1, <1>2, <2>1
  <2> QED BY <1>1, <2>1, <2>2 DEF QueuedBefore
<1>5. ASSUME NEW a \in Txn, NEW b \in Txn, QueuedBefore(a, b) PROVE QueuedBefore(a, b)'
  BY <1>1, <1>5 DEF QueuedBefore
<1> QED BY <1>3, <1>4, <1>5

\* processPending sends the oldest message that can be sent, so it overtakes none.
LEMMA OrderAfterProcessPending ==
  ASSUME TypeOK', NEW cur, NEW R, ProcessPending(cur, pending', stored', R),
         OnlyQueued', RowsOrdered',
         \A s, t \in Txn :
           QueuedBefore(s, t)' /\ (t \in Accepted' \/ \E r \in requests : r.txn = t)
             => ~Sendable(s)'
  PROVE  InOrder'
<1> SUFFICES ASSUME NEW s \in Txn, NEW t \in Txn, QueuedBefore(s, t)',
                    t \in Accepted' \/ \E r \in requests' : r.txn = t,
                    Sendable(s)'
             PROVE  FALSE
  BY DEF InOrder
<1>0. ~(t \in Accepted' \/ \E r \in requests : r.txn = t)
  OBVIOUS
<1>1. PICK r \in requests' : r.txn = t /\ r \notin requests
  BY <1>0
<1>2. PICK p \in FirstPending(pending', stored') : r.txn = p.txn
  <2>1. ~(cur # NoTxn \/ FirstPending(pending', stored') = {})
    BY <1>1 DEF ProcessPending
  <2>2. PICK p \in FirstPending(pending', stored') :
          requests' = requests \cup
            {[txn |-> p.txn, rel |-> R[p.txn], at |-> "wire", cb |-> "live"]}
    BY <2>1 DEF ProcessPending
  <2> QED BY <1>1, <2>2
<1>3. PICK q \in pending' : q.txn = s /\ s \in stored'
  BY DEF Sendable, IsPending
<1>4. p \in pending' /\ p.ts <= q.ts
  BY <1>2, <1>3 DEF FirstPending
<1>5. q.ts < p.ts
  BY <1>1, <1>2, <1>3, <1>4 DEF RowsOrdered
<1>6. p.ts \in Nat /\ q.ts \in Nat
  BY <1>3, <1>4 DEF TypeOK
<1> QED BY <1>4, <1>5, <1>6

\* Every step keeps the rows, the requests and the accepted events in order.
LEMMA OrderStep == TypeOK /\ Order /\ [Next]_vars => Order'
<1> SUFFICES ASSUME TypeOK, Order, [Next]_vars PROVE Order'
  OBVIOUS
<1>t. TypeOK'
  BY TypeStep
<1>d. \A s, t : QueuedBefore(s, t) /\ s \in Txn /\ t \in Txn => s \in Queued /\ t \in Queued
  BY DEF QueuedBefore, Queued
<1>q. ASSUME UNCHANGED history, now <= now', pending' \subseteq pending, stored' \subseteq stored,
             \A r \in requests' : \E q \in requests : q.txn = r.txn,
             \A t \in Accepted' : t \in Accepted \/ \E q \in requests : q.txn = t
      PROVE  Order'
  <2>1. Queued' = Queued /\ \A a, b \in Txn : QueuedBefore(a, b)' <=> QueuedBefore(a, b)
    BY <1>q DEF Queued, QueuedBefore
  <2>2. OnlyQueued'
    <3>1. \A p \in pending' : p.ts \in Nat /\ p.ts <= now /\ now \in Nat /\ now' \in Nat
      BY <1>q, <1>t DEF Order, OnlyQueued, TypeOK
    <3>2. \A p \in pending' : p.ts <= now' /\ p.txn \in Queued'
      BY <1>q, <2>1, <3>1 DEF Order, OnlyQueued
    <3>3. \A r \in requests' : r.txn \in Queued'
      BY <1>q, <2>1 DEF Order, OnlyQueued
    <3>4. Accepted' \subseteq Queued'
      BY <1>q, <2>1 DEF Order, OnlyQueued
    <3> QED BY <3>2, <3>3, <3>4 DEF OnlyQueued
  <2>3. RowsOrdered'
    BY <1>q, <1>t, <2>1 DEF Order, RowsOrdered, TypeOK
  <2>4. InOrder'
    <3> SUFFICES ASSUME NEW s \in Txn, NEW t \in Txn, QueuedBefore(s, t)',
                        t \in Accepted' \/ \E r \in requests' : r.txn = t
                 PROVE  ~Sendable(s)'
      BY DEF InOrder
    <3>1. QueuedBefore(s, t)
      BY <2>1
    <3>2. t \in Accepted \/ \E r \in requests : r.txn = t
      BY <1>q
    <3>3. ~Sendable(s)
      BY <3>1, <3>2 DEF Order, InOrder
    <3> QED BY <1>q, <3>3 DEF Sendable, IsPending
  <2> QED BY <2>2, <2>3, <2>4 DEF Order
<1>1. CASE HandleNew
  <2>1. PICK t \in Txn \ Queued :
          /\ stored' = stored \cup {t}
          /\ pending' = PutPending(pending, t)
          /\ history' = Append(history, <<"queued", t>>)
          /\ ProcessPending(current_txn, pending', stored', rel')
    BY <1>1 DEF HandleNew
  <2>2. UNCHANGED <<now, server>> /\ now \in Nat
    BY <1>1 DEF HandleNew, clock, TypeOK
  <2>3. /\ Queued' = Queued \cup {t}
        /\ \A a, b \in Txn :
             QueuedBefore(a, b)' <=> QueuedBefore(a, b) \/ (a \in Queued /\ b = t)
    BY <2>1, HistoryQueued
  <2>4. \A p \in pending' : (p \in pending /\ p.ts < now) \/ p = [ts |-> now, txn |-> t]
    BY <2>1, <2>2 DEF PutPending, Order, OnlyQueued, TypeOK
  <2>5. OnlyQueued'
    <3>1. \A p \in pending' : p.ts <= now' /\ p.txn \in Queued'
      BY <2>2, <2>3, <2>4 DEF Order, OnlyQueued, TypeOK
    <3>2. \A r \in requests' : r \in requests \/ \E p \in pending' : r.txn = p.txn
      <4>1. CASE current_txn # NoTxn \/ FirstPending(pending', stored') = {}
        BY <2>1, <4>1 DEF ProcessPending
      <4>2. CASE ~(current_txn # NoTxn \/ FirstPending(pending', stored') = {})
        BY <2>1, <4>2 DEF ProcessPending, FirstPending
      <4> QED BY <4>1, <4>2
    <3>3. \A r \in requests' : r.txn \in Queued'
      BY <2>3, <3>1, <3>2 DEF Order, OnlyQueued
    <3>4. Accepted' = Accepted
      BY <2>2 DEF Accepted
    <3> QED BY <2>3, <3>1, <3>3, <3>4 DEF Order, OnlyQueued
  <2>6. RowsOrdered'
    <3> SUFFICES ASSUME NEW p \in pending', NEW q \in pending', QueuedBefore(p.txn, q.txn)'
                 PROVE  p.ts < q.ts
      BY DEF RowsOrdered
    <3>1. p.txn \in Txn /\ q.txn \in Txn
      BY <1>t DEF TypeOK
    <3>2. QueuedBefore(p.txn, q.txn) \/ (p.txn \in Queued /\ q.txn = t)
      BY <2>3, <3>1
    <3>3. p.txn \in Queued
      BY <1>d, <3>1, <3>2
    <3>4. p \in pending /\ p.ts < now
      BY <2>1, <2>4, <3>3
    <3>5. CASE q = [ts |-> now, txn |-> t]
      BY <3>4, <3>5
    <3>6. CASE q \in pending
      <4>1. q.txn # t
        BY <2>1, <3>6 DEF Order, OnlyQueued
      <4> QED BY <3>2, <3>4, <3>6, <4>1 DEF Order, RowsOrdered
    <3> QED BY <2>4, <3>5, <3>6
  <2>7. ASSUME NEW a \in Txn, NEW b \in Txn, QueuedBefore(a, b)',
               b \in Accepted' \/ \E r \in requests : r.txn = b
        PROVE  ~Sendable(a)'
    <3>1. b \in Accepted \/ \E r \in requests : r.txn = b
      BY <2>2, <2>7 DEF Accepted
    <3>2. b \in Queued
      BY <3>1 DEF Order, OnlyQueued
    <3>3. QueuedBefore(a, b) /\ a \in Queued
      BY <1>d, <2>1, <2>3, <2>7, <3>2
    <3>4. ~Sendable(a) /\ a # t
      BY <2>1, <3>1, <3>3 DEF Order, InOrder
    <3> QED BY <2>1, <2>4, <3>4 DEF Sendable, IsPending
  <2>8. InOrder'
    BY <1>t, <2>1, <2>5, <2>6, <2>7, OrderAfterProcessPending
  <2> QED BY <2>5, <2>6, <2>8 DEF Order
<1>2. CASE TimerFires \/ HandleSent
  <2>1. /\ UNCHANGED <<now, server, stored>> /\ now \in Nat
        /\ pending' \subseteq pending
        /\ ProcessPending(NoTxn, pending', stored', rel')
    BY <1>2 DEF TimerFires, HandleSent, tables, clock, TypeOK, RemovePending
  <2>2. Queued' = Queued /\ \A a, b \in Txn : QueuedBefore(a, b)' <=> QueuedBefore(a, b)
    <3>1. CASE TimerFires
      BY <3>1 DEF TimerFires, Queued, QueuedBefore
    <3>2. CASE HandleSent
      <4>1. Head(uiq).txn \in Txn
        BY <3>2, UiHead DEF HandleSent, TypeOK, UiEvents
      <4> QED BY <3>2, <4>1, HistoryAcked DEF HandleSent
    <3> QED BY <1>2, <3>1, <3>2
  <2>3. OnlyQueued'
    <3>2. \A r \in requests' : r \in requests \/ \E p \in pending' : r.txn = p.txn
      <4>1. CASE FirstPending(pending', stored') = {}
        BY <2>1, <4>1 DEF ProcessPending
      <4>2. CASE FirstPending(pending', stored') # {}
        BY <2>1, <4>2 DEF ProcessPending, FirstPending
      <4> QED BY <4>1, <4>2
    <3> QED BY <2>1, <2>2, <3>2 DEF Order, OnlyQueued, Accepted
  <2>4. RowsOrdered'
    BY <2>1, <2>2 DEF Order, RowsOrdered, TypeOK
  <2>5. ASSUME NEW a \in Txn, NEW b \in Txn, QueuedBefore(a, b)',
               b \in Accepted' \/ \E r \in requests : r.txn = b
        PROVE  ~Sendable(a)'
    <3>1. QueuedBefore(a, b) /\ (b \in Accepted \/ \E r \in requests : r.txn = b)
      BY <2>1, <2>2, <2>5 DEF Accepted
    <3>2. ~Sendable(a)
      BY <3>1 DEF Order, InOrder
    <3> QED BY <2>1, <3>2 DEF Sendable, IsPending
  <2>6. InOrder'
    BY <1>t, <2>1, <2>3, <2>4, <2>5, OrderAfterProcessPending
  <2> QED BY <2>3, <2>4, <2>6 DEF Order
<1>3. CASE ServerAccept
  <2>1. PICK r \in requests :
          /\ server' = IF r.txn \in Accepted THEN server
                       ELSE server \cup {[txn |-> r.txn, rel |-> r.rel]}
          /\ requests' = (requests \ {r}) \cup
                           (IF r.cb = "live" THEN {[r EXCEPT !.at = "server"]} ELSE {})
    BY <1>3 DEF ServerAccept
  <2>2. UNCHANGED <<history, now, pending, stored>> /\ now \in Nat
    BY <1>3 DEF ServerAccept, tables, clock, TypeOK
  <2>3. \A q \in requests' : \E x \in requests : x.txn = q.txn
    BY <2>1 DEF TypeOK, Requests
  <2>4. \A t \in Accepted' : t \in Accepted \/ \E q \in requests : q.txn = t
    BY <2>1 DEF Accepted
  <2> QED BY <1>q, <2>2, <2>3, <2>4
<1>4. CASE RespondOk \/ RespondError
  <2>1. UNCHANGED <<history, now, pending, stored, server>> /\ now \in Nat
    BY <1>4 DEF RespondOk, RespondError, tables, clock, TypeOK
  <2>2. \A q \in requests' : \E x \in requests : x.txn = q.txn
    BY <1>4 DEF RespondOk, RespondError, TypeOK, Requests
  <2> QED BY <1>q, <2>1, <2>2 DEF Accepted
<1>5. CASE Restart
  <2>1. UNCHANGED <<history, now, pending, stored, server>> /\ now \in Nat
    BY <1>5 DEF Restart, tables, TypeOK
  <2>2. requests' = {[r EXCEPT !.cb = "gone"] : r \in {q \in requests : q.at = "wire"}}
    BY <1>5 DEF Restart
  <2>3. \A q \in requests' : \E x \in requests : x.txn = q.txn
    BY <2>2 DEF TypeOK, Requests
  <2> QED BY <1>q, <2>1, <2>3 DEF Accepted
<1>6. CASE HandleFailed
  <2>1. UNCHANGED <<history, now, stored, requests, server>> /\ now \in Nat /\ pending' \subseteq pending
    BY <1>6 DEF HandleFailed, RemovePending, clock, TypeOK
  <2> QED BY <1>q, <2>1 DEF Accepted
<1>7. CASE SyncEcho
  <2>1. /\ UNCHANGED <<history, now, requests, server>> /\ now \in Nat
        /\ pending' \subseteq pending /\ stored' \subseteq stored
    BY <1>7 DEF SyncEcho, RemovePending, clock, TypeOK
  <2> QED BY <1>q, <2>1 DEF Accepted
<1>8. CASE SyncLimited \/ ClearTimeline
  <2>1. /\ UNCHANGED <<history, now, requests, server>> /\ now \in Nat
        /\ pending' \subseteq pending /\ stored' \subseteq stored
    BY <1>8 DEF SyncLimited, ClearTimeline, TypeOK
  <2> QED BY <1>q, <2>1 DEF Accepted
<1>9. CASE SetReply \/ TimePasses
  <2>1. UNCHANGED <<history, requests, server, pending, stored>> /\ now <= now'
    BY <1>9 DEF SetReply, TimePasses, Tick, tables, TypeOK
  <2> QED BY <1>q, <2>1 DEF Accepted
<1>10. CASE UserSend \/ HandleDraft \/ SyncOther \/ RotateSession \/ UNCHANGED vars
  <2>1. UNCHANGED <<history, requests, server, pending, stored, now>> /\ now \in Nat
    BY <1>10 DEF UserSend, HandleDraft, SyncOther, RotateSession, vars, tables, clock, TypeOK
  <2> QED BY <1>q, <2>1 DEF Accepted
<1> QED
  BY <1>1, <1>2, <1>3, <1>4, <1>5, <1>6, <1>7, <1>8, <1>9, <1>10 DEF Next

\* No message overtakes one that was queued before it and still waits.
THEOREM InOrderCorrect == Spec => []InOrder
<1>1. Init => Order
  BY DEF Init, Order, OnlyQueued, RowsOrdered, InOrder, Accepted, Sendable, IsPending
<1>2. Order => InOrder
  BY DEF Order
<1> QED BY <1>1, <1>2, TypeCorrect, OrderStep, PTL DEF Spec

----------------------------------------------------------------------------

\* Every step keeps the relations of the waiting messages up to date.
LEMMA AckStep ==
  TypeOK /\ Order /\ AckRewritesQueued /\ [Next]_vars => AckRewritesQueued'
<1> SUFFICES ASSUME TypeOK, Order, AckRewritesQueued, [Next]_vars, ~Encrypted,
                    NEW i \in DOMAIN history', NEW j \in DOMAIN history',
                    i < j, history'[i][1] = "queued", history'[j][1] = "acked",
                    Sendable(history[i][2])'
             PROVE  rel'[history'[i][2]] # Ref("txn", history'[j][2])
  BY DEF AckRewritesQueued
<1>q. ASSUME UNCHANGED <<history, rel>>, pending' \subseteq pending, stored' \subseteq stored
      PROVE  rel'[history'[i][2]] # Ref("txn", history'[j][2])
  BY <1>q DEF AckRewritesQueued, Sendable, IsPending
<1>1. CASE HandleNew
  <2>1. PICK t \in Txn \ Queued :
          /\ rel' = [rel EXCEPT ![t] = Head(uiq).rel]
          /\ stored' = stored \cup {t}
          /\ pending' = PutPending(pending, t)
          /\ history' = Append(history, <<"queued", t>>)
    BY <1>1 DEF HandleNew
  <2>2. /\ i \in DOMAIN history /\ j \in DOMAIN history
        /\ history'[i] = history[i] /\ history'[j] = history[j]
    BY <2>1, SMTT(30) DEF TypeOK
  <2>3. history[i][2] \in Queued /\ history[i][2] \in Txn
    BY <2>2 DEF Queued, TypeOK
  <2>4. history[i][2] # t
    BY <2>1, <2>3
  <2>5. rel'[history[i][2]] = rel[history[i][2]]
    BY <2>1, <2>3, <2>4 DEF TypeOK
  <2>6. Sendable(history[i][2])
    BY <2>1, <2>2, <2>4 DEF Sendable, IsPending, PutPending
  <2> QED BY <2>2, <2>5, <2>6 DEF AckRewritesQueued
<1>2. CASE HandleSent
  <2> DEFINE t == Head(uiq).txn
  <2>1. /\ rel' = Rewrite(t) /\ stored' = stored /\ pending' \subseteq pending
        /\ history' = Append(history, <<"acked", t>>)
    BY <1>2 DEF HandleSent, RemovePending
  <2>2. t \in Txn
    BY <1>2, UiHead DEF HandleSent, TypeOK, UiEvents
  <2> HIDE DEF t
  <2>3. i \in DOMAIN history /\ history'[i] = history[i] /\ history[i][2] \in Txn
    BY <2>1, <2>2 DEF TypeOK
  <2>4. Sendable(history[i][2])
    BY <2>1, <2>3 DEF Sendable, IsPending
  <2>5. CASE rel[history[i][2]] = Ref("txn", t)
    <3>1. rel'[history[i][2]] = Ref("event", t)
      BY <2>1, <2>3, <2>4, <2>5 DEF Rewrite
    <3> QED BY <2>3, <3>1 DEF Ref
  <2>6. CASE rel[history[i][2]] # Ref("txn", t)
    <3>1. rel'[history[i][2]] = rel[history[i][2]]
      BY <2>1, <2>3, <2>6 DEF Rewrite
    <3>2. CASE j \in DOMAIN history
      <4>1. history'[j] = history[j]
        BY <2>1, <2>2, <3>2 DEF TypeOK
      <4> QED BY <2>3, <2>4, <3>1, <3>2, <4>1 DEF AckRewritesQueued
    <3>3. CASE j \notin DOMAIN history
      <4>1. history'[j] = <<"acked", t>>
        BY <2>1, <2>2, <3>3 DEF TypeOK
      <4> QED BY <2>3, <2>6, <3>1, <4>1
    <3> QED BY <3>2, <3>3
  <2> QED BY <2>5, <2>6
<1>3. CASE HandleFailed
  <2>1. UNCHANGED <<history, rel, stored>> /\ pending' \subseteq pending
    BY <1>3 DEF HandleFailed, RemovePending
  <2> QED BY <1>q, <2>1
<1>4. CASE SyncEcho
  <2>1. UNCHANGED <<history, rel>> /\ pending' \subseteq pending /\ stored' \subseteq stored
    BY <1>4 DEF SyncEcho, RemovePending
  <2> QED BY <1>q, <2>1
<1>5. CASE SyncLimited \/ ClearTimeline
  <2>1. UNCHANGED <<history, rel>> /\ pending' \subseteq pending /\ stored' \subseteq stored
    BY <1>5 DEF SyncLimited, ClearTimeline
  <2> QED BY <1>q, <2>1
<1>6. CASE UNCHANGED vars
  BY <1>6, <1>q DEF vars
<1> QED
  BY <1>q, <1>1, <1>2, <1>3, <1>4, <1>5, <1>6
  DEF Next, SetReply, UserSend, TimerFires, HandleDraft, ServerAccept, RespondOk, RespondError,
      SyncOther, RotateSession, TimePasses, Restart, tables

\* In a room without encryption, messageSent rewrites the relation of every
\* message that waits, so none of them is sent with a transaction id the
\* client had already resolved.
THEOREM AckRewritesQueuedCorrect == Spec => []AckRewritesQueued
<1>1. Init => Order /\ AckRewritesQueued
  BY DEF Init, Order, OnlyQueued, RowsOrdered, InOrder, Accepted, Sendable, IsPending,
         AckRewritesQueued
<1> QED BY <1>1, TypeCorrect, OrderStep, AckStep, PTL DEF Spec

----------------------------------------------------------------------------

\* Two different queued messages were queued one after the other.
LEMMA QueuedTotal ==
  ASSUME TypeOK, NEW s \in Queued, NEW t \in Queued, s # t
  PROVE  QueuedBefore(s, t) \/ QueuedBefore(t, s)
<1>1. PICK i \in DOMAIN history : history[i] = <<"queued", s>>
  BY DEF Queued
<1>2. PICK j \in DOMAIN history : history[j] = <<"queued", t>>
  BY DEF Queued
<1>3. i \in Nat /\ j \in Nat
  BY DEF TypeOK
<1>4. i # j
  BY <1>1, <1>2
<1>5. i < j \/ j < i
  BY <1>3, <1>4
<1> QED BY <1>1, <1>2, <1>5 DEF QueuedBefore

\* The message being processed has been sent to the homeserver.
Requested ==
  /\ \A r \in requests : r.at = "server" => r.txn \in Accepted
  /\ current_txn # NoTxn =>
       /\ current_txn \in Queued
       /\ current_txn \in Accepted \/ \E r \in requests : r.txn = current_txn
  /\ queue = "idle" => current_txn = NoTxn

\* Only the message being processed has failed and can still be sent.
OnlyCurrentFails ==
  \A t \in Txn : Sendable(t) /\ fails[t] > 0 => t = current_txn /\ fails[t] <= error_count

\* The counter of the room bounds the failures of the message being processed.
Retry ==
  /\ error_count <= MaxErrors
  /\ GivesUp
  /\ OnlyCurrentFails
  /\ current_txn # NoTxn /\ timers = 0 => fails[current_txn] <= error_count
  /\ \A t \in Txn : fails[t] > 0 => t \in Queued
  /\ queue = "idle" => \A t \in Txn : fails[t] = 0

\* Every step keeps the message being processed among the requested ones.
LEMMA RequestedStep == TypeOK /\ Control /\ Order /\ Requested /\ [Next]_vars => Requested'
<1> SUFFICES ASSUME TypeOK, Control, Order, Requested, [Next]_vars PROVE Requested'
  OBVIOUS
<1>q. ASSUME UNCHANGED <<current_txn, requests, server, history, queue>> PROVE Requested'
  BY <1>q DEF Requested, Accepted, Queued
<1>p. ASSUME NEW cur \in {current_txn, NoTxn}, NEW P, NEW S, NEW R,
             ProcessPending(cur, P, S, R), UNCHANGED server,
             Queued \subseteq Queued', \A p \in P : p.txn \in Queued'
      PROVE  Requested'
  <2>1. CASE cur # NoTxn \/ FirstPending(P, S) = {}
    BY <1>p, <2>1 DEF ProcessPending, Requested, Accepted
  <2>2. CASE ~(cur # NoTxn \/ FirstPending(P, S) = {})
    <3>1. PICK p \in FirstPending(P, S) :
            /\ current_txn' = p.txn
            /\ requests' = requests \cup
                 {[txn |-> p.txn, rel |-> R[p.txn], at |-> "wire", cb |-> "live"]}
      BY <1>p, <2>2 DEF ProcessPending
    <3>2. current_txn' \in Queued'
      BY <1>p, <3>1 DEF FirstPending
    <3>3. \E r \in requests' : r.txn = current_txn'
      <4> DEFINE new == [txn |-> p.txn, rel |-> R[p.txn], at |-> "wire", cb |-> "live"]
      <4>1. new \in requests' /\ new.txn = current_txn'
        BY <3>1
      <4> QED BY <4>1
    <3>4. \A r \in requests' : r.at = "server" => r.txn \in Accepted'
      BY <1>p, <3>1 DEF Requested, Accepted
    <3>5. queue' = "started"
      BY <1>p DEF ProcessPending
    <3> QED BY <3>2, <3>3, <3>4, <3>5 DEF Requested
  <2> QED BY <2>1, <2>2
<1>1. CASE HandleNew
  <2>1. PICK t \in Txn \ Queued :
          /\ pending' = PutPending(pending, t)
          /\ history' = Append(history, <<"queued", t>>)
          /\ ProcessPending(current_txn, pending', stored', rel')
    BY <1>1 DEF HandleNew
  <2>2. Queued' = Queued \cup {t}
    BY <2>1, HistoryQueued
  <2>3. \A p \in pending' : p.txn \in Queued'
    BY <2>1, <2>2 DEF PutPending, Order, OnlyQueued
  <2> QED BY <1>1, <1>p, <2>1, <2>2, <2>3 DEF HandleNew
<1>2. CASE TimerFires
  <2>1. ProcessPending(NoTxn, pending, stored, rel) /\ UNCHANGED <<server, history>>
    BY <1>2 DEF TimerFires
  <2>2. Queued' = Queued
    BY <2>1 DEF Queued
  <2> QED BY <1>p, <2>1, <2>2 DEF Order, OnlyQueued
<1>3. CASE HandleSent
  <2> DEFINE t == Head(uiq).txn
  <2>1. /\ history' = Append(history, <<"acked", t>>) /\ UNCHANGED server
        /\ pending' \subseteq pending /\ ProcessPending(NoTxn, pending', stored, rel')
    BY <1>3 DEF HandleSent, RemovePending
  <2>2. t \in Txn
    BY <1>3, UiHead DEF HandleSent, TypeOK, UiEvents
  <2>3. Queued' = Queued
    BY <2>1, <2>2, HistoryAcked
  <2> QED BY <1>p, <2>1, <2>3 DEF Order, OnlyQueued
<1>4. CASE ServerAccept
  <2>1. PICK r \in requests :
          /\ r.at = "wire"
          /\ server' = IF r.txn \in Accepted THEN server
                       ELSE server \cup {[txn |-> r.txn, rel |-> r.rel]}
          /\ requests' = (requests \ {r}) \cup
                           (IF r.cb = "live" THEN {[r EXCEPT !.at = "server"]} ELSE {})
    BY <1>4 DEF ServerAccept
  <2>2. Accepted' = Accepted \cup {r.txn}
    <3>1. CASE r.txn \in Accepted
      BY <2>1, <3>1 DEF Accepted
    <3>2. CASE r.txn \notin Accepted
      <4>1. server' = server \cup {[txn |-> r.txn, rel |-> r.rel]}
        BY <2>1, <3>2
      <4> DEFINE new == [txn |-> r.txn, rel |-> r.rel]
      <4>2. new.txn = r.txn /\ server' = server \cup {new}
        BY <4>1
      <4> HIDE DEF new
      <4> QED BY <4>2 DEF Accepted
    <3> QED BY <3>1, <3>2
  <2>3. [r EXCEPT !.at = "server"].txn = r.txn
    BY <2>1 DEF TypeOK, Requests
  <2>4. \A x \in requests' : x.at = "server" => x.txn \in Accepted'
    BY <2>1, <2>2, <2>3 DEF Requested
  <2>5. UNCHANGED <<current_txn, history, queue>>
    BY <1>4 DEF ServerAccept
  <2> QED BY <2>1, <2>2, <2>4, <2>5 DEF Requested, Queued
<1>5. CASE RespondOk
  <2>1. PICK r \in requests : r.at = "server" /\ requests' = requests \ {r}
    BY <1>5 DEF RespondOk
  <2> QED BY <1>5, <2>1 DEF RespondOk, Requested, Accepted, Queued
<1>6. CASE RespondError
  <2>1. PICK r \in requests :
          requests' = (requests \ {r}) \cup
                        (IF r.at = "wire" THEN {[r EXCEPT !.cb = "gone"]} ELSE {})
    BY <1>6 DEF RespondError
  <2>2. r.at \in {"wire", "server"}
        /\ [r EXCEPT !.cb = "gone"].txn = r.txn /\ [r EXCEPT !.cb = "gone"].at = r.at
    BY <2>1 DEF TypeOK, Requests
  <2>3. UNCHANGED <<current_txn, history, server, queue>>
    BY <1>6 DEF RespondError
  <2>4. Accepted' = Accepted /\ Queued' = Queued
    BY <2>3 DEF Accepted, Queued
  <2>5. \A x \in requests' : x.at = "server" => x.txn \in Accepted'
    BY <2>1, <2>2, <2>4 DEF Requested
  <2>6. \A x \in requests : x.txn \in Accepted \/ \E y \in requests' : y.txn = x.txn
    BY <2>1, <2>2 DEF Requested
  <2> QED BY <2>3, <2>4, <2>5, <2>6 DEF Requested
<1>7. CASE Restart
  <2>1. current_txn' = NoTxn
        /\ requests' = {[r EXCEPT !.cb = "gone"] : r \in {q \in requests : q.at = "wire"}}
    BY <1>7 DEF Restart
  <2>2. \A x \in requests' : x.at = "wire"
    BY <2>1 DEF TypeOK, Requests
  <2> QED BY <2>1, <2>2 DEF Requested
<1>8. CASE UNCHANGED vars
  BY <1>8, <1>q DEF vars
<1> QED
  BY <1>q, <1>1, <1>2, <1>3, <1>4, <1>5, <1>6, <1>7, <1>8
  DEF Next, SetReply, UserSend, HandleFailed, HandleDraft, SyncEcho, SyncOther, SyncLimited,
      ClearTimeline, RotateSession, TimePasses, clock

\* The message being processed is the oldest one that can be sent, so the retry
\* timer makes processPending take it again.
LEMMA RetriesCurrent ==
  ASSUME TypeOK, Order, Requested, Sendable(current_txn), NEW p \in FirstPending(pending, stored)
  PROVE  p.txn = current_txn
<1> SUFFICES ASSUME p.txn # current_txn PROVE FALSE
  OBVIOUS
<1>1. PICK q \in pending : q.txn = current_txn /\ q.txn \in stored
  BY DEF Sendable, IsPending
<1>2. /\ p \in pending /\ p.txn \in stored /\ p.ts <= q.ts
      /\ p.ts \in Nat /\ q.ts \in Nat /\ p.txn \in Txn /\ q.txn \in Txn
  BY <1>1 DEF FirstPending, TypeOK
<1>3. p.txn \in Queued /\ q.txn \in Queued
  BY <1>1, <1>2 DEF Order, OnlyQueued
<1>4. CASE QueuedBefore(p.txn, q.txn)
  <2>1. q.txn \in Accepted \/ \E r \in requests : r.txn = q.txn
    BY <1>1, <1>2, NoTxnAssumption DEF Requested
  <2>2. Sendable(p.txn)
    BY <1>2 DEF Sendable, IsPending
  <2> QED BY <1>2, <1>4, <2>1, <2>2 DEF Order, InOrder
<1>5. CASE QueuedBefore(q.txn, p.txn)
  <2>1. q.ts < p.ts
    BY <1>1, <1>2, <1>5 DEF Order, RowsOrdered
  <2> QED BY <1>2, <2>1
<1> QED BY <1>1, <1>3, <1>4, <1>5, QueuedTotal

\* Every step keeps the failures of a message within the limit.
LEMMA RetryStep ==
  TypeOK /\ Control /\ Idle /\ Order /\ Requested /\ Retry /\ [Next]_vars => Retry'
<1> SUFFICES ASSUME TypeOK, Control, Idle, Order, Requested, Retry, [Next]_vars PROVE Retry'
  OBVIOUS
<1> USE BoundAssumption, NoTxnAssumption
<1>t. TypeOK'
  BY TypeStep
<1>q. ASSUME UNCHANGED <<current_txn, error_count, fails, history, queue, timers>>,
             pending' \subseteq pending, stored' \subseteq stored
      PROVE  Retry'
  BY <1>q DEF Retry, GivesUp, OnlyCurrentFails, Sendable, IsPending, Queued
<1>p. ASSUME NEW cur, NEW R, ProcessPending(cur, pending', stored', R),
             \A s \in Txn : Sendable(s)' => fails'[s] = 0
      PROVE  current_txn' # NoTxn /\ cur = NoTxn => fails'[current_txn'] <= error_count'
  <2> SUFFICES ASSUME current_txn' # NoTxn, cur = NoTxn
               PROVE  fails'[current_txn'] <= error_count'
    OBVIOUS
  <2>1. PICK p \in FirstPending(pending', stored') : current_txn' = p.txn
    BY <1>p DEF ProcessPending
  <2>2. p \in pending' /\ p.txn \in stored' /\ p.txn \in Txn /\ error_count' \in Nat
    BY <1>t, <2>1 DEF FirstPending, TypeOK
  <2>3. Sendable(p.txn)'
    BY <2>2 DEF Sendable, IsPending
  <2>4. fails'[p.txn] = 0
    BY <1>p, <2>2, <2>3
  <2> QED BY <2>1, <2>2, <2>4
<1>1. CASE HandleNew
  <2>1. PICK t \in Txn \ Queued :
          /\ stored' = stored \cup {t}
          /\ pending' = PutPending(pending, t)
          /\ history' = Append(history, <<"queued", t>>)
          /\ ProcessPending(current_txn, pending', stored', rel')
    BY <1>1 DEF HandleNew
  <2>2. Queued' = Queued \cup {t} /\ UNCHANGED <<fails, error_count, timers>> /\ queue' = "started"
    BY <1>1, <2>1, HistoryQueued DEF HandleNew, ProcessPending
  <2>3. fails[t] = 0
    BY <2>1 DEF Retry, TypeOK
  <2>4. \A s \in Txn : Sendable(s)' => s = t \/ Sendable(s)
    BY <2>1 DEF Sendable, IsPending, PutPending
  <2>5. CASE current_txn # NoTxn
    <3>1. UNCHANGED current_txn
      BY <2>1, <2>5 DEF ProcessPending
    <3>2. OnlyCurrentFails'
      BY <2>2, <2>3, <2>4, <3>1 DEF Retry, OnlyCurrentFails
    <3> QED BY <2>2, <3>1, <3>2 DEF Retry, GivesUp
  <2>6. CASE current_txn = NoTxn
    <3>1. \A s \in Txn : Sendable(s)' => fails'[s] = 0
      BY <2>2, <2>3, <2>4, <2>6 DEF Idle, Retry, TypeOK
    <3>2. OnlyCurrentFails'
      BY <3>1 DEF OnlyCurrentFails
    <3>3. current_txn' # NoTxn => fails'[current_txn'] <= error_count'
      BY <1>p, <2>1, <2>6, <3>1
    <3> QED BY <2>2, <3>2, <3>3 DEF Retry, GivesUp
  <2> QED BY <2>5, <2>6
<1>2. CASE HandleFailed
  <2> DEFINE t == Head(uiq).txn
  <2>1. t \in Txn /\ t = current_txn /\ timers = 0
    <3>1. t \in Txn /\ Head(uiq) = uiq[1] /\ 1 \in Answers
      BY <1>2, UiHead, AnswersTail DEF HandleFailed, TypeOK, UiEvents, IsAnswer
    <3> QED BY <3>1 DEF Control, OneAtATime
  <2>2. /\ UNCHANGED <<current_txn, stored, history, queue>>
        /\ fails' = [fails EXCEPT ![t] = @ + 1]
        /\ error_count' = IF error_count + 1 > MaxErrors THEN 0 ELSE error_count + 1
        /\ pending' = IF error_count + 1 > MaxErrors THEN RemovePending(pending, t) ELSE pending
        /\ timers' = timers + 1
    BY <1>2, <2>1 DEF HandleFailed, GivesUpNow
  <2> HIDE DEF t
  <2>3. fails'[t] = fails[t] + 1 /\ \A s \in Txn \ {t} : fails'[s] = fails[s]
    BY <2>1, <2>2 DEF TypeOK
  <2>4. fails[t] <= error_count /\ fails[t] \in Nat /\ error_count \in Nat
    BY <2>1 DEF Retry, TypeOK
  <2>5. error_count' <= MaxErrors
    BY <2>2, <2>4
  <2>6. GivesUp'
    BY <2>1, <2>3, <2>4 DEF Retry, GivesUp
  <2>7. OnlyCurrentFails'
    <3> SUFFICES ASSUME NEW s \in Txn, Sendable(s)', fails'[s] > 0
                 PROVE  s = current_txn' /\ fails'[s] <= error_count'
      BY DEF OnlyCurrentFails
    <3>1. Sendable(s)
      BY <2>2 DEF Sendable, IsPending, RemovePending
    <3>2. s = t
      BY <2>1, <2>3, <3>1 DEF Retry, OnlyCurrentFails
    <3>3. ~(error_count + 1 > MaxErrors)
      BY <2>2, <3>2 DEF Sendable, IsPending, RemovePending
    <3> QED BY <2>1, <2>2, <2>3, <2>4, <3>2, <3>3
  <2>8. \A s \in Txn : fails'[s] > 0 => s \in Queued'
    <3>1. Queued' = Queued
      BY <2>2 DEF Queued
    <3>2. t \in Queued
      BY <2>1 DEF Requested
    <3> QED BY <2>3, <3>1, <3>2 DEF Retry
  <2>9. queue' # "idle" /\ timers' # 0
    BY <2>1, <2>2 DEF Requested
  <2> QED BY <2>5, <2>6, <2>7, <2>8, <2>9 DEF Retry
<1>3. CASE TimerFires
  <2>1. /\ ProcessPending(NoTxn, pending, stored, rel) /\ queue' = "started"
        /\ UNCHANGED <<pending, stored, error_count, fails, history>>
    BY <1>3 DEF TimerFires, tables, ProcessPending
  <2>2. ASSUME NEW t \in Txn, Sendable(t), fails[t] > 0 PROVE current_txn' = t
    <3>1. t = current_txn
      BY <2>2 DEF Retry, OnlyCurrentFails
    <3>2. FirstPending(pending, stored) # {}
      <4>1. pending \in SUBSET [ts : Nat, txn : Txn]
        BY DEF TypeOK
      <4> QED BY <2>2, <4>1, FirstPendingEmpty DEF Sendable, IsPending
    <3>3. PICK p \in FirstPending(pending, stored) : current_txn' = p.txn
      BY <2>1, <3>2 DEF ProcessPending
    <3> QED BY <2>2, <3>1, <3>3, RetriesCurrent
  <2>3. OnlyCurrentFails'
    BY <2>1, <2>2 DEF Retry, OnlyCurrentFails, Sendable, IsPending
  <2>4. current_txn' # NoTxn => fails'[current_txn'] <= error_count'
    <3> SUFFICES ASSUME current_txn' # NoTxn PROVE fails[current_txn'] <= error_count
      BY <2>1
    <3>1. PICK p \in FirstPending(pending, stored) : current_txn' = p.txn
      BY <2>1 DEF ProcessPending
    <3>2. current_txn' \in Txn /\ Sendable(current_txn')
      BY <3>1 DEF FirstPending, Sendable, IsPending, TypeOK
    <3>3. fails[current_txn'] \in Nat /\ error_count \in Nat
      BY <3>2 DEF TypeOK
    <3> QED BY <3>2, <3>3 DEF Retry, OnlyCurrentFails
  <2> QED BY <2>1, <2>3, <2>4 DEF Retry, GivesUp, Queued
<1>4. CASE HandleSent
  <2> DEFINE t == Head(uiq).txn
  <2>1. t \in Txn /\ t = current_txn
    <3>1. t \in Txn /\ Head(uiq) = uiq[1] /\ 1 \in Answers
      BY <1>4, UiHead, AnswersTail DEF HandleSent, TypeOK, UiEvents, IsAnswer
    <3> QED BY <3>1 DEF Control, OneAtATime
  <2>2. /\ pending' = RemovePending(pending, t) /\ UNCHANGED <<stored, fails>>
        /\ history' = Append(history, <<"acked", t>>) /\ error_count' = 0
        /\ ProcessPending(NoTxn, pending', stored', rel') /\ queue' = "started"
    BY <1>4 DEF HandleSent, ProcessPending
  <2>3. Queued' = Queued
    BY <2>1, <2>2, HistoryAcked
  <2>4. \A s \in Txn : Sendable(s)' => fails'[s] = 0
    <3> SUFFICES ASSUME NEW s \in Txn, Sendable(s)' PROVE fails[s] = 0
      BY <2>2
    <3>1. Sendable(s) /\ s # t
      BY <2>2 DEF Sendable, IsPending, RemovePending
    <3>2. fails[s] \in Nat
      BY DEF TypeOK
    <3> QED BY <2>1, <3>1, <3>2 DEF Retry, OnlyCurrentFails
  <2>5. OnlyCurrentFails'
    BY <2>4 DEF OnlyCurrentFails
  <2>6. current_txn' # NoTxn => fails'[current_txn'] <= error_count'
    BY <1>p, <2>2, <2>4
  <2> QED BY <2>2, <2>3, <2>5, <2>6 DEF Retry, GivesUp
<1>5. CASE SyncEcho
  <2>1. pending' \subseteq pending /\ stored' \subseteq stored
    BY <1>5 DEF SyncEcho, RemovePending
  <2> QED BY <1>5, <1>q, <2>1 DEF SyncEcho
<1>6. CASE SyncLimited \/ ClearTimeline
  <2>1. pending' \subseteq pending /\ stored' \subseteq stored
    BY <1>6 DEF SyncLimited, ClearTimeline
  <2> QED BY <1>6, <1>q, <2>1 DEF SyncLimited, ClearTimeline
<1>7. CASE Restart
  <2>1. /\ current_txn' = NoTxn /\ error_count' = 0
        /\ \A t \in Txn : fails'[t] = 0
    BY <1>7 DEF Restart
  <2> QED BY <2>1 DEF Retry, GivesUp, OnlyCurrentFails
<1>8. CASE UNCHANGED vars
  BY <1>8, <1>q DEF vars
<1> QED
  BY <1>q, <1>1, <1>2, <1>3, <1>4, <1>5, <1>6, <1>7, <1>8
  DEF Next, SetReply, UserSend, HandleDraft, ServerAccept, RespondOk, RespondError,
      SyncOther, RotateSession, TimePasses, tables

\* A message fails at most MaxErrors + 1 times in one run of the program,
\* although the counter belongs to the room: when it is reset, no message that
\* can still be sent has failed.
THEOREM GivesUpCorrect == Spec => []GivesUp
<1>1. Init => Control /\ Idle /\ Order /\ Requested /\ Retry
  BY BoundAssumption
  DEF Init, Control, OneAtATime, Live, Answers, Idle, Order, OnlyQueued, RowsOrdered, InOrder,
      Accepted, Sendable, IsPending, Requested, Retry, GivesUp, OnlyCurrentFails
<1>2. Retry => GivesUp
  BY DEF Retry
<1> QED
  BY <1>1, <1>2, TypeCorrect, ControlStep, IdleStep, OrderStep, RequestedStep, RetryStep, PTL
  DEF Spec

----------------------------------------------------------------------------
\* The refinement of Outbox.

\* processPending sends nothing, or the oldest message that waits.
LEMMA ServeAfterProcessPending ==
  ASSUME TypeOK', NEW cur, NEW R, ProcessPending(cur, pending', stored', R),
         UNCHANGED server, RowsOrdered'
  PROVE  Promise!Serve
<1>1. Accepted' = Accepted
  BY DEF Accepted
<1>2. CASE cur # NoTxn \/ FirstPending(pending', stored') = {}
  <2>1. Sent' = Sent
    BY <1>1, <1>2 DEF ProcessPending, Sent
  <2> QED BY <2>1 DEF Promise!Serve
<1>3. CASE ~(cur # NoTxn \/ FirstPending(pending', stored') = {})
  <2>1. PICK p \in FirstPending(pending', stored') :
          requests' = requests \cup
            {[txn |-> p.txn, rel |-> R[p.txn], at |-> "wire", cb |-> "live"]}
    BY <1>3 DEF ProcessPending
  <2>2. Sent' = Sent \cup {p.txn}
    <3> DEFINE new == [txn |-> p.txn, rel |-> R[p.txn], at |-> "wire", cb |-> "live"]
    <3>1. requests' = requests \cup {new} /\ new.txn = p.txn
      BY <2>1
    <3> HIDE DEF new
    <3> QED BY <1>1, <3>1 DEF Sent
  <2>3. p \in pending' /\ p.txn \in stored' /\ p.txn \in Txn /\ p.ts \in Nat
    BY <2>1 DEF FirstPending, TypeOK
  <2>4. p.txn \in Waits'
    BY <2>3 DEF Waits, Sendable, IsPending
  <2>5. ASSUME NEW k \in Waits', <<k, p.txn>> \in Before' PROVE FALSE
    <3>1. PICK q \in pending' : q.txn = k /\ q.txn \in stored'
      BY <2>5 DEF Waits, Sendable, IsPending
    <3>2. q.ts \in Nat /\ p.ts <= q.ts
      BY <2>1, <3>1 DEF FirstPending, TypeOK
    <3>3. QueuedBefore(q.txn, p.txn)'
      BY <2>5, <3>1 DEF Before
    <3>4. q.ts < p.ts
      BY <2>3, <3>1, <3>3 DEF RowsOrdered
    <3> QED BY <2>3, <3>2, <3>4
  <2>6. p.txn \in Promise!Oldest(Waits', Before')
    BY <2>4, <2>5 DEF Promise!Oldest
  <2> QED BY <2>2, <2>6 DEF Promise!Serve
<1> QED BY <1>2, <1>3

\* Two rows written in the same millisecond are rows of the same message.
LEMMA OneRowAtATime ==
  ASSUME TypeOK, Order, NEW p \in pending, NEW q \in pending, p.ts = q.ts
  PROVE  p.txn = q.txn
<1> SUFFICES ASSUME p.txn # q.txn PROVE FALSE
  OBVIOUS
<1>1. p.txn \in Queued /\ q.txn \in Queued /\ p.ts \in Nat
  BY DEF Order, OnlyQueued, TypeOK
<1>2. QueuedBefore(p.txn, q.txn) \/ QueuedBefore(q.txn, p.txn)
  BY <1>1, QueuedTotal
<1>3. p.ts < q.ts \/ q.ts < p.ts
  BY <1>2 DEF Order, RowsOrdered
<1> QED BY <1>1, <1>3

\* A step that leaves the queue, what waits and what was sent alone.
LEMMA PromiseStays ==
  ASSUME UNCHANGED <<Queued, Before, Waits, Sent, Accepted, upsets>>
  PROVE  [Promise!Next]_(Promise!outbox)
BY DEF Promise!outbox

\* addPending puts a message at the end, in place of a row of the same millisecond.
LEMMA EnqueueStep ==
  ASSUME TypeOK, TypeOK', Order, Order', HandleNew
  PROVE  \E t \in Txn : Promise!Enqueue(t)
<1>1. PICK t \in Txn \ Queued :
        /\ stored' = stored \cup {t}
        /\ pending' = PutPending(pending, t)
        /\ history' = Append(history, <<"queued", t>>)
        /\ ProcessPending(current_txn, pending', stored', rel')
  BY DEF HandleNew
<1>2. UNCHANGED <<server, now, upsets>> /\ now \in Nat
  BY DEF HandleNew, clock, TypeOK
<1>3. /\ Queued' = Queued \cup {t}
      /\ \A a, b \in Txn :
           QueuedBefore(a, b)' <=> QueuedBefore(a, b) \/ (a \in Queued /\ b = t)
  BY <1>1, HistoryQueued
<1>4. Before' = Before \cup (Queued \X {t})
  <2>1. Queued \subseteq Txn
    BY DEF Queued
  <2>2. ASSUME NEW a \in Txn, NEW b \in Txn
        PROVE  <<a, b>> \in Before' <=> <<a, b>> \in Before \cup (Queued \X {t})
    BY <1>3 DEF Before
  <2>3. Before \cup (Queued \X {t}) \subseteq Txn \X Txn /\ Before' \subseteq Txn \X Txn
    BY <1>1, <2>1 DEF Before
  <2> QED BY <2>2, <2>3
<1> DEFINE lost == Waits \ Waits'
<1>5. t \in Waits'
  <2> DEFINE row == [ts |-> now, txn |-> t]
  <2>1. row \in pending' /\ row.txn = t
    BY <1>1 DEF PutPending
  <2> QED BY <1>1, <2>1 DEF Waits, Sendable, IsPending
<1>6. Waits' \subseteq Waits \cup {t}
  BY <1>1 DEF Waits, Sendable, IsPending, PutPending
<1>7. ASSUME NEW k \in lost
      PROVE  \E p \in pending : p.txn = k /\ p.ts = now
  <2>1. PICK p \in pending : p.txn = k /\ k \in stored
    BY DEF Waits, Sendable, IsPending
  <2>2. p \notin pending'
    BY <1>1, <2>1 DEF Waits, Sendable, IsPending
  <2> QED BY <1>1, <2>1, <2>2 DEF PutPending
<1>8. \A k, l \in lost : k = l
  <2> SUFFICES ASSUME NEW k \in lost, NEW l \in lost PROVE k = l
    OBVIOUS
  <2>1. PICK p \in pending : p.txn = k /\ p.ts = now
    BY <1>7
  <2>2. PICK q \in pending : q.txn = l /\ q.ts = now
    BY <1>7
  <2> QED BY <2>1, <2>2, OneRowAtATime
<1>9. Waits' = (Waits \ lost) \cup {t} /\ lost \in SUBSET Waits
  BY <1>5, <1>6
<1>10. Promise!Serve
  BY <1>1, <1>2, ServeAfterProcessPending DEF Order
<1>11. Accepted' = Accepted
  BY <1>2 DEF Accepted
<1> HIDE DEF lost
<1> QED BY <1>1, <1>2, <1>3, <1>4, <1>8, <1>9, <1>10, <1>11 DEF Promise!Enqueue

\* The message of an answer at the head of the queue has been sent.
LEMMA AnswerSent ==
  ASSUME TypeOK, Control, Requested, uiq # <<>>, IsAnswer(Head(uiq))
  PROVE  Head(uiq).txn \in Sent /\ Head(uiq).txn \in Txn
<1>1. 1 \in DOMAIN uiq /\ Head(uiq) = uiq[1] /\ Head(uiq) \in UiEvents
  BY UiHead DEF TypeOK
<1>2. Head(uiq).txn \in Txn
  BY <1>1 DEF IsAnswer, UiEvents
<1>3. Head(uiq).txn = current_txn
  BY <1>1 DEF Control, OneAtATime, Answers
<1> QED BY <1>2, <1>3, NoTxnAssumption DEF Requested, Sent

\* Without its row a message does not wait any more.
LEMMA RowRemoved ==
  ASSUME NEW t, pending' = RemovePending(pending, t), stored' = stored \/ stored' = stored \ {t}
  PROVE  Waits' = Waits \ {t}
BY DEF Waits, Sendable, IsPending, RemovePending

\* A step that leaves the history alone leaves the order of the messages alone.
LEMMA OrderStays ==
  ASSUME UNCHANGED history
  PROVE  Queued' = Queued /\ Before' = Before
BY DEF Queued, Before, QueuedBefore

\* Nothing that was sent is forgotten: a request ends when it has been accepted.
LEMMA SentStays ==
  ASSUME TypeOK, Requested, RespondOk \/ RespondError \/ Restart
  PROVE  Sent' = Sent /\ Accepted' = Accepted
<1>1. Accepted' = Accepted
  BY DEF RespondOk, RespondError, Restart, Accepted
<1>2. \A r \in requests' : \E q \in requests : q.txn = r.txn
  <2>1. CASE Restart
    <3>1. requests' = {[r EXCEPT !.cb = "gone"] : r \in {q \in requests : q.at = "wire"}}
      BY <2>1 DEF Restart
    <3> QED BY <3>1 DEF TypeOK, Requests
  <2>2. CASE RespondOk \/ RespondError
    BY <2>2 DEF RespondOk, RespondError, TypeOK, Requests
  <2> QED BY <2>1, <2>2
<1>3. ASSUME NEW q \in requests, q.txn \notin Accepted
      PROVE  \E r \in requests' : r.txn = q.txn
  <2>1. q.at = "wire" /\ q.at # "server"
    BY <1>3 DEF Requested, TypeOK, Requests
  <2>2. [q EXCEPT !.cb = "gone"].txn = q.txn
    BY DEF TypeOK, Requests
  <2>3. CASE RespondOk
    BY <2>1, <2>3 DEF RespondOk
  <2>4. CASE RespondError
    <3>1. PICK x \in requests :
            requests' = (requests \ {x}) \cup
                          (IF x.at = "wire" THEN {[x EXCEPT !.cb = "gone"]} ELSE {})
      BY <2>4 DEF RespondError
    <3>2. CASE x = q
      <4>1. [q EXCEPT !.cb = "gone"] \in requests'
        BY <2>1, <3>1, <3>2
      <4> QED BY <2>2, <4>1
    <3>3. CASE x # q
      BY <3>1, <3>3
    <3> QED BY <3>2, <3>3
  <2>5. CASE Restart
    <3>1. [q EXCEPT !.cb = "gone"] \in requests'
      BY <2>1, <2>5 DEF Restart
    <3> QED BY <2>2, <3>1
  <2> QED BY <2>3, <2>4, <2>5
<1> QED BY <1>1, <1>2, <1>3 DEF Sent

\* Every step of the queue is one of Outbox, or leaves it alone.
LEMMA PromiseStep ==
  ASSUME TypeOK, TypeOK', Control, Order, Order', Requested, [Next]_vars
  PROVE  [Promise!Next]_(Promise!outbox)
<1>f. ASSUME NEW m \in Txn, Promise!Enqueue(m) \/ Promise!Finish(m) \/ Promise!Accept(m)
      PROVE  [Promise!Next]_(Promise!outbox)
  BY <1>f DEF Promise!Next
<1>1. CASE HandleNew
  BY <1>1, <1>f, EnqueueStep
<1>2. CASE HandleSent
  <2> DEFINE t == Head(uiq).txn
  <2>1. t \in Sent /\ t \in Txn
    BY <1>2, AnswerSent DEF HandleSent, IsAnswer
  <2>2. /\ pending' = RemovePending(pending, t) /\ stored' = stored
        /\ history' = Append(history, <<"acked", t>>) /\ UNCHANGED <<server, upsets>>
        /\ ProcessPending(NoTxn, pending', stored', rel')
    BY <1>2 DEF HandleSent, clock
  <2> HIDE DEF t
  <2>3. Waits' = Waits \ {t}
    BY <2>2, RowRemoved
  <2>4. Queued' = Queued /\ Before' = Before
    BY <2>1, <2>2, HistoryAcked DEF Before
  <2>5. Promise!Serve
    BY <2>2, ServeAfterProcessPending DEF Order
  <2>6. Accepted' = Accepted
    BY <2>2 DEF Accepted
  <2>7. Promise!Finish(t)
    BY <2>1, <2>2, <2>3, <2>4, <2>5, <2>6 DEF Promise!Finish
  <2> QED BY <1>f, <2>1, <2>7
<1>3. CASE TimerFires
  <2>1. /\ UNCHANGED <<pending, stored, history, server, upsets>>
        /\ ProcessPending(NoTxn, pending', stored', rel')
    BY <1>3 DEF TimerFires, tables, clock
  <2>2. Promise!Serve
    BY <2>1, ServeAfterProcessPending DEF Order
  <2>3. Waits' = Waits /\ Accepted' = Accepted
    BY <2>1 DEF Waits, Sendable, IsPending, Accepted
  <2>4. Promise!Send
    BY <2>1, <2>2, <2>3, OrderStays DEF Promise!Send
  <2> QED BY <2>4 DEF Promise!Next
<1>4. CASE HandleFailed
  <2> DEFINE t == Head(uiq).txn
  <2>1. t \in Sent /\ t \in Txn
    BY <1>4, AnswerSent DEF HandleFailed, IsAnswer
  <2>2. /\ UNCHANGED <<stored, requests, server, history, upsets>>
        /\ pending' = RemovePending(pending, t) \/ pending' = pending
    BY <1>4 DEF HandleFailed, clock
  <2> HIDE DEF t
  <2>3. Sent' = Sent /\ Accepted' = Accepted
    BY <2>2 DEF Sent, Accepted
  <2>4. CASE pending' = RemovePending(pending, t)
    <3>1. Waits' = Waits \ {t}
      BY <2>2, <2>4, RowRemoved
    <3>2. Promise!Finish(t)
      BY <2>1, <2>2, <2>3, <3>1, OrderStays DEF Promise!Finish, Promise!Serve
    <3> QED BY <1>f, <2>1, <3>2
  <2>5. CASE pending' = pending
    <3>1. Waits' = Waits
      BY <2>2, <2>5 DEF Waits, Sendable, IsPending
    <3> QED BY <2>2, <2>3, <3>1, OrderStays, PromiseStays
  <2> QED BY <2>2, <2>4, <2>5
<1>5. CASE ServerAccept
  <2>1. PICK r \in requests :
          /\ server' = IF r.txn \in Accepted THEN server
                       ELSE server \cup {[txn |-> r.txn, rel |-> r.rel]}
          /\ requests' = (requests \ {r}) \cup
                           (IF r.cb = "live" THEN {[r EXCEPT !.at = "server"]} ELSE {})
    BY <1>5 DEF ServerAccept
  <2>2. UNCHANGED <<pending, stored, history, upsets>>
    BY <1>5 DEF ServerAccept, tables, clock
  <2>3. r.txn \in Txn /\ r.txn \in Sent /\ [r EXCEPT !.at = "server"].txn = r.txn
    BY <2>1 DEF TypeOK, Requests, Sent
  <2>4. Accepted' = Accepted \cup {r.txn}
    <3>1. CASE r.txn \in Accepted
      BY <2>1, <3>1 DEF Accepted
    <3>2. CASE r.txn \notin Accepted
      <4> DEFINE new == [txn |-> r.txn, rel |-> r.rel]
      <4>1. new.txn = r.txn /\ server' = server \cup {new}
        BY <2>1, <3>2
      <4> HIDE DEF new
      <4> QED BY <4>1 DEF Accepted
    <3> QED BY <3>1, <3>2
  <2>5. {q.txn : q \in requests'} \subseteq {q.txn : q \in requests}
    BY <2>1, <2>3
  <2>6. {q.txn : q \in requests} \subseteq {q.txn : q \in requests'} \cup {r.txn}
    BY <2>1
  <2>7. Sent' = Sent
    BY <2>3, <2>4, <2>5, <2>6 DEF Sent
  <2>8. Waits' = Waits
    BY <2>2 DEF Waits, Sendable, IsPending
  <2>9. Promise!Accept(r.txn)
    BY <2>2, <2>3, <2>4, <2>7, <2>8, OrderStays DEF Promise!Accept
  <2> QED BY <1>f, <2>3, <2>9
<1>6. CASE RespondOk \/ RespondError
  <2>1. UNCHANGED <<pending, stored, history, upsets>>
    BY <1>6 DEF RespondOk, RespondError, tables, clock
  <2>2. Waits' = Waits
    BY <2>1 DEF Waits, Sendable, IsPending
  <2> QED BY <1>6, <2>1, <2>2, SentStays, OrderStays, PromiseStays
<1>7. CASE SyncEcho
  <2>1. PICK t \in Accepted \ echoed :
          IF t \in shown
            THEN stored' = stored \ {t} /\ pending' = RemovePending(pending, t)
            ELSE UNCHANGED <<stored, pending>>
    BY <1>7 DEF SyncEcho
  <2>2. UNCHANGED <<history, requests, server, upsets>>
    BY <1>7 DEF SyncEcho, clock
  <2>3. Sent' = Sent /\ Accepted' = Accepted /\ t \in Sent /\ t \in Txn
    BY <2>2 DEF Sent, Accepted, TypeOK
  <2>4. CASE t \in shown
    <3>1. Waits' = Waits \ {t}
      BY <2>1, <2>4, RowRemoved
    <3>2. Promise!Finish(t)
      BY <2>2, <2>3, <3>1, OrderStays DEF Promise!Finish, Promise!Serve
    <3> QED BY <1>f, <2>3, <3>2
  <2>5. CASE t \notin shown
    <3>1. Waits' = Waits
      BY <2>1, <2>5 DEF Waits, Sendable, IsPending
    <3> QED BY <2>2, <2>3, <3>1, OrderStays, PromiseStays
  <2> QED BY <2>4, <2>5
<1>8. ASSUME Upset, UNCHANGED history, Waits' \subseteq Waits, Sent' = Sent, Accepted' = Accepted
      PROVE  [Promise!Next]_(Promise!outbox)
  <2>1. Promise!Disturb
    BY <1>8, OrderStays DEF Upset, Promise!Disturb
  <2> QED BY <2>1 DEF Promise!Next
<1>9. CASE SyncLimited \/ ClearTimeline \/ RotateSession
  <2>1. /\ Upset /\ UNCHANGED <<history, requests, server>>
        /\ pending' \subseteq pending /\ stored' \subseteq stored
    BY <1>9 DEF SyncLimited, ClearTimeline, RotateSession, tables
  <2>2. Waits' \subseteq Waits
    BY <2>1 DEF Waits, Sendable, IsPending
  <2>3. Sent' = Sent /\ Accepted' = Accepted
    BY <2>1 DEF Sent, Accepted
  <2> QED BY <1>8, <2>1, <2>2, <2>3
<1>10. CASE Restart
  <2>1. Upset /\ UNCHANGED <<history, pending, stored>>
    BY <1>10 DEF Restart, tables
  <2>2. Waits' \subseteq Waits
    BY <2>1 DEF Waits, Sendable, IsPending
  <2> QED BY <1>8, <1>10, <2>1, <2>2, SentStays
<1>11. CASE \/ SetReply \/ TimePasses \/ UserSend \/ HandleDraft \/ SyncOther
            \/ UNCHANGED vars
  <2>1. UNCHANGED <<history, pending, stored, requests, server, upsets>>
    BY <1>11 DEF SetReply, TimePasses, Tick, UserSend, HandleDraft, SyncOther, vars, tables, clock
  <2>2. Waits' = Waits /\ Sent' = Sent /\ Accepted' = Accepted
    BY <2>1 DEF Waits, Sendable, IsPending, Sent, Accepted
  <2> QED BY <2>1, <2>2, OrderStays, PromiseStays
<1> QED
  BY <1>1, <1>2, <1>3, <1>4, <1>5, <1>6, <1>7, <1>9, <1>10, <1>11 DEF Next

\* The queue implements Outbox: messages are sent from its old end only, they leave
\* it when they have been sent, and are lost only to a disturbance or to a message
\* of the same millisecond; retries, lost answers, echoes and restarts change none of
\* this.
THEOREM ImplementsOutbox == Spec => FollowsOutbox
<1>1. Init => Control /\ Order /\ Requested
  BY DEF Init, Control, OneAtATime, Live, Answers, Order, OnlyQueued, RowsOrdered, InOrder,
     Accepted, Sendable, IsPending, Requested
<1>2. Init => Promise!Init
  <2> SUFFICES ASSUME Init PROVE Promise!Init
    OBVIOUS
  <2>1. Queued = {} /\ Accepted = {} /\ Sent = {} /\ Waits = {} /\ Before = {}
    BY DEF Init, Queued, Accepted, Sent, Waits, Sendable, IsPending, Before, QueuedBefore
  <2> QED BY <2>1 DEF Init, Promise!Init
<1>3. TypeOK /\ TypeOK' /\ Control /\ Order /\ Order' /\ Requested /\ [Next]_vars
        => [Promise!Next]_(Promise!outbox)
  BY PromiseStep
<1> QED
  BY <1>1, <1>2, <1>3, TypeCorrect, ControlStep, OrderStep, RequestedStep, PTL
  DEF Spec, FollowsOutbox, Promise!Spec
=============================================================================
