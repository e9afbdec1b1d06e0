--------------------------- MODULE SyncLoopProofs ---------------------------
(***************************************************************************)
(* Theorems about SyncLoop for any number of events, checks, outages and   *)
(* faults: the loop never dies, and it implements SyncStream.              *)
(***************************************************************************)
EXTENDS SyncLoop, Queues

\* Until the account has been copied no loop is at work, and nothing but an end
\* of the login waits for the UI thread.
NoLoopYet ==
  boot # "done" =>
    /\ retry = 0 /\ throttled = 0 /\ probes = 0 /\ connected /\ ~ticking
    /\ \A s \in Position : inflight[s] = 0
    /\ \A e \in Elems(uiq) : e.ev \in {"drop", "logout"}

\* A response ends where it begins or later, and not at the empty token.
Responses == \A e \in Elems(uiq) : e.ev = "sync" => e.since <= e.next /\ e.next > 0

\* The events up to the token have been written once, the others not at all.
Copied == saved = [e \in Event |-> IF e <= token THEN 1 ELSE 0]

\* A loop has a token, and so has an initial response.
HasToken == (open /\ boot = "done" => token > 0) /\ (boot = "save" => arrived > 0)

\* The connectivity check runs while its results matter.
Watched ==
  open /\ boxes = {}
    /\ (probes > 0 \/ ~connected \/ \E e \in Elems(uiq) : e.ev \in {"lost", "restored"})
    => ticking

\* LoopAlive, by the elements of the queue: those that lead to a sync from t.
Leads(e, t) ==
  \/ e.ev \in {"try", "delayed", "restored", "drop", "logout"}
  \/ e.ev = "sync" /\ e.since = t

Alive ==
  open /\ boot = "done" /\ boxes = {} =>
    \/ retry > 0 \/ throttled > 0 \/ inflight[token] > 0
    \/ \E e \in Elems(uiq) : Leads(e, token)
    \/ ~connected /\ ticking

StreamInv == NoLoopYet /\ Responses /\ Copied /\ HasToken
AliveInv == Watched /\ Alive

----------------------------------------------------------------------------
\* Queues.

\* What is queued has the type of TypeOK.
LEMMA UiType ==
  /\ \A ev \in {"try", "delayed", "lost", "restored", "drop", "logout"} :
       Ui(ev) \in UiEvents /\ Ui(ev).ev = ev
  /\ \A s, n \in Position :
       /\ Response(s, n) \in UiEvents /\ Response(s, n).ev = "sync"
       /\ Response(s, n).since = s /\ Response(s, n).next = n
BY LastAssumption DEF Ui, Response, UiEvents, Position

\* The queue with one event of the slot taken off.
LEMMA SlotTail ==
  ASSUME uiq \in Seq(UiEvents), NEW ev, Slot(ev)
  PROVE  /\ Tail(uiq) \in Seq(UiEvents) /\ Head(uiq) \in UiEvents /\ Head(uiq).ev = ev
         /\ Elems(uiq) = Elems(Tail(uiq)) \cup {Head(uiq)}
BY QueueTail DEF Slot

----------------------------------------------------------------------------
\* Types.

\* What the operators that several actions share do to the types.
LEMMA ShutdownType ==
  ASSUME TypeOK, NEW S PROVE Shutdown(S) \in [Position -> Nat]
BY DEF TypeOK, Shutdown

LEMMA SaveStateType ==
  ASSUME TypeOK, NEW s \in Position, NEW n \in Position, SaveState(s, n)
  PROVE  token' = n /\ saved' \in [Event -> Nat]
BY DEF TypeOK, SaveState

LEMMA SaveAllType ==
  ASSUME TypeOK, NEW n \in Position, SaveAll(n)
  PROVE  token' = n /\ saved' \in [Event -> Nat]
BY DEF TypeOK, SaveAll

LEMMA HandleToDeviceType ==
  ASSUME TypeOK, NEW s, NEW k, HandleToDevice(s, k)
  PROVE  handled' \in [Event -> Nat]
BY DEF TypeOK, HandleToDevice

LEMMA TrySyncType ==
  ASSUME TypeOK, NEW P \in [Position -> Nat], TrySync(P)
  PROVE  inflight' \in [Position -> Nat] /\ ticking' \in BOOLEAN
BY DEF TypeOK, TrySync

\* What a start of the program does to the queue.
LEMMA StartQueue ==
  /\ <<>> \in Seq(UiEvents) /\ Elems(<<>>) = {}
  /\ <<Ui("try")>> \in Seq(UiEvents) /\ Elems(<<Ui("try")>>) = {Ui("try")}
<1>1. <<>> \in Seq(UiEvents) /\ Elems(<<>>) = {}
  BY DEF Elems
<1>2. Ui("try") \in UiEvents
  BY UiType
<1>4. <<Ui("try")>> \in Seq(UiEvents)
  BY <1>2
<1>5. Elems(<<Ui("try")>>) = {} \cup {Ui("try")}
  <2> DEFINE q == <<Ui("try")>>
  <2>1. q[1] = Ui("try") /\ DOMAIN q = 1..1
    OBVIOUS
  <2> HIDE DEF q
  <2>2. Elems(q) = {Ui("try")}
    BY <2>1 DEF Elems
  <2> QED BY <2>2 DEF q
<1> QED BY <1>1, <1>4, <1>5

\* The part of TypeOK about what is in memory.
MemoryOK ==
  /\ boot \in {"upload", "sync", "save", "done", "none"} /\ arrived \in Position
  /\ uiq \in Seq(UiEvents)
  /\ retry \in Nat /\ throttled \in Nat
  /\ inflight \in [Position -> Nat] /\ probes \in Nat
  /\ connected \in BOOLEAN /\ ticking \in BOOLEAN
  /\ boxes \subseteq {"drop", "full"}

\* A start of the program leaves everything in memory well typed.
LEMMA StartType ==
  ASSUME TypeOK, NEW t, Start(open, t)
  PROVE  MemoryOK'
<1>1. 0 \in Position
  BY LastAssumption DEF Position
<1>2. inflight' \in [Position -> Nat]
  BY DEF Start
<1>3. uiq' \in Seq(UiEvents)
  BY StartQueue DEF Start
<1> QED BY <1>1, <1>2, <1>3 DEF Start, MemoryOK

\* The end of handleSyncResponse.
LEMMA RescheduleType ==
  ASSUME TypeOK, NEW q \in Seq(UiEvents), Reschedule(q)
  PROVE  /\ uiq' \in Seq(UiEvents) /\ throttled' \in Nat
         /\ Elems(q) \subseteq Elems(uiq') /\ Elems(uiq') \subseteq Elems(q) \cup {Ui("try")}
         /\ throttled' > 0 \/ Ui("try") \in Elems(uiq')
<1>1. Ui("try") \in UiEvents
  BY UiType
<1>2. /\ Append(q, Ui("try")) \in Seq(UiEvents)
      /\ Elems(Append(q, Ui("try"))) = Elems(q) \cup {Ui("try")}
  BY <1>1, QueueAppend
<1>3. CASE uiq' = Append(q, Ui("try")) /\ throttled' = throttled
  BY <1>2, <1>3 DEF TypeOK
<1>4. CASE uiq' = q /\ throttled' = throttled + 1
  BY <1>4 DEF TypeOK
<1> QED BY <1>3, <1>4 DEF Reschedule

\* Every step preserves the types.
LEMMA TypeStep == TypeOK /\ [Next]_vars => TypeOK'
<1> SUFFICES ASSUME TypeOK, [Next]_vars PROVE TypeOK'
  OBVIOUS
<1> USE LastAssumption
<1>0. /\ 0 \in Position /\ \A k \in 1..head : k \in Position
      /\ \A p \in 0..probes : p \in Nat
      /\ \A e \in UiEvents : e.since \in Position /\ e.next \in Position
  BY DEF TypeOK, Position, Event, UiEvents
<1>1. CASE UserLogout
  <2>1. Append(uiq, Ui("logout")) \in Seq(UiEvents)
    BY UiType, QueueAppend DEF TypeOK
  <2> QED BY <1>1, <2>1 DEF UserLogout, TypeOK, disk
<1>2. ASSUME DeleteConfigs
      PROVE  /\ inflight' \in [Position -> Nat] /\ probes' \in Nat
             /\ open' = FALSE /\ token' = 0 /\ token' \in Position
             /\ saved' \in [Event -> Nat] /\ handled' \in [Event -> Nat]
  <2>1. inflight' \in [Position -> Nat]
    BY <1>2, ShutdownType DEF DeleteConfigs
  <2> QED BY <1>0, <1>2, <2>1 DEF DeleteConfigs, TypeOK
<1>3. CASE AcceptLogout
  BY <1>2, <1>3 DEF AcceptLogout, TypeOK
<1>4. CASE HandleLogout
  <2>1. Tail(uiq) \in Seq(UiEvents)
    BY <1>4, SlotTail DEF HandleLogout, TypeOK
  <2> QED BY <1>2, <1>4, <2>1 DEF HandleLogout, TypeOK
<1>5. CASE CloseBox
  <2>1. Start(open, token)
    BY <1>5 DEF CloseBox
  <2>2. MemoryOK'
    BY <2>1, StartType
  <2> QED BY <1>5, <2>2 DEF CloseBox, TypeOK, MemoryOK, disk
<1>6. CASE Crash
  <2>1. Start(open, token)
    BY <1>6 DEF Crash
  <2>2. MemoryOK'
    BY <2>1, StartType
  <2> QED BY <1>6, <2>2, SMTT(30) DEF Crash, TypeOK, MemoryOK, disk
<1>7. CASE HandleDrop
  <2>1. Tail(uiq) \in Seq(UiEvents) /\ inflight' \in [Position -> Nat]
    BY <1>7, SlotTail, ShutdownType DEF HandleDrop, TypeOK
  <2> QED BY <1>0, <1>7, <2>1 DEF HandleDrop, TypeOK, disk
<1>8. CASE UploadDone
  BY <1>8 DEF UploadDone, TypeOK, disk
<1>9. CASE BootFails
  <2>1. Append(uiq, Ui("drop")) \in Seq(UiEvents)
    BY UiType, QueueAppend DEF TypeOK
  <2> QED BY <1>9, <2>1 DEF BootFails, TypeOK, disk
<1>10. CASE InitialAnswer
  BY <1>10, <1>0 DEF InitialAnswer, TypeOK, disk
<1>11. CASE InitialSave
  <2>1. Append(uiq, Ui("try")) \in Seq(UiEvents)
    BY UiType, QueueAppend DEF TypeOK
  <2>2. token' \in Position /\ saved' \in [Event -> Nat] /\ handled' \in [Event -> Nat]
    BY <1>11, SaveAllType, HandleToDeviceType DEF InitialSave, TypeOK
  <2> QED BY <1>11, <2>1, <2>2 DEF InitialSave, TypeOK
<1>12. CASE InitialSaveFails
  <2>1. /\ open' \in BOOLEAN /\ token' \in Position
        /\ saved' \in [Event -> Nat] /\ handled' \in [Event -> Nat] /\ faults' \in Nat
    <3>1. ASSUME SaveAll(arrived)
          PROVE  token' \in Position /\ saved' \in [Event -> Nat]
      BY <3>1, SaveAllType DEF TypeOK
    <3>2. ASSUME NEW k, HandleToDevice(0, k) PROVE handled' \in [Event -> Nat]
      BY <3>2, HandleToDeviceType
    <3> QED BY <1>12, <3>1, <3>2 DEF InitialSaveFails, TypeOK, disk
  <2> QED BY <1>12, <2>1 DEF InitialSaveFails, TypeOK
<1>13. CASE InitialSaveFull
  BY <1>13 DEF InitialSaveFull, TypeOK, disk
<1>14. CASE HandleTry
  <2>1. Tail(uiq) \in Seq(UiEvents)
    BY <1>14, SlotTail DEF HandleTry, TypeOK
  <2>2. inflight' \in [Position -> Nat] /\ ticking' \in BOOLEAN
    BY <1>14, TrySyncType DEF HandleTry, TypeOK
  <2> QED BY <1>14, <2>1, <2>2 DEF HandleTry, TypeOK, disk
<1>15. CASE HandleDelayed
  <2>1. Tail(uiq) \in Seq(UiEvents) /\ Head(uiq) \in UiEvents
    BY <1>15, SlotTail DEF HandleDelayed, TypeOK
  <2> QED BY <1>15, <2>1 DEF HandleDelayed, TypeOK, disk
<1>16. CASE RetryFires
  <2>1. inflight' \in [Position -> Nat] /\ ticking' \in BOOLEAN
    BY <1>16, TrySyncType DEF RetryFires, TypeOK
  <2> QED BY <1>16, <2>1 DEF RetryFires, TypeOK, disk
<1>17. CASE ThrottleFires
  <2>1. Append(uiq, Ui("try")) \in Seq(UiEvents)
    BY UiType, QueueAppend DEF TypeOK
  <2> QED BY <1>17, <2>1 DEF ThrottleFires, TypeOK, disk
<1>18. CASE HandleDuplicate
  <2>1. Tail(uiq) \in Seq(UiEvents) /\ Head(uiq) \in UiEvents
    BY <1>18, SlotTail DEF HandleDuplicate, TypeOK
  <2> QED BY <1>18, <2>1 DEF HandleDuplicate, TypeOK, disk
<1>19. CASE HandleSync
  <2>1. Tail(uiq) \in Seq(UiEvents) /\ Head(uiq).since \in Position /\ Head(uiq).next \in Position
    BY <1>0, <1>19, SlotTail DEF HandleSync, TypeOK
  <2>2. token' \in Position /\ saved' \in [Event -> Nat] /\ handled' \in [Event -> Nat]
    BY <1>19, <2>1, SaveStateType, HandleToDeviceType DEF HandleSync
  <2>3. uiq' \in Seq(UiEvents) /\ throttled' \in Nat
    BY <1>19, <2>1, RescheduleType DEF HandleSync
  <2> QED BY <1>19, <2>2, <2>3 DEF HandleSync, TypeOK
<1>20. CASE HandleSyncFails
  <2>1. Tail(uiq) \in Seq(UiEvents) /\ Head(uiq).since \in Position /\ Head(uiq).next \in Position
    BY <1>0, <1>20, SlotTail DEF HandleSyncFails, TypeOK
  <2>2. /\ open' \in BOOLEAN /\ token' \in Position
        /\ saved' \in [Event -> Nat] /\ handled' \in [Event -> Nat]
    BY <1>20, <2>1, SaveStateType, HandleToDeviceType DEF HandleSyncFails, TypeOK, disk
  <2>3. uiq' \in Seq(UiEvents) /\ throttled' \in Nat
    BY <1>20, <2>1, RescheduleType DEF HandleSyncFails
  <2> QED BY <1>20, <2>2, <2>3 DEF HandleSyncFails, TypeOK
<1>21. CASE HandleSyncFull
  <2>1. Tail(uiq) \in Seq(UiEvents) /\ Head(uiq) \in UiEvents
    BY <1>21, SlotTail DEF HandleSyncFull, TypeOK
  <2> QED BY <1>21, <2>1 DEF HandleSyncFull, TypeOK, disk
<1>22. CASE CrashInSync
  <2>1. ASSUME Slot("sync")
        PROVE  Head(uiq).since \in Position /\ Head(uiq).next \in Position
    BY <1>0, <2>1, SlotTail DEF TypeOK
  <2>2. /\ token' \in Position /\ saved' \in [Event -> Nat] /\ handled' \in [Event -> Nat]
    <3>1. handled' \in [Event -> Nat]
      BY <1>22, HandleToDeviceType DEF CrashInSync
    <3>2. CASE Slot("sync") /\ SaveState(Head(uiq).since, Head(uiq).next)
      BY <2>1, <3>1, <3>2, SaveStateType
    <3>3. CASE SaveAll(arrived)
      BY <3>1, <3>3, SaveAllType DEF TypeOK
    <3> QED BY <1>22, <3>2, <3>3 DEF CrashInSync
  <2>3. MemoryOK'
    <3>1. PICK t : Start(open, t)
      BY <1>22 DEF CrashInSync
    <3> QED BY <3>1, StartType
  <2>4. open' = open /\ head' = head /\ outages' = outages /\ faults' = faults + 1
    BY <1>22 DEF CrashInSync
  <2> QED BY <2>2, <2>3, <2>4, SMTT(30) DEF TypeOK, MemoryOK
<1>23. CASE Tick
  BY <1>23 DEF Tick, TypeOK, disk
<1>24. CASE ProbeError
  <2>1. Append(uiq, Ui("lost")) \in Seq(UiEvents)
    BY UiType, QueueAppend DEF TypeOK
  <2> QED BY <1>24, <2>1 DEF ProbeError, TypeOK, disk
<1>25. CASE ProbeOk
  <2>1. Append(uiq, Ui("restored")) \in Seq(UiEvents)
    BY UiType, QueueAppend DEF TypeOK
  <2> QED BY <1>25, <2>1 DEF ProbeOk, TypeOK, disk
<1>26. CASE HandleLost
  <2>1. Tail(uiq) \in Seq(UiEvents) /\ inflight' \in [Position -> Nat]
    BY <1>26, SlotTail, ShutdownType DEF HandleLost, TypeOK
  <2> QED BY <1>0, <1>26, <2>1 DEF HandleLost, TypeOK, disk
<1>27. CASE HandleRestored
  <2>1. Tail(uiq) \in Seq(UiEvents)
    BY <1>27, SlotTail DEF HandleRestored, TypeOK
  <2>2. inflight' \in [Position -> Nat] /\ ticking' \in BOOLEAN
    BY <1>27, ShutdownType, TrySyncType DEF HandleRestored
  <2> QED BY <1>0, <1>27, <2>1, <2>2 DEF HandleRestored, TypeOK, disk
<1>28. CASE NewEvent
  BY <1>28 DEF NewEvent, TypeOK, disk, memory, Event
<1>29. ASSUME NEW s \in Position, NEW n \in Position, Answer(s, n) PROVE TypeOK'
  <2>1. Append(uiq, Response(s, n)) \in Seq(UiEvents)
    BY UiType, QueueAppend DEF TypeOK
  <2> QED BY <1>29, <2>1 DEF Answer, TypeOK, disk
<1>30. ASSUME NEW s \in Position, AnswerError(s) PROVE TypeOK'
  <2>1. \A ev \in {"delayed", "drop"} : Append(uiq, Ui(ev)) \in Seq(UiEvents)
    BY UiType, QueueAppend DEF TypeOK
  <2> QED BY <1>30, <2>1 DEF AnswerError, TypeOK, disk
<1>31. CASE UNCHANGED vars
  BY <1>31 DEF vars, disk, memory, TypeOK
<1> QED
  BY <1>1, <1>3, <1>4, <1>5, <1>6, <1>7, <1>8, <1>9, <1>10, <1>11, <1>12, <1>13,
     <1>14, <1>15, <1>16, <1>17, <1>18, <1>19, <1>20, <1>21, <1>22, <1>23, <1>24,
     <1>25, <1>26, <1>27, <1>28, <1>29, <1>30, <1>31
     DEF Next, EventLoop, Initial, Network

----------------------------------------------------------------------------
\* The loop never dies.

\* Every step keeps a loop alive that was alive.
LEMMA AliveStep == TypeOK /\ AliveInv /\ [Next]_vars => AliveInv'
<1> SUFFICES ASSUME TypeOK, AliveInv, [Next]_vars PROVE AliveInv'
  OBVIOUS
<1> USE LastAssumption DEF AliveInv, Watched, Alive, Leads, TrySync, Shutdown, DeleteConfigs
<1>1. CASE UserLogout
  <2>1. Elems(uiq') = Elems(uiq) \cup {Ui("logout")} /\ Ui("logout").ev = "logout"
    BY <1>1, UiType, QueueAppend DEF UserLogout, TypeOK
  <2> QED BY <1>1, <2>1 DEF UserLogout, TypeOK, disk
<1>2. CASE AcceptLogout
  BY <1>2 DEF AcceptLogout, TypeOK, disk, memory
<1>3. CASE HandleLogout
  <2>1. /\ Elems(uiq) = Elems(Tail(uiq)) \cup {Head(uiq)}
        /\ Head(uiq).ev = "logout"
    BY <1>3, SlotTail DEF HandleLogout, TypeOK
  <2> QED BY <1>3, <2>1 DEF HandleLogout, TypeOK, disk
<1>4. CASE CloseBox
  <2>1. \E t : Start(open, t)
    BY <1>4 DEF CloseBox
  <2>2. Elems(uiq') = IF boot' = "done" THEN {Ui("try")} ELSE {}
    BY <2>1, StartQueue DEF Start
  <2>3. boxes' = {} /\ probes' = 0 /\ connected'
    BY <2>1 DEF Start
  <2> QED BY <2>2, <2>3, UiType
<1>5. CASE Crash
  <2>1. \E t : Start(open, t)
    BY <1>5 DEF Crash
  <2>2. Elems(uiq') = IF boot' = "done" THEN {Ui("try")} ELSE {}
    BY <2>1, StartQueue DEF Start
  <2>3. boxes' = {} /\ probes' = 0 /\ connected'
    BY <2>1 DEF Start
  <2> QED BY <2>2, <2>3, UiType
<1>6. CASE HandleDrop
  <2>1. /\ Elems(uiq) = Elems(Tail(uiq)) \cup {Head(uiq)}
        /\ Head(uiq).ev = "drop"
    BY <1>6, SlotTail DEF HandleDrop, TypeOK
  <2> QED BY <1>6, <2>1 DEF HandleDrop, TypeOK, disk
<1>7. CASE UploadDone
  BY <1>7 DEF UploadDone, TypeOK, disk, memory
<1>8. CASE BootFails
  <2>1. Elems(uiq') = Elems(uiq) \cup {Ui("drop")} /\ Ui("drop").ev = "drop"
    BY <1>8, UiType, QueueAppend DEF BootFails, TypeOK
  <2> QED BY <1>8, <2>1 DEF BootFails, TypeOK, disk
<1>9. CASE InitialAnswer
  BY <1>9 DEF InitialAnswer, TypeOK, disk, memory
<1>10. CASE InitialSave
  <2>1. Elems(uiq') = Elems(uiq) \cup {Ui("try")} /\ Ui("try").ev = "try"
    BY <1>10, UiType, QueueAppend DEF InitialSave, TypeOK
  <2> QED BY <1>10, <2>1 DEF InitialSave, TypeOK, disk
<1>11. CASE InitialSaveFails
  BY <1>11 DEF InitialSaveFails, TypeOK, disk, memory
<1>12. CASE InitialSaveFull
  BY <1>12 DEF InitialSaveFull, TypeOK, disk, memory
<1>13. CASE HandleTry
  <2>1. /\ Elems(uiq) = Elems(Tail(uiq)) \cup {Head(uiq)}
        /\ Head(uiq).ev = "try"
    BY <1>13, SlotTail DEF HandleTry, TypeOK
  <2> QED BY <1>13, <2>1 DEF HandleTry, TypeOK, disk
<1>14. CASE HandleDelayed
  <2>1. /\ Elems(uiq) = Elems(Tail(uiq)) \cup {Head(uiq)}
        /\ Head(uiq).ev = "delayed"
    BY <1>14, SlotTail DEF HandleDelayed, TypeOK
  <2> QED BY <1>14, <2>1 DEF HandleDelayed, TypeOK, disk
<1>15. CASE RetryFires
  BY <1>15 DEF RetryFires, TypeOK, disk, memory
<1>16. CASE ThrottleFires
  <2>1. Elems(uiq') = Elems(uiq) \cup {Ui("try")} /\ Ui("try").ev = "try"
    BY <1>16, UiType, QueueAppend DEF ThrottleFires, TypeOK
  <2> QED BY <1>16, <2>1 DEF ThrottleFires, TypeOK, disk
<1>17. CASE HandleDuplicate
  <2>1. /\ Elems(uiq) = Elems(Tail(uiq)) \cup {Head(uiq)}
        /\ Head(uiq).ev = "sync"
    BY <1>17, SlotTail DEF HandleDuplicate, TypeOK
  <2> QED BY <1>17, <2>1 DEF HandleDuplicate, Duplicate, TypeOK, disk
<1>18. CASE HandleSync
  <2>1. /\ Elems(uiq) = Elems(Tail(uiq)) \cup {Head(uiq)} /\ Tail(uiq) \in Seq(UiEvents)
        /\ Head(uiq).ev = "sync" /\ Head(uiq) \in UiEvents
    BY <1>18, SlotTail DEF HandleSync, TypeOK
  <2>2. /\ Elems(uiq') \subseteq Elems(Tail(uiq)) \cup {Ui("try")} /\ Ui("try").ev = "try"
        /\ throttled' > 0 \/ Ui("try") \in Elems(uiq')
    BY <1>18, <2>1, RescheduleType, UiType DEF HandleSync
  <2> QED BY <1>18, <2>1, <2>2 DEF HandleSync, TypeOK
<1>19. CASE HandleSyncFails
  <2>1. /\ Elems(uiq) = Elems(Tail(uiq)) \cup {Head(uiq)} /\ Tail(uiq) \in Seq(UiEvents)
        /\ Head(uiq).ev = "sync" /\ Head(uiq) \in UiEvents
    BY <1>19, SlotTail DEF HandleSyncFails, TypeOK
  <2>2. /\ Elems(uiq') \subseteq Elems(Tail(uiq)) \cup {Ui("try")} /\ Ui("try").ev = "try"
        /\ throttled' > 0 \/ Ui("try") \in Elems(uiq')
    BY <1>19, <2>1, RescheduleType, UiType DEF HandleSyncFails
  <2>3. UNCHANGED <<open, boot, probes, connected, ticking, boxes>>
    BY <1>19 DEF HandleSyncFails, disk
  <2> QED BY <2>1, <2>2, <2>3
<1>20. CASE HandleSyncFull
  <2>1. /\ Elems(uiq) = Elems(Tail(uiq)) \cup {Head(uiq)}
        /\ Head(uiq).ev = "sync"
    BY <1>20, SlotTail DEF HandleSyncFull, TypeOK
  <2> QED BY <1>20, <2>1 DEF HandleSyncFull, TypeOK, disk
<1>21. CASE CrashInSync
  <2>1. \E t : Start(open, t)
    BY <1>21 DEF CrashInSync
  <2>2. Elems(uiq') = IF boot' = "done" THEN {Ui("try")} ELSE {}
    BY <2>1, StartQueue DEF Start
  <2>3. boxes' = {} /\ probes' = 0 /\ connected'
    BY <2>1 DEF Start
  <2> QED BY <2>2, <2>3, UiType
<1>22. CASE Tick
  BY <1>22 DEF Tick, TypeOK, disk, memory
<1>23. CASE ProbeError
  <2>1. Elems(uiq') = Elems(uiq) \cup {Ui("lost")} /\ Ui("lost").ev = "lost"
    BY <1>23, UiType, QueueAppend DEF ProbeError, TypeOK
  <2> QED BY <1>23, <2>1 DEF ProbeError, TypeOK, disk
<1>24. CASE ProbeOk
  <2>1. /\ \/ Elems(uiq') = Elems(uiq)
           \/ Elems(uiq') = Elems(uiq) \cup {Ui("restored")} /\ ~connected
        /\ Ui("restored").ev = "restored"
    BY <1>24, UiType, QueueAppend DEF ProbeOk, TypeOK
  <2> QED BY <1>24, <2>1 DEF ProbeOk, TypeOK, disk
<1>25. CASE HandleLost
  <2>1. /\ Elems(uiq) = Elems(Tail(uiq)) \cup {Head(uiq)}
        /\ Head(uiq).ev = "lost"
    BY <1>25, SlotTail DEF HandleLost, TypeOK
  <2> QED BY <1>25, <2>1 DEF HandleLost, TypeOK, disk
<1>26. CASE HandleRestored
  <2>1. /\ Elems(uiq) = Elems(Tail(uiq)) \cup {Head(uiq)}
        /\ Head(uiq).ev = "restored"
    BY <1>26, SlotTail DEF HandleRestored, TypeOK
  <2> QED BY <1>26, <2>1 DEF HandleRestored, TypeOK, disk
<1>27. CASE NewEvent
  BY <1>27 DEF NewEvent, TypeOK, disk, memory
<1>28. ASSUME NEW s \in Position, NEW n \in Position, Answer(s, n) PROVE AliveInv'
  <2>1. /\ Elems(uiq') = Elems(uiq) \cup {Response(s, n)} /\ Response(s, n).ev = "sync"
        /\ Response(s, n).since = s /\ Response(s, n).next = n
    BY <1>28, UiType, QueueAppend DEF Answer, TypeOK
  <2> QED BY <1>28, <2>1 DEF Answer, TypeOK, disk
<1>29. ASSUME NEW s \in Position, AnswerError(s) PROVE AliveInv'
  <2>1. PICK ev \in {"delayed", "drop"} :
          Elems(uiq') = Elems(uiq) \cup {Ui(ev)} /\ Ui(ev).ev = ev
    BY <1>29, UiType, QueueAppend DEF AnswerError, TypeOK
  <2> QED BY <1>29, <2>1 DEF AnswerError, TypeOK, disk
<1>30. CASE UNCHANGED vars
  BY <1>30 DEF vars, disk, memory
<1> QED
  BY <1>1, <1>2, <1>3, <1>4, <1>5, <1>6, <1>7, <1>8, <1>9, <1>10, <1>11, <1>12,
     <1>13, <1>14, <1>15, <1>16, <1>17, <1>18, <1>19, <1>20, <1>21, <1>22, <1>23,
     <1>24, <1>25, <1>26, <1>27, <1>28, <1>29, <1>30
     DEF Next, EventLoop, Initial, Network

----------------------------------------------------------------------------
\* The token and what has been written.

\* saveState of a response that continues at the token writes what is missing.
LEMMA SaveStateCopies ==
  ASSUME TypeOK, Copied, NEW n \in Position, token <= n, SaveState(token, n)
  PROVE  Copied'
<1>1. saved' = [e \in Event |-> IF token < e /\ e <= n THEN saved[e] + 1 ELSE saved[e]]
      /\ token' = n
  BY DEF SaveState
<1>2. \A e \in Event : saved[e] = IF e <= token THEN 1 ELSE 0
  BY DEF Copied
<1>3. token \in Int /\ n \in Int /\ \A e \in Event : e \in Int
  BY LastAssumption DEF TypeOK, Position, Event
<1>4. \A e \in Event : (IF token < e /\ e <= n THEN saved[e] + 1 ELSE saved[e])
                          = IF e <= n THEN 1 ELSE 0
  BY <1>2, <1>3
<1> QED BY <1>1, <1>4 DEF Copied

LEMMA SaveAllCopies ==
  ASSUME NEW n, SaveAll(n) PROVE Copied'
BY DEF SaveAll, Copied

LEMMA DeleteConfigsCopies ==
  ASSUME DeleteConfigs PROVE Copied' /\ open' = FALSE
<1>1. \A e \in Event : ~(e <= 0)
  BY LastAssumption DEF Event
<1> QED BY <1>1 DEF DeleteConfigs, Copied

\* A start of the program on the token it finds.
LEMMA StartStream ==
  ASSUME TypeOK, NEW t \in Position, Start(open, t), token' = t, open' = open
  PROVE  NoLoopYet' /\ Responses' /\ HasToken'
<1>1. Elems(uiq') = IF boot' = "done" THEN {Ui("try")} ELSE {}
  BY StartQueue DEF Start
<1>2. NoLoopYet'
  BY <1>1 DEF Start, NoLoopYet
<1>3. Responses'
  BY <1>1, UiType DEF Responses
<1>4. HasToken'
  BY LastAssumption DEF Start, HasToken, Position
<1> QED BY <1>2, <1>3, <1>4

\* Every step keeps the token and what has been written together.
LEMMA StreamStep == TypeOK /\ StreamInv /\ [Next]_vars => StreamInv'
<1> SUFFICES ASSUME TypeOK, StreamInv, [Next]_vars PROVE StreamInv'
  OBVIOUS
<1> USE LastAssumption DEF StreamInv, NoLoopYet, Responses, Copied, HasToken, TrySync, Shutdown
<1>1. CASE UserLogout
  <2>1. Elems(uiq') = Elems(uiq) \cup {Ui("logout")} /\ Ui("logout").ev = "logout"
    BY <1>1, UiType, QueueAppend DEF UserLogout, TypeOK
  <2> QED BY <1>1, <2>1 DEF UserLogout, TypeOK, disk
<1>2. CASE AcceptLogout
  <2>1. Copied' /\ open' = FALSE
    BY <1>2, DeleteConfigsCopies DEF AcceptLogout
  <2> QED BY <1>2, <2>1 DEF AcceptLogout, DeleteConfigs, Shutdown, TypeOK
<1>3. CASE HandleLogout
  <2>1. /\ Elems(uiq) = Elems(Tail(uiq)) \cup {Head(uiq)}
        /\ Copied' /\ open' = FALSE
    BY <1>3, SlotTail, DeleteConfigsCopies DEF HandleLogout, TypeOK
  <2> QED BY <1>3, <2>1 DEF HandleLogout, DeleteConfigs, Shutdown, TypeOK
<1>4. CASE CloseBox
  <2>1. Start(open, token) /\ UNCHANGED disk
    BY <1>4 DEF CloseBox
  <2> QED BY <2>1, StartStream DEF disk, TypeOK
<1>5. CASE Crash
  <2>1. Start(open, token) /\ UNCHANGED disk
    BY <1>5 DEF Crash
  <2> QED BY <2>1, StartStream DEF disk, TypeOK
<1>6. CASE HandleDrop
  <2>1. /\ Elems(uiq) = Elems(Tail(uiq)) \cup {Head(uiq)}
        /\ Head(uiq).ev = "drop"
    BY <1>6, SlotTail DEF HandleDrop, TypeOK
  <2> QED BY <1>6, <2>1 DEF HandleDrop, TypeOK, disk
<1>7. CASE UploadDone
  BY <1>7 DEF UploadDone, TypeOK, disk, memory
<1>8. CASE BootFails
  <2>1. Elems(uiq') = Elems(uiq) \cup {Ui("drop")} /\ Ui("drop").ev = "drop"
    BY <1>8, UiType, QueueAppend DEF BootFails, TypeOK
  <2> QED BY <1>8, <2>1 DEF BootFails, TypeOK, disk
<1>9. CASE InitialAnswer
  BY <1>9 DEF InitialAnswer, TypeOK, disk, memory
<1>10. CASE InitialSave
  <2>1. Elems(uiq') = Elems(uiq) \cup {Ui("try")} /\ Ui("try").ev = "try"
    BY <1>10, UiType, QueueAppend DEF InitialSave, TypeOK
  <2>2. Copied' /\ token' = arrived
    BY <1>10, SaveAllCopies DEF InitialSave, SaveAll
  <2> QED BY <1>10, <2>1, <2>2 DEF InitialSave
<1>11. CASE InitialSaveFails
  <2>1. Copied'
    BY <1>11, SaveAllCopies DEF InitialSaveFails, disk
  <2>2. UNCHANGED <<uiq, retry, throttled, inflight, probes, connected, ticking>>
        /\ boot = "save" /\ boot' = "sync"
    BY <1>11 DEF InitialSaveFails
  <2> QED BY <2>1, <2>2
<1>12. CASE InitialSaveFull
  BY <1>12 DEF InitialSaveFull, TypeOK, disk, memory
<1>13. CASE HandleTry
  <2>1. /\ Elems(uiq) = Elems(Tail(uiq)) \cup {Head(uiq)}
        /\ Head(uiq).ev = "try"
    BY <1>13, SlotTail DEF HandleTry, TypeOK
  <2> QED BY <1>13, <2>1 DEF HandleTry, TypeOK, disk
<1>14. CASE HandleDelayed
  <2>1. /\ Elems(uiq) = Elems(Tail(uiq)) \cup {Head(uiq)}
        /\ Head(uiq).ev = "delayed"
    BY <1>14, SlotTail DEF HandleDelayed, TypeOK
  <2> QED BY <1>14, <2>1 DEF HandleDelayed, TypeOK, disk
<1>15. CASE RetryFires
  BY <1>15 DEF RetryFires, TypeOK, disk, memory
<1>16. CASE ThrottleFires
  <2>1. Elems(uiq') = Elems(uiq) \cup {Ui("try")} /\ Ui("try").ev = "try"
    BY <1>16, UiType, QueueAppend DEF ThrottleFires, TypeOK
  <2> QED BY <1>16, <2>1 DEF ThrottleFires, TypeOK, disk
<1>17. CASE HandleDuplicate
  <2>1. /\ Elems(uiq) = Elems(Tail(uiq)) \cup {Head(uiq)}
        /\ Head(uiq).ev = "sync"
    BY <1>17, SlotTail DEF HandleDuplicate, TypeOK
  <2> QED BY <1>17, <2>1 DEF HandleDuplicate, TypeOK, disk
<1>18. CASE HandleSync
  <2>1. /\ Elems(uiq) = Elems(Tail(uiq)) \cup {Head(uiq)} /\ Tail(uiq) \in Seq(UiEvents)
        /\ Head(uiq).ev = "sync" /\ Head(uiq) \in UiEvents
    BY <1>18, SlotTail DEF HandleSync, TypeOK
  <2>2. /\ Elems(uiq') \subseteq Elems(Tail(uiq)) \cup {Ui("try")} /\ Ui("try").ev = "try"
        /\ throttled' > 0 \/ Ui("try") \in Elems(uiq')
    BY <1>18, <2>1, RescheduleType, UiType DEF HandleSync
  <2>3. /\ Head(uiq).since = token /\ token <= Head(uiq).next /\ Head(uiq).next > 0
        /\ Head(uiq).next \in Position /\ boot = "done" /\ open
    BY <1>18, <2>1 DEF HandleSync, Duplicate, UiEvents
  <2>4. Copied' /\ token' = Head(uiq).next
    BY <1>18, <2>3, SaveStateCopies DEF HandleSync, SaveState
  <2>5. NoLoopYet' /\ Responses'
    BY <1>18, <2>1, <2>2, <2>3 DEF HandleSync
  <2> QED BY <1>18, <2>3, <2>4, <2>5 DEF HandleSync
<1>19. CASE HandleSyncFails
  <2>1. /\ Elems(uiq) = Elems(Tail(uiq)) \cup {Head(uiq)} /\ Tail(uiq) \in Seq(UiEvents)
        /\ Head(uiq).ev = "sync" /\ Head(uiq) \in UiEvents
    BY <1>19, SlotTail DEF HandleSyncFails, TypeOK
  <2>2. /\ Elems(uiq') \subseteq Elems(Tail(uiq)) \cup {Ui("try")} /\ Ui("try").ev = "try"
        /\ throttled' > 0 \/ Ui("try") \in Elems(uiq')
    BY <1>19, <2>1, RescheduleType, UiType DEF HandleSyncFails
  <2>3. /\ Head(uiq).since = token /\ token <= Head(uiq).next /\ Head(uiq).next > 0
        /\ Head(uiq).next \in Position /\ boot = "done" /\ open
    BY <1>19, <2>1 DEF HandleSyncFails, Duplicate, UiEvents
  <2>4. Copied' /\ token' > 0
    <3>1. CASE UNCHANGED disk
      BY <2>3, <3>1 DEF disk, TypeOK, Position
    <3>2. CASE SaveState(Head(uiq).since, Head(uiq).next)
      BY <2>3, <3>2, SaveStateCopies DEF SaveState
    <3> QED BY <1>19, <3>1, <3>2 DEF HandleSyncFails
  <2>5. NoLoopYet' /\ Responses'
    BY <1>19, <2>1, <2>2, <2>3 DEF HandleSyncFails
  <2> QED BY <1>19, <2>3, <2>4, <2>5 DEF HandleSyncFails
<1>20. CASE HandleSyncFull
  <2>1. /\ Elems(uiq) = Elems(Tail(uiq)) \cup {Head(uiq)}
        /\ Head(uiq).ev = "sync"
    BY <1>20, SlotTail DEF HandleSyncFull, TypeOK
  <2> QED BY <1>20, <2>1 DEF HandleSyncFull, TypeOK, disk
<1>21. CASE CrashInSync
  <2>1. open' = open
    BY <1>21 DEF CrashInSync
  <2>2. CASE /\ Slot("sync") /\ ~Duplicate(Head(uiq))
             /\ SaveState(Head(uiq).since, Head(uiq).next) /\ Start(open, Head(uiq).next)
    <3>1. Head(uiq) \in Elems(uiq) /\ Head(uiq) \in UiEvents /\ Head(uiq).ev = "sync"
      BY <2>2, SlotTail DEF TypeOK
    <3>2. /\ Head(uiq).since = token /\ token <= Head(uiq).next
          /\ Head(uiq).next \in Position
      BY <2>2, <3>1 DEF Duplicate, UiEvents
    <3>3. Copied' /\ token' = Head(uiq).next
      BY <2>2, <3>2, SaveStateCopies DEF SaveState
    <3> QED BY <2>1, <2>2, <3>2, <3>3, StartStream
  <2>3. CASE SaveAll(arrived) /\ Start(open, arrived)
    <3>1. Copied' /\ token' = arrived /\ arrived \in Position
      BY <2>3, SaveAllCopies DEF SaveAll, TypeOK
    <3> QED BY <2>1, <2>3, <3>1, StartStream
  <2> QED BY <1>21, <2>2, <2>3 DEF CrashInSync
<1>22. CASE Tick
  BY <1>22 DEF Tick, TypeOK, disk, memory
<1>23. CASE ProbeError
  <2>1. Elems(uiq') = Elems(uiq) \cup {Ui("lost")} /\ Ui("lost").ev = "lost"
    BY <1>23, UiType, QueueAppend DEF ProbeError, TypeOK
  <2> QED BY <1>23, <2>1 DEF ProbeError, TypeOK, disk
<1>24. CASE ProbeOk
  <2>1. /\ \/ Elems(uiq') = Elems(uiq)
           \/ Elems(uiq') = Elems(uiq) \cup {Ui("restored")} /\ ~connected
        /\ Ui("restored").ev = "restored"
    BY <1>24, UiType, QueueAppend DEF ProbeOk, TypeOK
  <2> QED BY <1>24, <2>1 DEF ProbeOk, TypeOK, disk
<1>25. CASE HandleLost
  <2>1. /\ Elems(uiq) = Elems(Tail(uiq)) \cup {Head(uiq)}
        /\ Head(uiq).ev = "lost"
    BY <1>25, SlotTail DEF HandleLost, TypeOK
  <2> QED BY <1>25, <2>1 DEF HandleLost, TypeOK, disk
<1>26. CASE HandleRestored
  <2>1. /\ Elems(uiq) = Elems(Tail(uiq)) \cup {Head(uiq)}
        /\ Head(uiq).ev = "restored"
    BY <1>26, SlotTail DEF HandleRestored, TypeOK
  <2> QED BY <1>26, <2>1 DEF HandleRestored, TypeOK, disk
<1>27. CASE NewEvent
  BY <1>27 DEF NewEvent, TypeOK, disk, memory
<1>28. ASSUME NEW s \in Position, NEW n \in Position, Answer(s, n) PROVE StreamInv'
  <2>1. /\ Elems(uiq') = Elems(uiq) \cup {Response(s, n)} /\ Response(s, n).ev = "sync"
        /\ Response(s, n).since = s /\ Response(s, n).next = n
    BY <1>28, UiType, QueueAppend DEF Answer, TypeOK
  <2> QED BY <1>28, <2>1 DEF Answer, TypeOK, disk
<1>29. ASSUME NEW s \in Position, AnswerError(s) PROVE StreamInv'
  <2>1. PICK ev \in {"delayed", "drop"} :
          Elems(uiq') = Elems(uiq) \cup {Ui(ev)} /\ Ui(ev).ev = ev
    BY <1>29, UiType, QueueAppend DEF AnswerError, TypeOK
  <2> QED BY <1>29, <2>1 DEF AnswerError, TypeOK, disk
<1>30. CASE UNCHANGED vars
  BY <1>30 DEF vars, disk, memory
<1> QED
  BY <1>1, <1>2, <1>3, <1>4, <1>5, <1>6, <1>7, <1>8, <1>9, <1>10, <1>11, <1>12,
     <1>13, <1>14, <1>15, <1>16, <1>17, <1>18, <1>19, <1>20, <1>21, <1>22, <1>23,
     <1>24, <1>25, <1>26, <1>27, <1>28, <1>29, <1>30
     DEF Next, EventLoop, Initial, Network

----------------------------------------------------------------------------
\* The loop implements the stream.

\* The phase of the stream.
Phase == IF boot = "done" \/ (~open /\ boot = "none") THEN "following" ELSE "copying"

\* A complete copy, in the terms of the stream.
LEMMA CopyStep ==
  ASSUME TypeOK, NEW n \in Position, NEW k \in Position,
         Phase = "copying", SaveAll(n), HandleToDevice(0, k)
  PROVE  Stream!Next
<1>1. Phase' \in {"copying", "following"}
  BY DEF Phase
<1>2. Stream!Copy(n, k)
  BY <1>1 DEF Stream!Copy, Stream!HandOn, Stream!Prefix, SaveAll, HandleToDevice, Phase, Event
<1> QED BY <1>2 DEF Stream!Next, Position

\* A response that continues at the token extends the prefix.
LEMMA ExtendStep ==
  ASSUME TypeOK, Copied, Copied', NEW n \in Position, NEW k \in token..n, token' = n,
         Phase = "following", Phase' = "following",
         HandleToDevice(token, k)
  PROVE  Stream!Next
<1>1. token \in 0..Last /\ n \in 0..Last /\ k \in 0..Last /\ token <= k /\ k <= n
  BY LastAssumption DEF TypeOK, Position
<1>2. saved = Stream!Prefix(token) /\ saved' = Stream!Prefix(n)
  BY DEF Copied, Stream!Prefix, Event
<1>3. Stream!HandOn(token, k)
  BY DEF Stream!HandOn, HandleToDevice, Event
<1>4. Stream!Extend(token, n, k)
  BY <1>1, <1>2, <1>3 DEF Stream!Extend, Phase
<1> QED BY <1>1, <1>4 DEF Stream!Next

\* The account is removed.
LEMMA ForgetStep ==
  ASSUME DeleteConfigs PROVE Stream!Next
<1>1. \A e \in 1..Last : ~(e <= 0)
  BY LastAssumption
<1>2. saved' = Stream!Prefix(0) /\ handled' = Stream!Prefix(0)
  BY <1>1 DEF DeleteConfigs, Stream!Prefix, Event
<1>3. Phase' \in {"copying", "following"}
  BY DEF Phase
<1>4. Stream!Forget
  BY <1>2, <1>3 DEF Stream!Forget, Phase
<1> QED BY <1>4 DEF Stream!Next

\* Nothing is written, and the phase stays or goes on.
LEMMA StayStep ==
  ASSUME UNCHANGED <<saved, handled>>, Phase' = Phase \/ Phase' = "following"
  PROVE  [Stream!Next]_(Stream!stream)
<1>1. CASE Phase' = Phase
  BY <1>1 DEF Phase, Stream!stream
<1>2. CASE Phase' # Phase
  <2>1. Phase = "copying" /\ Phase' = "following"
    BY <1>2 DEF Phase
  <2>2. Stream!Follow
    BY <2>1 DEF Stream!Follow, Phase
  <2> QED BY <2>2 DEF Stream!Next
<1> QED BY <1>1, <1>2

\* Every step of the loop is a step of the stream or none.
LEMMA ImplementsStep ==
  TypeOK /\ StreamInv /\ StreamInv' /\ [Next]_vars => [Stream!Next]_(Stream!stream)
<1> SUFFICES ASSUME TypeOK, StreamInv, StreamInv', [Next]_vars
             PROVE  [Stream!Next]_(Stream!stream)
  OBVIOUS
<1>1. CASE AcceptLogout \/ HandleLogout
  BY <1>1, ForgetStep DEF AcceptLogout, HandleLogout
<1>2. CASE CloseBox \/ Crash
  <2>1. Start(open, token) /\ UNCHANGED disk
    BY <1>2 DEF CloseBox, Crash
  <2>2. Phase' = Phase \/ Phase' = "following"
    BY <2>1 DEF Start, disk, StreamInv, HasToken, Phase, TypeOK
  <2> QED BY <2>1, <2>2, StayStep DEF disk
<1>3. CASE InitialSave
  <2>1. Phase = "copying" /\ SaveAll(arrived) /\ HandleToDevice(0, arrived) /\ arrived \in Position
    BY <1>3 DEF InitialSave, Phase, TypeOK
  <2> QED BY <2>1, CopyStep
<1>4. CASE InitialSaveFails
  <2>1. CASE UNCHANGED disk
    <3>1. Phase' = Phase
      BY <1>4, <2>1 DEF InitialSaveFails, disk, Phase
    <3> QED BY <2>1, <3>1, StayStep DEF disk
  <2>2. CASE SaveAll(arrived) /\ \E k \in 0..arrived : HandleToDevice(0, k)
    <3>1. PICK k \in 0..arrived : HandleToDevice(0, k)
      BY <2>2
    <3>2. Phase = "copying" /\ arrived \in Position /\ k \in Position
      BY <1>4, LastAssumption DEF InitialSaveFails, Phase, TypeOK, Position
    <3> QED BY <2>2, <3>1, <3>2, CopyStep
  <2> QED BY <1>4, <2>1, <2>2 DEF InitialSaveFails, disk
<1>5. CASE HandleSync \/ HandleSyncFails
  <2>1. Slot("sync") /\ ~Duplicate(Head(uiq))
    BY <1>5 DEF HandleSync, HandleSyncFails
  <2>2. Head(uiq) \in Elems(uiq) /\ Head(uiq) \in UiEvents /\ Head(uiq).ev = "sync"
    BY <2>1, SlotTail DEF TypeOK
  <2>3. /\ Head(uiq).since = token /\ token <= Head(uiq).next
        /\ Head(uiq).next \in Position /\ boot = "done"
    BY <2>1, <2>2 DEF Duplicate, UiEvents, StreamInv, Responses, NoLoopYet
  <2>4. boot' = boot /\ Phase = "following" /\ Phase' = "following"
    BY <1>5, <2>3 DEF HandleSync, HandleSyncFails, Phase
  <2>5. CASE UNCHANGED disk
    BY <2>4, <2>5, StayStep DEF disk
  <2>6. CASE /\ SaveState(token, Head(uiq).next)
             /\ \E k \in token..Head(uiq).next : HandleToDevice(token, k)
    <3>1. PICK k \in token..Head(uiq).next : HandleToDevice(token, k)
      BY <2>6
    <3>2. token' = Head(uiq).next
      BY <2>6 DEF SaveState
    <3> QED BY <2>3, <2>4, <3>1, <3>2, ExtendStep DEF StreamInv
  <2>7. Head(uiq).next \in token..Head(uiq).next
    BY <2>3, LastAssumption DEF TypeOK, Position
  <2> QED BY <1>5, <2>3, <2>5, <2>6, <2>7 DEF HandleSync, HandleSyncFails
<1>6. CASE CrashInSync
  <2>1. CASE /\ Slot("sync") /\ ~Duplicate(Head(uiq))
             /\ SaveState(Head(uiq).since, Head(uiq).next)
             /\ \E k \in Head(uiq).since..Head(uiq).next : HandleToDevice(Head(uiq).since, k)
             /\ Start(open, Head(uiq).next)
    <3>1. Head(uiq) \in Elems(uiq) /\ Head(uiq) \in UiEvents /\ Head(uiq).ev = "sync"
      BY <2>1, SlotTail DEF TypeOK
    <3>2. /\ Head(uiq).since = token /\ token <= Head(uiq).next /\ Head(uiq).next > 0
          /\ Head(uiq).next \in Position /\ boot = "done" /\ open
      BY <2>1, <3>1 DEF Duplicate, UiEvents, StreamInv, Responses, NoLoopYet
    <3>3. Phase = "following" /\ Phase' = "following" /\ token' = Head(uiq).next
      BY <2>1, <3>2, LastAssumption DEF Start, SaveState, Phase, Position
    <3>4. PICK k \in token..Head(uiq).next : HandleToDevice(token, k)
      BY <2>1, <3>2
    <3> QED BY <3>2, <3>3, <3>4, ExtendStep DEF StreamInv
  <2>2. CASE /\ boot = "save" /\ SaveAll(arrived)
             /\ \E k \in 0..arrived : HandleToDevice(0, k)
    <3>1. PICK k \in 0..arrived : HandleToDevice(0, k)
      BY <2>2
    <3>2. Phase = "copying" /\ arrived \in Position /\ k \in Position
      BY <2>2, LastAssumption DEF Phase, TypeOK, Position
    <3> QED BY <2>2, <3>1, <3>2, CopyStep
  <2> QED BY <1>6, <2>1, <2>2 DEF CrashInSync
<1>7. CASE BootFails
  <2>1. UNCHANGED <<saved, handled>> /\ (Phase' = Phase \/ Phase' = "following")
    BY <1>7 DEF BootFails, disk, Phase
  <2> QED BY <2>1, StayStep
<1>8. CASE UploadDone \/ InitialAnswer \/ InitialSaveFull
  <2>1. UNCHANGED <<saved, handled>> /\ Phase' = Phase
    BY <1>8 DEF UploadDone, InitialAnswer, InitialSaveFull, disk, Phase
  <2> QED BY <2>1, StayStep
<1>9. ASSUME UNCHANGED <<open, boot, saved, handled>> PROVE [Stream!Next]_(Stream!stream)
  BY <1>9, StayStep DEF Phase
<1>10. CASE \/ HandleTry \/ HandleDelayed \/ HandleDuplicate \/ HandleSyncFull \/ HandleLost
            \/ HandleRestored \/ HandleDrop
  BY <1>9, <1>10 DEF HandleTry, HandleDelayed, HandleDuplicate, HandleSyncFull, HandleLost,
     HandleRestored, HandleDrop, disk
<1>11. CASE RetryFires \/ ThrottleFires \/ Tick \/ UserLogout \/ Network
  BY <1>9, <1>11 DEF RetryFires, ThrottleFires, Tick, UserLogout, Network, NewEvent, Answer,
     AnswerError, ProbeError, ProbeOk, disk, memory
<1>12. CASE UNCHANGED vars
  BY <1>9, <1>12 DEF vars, disk, memory
<1> QED
  BY <1>1, <1>2, <1>3, <1>4, <1>5, <1>6, <1>7, <1>8, <1>10, <1>11, <1>12
     DEF Next, EventLoop, Initial

----------------------------------------------------------------------------
\* The theorems.

\* The first state.
LEMMA InitLoop == Init => TypeOK /\ StreamInv /\ AliveInv
<1> SUFFICES ASSUME Init PROVE TypeOK /\ StreamInv /\ AliveInv
  OBVIOUS
<1>1. TypeOK
  <2>1. 1 \in Event /\ 0 \in Position
    BY LastAssumption DEF Event, Position
  <2>2. /\ inflight \in [Position -> Nat]
        /\ saved \in [Event -> Nat] /\ handled \in [Event -> Nat]
    BY DEF Init
  <2>3. open \in BOOLEAN /\ connected \in BOOLEAN /\ ticking \in BOOLEAN
    BY DEF Init
  <2>4. uiq \in Seq(UiEvents)
    BY StartQueue DEF Init
  <2>5. boxes \subseteq {"drop", "full"}
    BY DEF Init
  <2> QED BY <2>1, <2>2, <2>3, <2>4, <2>5 DEF Init, TypeOK
<1>2. \A e \in Event : ~(e <= 0)
  BY LastAssumption DEF Event
<1>3. StreamInv
  BY <1>2, StartQueue
     DEF Init, StreamInv, NoLoopYet, Responses, Copied, HasToken
<1>4. AliveInv
  BY StartQueue DEF Init, AliveInv, Watched, Alive
<1> QED BY <1>1, <1>3, <1>4

\* Every variable keeps its type, whatever is queued, sent or lost.
THEOREM TypeCorrect == Spec => []TypeOK
<1>1. Init => TypeOK
  BY InitLoop
<1> QED BY <1>1, TypeStep, PTL DEF Spec

\* The token, what has been written and the queued responses always agree.
LEMMA StreamInvariant == Spec => [](TypeOK /\ StreamInv)
<1>1. Init => TypeOK /\ StreamInv
  BY InitLoop
<1>2. TypeOK /\ StreamInv /\ [Next]_vars => (TypeOK /\ StreamInv)'
  BY TypeStep, StreamStep
<1> QED BY <1>1, <1>2, PTL DEF Spec

\* While the user is logged in and no box waits for an answer something is under
\* way that leads to the next sync with the stored token, however often the
\* connection is lost, requests and the database fail or the program ends.
THEOREM NeverDies == Spec => []LoopAlive
<1>1. Init => TypeOK /\ AliveInv
  BY InitLoop
<1>2. TypeOK /\ AliveInv /\ [Next]_vars => (TypeOK /\ AliveInv)'
  BY TypeStep, AliveStep
<1>3. TypeOK /\ AliveInv => LoopAlive
  BY DEF TypeOK, AliveInv, Alive, Leads, LoopAlive, Queued, Elems
<1> QED BY <1>1, <1>2, <1>3, PTL DEF Spec

\* The sync loop implements SyncStream: the cache holds a prefix of the events,
\* each written once, and to-device messages are handed on at most once, with
\* any number of loops, failures, crashes and logouts.
THEOREM Implements == Spec => FollowsStream
<1>1. Init => Stream!Init
  <2>1. \A e \in 1..Last : ~(e <= 0)
    BY LastAssumption
  <2> QED BY <2>1 DEF Init, Stream!Init, Stream!Prefix, Event
<1>2. TypeOK /\ StreamInv /\ StreamInv' /\ [Next]_vars => [Stream!Next]_(Stream!stream)
  BY ImplementsStep
<1> QED BY <1>1, <1>2, StreamInvariant, PTL DEF Spec, FollowsStream, Stream!Spec
=============================================================================
