---------------------- MODULE ApplicationOutbox_proofs ----------------------
(***************************************************************************)
(* Safety of ApplicationOutbox for every set of requests and applications  *)
(* and every batch limit.                                                  *)
(***************************************************************************)
EXTENDS ApplicationOutbox, TLAPS

\* More counts up to Many and stays there.
LEMMA MoreSaturates ==
  \A n \in Arrivals : More(n) \in Arrivals /\ More(n) > 0 /\ (More(n) = Many => n > 0)
BY DEF Arrivals, More, Many

\* Recording a failure keeps the type of faults and the failures recorded before.
LEMMA FaultRecords ==
  ASSUME faults \in [Applications -> SUBSET FaultKinds],
         NEW a \in Applications, NEW kind \in FaultKinds, Fault(a, kind)
  PROVE  /\ faults' \in [Applications -> SUBSET FaultKinds]
         /\ \A b \in Applications : faults[b] \subseteq faults'[b]
         /\ kind \in faults'[a]
BY DEF Fault

-----------------------------------------------------------------------------
(* Types *)

\* Every variable keeps its type.
THEOREM TypeCorrect == Spec => []TypeOK
<1>1. Init => TypeOK
  <2> SUFFICES ASSUME Init PROVE TypeOK
    OBVIOUS
  <2>1. apiUp \in BOOLEAN /\ pool \in BOOLEAN /\ brokerUp \in BOOLEAN
    BY Zenon DEF Init
  <2>2. arrived \in [Applications -> Arrivals] /\ faults \in [Applications -> SUBSET FaultKinds]
    BY DEF Init, Arrivals, Many
  <2> QED BY <2>1, <2>2 DEF Init, TypeOK, Pending
<1>2. TypeOK /\ [Next]_vars => TypeOK'
  <2> SUFFICES ASSUME TypeOK, [Next]_vars PROVE TypeOK'
    OBVIOUS
  <2> USE TargetAssumption
      DEF TypeOK, handlerVars, outboxVars, linkVars, historyVars, Pending, Outcome
  <2>1. ASSUME NEW r \in Requests, ReceiveApply(r) \/ CheckJob(r) PROVE TypeOK'
    BY <2>1 DEF ReceiveApply, CheckJob, At, Goto
  <2>2. ASSUME NEW r \in Requests, CreateApplication(r) \/ AlreadyApplied(r) PROVE TypeOK'
    BY <2>2 DEF CreateApplication, AlreadyApplied, At, Goto
  <2>3. ASSUME NEW r \in Requests, CreateApplicationErr(r) PROVE TypeOK'
    <3>1. CASE UNCHANGED <<applications, faults>>
      BY <2>3, <3>1 DEF CreateApplicationErr, At, Goto
    <3>2. CASE applications' = applications \cup {Target[r]}
               /\ Fault(Target[r], "insert reply lost")
      <4>1. applications' \subseteq Applications
        BY <3>2
      <4>2. faults' \in [Applications -> SUBSET FaultKinds]
        BY <3>2, FaultRecords DEF FaultKinds
      <4> QED BY <2>3, <4>1, <4>2 DEF CreateApplicationErr, At, Goto
    <3> QED BY <2>3, <3>1, <3>2 DEF CreateApplicationErr
  <2>4. ASSUME NEW r \in Requests, GetUserEmail(r) PROVE TypeOK'
    <3>1. addressed' \subseteq Applications
      BY <2>4 DEF GetUserEmail
    <3> QED BY <2>4, <3>1 DEF GetUserEmail, At, Goto
  <2>5. ASSUME NEW r \in Requests, PublishEvent(r) PROVE TypeOK'
    <3>1. arrived' \in [Applications -> Arrivals]
      BY <2>5, MoreSaturates DEF PublishEvent, PublishArrives
    <3> QED BY <2>5, <3>1 DEF PublishEvent, PublishArrives, At, Goto
  <2>6. ASSUME NEW r \in Requests, LosePublishedEvent(r) PROVE TypeOK'
    BY <2>6, FaultRecords DEF LosePublishedEvent, PublishLostOnTheWire, At, Goto, FaultKinds
  <2>7. ASSUME NEW r \in Requests, PublishEventErr(r) PROVE TypeOK'
    BY <2>7 DEF PublishEventErr, PublishErr, At, Goto
  <2>8. ASSUME NEW r \in Requests, CreateEvent(r) PROVE TypeOK'
    <3>1. outbox' \in [Applications -> {"none", "pending", "published"}]
      BY <2>8 DEF CreateEvent
    <3> QED BY <2>8, <3>1 DEF CreateEvent, At, Goto
  <2>9. ASSUME NEW r \in Requests, CreateEventErr(r) PROVE TypeOK'
    BY <2>9, FaultRecords DEF CreateEventErr, At, Goto, FaultKinds
  <2>10. CASE ListPending
    BY <2>10 DEF ListPending
  <2>11. ASSUME NEW a \in Applications, RetryPublish(a) PROVE TypeOK'
    <3>1. arrived' \in [Applications -> Arrivals]
      BY <2>11, MoreSaturates DEF RetryPublish, PublishArrives
    <3> QED BY <2>11, <3>1 DEF RetryPublish, PublishArrives
  <2>12. ASSUME NEW a \in Applications, LoseRetriedEvent(a) PROVE TypeOK'
    BY <2>12, FaultRecords DEF LoseRetriedEvent, PublishLostOnTheWire, FaultKinds
  <2>13. ASSUME NEW a \in Applications, RetryPublishErr(a) PROVE TypeOK'
    BY <2>13 DEF RetryPublishErr, PublishErr
  <2>14. ASSUME NEW a \in Applications, MarkPublished(a) \/ MarkPublishedErr(a) PROVE TypeOK'
    BY <2>14 DEF MarkPublished, MarkPublishedErr
  <2>15. ASSUME NEW a \in Applications, MarkRetry(a) \/ BecomeDue(a) PROVE TypeOK'
    BY <2>15 DEF MarkRetry, BecomeDue
  <2>16. CASE StartApi \/ LoseLink \/ StopBroker \/ StartBroker
    BY <2>16 DEF StartApi, LoseLink, StopBroker, StartBroker
  <2>17. CASE CrashApi
    BY <2>17 DEF CrashApi, FaultKinds
  <2>18. CASE UNCHANGED vars
    BY <2>18 DEF vars
  <2> QED
    BY <2>1, <2>2, <2>3, <2>4, <2>5, <2>6, <2>7, <2>8, <2>9, <2>10, <2>11, <2>12, <2>13,
       <2>14, <2>15, <2>16, <2>17, <2>18
    DEF Next, ApplyToJob, RetryRow, Environment
<1> QED BY <1>1, <1>2, PTL DEF Spec

-----------------------------------------------------------------------------
(* The inductive invariant: requests first, then one application at a time. *)

Announced(a) == \E r \in Requests : Target[r] = a /\ Announcing(r)
Sent(a) == arrived[a] > 0 \/ "lost on the wire" \in faults[a]

Acceptance ==
  /\ OneAcceptance
  /\ \A r \in Requests : pc[r] \in Accepted => Target[r] \in applications

RowInv(a) ==
  /\ Announced(a) => arrived[a] = 0 /\ outbox[a] = "none"
  /\ retry[a] # "out" => outbox[a] = "pending"
  /\ retry[a] = "handed" => Sent(a)
  /\ outbox[a] = "pending" /\ arrived[a] > 0 /\ retry[a] # "handed" => a \in unmarked
  /\ arrived[a] = Many => a \in unmarked
  /\ arrived[a] > 0 \/ outbox[a] # "none" => a \in applications
  /\ a \in applications =>
       arrived[a] > 0 \/ outbox[a] = "pending" \/ Announced(a) \/ faults[a] # {}

IInv == TypeOK /\ Acceptance /\ \A a \in Applications : RowInv(a)

\* Only CreateApplication lets a request pass, and only for a pair nobody has.
LEMMA AcceptanceStep == TypeOK /\ Acceptance /\ [Next]_vars => Acceptance'
<1> SUFFICES ASSUME TypeOK, Acceptance, [Next]_vars PROVE Acceptance'
  OBVIOUS
<1> USE TargetAssumption DEF Acceptance, OneAcceptance, Accepted
<1>1. ASSUME applications \subseteq applications',
             \A r \in Requests : pc'[r] \in Accepted => pc[r] \in Accepted
      PROVE  Acceptance'
  BY <1>1
<1>2. ASSUME NEW r \in Requests, CreateApplication(r) PROVE Acceptance'
  <2>1. \A s \in Requests : s # r /\ pc'[s] \in Accepted => pc[s] \in Accepted
    BY <1>2 DEF CreateApplication, At, Goto, TypeOK
  <2>2. \A s \in Requests : s # r /\ pc'[s] \in Accepted => Target[s] # Target[r]
    BY <1>2, <2>1 DEF CreateApplication
  <2>3. applications \subseteq applications' /\ Target[r] \in applications'
    BY <1>2 DEF CreateApplication
  <2> QED BY <2>1, <2>2, <2>3
<1>3. ASSUME NEW r \in Requests, ApplyToJob(r), ~CreateApplication(r) PROVE Acceptance'
  <2>1. applications \subseteq applications'
    BY <1>3 DEF ApplyToJob, handlerVars, ReceiveApply, CheckJob, AlreadyApplied,
       CreateApplicationErr, GetUserEmail, PublishEvent, LosePublishedEvent,
       PublishEventErr, CreateEvent, CreateEventErr
  <2>2. \A s \in Requests : s # r => pc'[s] = pc[s]
    BY <1>3 DEF ApplyToJob, ReceiveApply, CheckJob, AlreadyApplied, CreateApplicationErr,
       GetUserEmail, PublishEvent, LosePublishedEvent, PublishEventErr, CreateEvent,
       CreateEventErr, Goto, TypeOK
  <2>3. pc'[r] \in Accepted => pc[r] \in Accepted
    BY <1>3 DEF ApplyToJob, ReceiveApply, CheckJob, AlreadyApplied, CreateApplicationErr,
       GetUserEmail, PublishEvent, LosePublishedEvent, PublishEventErr, CreateEvent,
       CreateEventErr, At, Goto, TypeOK
  <2> QED BY <1>1, <2>1, <2>2, <2>3
<1>4. CASE CrashApi
  BY <1>1, <1>4 DEF CrashApi, TypeOK, Pending
<1>5. CASE UNCHANGED <<pc, applications>>
  BY <1>1, <1>5
<1> QED
  BY <1>2, <1>3, <1>4, <1>5
  DEF Next, vars, handlerVars, ListPending, RetryRow, RetryPublish, LoseRetriedEvent,
      RetryPublishErr, MarkPublished, MarkPublishedErr, MarkRetry, BecomeDue, Environment,
      StartApi, LoseLink, StopBroker, StartBroker

\* A step that leaves an application's row, arrivals and requests alone keeps RowInv.
LEMMA RowFrame ==
  ASSUME NEW a \in Applications, RowInv(a),
         a \in applications' <=> a \in applications,
         Announced(a)' <=> Announced(a),
         outbox'[a] = outbox[a], retry'[a] = retry[a], arrived'[a] = arrived[a],
         faults[a] \subseteq faults'[a],
         a \in unmarked => a \in unmarked'
  PROVE  RowInv(a)'
BY DEF RowInv, Sent

\* A request that is as far from announcing after its step as before it, or that is
\* for another pair, does not change whether a is being announced.
LEMMA AnnouncedFrame ==
  ASSUME TypeOK, NEW a \in Applications, NEW r \in Requests, NEW point, Goto(r, point),
         Target[r] # a \/ (Announcing(r) <=> point \in Accepted \ {"201"})
  PROVE  Announced(a)' <=> Announced(a)
BY DEF TypeOK, Goto, Announced, Announcing

\* At most one request announces a; once it is answered, none does.
LEMMA LastAnnouncer ==
  ASSUME TypeOK, Acceptance, NEW r \in Requests, Announcing(r), Goto(r, "201")
  PROVE  Announced(Target[r]) /\ ~Announced(Target[r])'
<1>1. \A s \in Requests : s # r /\ Target[s] = Target[r] => ~Announcing(s)
  BY DEF Acceptance, OneAcceptance, Announcing, Accepted
<1>2. pc'[r] = "201" /\ \A s \in Requests : s # r => pc'[s] = pc[s]
  BY DEF Goto, TypeOK
<1> QED BY <1>1, <1>2 DEF Announced, Announcing

\* Initially nothing is stored, parked or sent.
LEMMA InitEstablishesIInv == Init => Acceptance /\ \A a \in Applications : RowInv(a)
BY TargetAssumption
DEF Init, Acceptance, OneAcceptance, Accepted, RowInv, Announced, Announcing, Many

\* Every step keeps what is known of each application.
LEMMA RowStep ==
  ASSUME TypeOK, Acceptance, [Next]_vars, NEW a \in Applications, RowInv(a)
  PROVE  RowInv(a)'
<1> USE TargetAssumption DEF handlerVars, outboxVars, linkVars, historyVars
<1>1. ASSUME NEW r \in Requests, ApplyToJob(r), Target[r] # a PROVE RowInv(a)'
  <2>1. Announced(a)' <=> Announced(a)
    BY <1>1, AnnouncedFrame DEF ApplyToJob, ReceiveApply, CheckJob, CreateApplication,
       AlreadyApplied, CreateApplicationErr, GetUserEmail, PublishEvent,
       LosePublishedEvent, PublishEventErr, CreateEvent, CreateEventErr
  <2>2. a \in applications' <=> a \in applications
    BY <1>1 DEF ApplyToJob, ReceiveApply, CheckJob, CreateApplication, AlreadyApplied,
       CreateApplicationErr, GetUserEmail, PublishEvent, LosePublishedEvent,
       PublishEventErr, CreateEvent, CreateEventErr
  <2>3. outbox'[a] = outbox[a] /\ retry' = retry /\ unmarked' = unmarked
    BY <1>1 DEF ApplyToJob, ReceiveApply, CheckJob, CreateApplication, AlreadyApplied,
       CreateApplicationErr, GetUserEmail, PublishEvent, LosePublishedEvent,
       PublishEventErr, CreateEvent, CreateEventErr, TypeOK
  <2>4. arrived'[a] = arrived[a] /\ faults'[a] = faults[a]
    BY <1>1 DEF ApplyToJob, ReceiveApply, CheckJob, CreateApplication, AlreadyApplied,
       CreateApplicationErr, GetUserEmail, PublishEvent, LosePublishedEvent,
       PublishEventErr, CreateEvent, CreateEventErr, PublishArrives,
       PublishLostOnTheWire, PublishErr, Fault, TypeOK
  <2> QED BY <2>1, <2>2, <2>3, <2>4, RowFrame
<1>2. ASSUME NEW r \in Requests, Target[r] = a,
             \/ ReceiveApply(r) \/ CheckJob(r) \/ AlreadyApplied(r)
             \/ GetUserEmail(r) \/ PublishEventErr(r)
      PROVE  RowInv(a)'
  <2>1. Announced(a)' <=> Announced(a)
    BY <1>2, AnnouncedFrame
    DEF ReceiveApply, CheckJob, AlreadyApplied, GetUserEmail, PublishEventErr, At,
        Announcing, Accepted
  <2>2. UNCHANGED <<applications, outbox, retry, arrived, faults, unmarked>>
    BY <1>2
    DEF ReceiveApply, CheckJob, AlreadyApplied, GetUserEmail, PublishEventErr, PublishErr
  <2> QED BY <2>1, <2>2, RowFrame
<1>3. ASSUME NEW r \in Requests, Target[r] = a, CreateApplication(r) PROVE RowInv(a)'
  <2>1. ~Announced(a) /\ arrived[a] = 0 /\ outbox[a] = "none" /\ retry[a] = "out"
    BY <1>3 DEF CreateApplication, RowInv, Acceptance, Announced, Announcing, TypeOK,
       Arrivals, Many
  <2>2. Announced(a)'
    BY <1>3 DEF CreateApplication, Goto, Announced, Announcing, Accepted, TypeOK
  <2>3. a \in applications'
    BY <1>3 DEF CreateApplication
  <2>4. UNCHANGED <<outbox, retry, arrived>>
    BY <1>3 DEF CreateApplication
  <2> QED BY <2>1, <2>2, <2>3, <2>4 DEF RowInv, Many
<1>4. ASSUME NEW r \in Requests, Target[r] = a, CreateApplicationErr(r) PROVE RowInv(a)'
  <2>1. Announced(a)' <=> Announced(a)
    BY <1>4, AnnouncedFrame DEF CreateApplicationErr, At, Announcing, Accepted
  <2>2. UNCHANGED <<outbox, retry, arrived, unmarked>>
    BY <1>4 DEF CreateApplicationErr
  <2>3. CASE UNCHANGED <<applications, faults>>
    BY <2>1, <2>2, <2>3, RowFrame
  <2>4. CASE a \in applications' /\ Fault(a, "insert reply lost")
    <3>1. faults[a] \subseteq faults'[a] /\ faults'[a] # {}
      BY <2>4, FaultRecords DEF TypeOK, FaultKinds
    <3> QED BY <2>1, <2>2, <2>4, <3>1 DEF RowInv, Sent
  <2> QED BY <1>4, <2>3, <2>4 DEF CreateApplicationErr
<1>5. ASSUME NEW r \in Requests, Target[r] = a, At(r, "Publish") \/ At(r, "CreateEvent"),
             Goto(r, "201")
      PROVE  /\ ~Announced(a)' /\ arrived[a] = 0 /\ outbox[a] = "none"
             /\ retry[a] = "out" /\ a \in applications
  <2>1. Announcing(r)
    BY <1>5 DEF At, Announcing, Accepted
  <2>2. Announced(a) /\ ~Announced(a)'
    BY <1>5, <2>1, LastAnnouncer
  <2> QED BY <1>5, <2>1, <2>2 DEF RowInv, Acceptance, Announcing
<1>6. ASSUME NEW r \in Requests, Target[r] = a, PublishEvent(r) PROVE RowInv(a)'
  <2>1. arrived'[a] = 1
    BY <1>5, <1>6 DEF PublishEvent, PublishArrives, More, Many, TypeOK
  <2>2. UNCHANGED <<applications, outbox, retry>>
    BY <1>6 DEF PublishEvent
  <2> QED BY <1>5, <1>6, <2>1, <2>2 DEF PublishEvent, RowInv, Many
<1>7. ASSUME NEW r \in Requests, Target[r] = a, LosePublishedEvent(r) PROVE RowInv(a)'
  <2>1. faults'[a] # {}
    BY <1>7, FaultRecords DEF LosePublishedEvent, PublishLostOnTheWire, TypeOK, FaultKinds
  <2>2. UNCHANGED <<applications, outbox, retry, arrived>>
    BY <1>7 DEF LosePublishedEvent, PublishLostOnTheWire
  <2> QED BY <1>5, <1>7, <2>1, <2>2 DEF LosePublishedEvent, RowInv, Many
<1>8. ASSUME NEW r \in Requests, Target[r] = a, CreateEvent(r) PROVE RowInv(a)'
  <2>1. outbox'[a] = "pending"
    BY <1>8 DEF CreateEvent, TypeOK
  <2>2. UNCHANGED <<applications, retry, arrived>>
    BY <1>8 DEF CreateEvent
  <2> QED BY <1>5, <1>8, <2>1, <2>2 DEF CreateEvent, RowInv, Many
<1>9. ASSUME NEW r \in Requests, Target[r] = a, CreateEventErr(r) PROVE RowInv(a)'
  <2>1. faults'[a] # {}
    BY <1>9, FaultRecords DEF CreateEventErr, TypeOK, FaultKinds
  <2>2. UNCHANGED <<applications, outbox, retry, arrived>>
    BY <1>9 DEF CreateEventErr
  <2> QED BY <1>5, <1>9, <2>1, <2>2 DEF CreateEventErr, RowInv, Many
<1>10. CASE ListPending
  <2>1. retry'[a] # "out" => outbox[a] = "pending"
    BY <1>10 DEF ListPending, DueRows
  <2>2. retry[a] = "out" /\ retry'[a] # "handed"
    BY <1>10 DEF ListPending
  <2>3. UNCHANGED <<pc, applications, outbox, arrived, faults, unmarked>>
    BY <1>10 DEF ListPending
  <2> QED BY <2>1, <2>2, <2>3 DEF RowInv, Announced, Announcing
<1>11. ASSUME NEW b \in Applications, RetryRow(b), b # a PROVE RowInv(a)'
  <2>1. UNCHANGED <<pc, applications>>
    BY <1>11 DEF RetryRow, RetryPublish, LoseRetriedEvent, RetryPublishErr, MarkPublished,
       MarkPublishedErr, MarkRetry
  <2>2. /\ outbox'[a] = outbox[a] /\ retry'[a] = retry[a]
        /\ arrived'[a] = arrived[a] /\ faults'[a] = faults[a]
        /\ a \in unmarked => a \in unmarked'
    BY <1>11 DEF RetryRow, RetryPublish, LoseRetriedEvent, RetryPublishErr, MarkPublished,
       MarkPublishedErr, MarkRetry, PublishArrives, PublishLostOnTheWire, PublishErr,
       Fault, TypeOK
  <2> QED BY <2>1, <2>2, RowFrame DEF Announced, Announcing
<1>12. CASE RetryPublish(a)
  <2>1. /\ arrived[a] \in Arrivals
        /\ arrived'[a] = More(arrived[a]) /\ retry'[a] = "handed"
    BY <1>12 DEF RetryPublish, PublishArrives, TypeOK
  <2>2. outbox[a] = "pending" /\ retry[a] = "listed"
    BY <1>12 DEF RetryPublish, TakeRow, RowInv
  <2>3. UNCHANGED <<pc, applications, outbox, unmarked>>
    BY <1>12 DEF RetryPublish
  <2> QED BY <2>1, <2>2, <2>3, MoreSaturates DEF RowInv, Sent, Announced, Announcing
<1>13. CASE LoseRetriedEvent(a)
  <2>1. "lost on the wire" \in faults'[a] /\ retry'[a] = "handed"
    BY <1>13, FaultRecords DEF LoseRetriedEvent, PublishLostOnTheWire, TypeOK, FaultKinds
  <2>2. outbox[a] = "pending"
    BY <1>13 DEF LoseRetriedEvent, TakeRow, RowInv
  <2>3. UNCHANGED <<pc, applications, outbox, arrived, unmarked>>
    BY <1>13 DEF LoseRetriedEvent, PublishLostOnTheWire
  <2> QED BY <2>1, <2>2, <2>3 DEF RowInv, Sent, Announced, Announcing
<1>14. CASE RetryPublishErr(a) \/ MarkRetry(a)
  <2>1. retry[a] \in {"listed", "failed"} /\ retry'[a] \in {"failed", "out"}
    BY <1>14 DEF RetryPublishErr, TakeRow, MarkRetry, TypeOK
  <2>2. UNCHANGED <<pc, applications, outbox, arrived, faults, unmarked>>
    BY <1>14 DEF RetryPublishErr, PublishErr, MarkRetry
  <2> QED BY <2>1, <2>2 DEF RowInv, Announced, Announcing
<1>15. CASE MarkPublished(a)
  <2>1. retry[a] = "handed" /\ retry'[a] = "out" /\ outbox'[a] = "published"
    BY <1>15 DEF MarkPublished, TypeOK
  <2>2. UNCHANGED <<pc, applications, arrived, faults, unmarked>>
    BY <1>15 DEF MarkPublished
  <2> QED BY <2>1, <2>2 DEF RowInv, Sent, Announced, Announcing
<1>16. CASE MarkPublishedErr(a)
  <2>1. retry[a] = "handed" /\ retry'[a] = "out" /\ a \in unmarked'
    BY <1>16 DEF MarkPublishedErr, TypeOK
  <2>2. UNCHANGED <<pc, applications, outbox, arrived, faults>>
    BY <1>16 DEF MarkPublishedErr
  <2> QED BY <2>1, <2>2 DEF RowInv, Sent, Announced, Announcing
<1>17. CASE CrashApi
  <2>1. ~Announced(a)'
    BY <1>17 DEF CrashApi, Announced, Announcing, Accepted, Pending, TypeOK
  <2>2. /\ retry'[a] = "out"
        /\ a \in unmarked \/ retry[a] = "handed" => a \in unmarked'
        /\ Announced(a) \/ faults[a] # {} => faults'[a] # {}
    BY <1>17 DEF CrashApi, Announced, TypeOK
  <2>3. UNCHANGED <<applications, outbox, arrived>>
    BY <1>17 DEF CrashApi
  <2> QED BY <2>1, <2>2, <2>3 DEF RowInv
<1>18. CASE UNCHANGED <<pc, applications, outbox, retry, arrived, faults, unmarked>>
  BY <1>18, RowFrame DEF Announced, Announcing
<1> QED
  <2>1. CASE \E r \in Requests : ApplyToJob(r)
    BY <2>1, <1>1, <1>2, <1>3, <1>4, <1>6, <1>7, <1>8, <1>9 DEF ApplyToJob
  <2>2. CASE \E b \in Applications : RetryRow(b)
    BY <2>2, <1>11, <1>12, <1>13, <1>14, <1>15, <1>16 DEF RetryRow
  <2>3. CASE \/ \E b \in Applications : BecomeDue(b)
             \/ StartApi \/ LoseLink \/ StopBroker \/ StartBroker \/ UNCHANGED vars
    BY <2>3, <1>18 DEF BecomeDue, StartApi, LoseLink, StopBroker, StartBroker, vars
  <2> QED BY <1>10, <1>17, <2>1, <2>2, <2>3 DEF Next, Environment

\* The inductive invariant holds of every behaviour.
THEOREM Invariance == Spec => []IInv
<1>1. Init /\ TypeOK => IInv
  BY InitEstablishesIInv DEF IInv
<1>2. IInv /\ TypeOK' /\ [Next]_vars => IInv'
  BY AcceptanceStep, RowStep DEF IInv
<1> QED BY <1>1, <1>2, TypeCorrect, PTL DEF Spec

-----------------------------------------------------------------------------
(* What follows from it *)

\* An event that is nowhere was struck by one of the four named failures.
THEOREM NothingForgotten == Spec => []EventAccountedFor
<1>1. IInv => EventAccountedFor
  BY DEF IInv, TypeOK, RowInv, Announced, EventAccountedFor
<1> QED BY <1>1, Invariance, PTL

\* A second event of one application is the doing of a lost MarkPublished.
THEOREM DuplicatesExplained == Spec => []OnceUnlessUnmarked
<1>1. IInv => OnceUnlessUnmarked
  BY DEF IInv, RowInv, OnceUnlessUnmarked
<1> QED BY <1>1, Invariance, PTL

\* The database comes first: an event always speaks of a stored application.
THEOREM DatabaseFirst == Spec => []NoPhantomEvent
<1>1. IInv => NoPhantomEvent
  BY DEF IInv, RowInv, NoPhantomEvent
<1> QED BY <1>1, Invariance, PTL

\* Of the requests for one pair, at most one is accepted.
THEOREM AcceptedOnce == Spec => []OneAcceptance
<1>1. IInv => OneAcceptance
  BY DEF IInv, Acceptance
<1> QED BY <1>1, Invariance, PTL

\* No step of anyone sends the event of a published row again.
THEOREM PublishedIsFinal == Spec => PublishedRowsRest
<1>1. ASSUME IInv, [Next]_vars, NEW a \in Applications, outbox[a] = "published"
      PROVE  arrived'[a] = arrived[a]
  <2>1. ~Announced(a) /\ retry[a] = "out"
    BY <1>1 DEF IInv, RowInv
  <2>2. CASE \E r \in Requests : PublishEvent(r)
    <3>1. PICK r \in Requests : PublishEvent(r)
      BY <2>2
    <3>2. Target[r] # a
      BY <2>1, <3>1 DEF PublishEvent, At, Announced, Announcing, Accepted
    <3> QED BY <1>1, <3>1, <3>2, TargetAssumption
            DEF PublishEvent, PublishArrives, IInv, TypeOK
  <2>3. CASE \E b \in Applications : RetryPublish(b)
    <3>1. PICK b \in Applications : RetryPublish(b)
      BY <2>3
    <3>2. b # a
      BY <2>1, <3>1 DEF RetryPublish, TakeRow
    <3> QED BY <1>1, <3>1, <3>2 DEF RetryPublish, PublishArrives, IInv, TypeOK
  <2>4. CASE UNCHANGED arrived
    BY <2>4
  <2> QED
    BY <1>1, <2>2, <2>3, <2>4
    DEF Next, ApplyToJob, RetryRow, Environment, vars, handlerVars, outboxVars, linkVars,
        historyVars, ReceiveApply, CheckJob, CreateApplication, AlreadyApplied,
        CreateApplicationErr, GetUserEmail, LosePublishedEvent, PublishEventErr,
        CreateEvent, CreateEventErr, ListPending, LoseRetriedEvent, RetryPublishErr,
        PublishLostOnTheWire, PublishErr, MarkPublished, MarkPublishedErr, MarkRetry,
        BecomeDue, StartApi, CrashApi, LoseLink, StopBroker, StartBroker
<1>2. IInv /\ [Next]_vars =>
        [\A a \in Applications : outbox[a] = "published" => arrived'[a] = arrived[a]]_vars
  BY <1>1
<1> QED BY <1>2, Invariance, PTL DEF Spec, PublishedRowsRest
-----------------------------------------------------------------------------
(* One step, seen from outside the API *)

\* The API still has to hand over a's event.
InApi(a) == Announced(a) \/ outbox[a] = "pending"

\* What an application has been through it keeps, and the API takes its event on
\* with the INSERT or never.
LEMMA ApplicationStep ==
  ASSUME IInv, [Next]_vars, NEW a \in Applications
  PROVE  /\ a \in applications => a \in applications'
         /\ faults[a] # {} => faults'[a] # {}
         /\ a \in unmarked => a \in unmarked'
         /\ a \in applications /\ InApi(a)' => InApi(a)
<1> USE TargetAssumption DEF handlerVars, outboxVars, linkVars, historyVars
<1>1. TypeOK /\ Acceptance /\ RowInv(a)
  BY DEF IInv
<1>2. CASE UNCHANGED <<pc, applications, outbox, faults, unmarked>>
  BY <1>2 DEF InApi, Announced, Announcing
<1>3. ASSUME NEW r \in Requests, NEW kind \in FaultKinds, Fault(Target[r], kind)
      PROVE  faults[a] # {} => faults'[a] # {}
  BY <1>1, <1>3, FaultRecords DEF TypeOK
<1>4. ASSUME NEW r \in Requests, NEW point, Goto(r, point),
             Announcing(r) \/ point \notin Accepted \ {"201"}
      PROVE  Announced(a)' => Announced(a)
  BY <1>1, <1>4 DEF TypeOK, Goto, Announced, Announcing
<1>5. ASSUME NEW r \in Requests,
             \/ ReceiveApply(r) \/ CheckJob(r) \/ AlreadyApplied(r)
             \/ GetUserEmail(r) \/ PublishEvent(r) \/ PublishEventErr(r)
      PROVE  /\ UNCHANGED <<applications, outbox, faults, unmarked>>
             /\ Announced(a)' => Announced(a)
  <2>1. UNCHANGED <<applications, outbox, faults, unmarked>>
    BY <1>5 DEF ReceiveApply, CheckJob, AlreadyApplied, GetUserEmail, PublishEvent,
       PublishEventErr, PublishArrives, PublishErr
  <2>2. Announced(a)' => Announced(a)
    BY <1>4, <1>5 DEF ReceiveApply, CheckJob, AlreadyApplied, GetUserEmail, PublishEvent,
       PublishEventErr, At, Announcing, Accepted
  <2> QED BY <2>1, <2>2
<1>6. ASSUME NEW r \in Requests, CreateApplication(r)
      PROVE  /\ applications \subseteq applications' /\ UNCHANGED <<outbox, faults, unmarked>>
             /\ a \in applications /\ Announced(a)' => Announced(a)
  BY <1>1, <1>6 DEF CreateApplication, Goto, Announced, Announcing, TypeOK
<1>7. ASSUME NEW r \in Requests, CreateApplicationErr(r)
      PROVE  /\ applications \subseteq applications' /\ UNCHANGED <<outbox, unmarked>>
             /\ faults[a] # {} => faults'[a] # {}
             /\ Announced(a)' => Announced(a)
  <2>1. applications \subseteq applications' /\ UNCHANGED <<outbox, unmarked>>
    BY <1>7 DEF CreateApplicationErr
  <2>2. faults[a] # {} => faults'[a] # {}
    BY <1>3, <1>7 DEF CreateApplicationErr, FaultKinds
  <2>3. Announced(a)' => Announced(a)
    BY <1>4, <1>7 DEF CreateApplicationErr, Accepted
  <2> QED BY <2>1, <2>2, <2>3
<1>8. ASSUME NEW r \in Requests, LosePublishedEvent(r) \/ CreateEvent(r) \/ CreateEventErr(r)
      PROVE  /\ UNCHANGED <<applications, unmarked>>
             /\ faults[a] # {} => faults'[a] # {}
             /\ InApi(a)' => InApi(a)
  <2>1. UNCHANGED <<applications, unmarked>>
    BY <1>8 DEF LosePublishedEvent, CreateEvent, CreateEventErr
  <2>2. faults[a] # {} => faults'[a] # {}
    BY <1>3, <1>8 DEF LosePublishedEvent, CreateEvent, CreateEventErr, PublishLostOnTheWire,
       FaultKinds
  <2>3. Announced(a)' => Announced(a)
    BY <1>4, <1>8 DEF LosePublishedEvent, CreateEvent, CreateEventErr, Accepted
  <2>4. outbox'[a] = "pending" => outbox[a] = "pending" \/ Announced(a)
    BY <1>1, <1>8 DEF LosePublishedEvent, CreateEvent, CreateEventErr, At, Announced, Announcing,
       Accepted, TypeOK
  <2> QED BY <2>1, <2>2, <2>3, <2>4 DEF InApi
<1>9. ASSUME NEW b \in Applications, RetryRow(b)
      PROVE  /\ UNCHANGED <<pc, applications>>
             /\ a \in unmarked => a \in unmarked'
             /\ faults[a] # {} => faults'[a] # {}
             /\ outbox'[a] = "pending" => outbox[a] = "pending"
  <2>1. faults[a] # {} => faults'[a] # {}
    BY <1>1, <1>9, FaultRecords
    DEF RetryRow, RetryPublish, LoseRetriedEvent, RetryPublishErr, MarkPublished,
        MarkPublishedErr, MarkRetry, PublishArrives, PublishLostOnTheWire, PublishErr,
        FaultKinds, TypeOK
  <2>2. outbox'[a] = "pending" => outbox[a] = "pending"
    BY <1>1, <1>9
    DEF RetryRow, RetryPublish, LoseRetriedEvent, RetryPublishErr, MarkPublished,
        MarkPublishedErr, MarkRetry, TypeOK
  <2>3. UNCHANGED <<pc, applications>> /\ (a \in unmarked => a \in unmarked')
    BY <1>9
    DEF RetryRow, RetryPublish, LoseRetriedEvent, RetryPublishErr, MarkPublished,
        MarkPublishedErr, MarkRetry
  <2> QED BY <2>1, <2>2, <2>3
<1>10. CASE CrashApi
  <2>1. ~Announced(a)'
    BY <1>1, <1>10 DEF CrashApi, Announced, Announcing, Accepted, Pending, TypeOK
  <2> QED BY <1>10, <2>1 DEF CrashApi, InApi
<1>11. CASE \/ ListPending \/ (\E b \in Applications : BecomeDue(b))
            \/ StartApi \/ LoseLink \/ StopBroker \/ StartBroker \/ UNCHANGED vars
  BY <1>2, <1>11 DEF ListPending, BecomeDue, StartApi, LoseLink, StopBroker, StartBroker, vars
<1> QED
  <2>1. CASE \E r \in Requests : ApplyToJob(r)
    BY <2>1, <1>5, <1>6, <1>7, <1>8 DEF ApplyToJob, InApi
  <2>2. CASE \E b \in Applications : RetryRow(b)
    BY <2>2, <1>9 DEF InApi, Announced, Announcing
  <2> QED BY <1>10, <1>11, <2>1, <2>2 DEF Next, Environment
=============================================================================
