-------------------- MODULE NotificationPipeline_proofs --------------------
(***************************************************************************)
(* NotificationPipeline implements NotificationDelivery, for any requests, *)
(* applications, workers and bounds.  The composition is a behaviour of    *)
(* each part (Parts), so the parts' invariants hold of it; what relates    *)
(* the two sides is Arrival, the broker's acceptances as both count them.  *)
(***************************************************************************)
EXTENDS NotificationPipeline, TLAPS

-----------------------------------------------------------------------------
(* The parts *)

\* The body published for an application is one of its own, and of no other.
LEMMA BodyFits ==
  ASSUME NEW a \in Applications
  PROVE  /\ Body(a) \in Bodies /\ Body(a) \in BodiesOf(a)
         /\ \A c \in Applications : c # a => Body(c) \notin BodiesOf(a)
BY DEF Body, Bodies, BodiesOf

\* What a step of the composition does, each part may do on its own, or stutters.
LEMMA PartSteps ==
  ASSUME [Next]_vars
  PROVE  [Outbox!Next]_(Outbox!vars) /\ [Worker!Next]_(Worker!vars)
<1>1. [Outbox!Next]_(Outbox!vars)
  BY DEF Next, vars, apiVars, workerVars, PublishEvent, RetryPublish, HandlerStep, RetryStep,
     ListPending, ApiProcess, StopBroker, StartWorker, Deliver, Take, HandleDelivery, EndWorker,
     Outbox!vars, Outbox!handlerVars, Outbox!outboxVars, Outbox!linkVars, Outbox!historyVars,
     Outbox!Next, Outbox!ApplyToJob, Outbox!RetryRow, Outbox!Environment
<1>2. ASSUME NEW r \in Requests, PublishEvent(r) PROVE Worker!Next
  BY <1>2, ApiAssumption, BodyFits DEF PublishEvent, Worker!Next
<1>3. ASSUME NEW a \in Applications, RetryPublish(a) PROVE Worker!Next
  BY <1>3, BodyFits DEF RetryPublish, Worker!Next
<1>4. ASSUME NEW w \in Workers,
             StartWorker(w) \/ Deliver(w) \/ Take(w) \/ HandleDelivery(w) \/ EndWorker(w)
      PROVE  Worker!Next
  BY <1>4 DEF StartWorker, Deliver, Take, HandleDelivery, EndWorker, Worker!Next, Worker!Worker
<1>5. ASSUME UNCHANGED workerVars PROVE UNCHANGED Worker!vars
  BY <1>5 DEF workerVars, Worker!vars, Worker!brokerVars, Worker!workerVars, Worker!historyVars
<1>6. [Worker!Next]_(Worker!vars)
  BY <1>2, <1>3, <1>4, <1>5 DEF Next, vars, HandlerStep, RetryStep, ListPending, ApiProcess,
     StopBroker
<1> QED BY <1>1, <1>6

\* The composition is a behaviour of either part, so what is proved of one holds of it.
THEOREM Parts == Spec => Outbox!Spec /\ Worker!Spec
<1>1. Init => Outbox!Init /\ Worker!Init
  BY DEF Init
<1>2. [Next]_vars => [Outbox!Next]_(Outbox!vars) /\ [Worker!Next]_(Worker!vars)
  BY PartSteps
<1> QED BY <1>1, <1>2, PTL DEF Spec, Outbox!Spec, Worker!Spec

\* What the two parts assume of their constants.
LEMMA PartsAssume ==
  /\ Target \in [Requests -> Applications]
  /\ BatchLimit \in Nat \ {0}
  /\ {} \subseteq Bodies /\ {b \in Bodies : b.addressed} \subseteq Bodies \ {}
  /\ Worker!IsFiniteSet(Workers)
  /\ MaxRetries \in Nat
  /\ MaxPublishes \in Nat /\ MaxFaults \in Nat
  /\ NoMessage \notin Worker!Messages
BY ApiAssumption, WorkersAssumption, BoundsAssumption, NoMessageAssumption
DEF Worker!Messages, IsFiniteSet, Worker!IsFiniteSet

\* What has been proved of them.
Known ==
  /\ Outbox!IInv
  /\ Worker!TypeOK /\ Worker!NoMessageVanishes /\ Worker!Provenance
  /\ Worker!CopiesConserved

\* The parts' invariants, of the composition.
LEMMA PartsKnown == Spec => []Known
<1>1. Outbox!Spec => []Outbox!IInv
  BY PartsAssume, Outbox!Invariance
<1>2. Worker!Spec => []Worker!TypeOK
  BY PartsAssume, Worker!TypeCorrect
<1>3. Worker!Spec => []Worker!NoMessageVanishes
  BY PartsAssume, Worker!NothingVanishes
<1>4. Worker!Spec => []Worker!Provenance
  BY PartsAssume, Worker!CopiesArePublished
<1>5. Worker!Spec => []Worker!CopiesConserved
  BY PartsAssume, Worker!CopiesAreConserved
<1> QED BY <1>1, <1>2, <1>3, <1>4, <1>5, Parts, PTL DEF Known

-----------------------------------------------------------------------------
(* What both sides count: the publishes the broker accepted *)

\* The API counts up to two; no acceptance here is none there, one is one.
Arrival(a) ==
  /\ arrived[a] = 0 => \A b \in BodiesOf(a) : accepted[b] = 0
  /\ arrived[a] > 0 => \E b \in BodiesOf(a) : accepted[b] > 0
  /\ arrived[a] < 2 =>
       \A b, c \in BodiesOf(a) :
         accepted[b] <= 1 /\ (accepted[b] > 0 /\ accepted[c] > 0 => b = c)

\* The types of the counters.
LEMMA Counters ==
  ASSUME Known
  PROVE  /\ arrived \in [Applications -> 0..2] /\ accepted \in [Bodies -> Nat]
         /\ mailed \in [Bodies -> Nat] /\ ambiguous \in [Bodies -> Nat]
BY DEF Known, Outbox!IInv, Outbox!TypeOK, Outbox!Arrivals, Outbox!Many, Worker!TypeOK

\* A step of the pipeline is a publish, counted on both sides, of an event the API
\* still had to hand over, or leaves both counts.
LEMMA PublishOrNot ==
  ASSUME [Next]_vars
  PROVE  \/ \E a \in Applications :
              /\ Outbox!PublishArrives(a) /\ Worker!Publish(Body(a))
              /\ Announced(a) \/ Outbox!TakeRow(a)
         \/ UNCHANGED <<arrived, accepted>>
<1>1. ASSUME NEW r \in Requests, PublishEvent(r)
      PROVE  /\ Outbox!PublishArrives(Target[r]) /\ Worker!Publish(Body(Target[r]))
             /\ Target[r] \in Applications /\ Announced(Target[r])
  BY <1>1, ApiAssumption
  DEF PublishEvent, Outbox!PublishEvent, Outbox!At, Announced, Outbox!Announcing, Outbox!Accepted
<1>2. ASSUME NEW a \in Applications, RetryPublish(a)
      PROVE  Outbox!PublishArrives(a) /\ Worker!Publish(Body(a)) /\ Outbox!TakeRow(a)
  BY <1>2 DEF RetryPublish, Outbox!RetryPublish
<1>3. ASSUME NEW r \in Requests, HandlerStep(r) PROVE UNCHANGED <<arrived, accepted>>
  BY <1>3
  DEF HandlerStep, workerVars, Outbox!ReceiveApply, Outbox!CheckJob, Outbox!CreateApplication,
      Outbox!AlreadyApplied, Outbox!CreateApplicationErr, Outbox!GetUserEmail,
      Outbox!LosePublishedEvent, Outbox!PublishEventErr, Outbox!CreateEvent,
      Outbox!CreateEventErr, Outbox!PublishLostOnTheWire, Outbox!PublishErr, Outbox!historyVars
<1>4. ASSUME NEW a \in Applications, RetryStep(a) PROVE UNCHANGED <<arrived, accepted>>
  BY <1>4
  DEF RetryStep, workerVars, Outbox!LoseRetriedEvent, Outbox!RetryPublishErr,
      Outbox!MarkPublished, Outbox!MarkPublishedErr, Outbox!MarkRetry, Outbox!BecomeDue,
      Outbox!PublishLostOnTheWire, Outbox!PublishErr, Outbox!historyVars
<1>5. CASE ListPending \/ ApiProcess \/ StopBroker
  BY <1>5
  DEF ListPending, ApiProcess, StopBroker, workerVars, Outbox!ListPending, Outbox!StartApi,
      Outbox!CrashApi, Outbox!LoseLink, Outbox!StopBroker, Outbox!StartBroker, Outbox!historyVars
<1>6. ASSUME NEW w \in Workers, StartWorker(w) \/ Deliver(w) \/ Take(w) \/ EndWorker(w)
      PROVE  UNCHANGED <<arrived, accepted>>
  BY <1>6
  DEF StartWorker, Deliver, Take, EndWorker, apiVars, Worker!Start, Worker!Deliver, Worker!Take,
      Worker!Quit, Worker!Kill, Worker!LoseChannel, Worker!Exit, Worker!historyVars
<1>7. ASSUME NEW w \in Workers, HandleDelivery(w) PROVE UNCHANGED <<arrived, accepted>>
  BY <1>7
  DEF HandleDelivery, apiVars, Worker!HandleDelivery, Worker!SendOk, Worker!SendErr,
      Worker!Republish, Worker!RepublishErr, Worker!Ack, Worker!historyVars
<1>8. CASE UNCHANGED vars
  BY <1>8 DEF vars, apiVars, workerVars
<1> QED BY <1>1, <1>2, <1>3, <1>4, <1>5, <1>6, <1>7, <1>8 DEF Next

\* Both counts move together.
LEMMA ArrivalStep ==
  ASSUME Known, [Next]_vars, NEW a \in Applications, Arrival(a)
  PROVE  Arrival(a)'
<1>1. /\ arrived \in [Applications -> 0..2] /\ accepted \in [Bodies -> Nat]
      /\ \A b \in BodiesOf(a) : b \in Bodies
  BY Counters DEF BodiesOf
<1>2. CASE UNCHANGED <<arrived, accepted>>
  BY <1>2 DEF Arrival, BodiesOf
<1>3. ASSUME NEW c \in Applications, Outbox!PublishArrives(c), Worker!Publish(Body(c)), c # a
      PROVE  Arrival(a)'
  <2>1. arrived'[a] = arrived[a]
    BY <1>1, <1>3 DEF Outbox!PublishArrives
  <2>2. \A b \in BodiesOf(a) : accepted'[b] = accepted[b]
    BY <1>1, <1>3, BodyFits DEF Worker!Publish, Worker!Count
  <2> QED BY <2>1, <2>2 DEF Arrival, BodiesOf
<1>4. ASSUME Outbox!PublishArrives(a), Worker!Publish(Body(a)) PROVE Arrival(a)'
  <2>1. arrived'[a] = IF arrived[a] < 2 THEN arrived[a] + 1 ELSE arrived[a]
    BY <1>1, <1>4 DEF Outbox!PublishArrives, Outbox!More, Outbox!Many
  <2>2. /\ accepted'[Body(a)] = accepted[Body(a)] + 1
        /\ \A b \in BodiesOf(a) : b # Body(a) => accepted'[b] = accepted[b]
    BY <1>1, <1>4, BodyFits DEF Worker!Publish, Worker!Count
  <2>3. CASE arrived[a] = 0
    <3>1. arrived'[a] = 1 /\ \A b \in BodiesOf(a) : accepted[b] = 0
      BY <2>1, <2>3 DEF Arrival
    <3>2. accepted'[Body(a)] = 1 /\ \A b \in BodiesOf(a) : b # Body(a) => accepted'[b] = 0
      BY <2>2, <3>1, BodyFits
    <3> QED BY <1>1, <3>1, <3>2, BodyFits DEF Arrival, BodiesOf
  <2>4. CASE arrived[a] # 0
    <3>1. arrived'[a] = 2
      BY <1>1, <2>1, <2>4
    <3>2. accepted'[Body(a)] > 0
      BY <1>1, <2>2, BodyFits
    <3> QED BY <3>1, <3>2, BodyFits DEF Arrival, BodiesOf
  <2> QED BY <2>3, <2>4
<1> QED BY <1>2, <1>3, <1>4, PublishOrNot

\* The inductive invariant of the composition.
Joined == Known /\ \A a \in Applications : Arrival(a)

\* The inductive invariant holds of every behaviour.
LEMMA Joins == Spec => []Joined
<1>1. Init => \A a \in Applications : Arrival(a)
  BY DEF Init, Outbox!Init, Worker!Init, Arrival, BodiesOf
<1>2. Known /\ (\A a \in Applications : Arrival(a)) /\ [Next]_vars
        => (\A a \in Applications : Arrival(a))'
  BY ArrivalStep
<1> QED BY <1>1, <1>2, PartsKnown, PTL DEF Spec, Joined

-----------------------------------------------------------------------------
(* The abstract state *)

\* What the four places an application's e-mail can be in have to do with one
\* another: mailed or dead it was stored; stored it is somewhere, unless struck;
\* mailed twice it was struck.
Fate(a) ==
  /\ Mailed(a) \/ Dead(a) => a \in applications
  /\ a \in applications => Mailed(a) \/ Live(a) \/ Dead(a) \/ a \in struck
  /\ a \in again => Mailed(a) /\ a \in struck

\* What CopiesConserved adds up are naturals, positive only where there is a copy; a
\* dead letter was published.
LEMMA TotalsNat ==
  ASSUME Known, NEW b \in Bodies
  PROVE  /\ Worker!Total(ready, b) \in Nat /\ Worker!Total(dead, b) \in Nat
         /\ Worker!Total(redelivered, b) \in Nat /\ Worker!Unsettled(b) \in Nat
         /\ Worker!Total(redelivered, b) > 0 =>
              \E m \in Worker!OfBody(b) : redelivered[m] > 0
         /\ Worker!Total(dead, b) > 0 => accepted[b] > 0
<1>1. ready \in Worker!Bag /\ dead \in Worker!Bag /\ redelivered \in Worker!Bag
      /\ Worker!TypeOK
  BY DEF Known, Worker!TypeOK
<1>2. \A bag \in Worker!Bag : Worker!Total(bag, b) \in Nat
  BY PartsAssume, Worker!TotalNat
<1>3. Worker!Unsettled(b) \in Nat
  BY <1>1, PartsAssume, Worker!UnsettledIsCarried
<1>4. /\ Worker!Total(dead, b) > 0 => \E m \in Worker!OfBody(b) : dead[m] > 0
      /\ Worker!Total(redelivered, b) > 0 => \E m \in Worker!OfBody(b) : redelivered[m] > 0
  BY <1>1, PartsAssume, Worker!TotalNat
<1>5. (\E m \in Worker!OfBody(b) : dead[m] > 0) => accepted[b] > 0
  BY DEF Known, Worker!Provenance, Worker!Published
<1> QED BY <1>1, <1>2, <1>3, <1>4, <1>5

\* Fate follows from the invariants of the two sides and Arrival.
LEMMA FateHolds ==
  ASSUME Joined, NEW a \in Applications
  PROVE  Fate(a)
<1>1. /\ arrived[a] \in 0..2 /\ Arrival(a)
      /\ \A b \in BodiesOf(a) : b \in Bodies /\ accepted[b] \in Nat /\ mailed[b] \in Nat
                                /\ ambiguous[b] \in Nat
  BY Counters DEF Joined, BodiesOf
<1>2. Outbox!RowInv(a)
  BY DEF Joined, Known, Outbox!IInv
<1>3. \A b \in Bodies : Worker!OfBody(b) = {m \in Worker!Messages : m.body = b}
  BY DEF Worker!OfBody
<1>4. \A m \in Worker!Messages : m.body \in Bodies
  BY DEF Worker!Messages
<1>5. ASSUME NEW b \in BodiesOf(a), mailed[b] > 0 \/ \E m \in Worker!OfBody(b) : dead[m] > 0
      PROVE  accepted[b] > 0
  BY <1>1, <1>5 DEF Joined, Known, Worker!Provenance, Worker!Published
<1>6. Mailed(a) \/ Dead(a) => a \in applications
  <2>1. Mailed(a) \/ Dead(a) => \E b \in BodiesOf(a) : accepted[b] > 0
    BY <1>3, <1>4, <1>5 DEF Mailed, Dead, MessagesOf, BodiesOf
  <2>2. Mailed(a) \/ Dead(a) => arrived[a] > 0
    BY <1>1, <2>1 DEF Arrival
  <2> QED BY <1>2, <2>2 DEF Outbox!RowInv
<1>7. ASSUME arrived[a] > 0 PROVE Mailed(a) \/ Live(a) \/ Dead(a)
  <2>1. PICK b \in BodiesOf(a) : accepted[b] > 0
    BY <1>1, <1>7 DEF Arrival
  <2>2. mailed[b] > 0 \/ \E m \in Worker!OfBody(b) : Worker!Kept(m)
    BY <1>1, <2>1 DEF Joined, Known, Worker!NoMessageVanishes
  <2>3. \A m \in Worker!OfBody(b) : m \in MessagesOf(a)
    BY <1>1, <1>3 DEF MessagesOf, BodiesOf
  <2> QED BY <2>2, <2>3 DEF Mailed, Live, Dead, Queued, Worker!Kept, Worker!InHand
<1>8. a \in applications => Mailed(a) \/ Live(a) \/ Dead(a) \/ a \in struck
  BY <1>2, <1>7 DEF Outbox!RowInv, Outbox!Announced, Live, Announced, struck
<1>9. ASSUME a \in again, a \notin struck PROVE FALSE
  <2>1. arrived[a] < 2
    BY <1>1, <1>2, <1>9 DEF Outbox!RowInv, Outbox!Many, struck
  <2>2. ASSUME NEW b \in BodiesOf(a) PROVE mailed[b] <= 1
    <3>1. accepted[b] <= 1
      BY <1>1, <2>1 DEF Arrival
    <3>2. ambiguous[b] = 0
      BY <1>1, <1>9 DEF struck
    <3>3. \A m \in Worker!OfBody(b) : ~(redelivered[m] > 0)
      BY <1>1, <1>3, <1>9 DEF struck, MessagesOf, BodiesOf
    <3>4. /\ Worker!Total(ready, b) \in Nat /\ Worker!Total(dead, b) \in Nat
          /\ Worker!Unsettled(b) \in Nat /\ Worker!Total(redelivered, b) = 0
      BY <1>1, <3>3, TotalsNat DEF Joined
    <3>5. mailed[b] + Worker!Total(ready, b) + Worker!Unsettled(b) + Worker!Total(dead, b)
            <= accepted[b] + Worker!Total(redelivered, b) + ambiguous[b]
      BY <1>1 DEF Joined, Known, Worker!CopiesConserved
    <3> QED BY <1>1, <3>1, <3>2, <3>4, <3>5
  <2>3. ASSUME NEW b \in BodiesOf(a), NEW c \in BodiesOf(a), mailed[b] > 0, mailed[c] > 0
        PROVE  b = c
    BY <1>1, <1>5, <2>1, <2>3 DEF Arrival
  <2> QED BY <1>1, <1>9, <2>2, <2>3 DEF again
<1>10. a \in again => Mailed(a)
  BY <1>1 DEF again, Mailed
<1> QED BY <1>6, <1>8, <1>9, <1>10 DEF Fate
-----------------------------------------------------------------------------
(* One step, seen from one application *)

\* The parts of Live, as the parts' proofs know them.
LEMMA LiveParts ==
  ASSUME NEW a \in Applications
  PROVE  /\ Live(a) <=> Outbox!InApi(a) \/ \E b \in BodiesOf(a) : Worker!InQueue(b)
         /\ Live(a)' <=> Outbox!InApi(a)' \/ \E b \in BodiesOf(a) : Worker!InQueue(b)'
<1>1. \A b \in BodiesOf(a) : b \in Bodies /\ b.application = a
  BY DEF BodiesOf
<1>2. \A m \in MessagesOf(a) : m.body \in BodiesOf(a) /\ m \in Worker!OfBody(m.body)
  BY DEF MessagesOf, BodiesOf, Worker!OfBody, Worker!Messages
<1>3. \A b \in BodiesOf(a) : \A m \in Worker!OfBody(b) : m \in MessagesOf(a)
  BY <1>1 DEF MessagesOf, Worker!OfBody
<1>4. Queued(a) <=> \E b \in BodiesOf(a) : Worker!InQueue(b)
  BY <1>2, <1>3 DEF Queued, Worker!InQueue
<1>5. Queued(a)' <=> \E b \in BodiesOf(a) : Worker!InQueue(b)'
  BY <1>2, <1>3 DEF Queued, Worker!InQueue, MessagesOf, Worker!OfBody
<1> QED BY <1>4, <1>5 DEF Live, Outbox!InApi, Outbox!Announced, Announced

\* Whose event the API has handed over, and the queue is rid of, comes back no more;
\* a dead letter or an e-mail comes of what was alive, or of what was struck.
Passage(a) ==
  /\ a \in applications => a \in applications'
  /\ a \in struck => a \in struck'
  /\ Mailed(a) => Mailed(a)'
  /\ Dead(a) => Dead(a)'
  /\ a \in again => a \in again'
  /\ a \in applications /\ Live(a)' => Live(a)
  /\ Dead(a)' => Dead(a) \/ Live(a)
  /\ Mailed(a)' => Mailed(a) \/ Live(a) \/ (Dead(a) /\ a \in struck)
  /\ a \in again' => Mailed(a)
  /\ a \notin applications => ~Mailed(a)' /\ ~Dead(a)'
\* Every step of the pipeline takes every application along a Passage.
LEMMA PassageHolds ==
  ASSUME Joined, [Next]_vars, NEW a \in Applications
  PROVE  Passage(a)
<1>1. /\ Outbox!IInv /\ Worker!TypeOK /\ Worker!Provenance /\ Worker!NoMessageVanishes
      /\ Fate(a) /\ Arrival(a)
      /\ [Outbox!Next]_(Outbox!vars) /\ [Worker!Next]_(Worker!vars)
  BY FateHolds, PartSteps DEF Joined, Known
<1>2. /\ a \in applications => a \in applications'
      /\ faults[a] # {} => faults'[a] # {}
      /\ a \in unmarked => a \in unmarked'
      /\ a \in applications /\ Outbox!InApi(a)' => Outbox!InApi(a)
  BY <1>1, PartsAssume, Outbox!ApplicationStep
<1>3. /\ \A b \in BodiesOf(a) : b \in Bodies /\ b.application = a
      /\ \A m \in Worker!Messages : m.body \in Bodies /\ m \in Worker!OfBody(m.body)
      /\ \A m \in MessagesOf(a) : m \in Worker!Messages /\ m.body \in BodiesOf(a)
      /\ \A b \in BodiesOf(a) : \A m \in Worker!OfBody(b) :
           m \in Worker!Messages /\ m.body = b /\ m \in MessagesOf(a)
  BY DEF MessagesOf, BodiesOf, Worker!OfBody, Worker!Messages
<1>4. \A b \in Bodies : /\ accepted[b] \in Nat /\ mailed[b] \in Nat /\ ambiguous[b] \in Nat
  BY Counters DEF Joined
<1>5. \A m \in Worker!Messages : redelivered[m] \in Nat
  BY <1>1 DEF Worker!TypeOK, Worker!Bag
<1>6. a \in struck => a \in struck'
  <2>1. ASSUME NEW b \in BodiesOf(a), ambiguous[b] > 0 PROVE ambiguous'[b] > 0
    BY <1>1, <1>3, <1>4, <2>1, PartsAssume, Worker!HistoryGrows
  <2>2. ASSUME NEW m \in MessagesOf(a), redelivered[m] > 0 PROVE redelivered'[m] > 0
    BY <1>1, <1>3, <1>5, <2>2, PartsAssume, Worker!HistoryGrows
  <2> QED BY <1>2, <2>1, <2>2 DEF struck, MessagesOf, BodiesOf
<1>7. \A b \in BodiesOf(a) : Worker!InQueue(b) => Live(a) /\ accepted[b] > 0
  BY <1>1, <1>3, LiveParts
  DEF Worker!InQueue, Worker!Provenance, Worker!Published, Worker!Somewhere
<1>8. a \notin applications => \A b \in BodiesOf(a) : ~(accepted[b] > 0)
  BY <1>1 DEF Arrival, Outbox!IInv, Outbox!RowInv, Outbox!TypeOK, Outbox!Arrivals, Outbox!Many
<1>9. ASSUME a \in applications, Live(a)', ~Live(a) PROVE FALSE
  <2>1. PICK b \in BodiesOf(a) : Worker!InQueue(b)' /\ ~Worker!InQueue(b)
    BY <1>2, <1>9, LiveParts
  <2>2. b \in Bodies /\ Worker!Publish(b)
    BY <1>1, <1>3, <2>1, PartsAssume, Worker!QueueStep
  <2>3. accepted'[b] = accepted[b] + 1 /\ accepted \in [Bodies -> Nat]
    BY <2>2, Counters DEF Joined, Worker!Publish, Worker!Count
  <2>4. PICK c \in Applications :
          Worker!Publish(Body(c)) /\ (Announced(c) \/ Outbox!TakeRow(c))
    <3>1. accepted' # accepted
      BY <1>4, <2>2, <2>3
    <3> QED BY <3>1, PublishOrNot
  <2>5. c = a
    BY <1>3, <2>3, <2>4, BodyFits DEF Worker!Publish, Worker!Count
  <2> QED BY <1>1, <1>9, <2>4, <2>5
       DEF Live, Outbox!TakeRow, Outbox!IInv, Outbox!RowInv
<1>10. ASSUME mailed' # mailed
       PROVE  \E w \in Workers : /\ stage[w] = "send" /\ cur[w] \in Worker!Messages
                                 /\ mailed' = Worker!Count(mailed, cur[w].body)
  BY <1>1, <1>10, PartsAssume, Worker!MailStep
<1>11. ASSUME NEW b \in BodiesOf(a), mailed'[b] # mailed[b]
       PROVE  /\ Mailed(a) \/ Live(a) \/ (Dead(a) /\ a \in struck)
              /\ mailed'[b] = mailed[b] + 1 /\ accepted[b] > 0
              /\ \A c \in BodiesOf(a) : c # b => mailed'[c] = mailed[c]
  <2>1. PICK w \in Workers : /\ stage[w] = "send" /\ cur[w] \in Worker!Messages
                             /\ mailed' = Worker!Count(mailed, cur[w].body)
    BY <1>10, <1>11
  <2>2. mailed \in [Bodies -> Nat]
    BY Counters DEF Joined
  <2>3. cur[w].body = b
    BY <1>3, <1>11, <2>1, <2>2 DEF Worker!Count
  <2>4. mailed'[b] = mailed[b] + 1 /\ \A c \in BodiesOf(a) : c # b => mailed'[c] = mailed[c]
    BY <1>3, <2>1, <2>2, <2>3 DEF Worker!Count
  <2>5. cur[w] \in Worker!OfBody(b) /\ accepted[b] > 0
    BY <1>1, <1>3, <2>1, <2>3
    DEF Worker!OfBody, Worker!Provenance, Worker!Published, Worker!Somewhere
  <2>6. mailed[b] > 0 \/ \E m \in Worker!OfBody(b) : Worker!Kept(m)
    BY <1>1, <1>3, <2>5 DEF Worker!NoMessageVanishes
  <2>7. Mailed(a) \/ Live(a) \/ Dead(a)
    BY <1>3, <2>6 DEF Mailed, Live, Dead, Queued, Worker!Kept, Worker!InHand
  <2>8. CASE chan[w]
    <3>1. Worker!InQueue(b)
      BY <2>5, <2>8 DEF Worker!InQueue
    <3> QED BY <1>7, <2>4, <2>5, <3>1
  <2>9. CASE ~chan[w]
    <3>1. redelivered[cur[w]] > 0
      BY <1>1, <2>1, <2>9 DEF Worker!Provenance, Worker!TakenBack
    <3>2. a \in struck
      BY <1>3, <2>5, <3>1 DEF struck
    <3> QED BY <2>4, <2>5, <2>7, <3>2
  <2> QED BY <2>8, <2>9
<1>12. \A b \in BodiesOf(a) :
         mailed[b] \in Nat /\ mailed'[b] \in Nat /\ mailed'[b] >= mailed[b]
  BY <1>3, <1>4, <1>11
<1>13. Mailed(a)' => Mailed(a) \/ Live(a) \/ (Dead(a) /\ a \in struck)
  BY <1>11 DEF Mailed, BodiesOf
<1>14. (Mailed(a) => Mailed(a)') /\ (a \in again => a \in again')
  <2>1. Mailed(a) => Mailed(a)'
    BY <1>12 DEF Mailed, BodiesOf
  <2>2. ASSUME NEW b \in BodiesOf(a), NEW c \in BodiesOf(a),
               mailed[b] > 1 \/ (b # c /\ mailed[b] > 0 /\ mailed[c] > 0)
        PROVE  mailed'[b] > 1 \/ (b # c /\ mailed'[b] > 0 /\ mailed'[c] > 0)
    BY <1>12, <2>2
  <2>3. a \in again => a \in again'
    BY <2>2 DEF again, BodiesOf
  <2> QED BY <2>1, <2>3
<1>15. ASSUME a \in again', ~Mailed(a) PROVE FALSE
  <2>1. \A b \in BodiesOf(a) : mailed[b] = 0
    BY <1>4, <1>3, <1>15 DEF Mailed
  <2>2. \A b \in BodiesOf(a) : mailed'[b] = 0 \/ mailed'[b] = 1
    BY <1>11, <2>1
  <2>3. \A b, c \in BodiesOf(a) : mailed'[b] > 0 /\ mailed'[c] > 0 => b = c
    BY <1>11, <2>1
  <2> QED BY <1>15, <2>2, <2>3 DEF again, BodiesOf
<1>16. ASSUME NEW m \in MessagesOf(a)
       PROVE  /\ dead[m] > 0 => dead'[m] > 0
              /\ dead'[m] > 0 => dead[m] > 0 \/ Worker!InQueue(m.body)
  BY <1>1, <1>3, <1>16, PartsAssume, Worker!DeadStep
<1>17. (Dead(a) => Dead(a)') /\ (Dead(a)' => Dead(a) \/ Live(a))
  BY <1>3, <1>7, <1>16 DEF Dead, MessagesOf
<1>18. ASSUME a \notin applications PROVE ~Mailed(a)' /\ ~Dead(a)'
  <2>1. ~Mailed(a) /\ ~Dead(a)
    BY <1>1, <1>18 DEF Fate
  <2>2. ~Mailed(a)'
    BY <1>8, <1>11, <1>18, <2>1 DEF Mailed, BodiesOf
  <2>3. ~Dead(a)'
    BY <1>3, <1>7, <1>8, <1>16, <1>18, <2>1 DEF Dead, MessagesOf
  <2> QED BY <2>2, <2>3
<1> QED BY <1>2, <1>6, <1>9, <1>13, <1>14, <1>15, <1>17, <1>18 DEF Passage

-----------------------------------------------------------------------------
(* The promise is kept *)

\* notice by cases, now and after the step.
LEMMA NoticeCases ==
  ASSUME NEW a \in Applications
  PROVE  /\ notice[a] = IF a \notin applications THEN "none" ELSE IF Mailed(a) THEN "mailed"
                        ELSE IF Live(a) THEN "owed" ELSE IF Dead(a) THEN "given up" ELSE "lost"
         /\ notice'[a] = IF a \notin applications' THEN "none" ELSE IF Mailed(a)' THEN "mailed"
                         ELSE IF Live(a)' THEN "owed" ELSE IF Dead(a)' THEN "given up" ELSE "lost"
BY DEF notice

\* The mapped state is a state of NotificationDelivery.
LEMMA AbstractTypes == Delivery!TypeOK /\ Delivery!TypeOK'
<1>1. notice \in [Applications -> Delivery!Notices]
  BY NoticeCases DEF notice, Delivery!Notices
<1>2. notice' \in [Applications -> Delivery!Notices]
  BY NoticeCases DEF notice, Delivery!Notices
<1> QED BY <1>1, <1>2 DEF Delivery!TypeOK, struck, again

\* One application, one step of the pipeline: one of the abstract actions.
LEMMA StepKeepsPromise ==
  ASSUME NEW a \in Applications, Fate(a), Fate(a)', Passage(a)
  PROVE  \/ Delivery!Rest(a) \/ Delivery!Owe(a) \/ Delivery!Mail(a) \/ Delivery!GiveUp(a)
         \/ Delivery!MailAfterAll(a) \/ Delivery!MailAgain(a) \/ Delivery!Lose(a)
<1> USE NoticeCases DEF Fate, Passage, Delivery!Become
<1>1. CASE a \notin applications
  BY <1>1 DEF Delivery!Rest, Delivery!Owe, Delivery!Lose
<1>2. CASE a \in applications /\ Mailed(a)
  BY <1>2 DEF Delivery!Rest, Delivery!MailAgain
<1>3. CASE a \in applications /\ ~Mailed(a) /\ Live(a)
  BY <1>3 DEF Delivery!Rest, Delivery!Mail, Delivery!GiveUp, Delivery!Lose
<1>4. CASE a \in applications /\ ~Mailed(a) /\ ~Live(a)
  BY <1>4 DEF Delivery!Rest, Delivery!MailAfterAll
<1> QED BY <1>1, <1>2, <1>3, <1>4

\* KeepsPromise, for any requests, applications, workers and bounds: what the API
\* announces, parks and retries and the worker mails, republishes and gives up never
\* loses an e-mail, or sends one twice, that no failure has struck.
THEOREM PromiseKept == Spec => KeepsPromise
<1>1. Init => Delivery!Init
  <2> SUFFICES ASSUME Init PROVE Delivery!Init
    OBVIOUS
  <2>1. struck = {} /\ again = {}
    BY DEF Init, Outbox!Init, Worker!Init, Worker!Nothing, struck, again, MessagesOf, BodiesOf
  <2>2. applications = {}
    BY DEF Init, Outbox!Init
  <2> QED BY <2>1, <2>2 DEF Delivery!Init, notice
<1>2. Joined => \A a \in Applications : Fate(a)
  BY FateHolds
<1>3. ASSUME Joined, [Next]_vars,
             \A a \in Applications : Fate(a), (\A a \in Applications : Fate(a))'
      PROVE  [Delivery!Next]_(Delivery!vars)
  <2>1. \A a \in Applications : Passage(a)
    BY <1>3, PassageHolds
  <2>2. \A a \in Applications : a \in struck => a \in struck'
    BY <2>1 DEF Passage
  <2>3. struck \subseteq struck'
    BY <2>2 DEF struck
  <2>4. \A a \in Applications :
          \/ Delivery!Rest(a) \/ Delivery!Owe(a) \/ Delivery!Mail(a) \/ Delivery!GiveUp(a)
          \/ Delivery!MailAfterAll(a) \/ Delivery!MailAgain(a) \/ Delivery!Lose(a)
    BY <1>3, <2>1, StepKeepsPromise
  <2> QED BY <2>3, <2>4, AbstractTypes DEF Delivery!Next
<1> QED BY <1>1, <1>2, <1>3, Joins, PTL DEF Spec, KeepsPromise, Delivery!Spec

-----------------------------------------------------------------------------
(* The bound on an application's e-mails *)

\* An e-mail too many is one of the broker's or of SendEmail's, if the outbox marked
\* what it had published: OnceUnlessUnmarked and CopiesConserved together.
THEOREM EveryExtraExplained == Spec => []ExtrasExplained
<1>1. Joined => ExtrasExplained
  <2> SUFFICES ASSUME Joined, NEW a \in Applications \ unmarked
               PROVE  /\ \A b \in BodiesOf(a) :
                           mailed[b] + Worker!Total(dead, b)
                             <= 1 + Worker!Total(redelivered, b) + ambiguous[b]
                      /\ \A b, c \in BodiesOf(a) : Settled(b) /\ Settled(c) => b = c
    BY DEF ExtrasExplained
  <2>1. /\ Known /\ Arrival(a)
        /\ \A b \in BodiesOf(a) : b \in Bodies
    BY DEF Joined, BodiesOf
  <2>2. arrived[a] < 2
    BY <2>1, Counters DEF Known, Outbox!IInv, Outbox!RowInv, Outbox!Many
  <2>3. ASSUME NEW b \in BodiesOf(a)
        PROVE  mailed[b] + Worker!Total(dead, b)
                 <= 1 + Worker!Total(redelivered, b) + ambiguous[b]
    <3>1. accepted[b] \in Nat /\ accepted[b] <= 1 /\ mailed[b] \in Nat /\ ambiguous[b] \in Nat
      BY <2>1, <2>2, Counters DEF Arrival
    <3>2. mailed[b] + Worker!Total(ready, b) + Worker!Unsettled(b) + Worker!Total(dead, b)
            <= accepted[b] + Worker!Total(redelivered, b) + ambiguous[b]
      BY <2>1 DEF Known, Worker!CopiesConserved
    <3>3. /\ Worker!Total(ready, b) \in Nat /\ Worker!Total(dead, b) \in Nat
          /\ Worker!Total(redelivered, b) \in Nat /\ Worker!Unsettled(b) \in Nat
      BY <2>1, TotalsNat
    <3> QED BY <3>1, <3>2, <3>3
  <2>4. \A b \in BodiesOf(a) : Settled(b) => accepted[b] > 0
    BY <2>1, TotalsNat DEF Known, Settled, Worker!Provenance, Worker!Published
  <2> QED BY <2>1, <2>2, <2>3, <2>4 DEF Arrival
<1> QED BY <1>1, Joins, PTL
=============================================================================
