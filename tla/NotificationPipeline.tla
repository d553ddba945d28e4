------------------------ MODULE NotificationPipeline ------------------------
(***************************************************************************)
(* The whole pipeline: the API's ApplicationOutbox and cmd/worker's        *)
(* NotificationWorker, joined at RabbitMQ.  An event the API publishes is  *)
(* a message of the worker's queue, and the two sides see one broker: it   *)
(* stops only when no worker has a channel, and no worker starts while it  *)
(* is down.                                                                *)
(*                                                                         *)
(* The message of an application carries an address or does not, as        *)
(* publishNewApplicationEvent found it; every payload it makes parses.     *)
(***************************************************************************)
EXTENDS Naturals, FiniteSets

CONSTANTS
  Requests, Applications, Target, BatchLimit,                \* the API's
  Workers, MaxRetries, NoMessage, MaxPublishes, MaxFaults    \* the worker's

VARIABLES
  apiUp, pool, brokerUp, link, pc, applications, addressed, outbox, due, retry,
  arrived, faults, unmarked,
  ready, dead, stage, chan, inbox, cur,
  accepted, mailed, failed, ambiguous, redelivered,
  mishaps   \* the worker's faults

Bodies == [application : Applications, addressed : BOOLEAN]
Body(a) == [application |-> a, addressed |-> a \in addressed]

ASSUME ApiAssumption == Target \in [Requests -> Applications] /\ BatchLimit \in Nat \ {0}
ASSUME WorkersAssumption == IsFiniteSet(Workers)
ASSUME BoundsAssumption == MaxRetries \in Nat /\ MaxPublishes \in Nat /\ MaxFaults \in Nat
ASSUME NoMessageAssumption == NoMessage \notin [body : Bodies, retry : 0..MaxRetries]

\* The two sides, each with what has been proved of it.
Outbox == INSTANCE ApplicationOutbox_proofs
Worker == INSTANCE NotificationWorker_proofs
            WITH Garbage <- {}, Addressed <- {b \in Bodies : b.addressed}, faults <- mishaps

apiVars == <<apiUp, pool, brokerUp, link, pc, applications, addressed, outbox, due, retry,
             arrived, faults, unmarked>>
workerVars == <<ready, dead, stage, chan, inbox, cur, accepted, mailed, failed,
                ambiguous, redelivered, mishaps>>
vars == <<apiVars, workerVars>>

Init == Outbox!Init /\ Worker!Init

-----------------------------------------------------------------------------

\* publishNewApplicationEvent, and the broker has it.
PublishEvent(r) == Outbox!PublishEvent(r) /\ Worker!Publish(Body(Target[r]))

RetryPublish(a) == Outbox!RetryPublish(a) /\ Worker!Publish(Body(a))

\* The other calls of ApplyToJob.
HandlerStep(r) ==
  /\ \/ Outbox!ReceiveApply(r) \/ Outbox!CheckJob(r)
     \/ Outbox!CreateApplication(r) \/ Outbox!AlreadyApplied(r)
     \/ Outbox!CreateApplicationErr(r) \/ Outbox!GetUserEmail(r)
     \/ Outbox!LosePublishedEvent(r) \/ Outbox!PublishEventErr(r)
     \/ Outbox!CreateEvent(r) \/ Outbox!CreateEventErr(r)
  /\ UNCHANGED workerVars

\* The other steps of the retry worker.
RetryStep(a) ==
  /\ \/ Outbox!LoseRetriedEvent(a) \/ Outbox!RetryPublishErr(a)
     \/ Outbox!MarkPublished(a) \/ Outbox!MarkPublishedErr(a) \/ Outbox!MarkRetry(a)
     \/ Outbox!BecomeDue(a)
  /\ UNCHANGED workerVars

ListPending == Outbox!ListPending /\ UNCHANGED workerVars

ApiProcess ==
  /\ Outbox!StartApi \/ Outbox!CrashApi \/ Outbox!LoseLink \/ Outbox!StartBroker
  /\ UNCHANGED workerVars

StopBroker ==
  /\ \A w \in Workers : ~chan[w]
  /\ Outbox!StopBroker
  /\ UNCHANGED workerVars

StartWorker(w) == brokerUp /\ Worker!Start(w) /\ UNCHANGED apiVars

Deliver(w) ==
  /\ \E m \in Worker!Messages : Worker!Deliver(w, m)
  /\ UNCHANGED apiVars

Take(w) ==
  /\ \E m \in Worker!Messages : Worker!Take(w, m)
  /\ UNCHANGED apiVars

HandleDelivery(w) == Worker!HandleDelivery(w) /\ UNCHANGED apiVars

EndWorker(w) ==
  /\ Worker!Quit(w) \/ Worker!Kill(w) \/ Worker!LoseChannel(w)
  /\ UNCHANGED apiVars

Next ==
  \/ \E r \in Requests : PublishEvent(r) \/ HandlerStep(r)
  \/ \E a \in Applications : RetryPublish(a) \/ RetryStep(a)
  \/ ListPending \/ ApiProcess \/ StopBroker
  \/ \E w \in Workers :
       StartWorker(w) \/ Deliver(w) \/ Take(w) \/ HandleDelivery(w) \/ EndWorker(w)

Spec == Init /\ [][Next]_vars

(* Each side's scheduling, as in its module; a handler runs until it has     *)
(* answered, since its calls return.                                         *)
Fairness ==
  /\ WF_vars(ListPending)
  /\ WF_vars(Outbox!StartBroker /\ UNCHANGED workerVars)
  /\ \A r \in Requests : WF_vars(pc[r] # "new" /\ (PublishEvent(r) \/ HandlerStep(r)))
  /\ \A a \in Applications :
       /\ WF_vars(retry[a] # "out" /\ (RetryPublish(a) \/ RetryStep(a)))
       /\ SF_vars(Outbox!MarkPublished(a) /\ UNCHANGED workerVars)
       /\ WF_vars(Outbox!BecomeDue(a) /\ UNCHANGED workerVars)
  /\ \A w \in Workers :
       WF_vars(Deliver(w)) /\ WF_vars(Take(w)) /\ WF_vars(HandleDelivery(w))

FairSpec == Spec /\ Fairness

-----------------------------------------------------------------------------
(* The abstract state *)

MessagesOf(a) == {m \in Worker!Messages : m.body.application = a}
BodiesOf(a) == {b \in Bodies : b.application = a}

\* The event is still on its way: in the handler, in the outbox, in the queue, or
\* with a worker whose acknowledgement the broker awaits.
Announced(a) == \E r \in Requests : Target[r] = a /\ Outbox!Announcing(r)
Queued(a) ==
  \E m \in MessagesOf(a) :
    ready[m] > 0 \/ \E w \in Workers : chan[w] /\ (inbox[w][m] > 0 \/ cur[w] = m)
Live(a) == Announced(a) \/ outbox[a] = "pending" \/ Queued(a)

Mailed(a) == \E b \in BodiesOf(a) : mailed[b] > 0
Dead(a) == \E m \in MessagesOf(a) : dead[m] > 0

notice ==
  [a \in Applications |->
     CASE a \notin applications -> "none"
       [] a \in applications /\ Mailed(a) -> "mailed"
       [] a \in applications /\ ~Mailed(a) /\ Live(a) -> "owed"
       [] a \in applications /\ ~Mailed(a) /\ ~Live(a) /\ Dead(a) -> "given up"
       [] OTHER -> "lost"]

struck ==
  {a \in Applications :
     \/ faults[a] # {} \/ a \in unmarked
     \/ \E m \in MessagesOf(a) : redelivered[m] > 0
     \/ \E b \in BodiesOf(a) : ambiguous[b] > 0}

again ==
  {a \in Applications :
     \/ \E b \in BodiesOf(a) : mailed[b] > 1
     \/ \E b, c \in BodiesOf(a) : b # c /\ mailed[b] > 0 /\ mailed[c] > 0}

Delivery == INSTANCE NotificationDelivery

-----------------------------------------------------------------------------
(* Properties *)

\* The two processes together keep the promise of NotificationDelivery: from the
\* INSERT on, an application's e-mail is owed until it is mailed, given up, or lost
\* to a failure that struck it; without such a failure it is mailed once at most.
KeepsPromise == Delivery!Spec

Settled(b) == mailed[b] > 0 \/ Worker!Total(dead, b) > 0

\* Every e-mail beyond the first has its own reason.  Where no mark of the outbox was
\* lost, an application is mailed or dead-lettered once, from one message body, and once
\* more for each copy the broker took back and each e-mail reported as failed.
ExtrasExplained ==
  \A a \in Applications \ unmarked :
    /\ \A b \in BodiesOf(a) :
         mailed[b] + Worker!Total(dead, b) <= 1 + Worker!Total(redelivered, b) + ambiguous[b]
    /\ \A b, c \in BodiesOf(a) : Settled(b) /\ Settled(c) => b = c

\* Once the API, with its pool, and a worker stay connected, no application stays owed
\* its e-mail.
DebtsSettled ==
  /\ <>[](apiUp /\ pool /\ link = "open")
  /\ \E w \in Workers : <>[]chan[w]
  => \A a \in Applications : notice[a] = "owed" ~> notice[a] # "owed"
=============================================================================
