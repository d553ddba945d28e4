------------------------- MODULE NotificationWorker -------------------------
(***************************************************************************)
(* The consuming half of the notification pipeline: cmd/worker takes       *)
(* messages from the notifications queue, mails them, and on failure       *)
(* republishes them with a higher x-retry-count or moves them to           *)
(* failed_notifications; only then does it acknowledge the original.       *)
(*                                                                         *)
(* RabbitMQ is modelled from how the worker uses it: a queue hands a copy  *)
(* to one consumer and keeps it until that channel acknowledges it; when   *)
(* the channel closes, every unacknowledged copy is ready again.  The      *)
(* queue is a bag: the order in which copies are delivered is left open.   *)
(* A broker outage is the loss of every channel, with nobody publishing or *)
(* starting for a while (durable queues, persistent messages).             *)
(***************************************************************************)
EXTENDS Integers, FiniteSetsExt

CONSTANTS
  Workers,       \* worker processes
  Bodies,        \* message bodies
  Garbage,       \* bodies json.Unmarshal refuses
  Addressed,     \* bodies with a non-empty applicant_email
  MaxRetries,    \* 3 in handleDelivery
  NoMessage,     \* no delivery in hand
  MaxPublishes,  \* bound: publishes of each body
  MaxFaults      \* bound: lost channels, killed workers, nacks, misreported e-mails

ASSUME BodiesAssumption == Garbage \subseteq Bodies /\ Addressed \subseteq Bodies \ Garbage
ASSUME WorkersAssumption == IsFiniteSet(Workers)
ASSUME RetriesAssumption == MaxRetries \in Nat
ASSUME BoundsAssumption == MaxPublishes \in Nat /\ MaxFaults \in Nat

Messages == [body : Bodies, retry : 0..MaxRetries]

ASSUME NoMessageAssumption == NoMessage \notin Messages

VARIABLES
  ready,        \* ready[m]: copies of m waiting in notifications
  dead,         \* dead[m]: copies of m in failed_notifications
  stage,        \* stage[w]: where worker w is in main and handleDelivery
  chan,         \* chan[w]: w's channel is open
  inbox,        \* inbox[w][m]: copies pushed to w and not yet taken (no prefetch limit)
  cur,          \* cur[w]: the delivery w is handling
  (* history, read by no guard but the bounds *)
  accepted,     \* accepted[b]: publishes of b from outside
  mailed,       \* mailed[b]: e-mails the SMTP server took
  failed,       \* failed[b]: calls of SendEmail that returned an error
  ambiguous,    \* ambiguous[b]: of those, the ones the SMTP server took all the same
  redelivered,  \* redelivered[m]: copies of m taken back from a consumer
  faults        \* of these four kinds, so far

brokerVars == <<ready, dead>>
workerVars == <<stage, chan, inbox, cur>>
historyVars == <<accepted, mailed, failed, ambiguous, redelivered, faults>>
vars == <<brokerVars, workerVars, historyVars>>

Bag == [Messages -> Nat]
Nothing == [m \in Messages |-> 0]
Put(bag, m) == [bag EXCEPT ![m] = @ + 1]
Remove(bag, m) == [bag EXCEPT ![m] = @ - 1]
Count(counter, b) == [counter EXCEPT ![b] = @ + 1]

TypeOK ==
  /\ ready \in Bag
  /\ dead \in Bag
  /\ stage \in [Workers -> {"down", "idle", "send", "republish", "ack"}]
  /\ chan \in [Workers -> BOOLEAN]
  /\ inbox \in [Workers -> Bag]
  /\ cur \in [Workers -> Messages \cup {NoMessage}]
  /\ \A w \in Workers :
       /\ stage[w] \in {"send", "republish", "ack"} <=> cur[w] # NoMessage
       /\ stage[w] = "down" => ~chan[w]
       /\ stage[w] = "send" => cur[w].body \notin Garbage
  /\ accepted \in [Bodies -> Nat]
  /\ mailed \in [Bodies -> Nat]
  /\ failed \in [Bodies -> Nat]
  /\ ambiguous \in [Bodies -> Nat]
  /\ redelivered \in Bag
  /\ faults \in Nat

Init ==
  /\ ready = Nothing
  /\ dead = Nothing
  /\ stage = [w \in Workers |-> "down"]
  /\ chan = [w \in Workers |-> FALSE]
  /\ inbox = [w \in Workers |-> Nothing]
  /\ cur = [w \in Workers |-> NoMessage]
  /\ accepted = [b \in Bodies |-> 0]
  /\ mailed = [b \in Bodies |-> 0]
  /\ failed = [b \in Bodies |-> 0]
  /\ ambiguous = [b \in Bodies |-> 0]
  /\ redelivered = Nothing
  /\ faults = 0

-----------------------------------------------------------------------------
(* The broker *)

\* The API or a person publishes; neither sets x-retry-count, which is read as 0.
Publish(b) ==
  /\ accepted[b] < MaxPublishes
  /\ ready' = Put(ready, [body |-> b, retry |-> 0])
  /\ accepted' = Count(accepted, b)
  /\ UNCHANGED <<dead, workerVars, mailed, failed, ambiguous, redelivered, faults>>

\* No Qos call: the broker pushes whatever is ready.
Deliver(w, m) ==
  /\ chan[w]
  /\ ready[m] > 0
  /\ ready' = Remove(ready, m)
  /\ inbox' = [inbox EXCEPT ![w] = Put(@, m)]
  /\ UNCHANGED <<dead, stage, chan, cur, historyVars>>

Held(w, m) == inbox[w][m] + (IF cur[w] = m THEN 1 ELSE 0)

\* Mutant: Consume with autoAck, the broker keeps nothing.
ReleaseNothing(w) == UNCHANGED <<ready, redelivered>>

\* w's channel closes: the broker takes back what it has not acknowledged.
Release(w) ==
  IF chan[w]
  THEN /\ ready' = [m \in Messages |-> ready[m] + Held(w, m)]
       /\ redelivered' = [m \in Messages |-> redelivered[m] + Held(w, m)]
  ELSE UNCHANGED <<ready, redelivered>>

-----------------------------------------------------------------------------
(* main *)

\* Dial, declare, consume; when one of them fails, log.Fatalf leaves w down.
Start(w) ==
  /\ stage[w] = "down"
  /\ stage' = [stage EXCEPT ![w] = "idle"]
  /\ chan' = [chan EXCEPT ![w] = TRUE]
  /\ UNCHANGED <<brokerVars, inbox, cur, historyVars>>

\* Mutant: the return after an invalid payload is missing.
TakeUnparsed(w, m) ==
  /\ stage[w] = "idle"
  /\ inbox[w][m] > 0
  /\ inbox' = [inbox EXCEPT ![w] = Remove(@, m)]
  /\ cur' = [cur EXCEPT ![w] = m]
  /\ stage' = [stage EXCEPT ![w] = "send"]
  /\ UNCHANGED <<brokerVars, chan, historyVars>>

\* A delivery whose channel has closed meanwhile can still be in the client's buffer.
Take(w, m) ==
  /\ stage[w] = "idle"
  /\ inbox[w][m] > 0
  /\ inbox' = [inbox EXCEPT ![w] = Remove(@, m)]
  /\ cur' = [cur EXCEPT ![w] = m]
  /\ stage' = [stage EXCEPT ![w] = IF m.body \in Garbage THEN "republish" ELSE "send"]
  /\ UNCHANGED <<brokerVars, chan, historyVars>>

Exit(w) ==
  /\ stage' = [stage EXCEPT ![w] = "down"]
  /\ chan' = [chan EXCEPT ![w] = FALSE]
  /\ inbox' = [inbox EXCEPT ![w] = Nothing]
  /\ cur' = [cur EXCEPT ![w] = NoMessage]
  /\ Release(w)
  /\ UNCHANGED <<dead, accepted, mailed, failed, ambiguous>>

\* msgs is closed: "message channel closed, stopping worker".
Quit(w) ==
  /\ stage[w] = "idle"
  /\ ~chan[w]
  /\ Exit(w)
  /\ UNCHANGED faults

\* SIGINT and SIGTERM end the loop between deliveries, anything harder at any point.
Kill(w) ==
  /\ stage[w] # "down"
  /\ faults < MaxFaults
  /\ faults' = faults + 1
  /\ Exit(w)

\* The connection breaks; handleDelivery goes on with what it has in hand.
LoseChannel(w) ==
  /\ chan[w]
  /\ faults < MaxFaults
  /\ faults' = faults + 1
  /\ chan' = [chan EXCEPT ![w] = FALSE]
  /\ Release(w)
  /\ UNCHANGED <<dead, stage, inbox, cur, accepted, mailed, failed, ambiguous>>

-----------------------------------------------------------------------------
(* handleDelivery *)

SendOk(w) ==
  /\ stage[w] = "send"
  /\ cur[w].body \in Addressed
  /\ mailed' = Count(mailed, cur[w].body)
  /\ stage' = [stage EXCEPT ![w] = "ack"]
  /\ UNCHANGED <<brokerVars, chan, inbox, cur, accepted, failed, ambiguous, redelivered,
                 faults>>

\* SendEmail returns an error: always for an empty recipient.  For another one the
\* server may have taken the e-mail before the connection to it failed.
SendErr(w) ==
  /\ stage[w] = "send"
  /\ failed' = Count(failed, cur[w].body)
  /\ \/ UNCHANGED <<mailed, ambiguous, faults>>
     \/ /\ cur[w].body \in Addressed
        /\ faults < MaxFaults
        /\ faults' = faults + 1
        /\ mailed' = Count(mailed, cur[w].body)
        /\ ambiguous' = Count(ambiguous, cur[w].body)
  /\ stage' = [stage EXCEPT ![w] = "republish"]
  /\ UNCHANGED <<brokerVars, chan, inbox, cur, accepted, redelivered>>

\* Mutant: one retry too few.
RetryableOffByOne(m) == m.body \notin Garbage /\ m.retry + 1 < MaxRetries
Retryable(m) == m.body \notin Garbage /\ m.retry < MaxRetries

\* Mutant: the republished message has the old x-retry-count.
RepublishSameCount(w) ==
  /\ stage[w] = "republish"
  /\ chan[w]
  /\ IF Retryable(cur[w])
     THEN ready' = Put(ready, cur[w]) /\ UNCHANGED dead
     ELSE dead' = Put(dead, cur[w]) /\ UNCHANGED ready
  /\ stage' = [stage EXCEPT ![w] = "ack"]
  /\ UNCHANGED <<chan, inbox, cur, historyVars>>

\* Mutant: an invalid payload goes back to notifications.
RepublishGarbage(w) ==
  /\ stage[w] = "republish"
  /\ chan[w]
  /\ \/ /\ cur[w].body \in Garbage
        /\ ready' = Put(ready, cur[w])
        /\ UNCHANGED dead
     \/ /\ Retryable(cur[w])
        /\ ready' = Put(ready, [cur[w] EXCEPT !.retry = @ + 1])
        /\ UNCHANGED dead
     \/ /\ cur[w].body \notin Garbage /\ ~Retryable(cur[w])
        /\ dead' = Put(dead, cur[w])
        /\ UNCHANGED ready
  /\ stage' = [stage EXCEPT ![w] = "ack"]
  /\ UNCHANGED <<chan, inbox, cur, historyVars>>

\* To notifications while retries are left, then to failed_notifications; the
\* original is still unacknowledged.  The frames of one channel arrive in order, so
\* the broker has this message before any acknowledgement that follows it.
Republish(w) ==
  /\ stage[w] = "republish"
  /\ chan[w]
  /\ IF Retryable(cur[w])
     THEN ready' = Put(ready, [cur[w] EXCEPT !.retry = @ + 1]) /\ UNCHANGED dead
     ELSE dead' = Put(dead, cur[w]) /\ UNCHANGED ready
  /\ stage' = [stage EXCEPT ![w] = "ack"]
  /\ UNCHANGED <<chan, inbox, cur, historyVars>>

Finish(w) ==
  /\ stage' = [stage EXCEPT ![w] = "idle"]
  /\ cur' = [cur EXCEPT ![w] = NoMessage]

\* The publish failed: Nack with requeue, which an open channel delivers and a
\* closed one, whose copies are back in the queue already, does not.
RepublishErr(w) ==
  /\ stage[w] = "republish"
  /\ Finish(w)
  /\ \/ /\ chan[w]
        /\ faults < MaxFaults
        /\ faults' = faults + 1
        /\ ready' = Put(ready, cur[w])
        /\ redelivered' = Put(redelivered, cur[w])
     \/ ~chan[w] /\ UNCHANGED <<ready, redelivered, faults>>
  /\ UNCHANGED <<dead, chan, inbox, accepted, mailed, failed, ambiguous>>

\* Mutant: Nack with requeue on the success path.
AckRequeues(w) ==
  /\ stage[w] = "ack"
  /\ Finish(w)
  /\ ready' = Put(ready, cur[w])
  /\ UNCHANGED <<dead, chan, inbox, historyVars>>

\* Its error is discarded: on a closed channel the copy has been taken back.
Ack(w) ==
  /\ stage[w] = "ack"
  /\ Finish(w)
  /\ UNCHANGED <<brokerVars, chan, inbox, historyVars>>

-----------------------------------------------------------------------------
(* Specification *)

HandleDelivery(w) == SendOk(w) \/ SendErr(w) \/ Republish(w) \/ RepublishErr(w) \/ Ack(w)

Worker(w) ==
  \/ Start(w) \/ Quit(w) \/ Kill(w) \/ LoseChannel(w)
  \/ \E m \in Messages : Deliver(w, m) \/ Take(w, m)
  \/ HandleDelivery(w)

Next ==
  \/ \E b \in Bodies : Publish(b)
  \/ \E w \in Workers : Worker(w)

Spec == Init /\ [][Next]_vars

(* The broker pushes to a consumer it has, the worker's loop runs, and the   *)
(* SMTP server answers or refuses.  Nothing restarts a worker that exits:    *)
(* docker-compose.yml sets no restart policy.                                *)
Fairness ==
  \A w \in Workers :
    /\ WF_vars(\E m \in Messages : Deliver(w, m))
    /\ WF_vars(\E m \in Messages : Take(w, m))
    /\ WF_vars(HandleDelivery(w))

FairSpec == Spec /\ Fairness

-----------------------------------------------------------------------------
(* Properties *)

\* The broker still answers for a copy of m; one being acknowledged is excluded.
InHand(w, m) == cur[w] = m /\ stage[w] # "ack"
Kept(m) ==
  \/ ready[m] > 0
  \/ dead[m] > 0
  \/ \E w \in Workers : chan[w] /\ (inbox[w][m] > 0 \/ InHand(w, m))

OfBody(b) == {m \in Messages : m.body = b}

\* Whatever the broker accepted has been mailed, or the broker still keeps a copy
\* in one of the two queues or unacknowledged: publishing the successor before
\* acknowledging loses nothing, whenever workers die and channels close.
NoMessageVanishes ==
  \A b \in Bodies : accepted[b] > 0 => mailed[b] > 0 \/ \E m \in OfBody(b) : Kept(m)

\* A message in failed_notifications has been tried MaxRetries + 1 times and says
\* so in its header; only an invalid payload gets there untried.
DeadLetterAfterRetries ==
  \A m \in Messages :
    dead[m] > 0 /\ m.body \notin Garbage =>
      m.retry = MaxRetries /\ failed[m.body] > MaxRetries

Total(bag, b) == MapThenSumSet(LAMBDA m : bag[m], OfBody(b))
Unsettled(b) ==
  MapThenSumSet(
    LAMBDA w : Total(inbox[w], b)
               + (IF \E m \in OfBody(b) : InHand(w, m) THEN 1 ELSE 0),
    {w \in Workers : chan[w]})

\* Copies multiply for two reasons only: the broker took one back that had been
\* handled, or an e-mail went out that SendEmail reported as failed.  Nothing is
\* both mailed and dead-lettered, or mailed twice, without one of them.
CopiesConserved ==
  \A b \in Bodies :
    mailed[b] + Total(ready, b) + Unsettled(b) + Total(dead, b)
      <= accepted[b] + Total(redelivered, b) + ambiguous[b]

AttemptsLeft(m) == MaxRetries + 1 - m.retry

\* A publish buys MaxRetries + 1 attempts to send; only a redelivered copy buys
\* again the attempts its retry count leaves it.
AttemptsBounded ==
  \A b \in Bodies :
    mailed[b] + failed[b] - ambiguous[b]
      <= (MaxRetries + 1) * accepted[b]
         + MapThenSumSet(LAMBDA m : redelivered[m] * AttemptsLeft(m), OfBody(b))

\* The steps of the broker and of main's loop a copy of m can still cause: each of the
\* attempts its count leaves it is delivered, taken, sent, republished and acknowledged.
StepsLeft(m) == 5 * AttemptsLeft(m)
StepsInHand(w) ==
  CASE stage[w] = "send" -> StepsLeft(cur[w]) - 2
    [] stage[w] = "republish" -> StepsLeft(cur[w]) - 3
    [] stage[w] = "ack" -> 1
    [] OTHER -> 0
WorkLeft(b) ==
  MapThenSumSet(LAMBDA m : ready[m] * StepsLeft(m), OfBody(b))
  + MapThenSumSet(
      LAMBDA w : MapThenSumSet(LAMBDA m : inbox[w][m] * (StepsLeft(m) - 1), OfBody(b))
                 + (IF cur[w] \in OfBody(b) THEN StepsInHand(w) ELSE 0),
      Workers)

Working(w) == (\E m \in Messages : Deliver(w, m) \/ Take(w, m)) \/ HandleDelivery(w)
Replenished(b) ==
  accepted'[b] > accepted[b] \/ \E m \in OfBody(b) : redelivered'[m] > redelivered[m]

FewerStepsLeft ==
  /\ \A b \in Bodies : WorkLeft(b)' <= WorkLeft(b) \/ Replenished(b)
  /\ (\E w \in Workers : Working(w)) =>
       \E b \in Bodies : WorkLeft(b)' < WorkLeft(b) \/ Replenished(b)

\* The queue the worker feeds runs out: every step of a delivery, the republish of a
\* failed message included, leaves less to do, on whatever channel; more comes only
\* from a publish and from copies the broker takes back.
WorkRunsOut == [][FewerStepsLeft]_vars

\* Once one worker stays connected, every message is settled and the queue stays
\* empty, although failing messages are republished by the consumer itself.
QueueDrains ==
  (\E w \in Workers : <>[]chan[w]) =>
    <>[](\A b \in Bodies : Total(ready, b) = 0 /\ Unsettled(b) = 0)
=============================================================================
