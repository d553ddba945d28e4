------------------------- MODULE ApplicationOutbox -------------------------
(***************************************************************************)
(* The producing half of the notification pipeline: what the API process   *)
(* does with POST /jobs/{id}/apply (JobHandler.ApplyToJob), the event it   *)
(* publishes to RabbitMQ or parks in the outbox_events table, and the      *)
(* retry worker that republishes parked events.                            *)
(*                                                                         *)
(* A step is one call that leaves the process: one SQL statement, one AMQP *)
(* publish.  Handlers of different requests, the retry worker, the broker  *)
(* and crashes interleave between those calls.  The consuming half is      *)
(* module NotificationWorker.                                              *)
(***************************************************************************)
EXTENDS Naturals, FiniteSets

CONSTANTS
  Requests,      \* apply requests the API receives
  Applications,  \* the (job, user) pairs that can be applied for
  Target,        \* Target[r]: the pair request r asks for
  BatchLimit     \* LIMIT of the outbox scan: retryPendingEvents asks for 50

ASSUME TargetAssumption == Target \in [Requests -> Applications]
ASSUME BatchAssumption == BatchLimit \in Nat \ {0}

VARIABLES
  apiUp,         \* the API process runs
  pool,          \* the API has its database pool: the ping at start succeeded
  brokerUp,      \* RabbitMQ accepts connections
  link,          \* rabbitClient: "none" (nil: the dial at start failed), "open", "closed"
  pc,            \* pc[r]: the call ApplyToJob makes next for r, or its outcome
  applications,  \* pairs whose INSERT has committed (a pair is never inserted twice:
                 \* deleting its job takes the row away, but no job id is given out again)
  addressed,     \* applications whose event carries the applicant's e-mail
  outbox,        \* outbox[a]: status of a's row in outbox_events
  due,           \* outbox rows whose next_attempt_at has been reached
  retry,         \* retry[a]: where a's row is in retryPendingEvents' loop
  (* history, read by no guard *)
  arrived,       \* arrived[a]: events of a the broker accepted, saturating at Many
  faults,        \* faults[a]: the failures that struck a's event
  unmarked       \* applications whose MarkPublished was lost after a publish

handlerVars == <<pc, applications, addressed>>
outboxVars == <<outbox, due, retry>>
linkVars == <<apiUp, pool, brokerUp, link>>
historyVars == <<arrived, faults, unmarked>>
vars == <<handlerVars, outboxVars, linkVars, historyVars>>

-----------------------------------------------------------------------------
(* Types *)

Pending == {"GetJob", "CreateApplication", "GetUser", "Publish", "CreateEvent"}
Outcome == {"201", "409", "error", "aborted"}
FaultKinds == {"insert reply lost", "api crash", "lost on the wire", "not stored"}
Many == 2
Arrivals == 0..Many

TypeOK ==
  /\ apiUp \in BOOLEAN
  /\ pool \in BOOLEAN
  /\ brokerUp \in BOOLEAN
  /\ link \in {"none", "open", "closed"}
  /\ pc \in [Requests -> {"new"} \cup Pending \cup Outcome]
  /\ applications \subseteq Applications
  /\ addressed \subseteq Applications
  /\ outbox \in [Applications -> {"none", "pending", "published"}]
  /\ due \subseteq Applications
  /\ retry \in [Applications -> {"out", "listed", "handed", "failed"}]
  /\ arrived \in [Applications -> Arrivals]
  /\ faults \in [Applications -> SUBSET FaultKinds]
  /\ unmarked \subseteq Applications

Init ==
  /\ apiUp = FALSE
  /\ pool = FALSE
  /\ brokerUp \in BOOLEAN
  /\ link = "none"
  /\ pc = [r \in Requests |-> "new"]
  /\ applications = {}
  /\ addressed = {}
  /\ outbox = [a \in Applications |-> "none"]
  /\ due = {}
  /\ retry = [a \in Applications |-> "out"]
  /\ arrived = [a \in Applications |-> 0]
  /\ faults = [a \in Applications |-> {}]
  /\ unmarked = {}

-----------------------------------------------------------------------------
(* One publish, as Client.Publish reports it.  QueueDeclare is a round trip, *)
(* so a dead connection is an error; the publish frame is only written to    *)
(* the socket, with no confirm, so a connection that dies under it loses the *)
(* event although Publish returned nil.                                      *)

More(n) == IF n < Many THEN n + 1 ELSE n
Fault(a, kind) == faults' = [faults EXCEPT ![a] = @ \cup {kind}]

PublishArrives(a) ==
  /\ link = "open"
  /\ arrived' = [arrived EXCEPT ![a] = More(@)]
  /\ UNCHANGED <<link, faults>>

PublishLostOnTheWire(a) ==
  /\ link = "open"
  /\ link' = "closed"
  /\ Fault(a, "lost on the wire")
  /\ UNCHANGED arrived

PublishErr ==
  /\ link' = IF link = "open" THEN "closed" ELSE link
  /\ UNCHANGED <<arrived, faults>>

-----------------------------------------------------------------------------
(* ApplyToJob *)

\* Past the INSERT, and between it and the hand-over of the event.
Accepted == {"GetUser", "Publish", "CreateEvent", "201"}
Announcing(r) == pc[r] \in Accepted \ {"201"}

At(r, point) == apiUp /\ pc[r] = point
Goto(r, point) == pc' = [pc EXCEPT ![r] = point]

ReceiveApply(r) ==
  /\ At(r, "new")
  /\ Goto(r, "GetJob")
  /\ UNCHANGED <<applications, addressed, outboxVars, linkVars, historyVars>>

\* GetJobByID: the job is there, or the request is answered 404 or 500.
CheckJob(r) ==
  /\ At(r, "GetJob")
  /\ \/ pool /\ Goto(r, "CreateApplication")
     \/ Goto(r, "error")
  /\ UNCHANGED <<applications, addressed, outboxVars, linkVars, historyVars>>

\* Mutant: nothing enforces unique_job_user_application.
CreateApplicationNotUnique(r) ==
  /\ At(r, "CreateApplication")
  /\ pool
  /\ applications' = applications \cup {Target[r]}
  /\ Goto(r, "GetUser")
  /\ UNCHANGED <<addressed, outboxVars, linkVars, historyVars>>

CreateApplication(r) ==
  /\ At(r, "CreateApplication")
  /\ pool
  /\ Target[r] \notin applications
  /\ applications' = applications \cup {Target[r]}
  /\ Goto(r, "GetUser")
  /\ UNCHANGED <<addressed, outboxVars, linkVars, historyVars>>

\* unique_job_user_application is violated: SQLSTATE 23505.
AlreadyApplied(r) ==
  /\ At(r, "CreateApplication")
  /\ pool
  /\ Target[r] \in applications
  /\ Goto(r, "409")
  /\ UNCHANGED <<applications, addressed, outboxVars, linkVars, historyVars>>

\* Mutant: the return after the 500 is missing and the event goes out anyway.
CreateApplicationErrFallsThrough(r) ==
  /\ At(r, "CreateApplication")
  /\ Goto(r, "GetUser")
  /\ UNCHANGED <<applications, addressed, outboxVars, linkVars, historyVars>>

\* Any other error: the handler answers 500, and cannot tell whether the row
\* was committed before the reply was lost.
CreateApplicationErr(r) ==
  /\ At(r, "CreateApplication")
  /\ Goto(r, "error")
  /\ \/ UNCHANGED <<applications, faults>>
     \/ /\ pool
        /\ Target[r] \notin applications
        /\ applications' = applications \cup {Target[r]}
        /\ Fault(Target[r], "insert reply lost")
  /\ UNCHANGED <<addressed, outboxVars, linkVars, arrived, unmarked>>

\* publishNewApplicationEvent swallows a failed lookup: the e-mail stays "".
GetUserEmail(r) ==
  /\ At(r, "GetUser")
  /\ \/ pool /\ addressed' = addressed \cup {Target[r]}
     \/ UNCHANGED addressed
  /\ Goto(r, "Publish")
  /\ UNCHANGED <<applications, outboxVars, linkVars, historyVars>>

PublishEvent(r) ==
  /\ At(r, "Publish")
  /\ PublishArrives(Target[r])
  /\ Goto(r, "201")
  /\ UNCHANGED <<applications, addressed, outboxVars, apiUp, pool, brokerUp, unmarked>>

LosePublishedEvent(r) ==
  /\ At(r, "Publish")
  /\ PublishLostOnTheWire(Target[r])
  /\ Goto(r, "201")
  /\ UNCHANGED <<applications, addressed, outboxVars, apiUp, pool, brokerUp, unmarked>>

\* Mutant: a failed publish is taken for a successful one.
PublishEventErrIgnored(r) ==
  /\ At(r, "Publish")
  /\ PublishErr
  /\ Goto(r, "201")
  /\ UNCHANGED <<applications, addressed, outboxVars, apiUp, pool, brokerUp, unmarked>>

PublishEventErr(r) ==
  /\ At(r, "Publish")
  /\ PublishErr
  /\ Goto(r, "CreateEvent")
  /\ UNCHANGED <<applications, addressed, outboxVars, apiUp, pool, brokerUp, unmarked>>

\* The row is due at once: next_attempt_at = NOW().
CreateEvent(r) ==
  /\ At(r, "CreateEvent")
  /\ pool
  /\ outbox' = [outbox EXCEPT ![Target[r]] = "pending"]
  /\ due' = due \cup {Target[r]}
  /\ Goto(r, "201")
  /\ UNCHANGED <<applications, addressed, retry, linkVars, historyVars>>

\* CreateEvent's error is discarded; the client is answered 201 all the same.
CreateEventErr(r) ==
  /\ At(r, "CreateEvent")
  /\ Fault(Target[r], "not stored")
  /\ Goto(r, "201")
  /\ UNCHANGED <<applications, addressed, outboxVars, linkVars, arrived, unmarked>>

-----------------------------------------------------------------------------
(* retryPendingEvents: one goroutine of the API process, started only when   *)
(* the dial at start succeeded.  It takes the rows of one scan in turn.      *)

Retrying == apiUp /\ link # "none"
BetweenRows == \A b \in Applications : retry[b] \in {"out", "listed"}
\* Mutant: the scan looks for the wrong status.
DueRowsPublished == {a \in due : outbox[a] = "published"}
\* Mutant: the scan forgets status = 'pending'.
DueRowsOfAnyStatus == {a \in due : outbox[a] # "none"}
DueRows == {a \in due : outbox[a] = "pending"}

\* SELECT ... status = 'pending' AND next_attempt_at <= NOW() ... LIMIT.  A
\* failed or empty scan waits for the next tick and changes nothing.
ListPending ==
  /\ Retrying
  /\ pool
  /\ \A b \in Applications : retry[b] = "out"
  /\ \E rows \in SUBSET DueRows :
       /\ rows # {}
       /\ rows = DueRows \/ Cardinality(rows) = BatchLimit
       /\ Cardinality(rows) <= BatchLimit
       /\ retry' = [a \in Applications |-> IF a \in rows THEN "listed" ELSE "out"]
  /\ UNCHANGED <<handlerVars, outbox, due, linkVars, historyVars>>

TakeRow(a) == Retrying /\ BetweenRows /\ retry[a] = "listed"

RetryPublish(a) ==
  /\ TakeRow(a)
  /\ PublishArrives(a)
  /\ retry' = [retry EXCEPT ![a] = "handed"]
  /\ UNCHANGED <<handlerVars, outbox, due, apiUp, pool, brokerUp, unmarked>>

LoseRetriedEvent(a) ==
  /\ TakeRow(a)
  /\ PublishLostOnTheWire(a)
  /\ retry' = [retry EXCEPT ![a] = "handed"]
  /\ UNCHANGED <<handlerVars, outbox, due, apiUp, pool, brokerUp, unmarked>>

RetryPublishErr(a) ==
  /\ TakeRow(a)
  /\ PublishErr
  /\ retry' = [retry EXCEPT ![a] = "failed"]
  /\ UNCHANGED <<handlerVars, outbox, due, apiUp, pool, brokerUp, unmarked>>

\* Mutant: the UPDATE matches no row.
MarkPublishedNothing(a) ==
  /\ Retrying
  /\ retry[a] = "handed"
  /\ retry' = [retry EXCEPT ![a] = "out"]
  /\ UNCHANGED <<handlerVars, outbox, due, linkVars, historyVars>>

MarkPublished(a) ==
  /\ Retrying
  /\ pool
  /\ retry[a] = "handed"
  /\ outbox' = [outbox EXCEPT ![a] = "published"]
  /\ retry' = [retry EXCEPT ![a] = "out"]
  /\ UNCHANGED <<handlerVars, due, linkVars, historyVars>>

MarkPublishedErr(a) ==
  /\ Retrying
  /\ retry[a] = "handed"
  /\ retry' = [retry EXCEPT ![a] = "out"]
  /\ unmarked' = unmarked \cup {a}
  /\ UNCHANGED <<handlerVars, outbox, due, linkVars, arrived, faults>>

\* Mutant: a row is given up after a failed retry.
MarkRetryGivesUp(a) ==
  /\ Retrying
  /\ retry[a] = "failed"
  /\ retry' = [retry EXCEPT ![a] = "out"]
  /\ outbox' = [outbox EXCEPT ![a] = "abandoned"]
  /\ UNCHANGED <<handlerVars, due, linkVars, historyVars>>

\* next_attempt_at moves into the future; when the UPDATE fails the row stays due.
MarkRetry(a) ==
  /\ Retrying
  /\ retry[a] = "failed"
  /\ retry' = [retry EXCEPT ![a] = "out"]
  /\ \/ pool /\ due' = due \ {a}
     \/ UNCHANGED due
  /\ UNCHANGED <<handlerVars, outbox, linkVars, historyVars>>

\* The clock reaches next_attempt_at.
BecomeDue(a) ==
  /\ outbox[a] = "pending"
  /\ a \notin due
  /\ due' = due \cup {a}
  /\ UNCHANGED <<handlerVars, outbox, retry, linkVars, historyVars>>

-----------------------------------------------------------------------------
(* Process, connection and broker *)

\* The pool is opened and the client dialled once, at start, and never again: after
\* a failed ping both repositories hold a nil pool for the life of the process.  A
\* dial can fail although the broker runs.
StartApi ==
  /\ ~apiUp
  /\ apiUp' = TRUE
  /\ pool' \in BOOLEAN
  /\ \/ brokerUp /\ link' = "open"
     \/ link' = "none"
  /\ UNCHANGED <<brokerUp, handlerVars, outboxVars, historyVars>>

\* main has no shutdown path: a signal ends the process like a crash, with
\* every handler and the retry loop wherever they are.
CrashApi ==
  /\ apiUp
  /\ apiUp' = FALSE
  /\ pool' = FALSE
  /\ link' = "none"
  /\ pc' = [r \in Requests |-> IF pc[r] \in Pending THEN "aborted" ELSE pc[r]]
  /\ retry' = [a \in Applications |-> "out"]
  /\ faults' = [a \in Applications |->
                  IF \E r \in Requests : Target[r] = a /\ Announcing(r)
                  THEN faults[a] \cup {"api crash"} ELSE faults[a]]
  /\ unmarked' = unmarked \cup {a \in Applications : retry[a] = "handed"}
  /\ UNCHANGED <<brokerUp, applications, addressed, outbox, due, arrived>>

LoseLink ==
  /\ link = "open"
  /\ link' = "closed"
  /\ UNCHANGED <<apiUp, pool, brokerUp, handlerVars, outboxVars, historyVars>>

StopBroker ==
  /\ brokerUp
  /\ brokerUp' = FALSE
  /\ link' = IF link = "open" THEN "closed" ELSE link
  /\ UNCHANGED <<apiUp, pool, handlerVars, outboxVars, historyVars>>

StartBroker ==
  /\ ~brokerUp
  /\ brokerUp' = TRUE
  /\ UNCHANGED <<apiUp, pool, link, handlerVars, outboxVars, historyVars>>

-----------------------------------------------------------------------------
(* Specification *)

ApplyToJob(r) ==
  \/ ReceiveApply(r) \/ CheckJob(r)
  \/ CreateApplication(r) \/ AlreadyApplied(r) \/ CreateApplicationErr(r)
  \/ GetUserEmail(r)
  \/ PublishEvent(r) \/ LosePublishedEvent(r) \/ PublishEventErr(r)
  \/ CreateEvent(r) \/ CreateEventErr(r)

RetryRow(a) ==
  \/ RetryPublish(a) \/ LoseRetriedEvent(a) \/ RetryPublishErr(a)
  \/ MarkPublished(a) \/ MarkPublishedErr(a) \/ MarkRetry(a)

Environment == StartApi \/ CrashApi \/ LoseLink \/ StopBroker \/ StartBroker

Next ==
  \/ \E r \in Requests : ApplyToJob(r)
  \/ ListPending
  \/ \E a \in Applications : RetryRow(a) \/ BecomeDue(a)
  \/ Environment

Spec == Init /\ [][Next]_vars

(* The ticker fires for ever and the loop runs through its batch (WF); the   *)
(* clock advances (WF); PostgreSQL does not fail every attempt to record a   *)
(* publish (SF); RabbitMQ comes back after a stop (WF).  Nothing makes the   *)
(* API process restart: docker-compose.yml sets no restart policy.           *)
Fairness ==
  /\ WF_vars(ListPending)
  /\ WF_vars(StartBroker)
  /\ \A a \in Applications :
       /\ WF_vars(RetryPublish(a) \/ LoseRetriedEvent(a) \/ RetryPublishErr(a))
       /\ WF_vars(MarkPublished(a) \/ MarkPublishedErr(a))
       /\ SF_vars(MarkPublished(a))
       /\ WF_vars(MarkRetry(a))
       /\ WF_vars(BecomeDue(a))

FairSpec == Spec /\ Fairness

-----------------------------------------------------------------------------
(* Properties *)

\* No event is forgotten silently.  Once an application is stored, its event has
\* reached the broker, waits in the outbox, or is still in the hands of the
\* request that stored it; otherwise one of the four failures FaultKinds names
\* struck it (ApplyToJob stores first and announces afterwards, in separate calls).
EventAccountedFor ==
  \A a \in applications :
    \/ arrived[a] > 0
    \/ outbox[a] = "pending"
    \/ \E r \in Requests : Target[r] = a /\ Announcing(r)
    \/ faults[a] # {}

\* An application is announced twice only when its row could not be marked after
\* a publish: the retry worker never competes with the request, with a second
\* request for the same pair, or with itself after a restart.
OnceUnlessUnmarked ==
  \A a \in Applications : arrived[a] = Many => a \in unmarked

\* An event speaks of a stored application: nothing is published or parked for
\* an INSERT that failed.  (README: "API writes application to PostgreSQL first".)
NoPhantomEvent ==
  \A a \in Applications : arrived[a] > 0 \/ outbox[a] # "none" => a \in applications

\* Of all requests for a pair, however they interleave, one at most passes the
\* INSERT; the others are answered 409 or an error.
OneAcceptance ==
  \A r, s \in Requests :
    Target[r] = Target[s] /\ pc[r] \in Accepted /\ pc[s] \in Accepted => r = s

\* A row marked published is never sent again, whatever batch was read before.
PublishedRowsRest ==
  [][\A a \in Applications : outbox[a] = "published" => arrived'[a] = arrived[a]]_vars

\* Once the API stays up, with its pool and its connection to the broker, every parked
\* event is republished, although each scan returns BatchLimit rows at most.
DrainedWhenConnected ==
  <>[](apiUp /\ pool /\ link = "open") =>
    \A a \in Applications : outbox[a] = "pending" ~> outbox[a] = "published"

\* What README.md says of a failed publish: "event is stored in outbox_events
\* table".  It is answered 201 all the same when that INSERT fails.
FailedPublishStored ==
  \A r \in Requests :
    /\ pc[r] = "201"
    /\ arrived[Target[r]] = 0
    /\ "lost on the wire" \notin faults[Target[r]]
    => outbox[Target[r]] # "none"

\* What README.md says of the outbox: "Outbox retry worker republishes pending
\* events asynchronously".  With the API, its pool and the broker all up for good, a
\* client that was not connected at start, or lost its connection, still never does.
PendingRepublished ==
  <>[](apiUp /\ pool /\ brokerUp) =>
    \A a \in Applications : outbox[a] = "pending" ~> outbox[a] = "published"

=============================================================================
