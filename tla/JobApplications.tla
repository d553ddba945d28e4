--------------------------- MODULE JobApplications ---------------------------
(***************************************************************************)
(* The jobs and applications tables under the API's requests: posting a    *)
(* job, applying, listing a job's applications, deciding about one and     *)
(* deleting the job.  Applying and deciding take two statements, in no     *)
(* transaction, so another request's statement can fall between them; the  *)
(* properties say what an answer still means then.                         *)
(*                                                                         *)
(* A step is one SQL statement.  Applications are named by their (job,     *)
(* seeker) pair instead of their id: a pair is inserted once at most.      *)
(* What an application announces is left to ApplicationOutbox.             *)
(***************************************************************************)
CONSTANTS
  Requests,    \* HTTP requests, past the auth middleware
  Jobs,        \* job ids, never given out twice (SERIAL)
  Seekers,     \* users with the role jobseeker
  Employers,   \* users with the role employer
  Decisions,   \* the statuses an employer may set: reviewed, accepted, rejected
  Nobody       \* posted_by of an id not given out

ASSUME NobodyAssumption == Nobody \notin Employers
ASSUME DecisionsAssumption == Decisions \cap {"none", "pending"} = {}

VARIABLES
  jobs,      \* ids of the rows of jobs
  owner,     \* owner[j]: posted_by; kept when the row is deleted
  status,    \* status[a]: that of application a, "none" when there is no row
  ask,       \* ask[r]: what request r asks for
  at,        \* at[r]: the statement r executes next, or its answer
  listed,    \* listed[r]: the applications r was answered with
  (* history, read by no guard *)
  during,    \* during[r]: what the two tables held while r was in progress
  failed     \* requests that got an error other than a constraint's from the database

tables == <<jobs, owner, status>>
vars == <<tables, ask, at, listed, during, failed>>

Applications == Jobs \X Seekers
Statuses == {"none", "pending"} \cup Decisions

Asks ==
  [op : {"post"}, employer : Employers]
    \cup [op : {"apply"}, application : Applications]
    \cup [op : {"list", "delete"}, job : Jobs]
    \cup [op : {"decide"}, application : Applications, employer : Employers,
          decision : Decisions]
NoAsk == [op |-> "none"]

Statements == {"CreateJob", "GetJobByID", "CreateApplication", "GetApplications",
               "UpdateStatus", "SelectApplication", "DeleteJob"}
Answers == {"200", "201", "204", "403", "404", "409", "500"}

Rows == [application : Applications, status : Statuses \ {"none"}]
Content == [jobs : SUBSET Jobs, status : [Applications -> Statuses]]
Tables == [jobs |-> jobs, status |-> status]

TypeOK ==
  /\ jobs \subseteq Jobs
  /\ owner \in [Jobs -> Employers \cup {Nobody}]
  /\ status \in [Applications -> Statuses]
  /\ ask \in [Requests -> Asks \cup {NoAsk}]
  /\ at \in [Requests -> {"new"} \cup Statements \cup Answers]
  /\ listed \in [Requests -> SUBSET Rows]
  /\ during \in [Requests -> SUBSET Content]
  /\ failed \subseteq Requests
  /\ \A r \in Requests : ask[r] = NoAsk <=> at[r] = "new"

\* Jobs posted before the API started are still there.
Init ==
  /\ owner \in [Jobs -> Employers \cup {Nobody}]
  /\ jobs = {j \in Jobs : owner[j] # Nobody}
  /\ status = [a \in Applications |-> "none"]
  /\ ask = [r \in Requests |-> NoAsk]
  /\ at = [r \in Requests |-> "new"]
  /\ listed = [r \in Requests |-> {}]
  /\ during = [r \in Requests |-> {}]
  /\ failed = {}

-----------------------------------------------------------------------------
(* A request's steps *)

FirstStatement(op) ==
  CASE op = "post" -> "CreateJob"
    [] op = "apply" -> "GetJobByID"
    [] op = "list" -> "GetApplications"
    [] op = "decide" -> "UpdateStatus"
    [] op = "delete" -> "DeleteJob"

Receive(r) ==
  /\ at[r] = "new"
  /\ \E q \in Asks :
       /\ ask' = [ask EXCEPT ![r] = q]
       /\ at' = [at EXCEPT ![r] = FirstStatement(q.op)]
  /\ UNCHANGED <<tables, listed, failed>>

\* r has its result and goes on to another statement or to its answer.
Then(r, what) ==
  /\ at' = [at EXCEPT ![r] = what]
  /\ UNCHANGED ask

\* The statement has committed; without its reply the answer is 500, or none.
Committed(r, code) ==
  \/ Then(r, code) /\ UNCHANGED failed
  \/ Then(r, "500") /\ failed' = failed \cup {r}

\* The statement fails before it has any effect, or the API ends before it.
Fail(r) ==
  /\ at[r] \in Statements
  /\ at' = [at EXCEPT ![r] = "500"]
  /\ failed' = failed \cup {r}
  /\ UNCHANGED <<tables, ask, listed>>

-----------------------------------------------------------------------------
(* Posting and deleting a job *)

CreateJob(r) ==
  /\ at[r] = "CreateJob"
  /\ \E j \in Jobs :
       /\ owner[j] = Nobody
       /\ owner' = [owner EXCEPT ![j] = ask[r].employer]
       /\ jobs' = jobs \cup {j}
  /\ Committed(r, "201")
  /\ UNCHANGED <<status, listed>>

\* Mutant: applications.job_id without ON DELETE CASCADE, or any constraint.
DeleteJobOnly(r) ==
  /\ at[r] = "DeleteJob"
  /\ ask[r].job \in jobs
  /\ jobs' = jobs \ {ask[r].job}
  /\ Committed(r, "204")
  /\ UNCHANGED <<owner, status, listed>>

\* ON DELETE CASCADE takes the applications along.
DeleteJob(r) ==
  /\ at[r] = "DeleteJob"
  /\ ask[r].job \in jobs
  /\ jobs' = jobs \ {ask[r].job}
  /\ status' = [a \in Applications |-> IF a[1] = ask[r].job THEN "none" ELSE status[a]]
  /\ Committed(r, "204")
  /\ UNCHANGED <<owner, listed>>

DeleteJobNotFound(r) ==
  /\ at[r] = "DeleteJob"
  /\ ask[r].job \notin jobs
  /\ Then(r, "404")
  /\ UNCHANGED <<tables, listed, failed>>

-----------------------------------------------------------------------------
(* ApplyToJob and GetApplicationsByJobID *)

JobAsked(r) == ask[r].application[1]
StatusAsked(r) == status[ask[r].application]

CheckJob(r) ==
  /\ at[r] = "GetJobByID"
  /\ \/ JobAsked(r) \in jobs /\ Then(r, "CreateApplication")
     \/ JobAsked(r) \notin jobs /\ Then(r, "404")
  /\ UNCHANGED <<tables, listed, failed>>

\* Mutant: the INSERT runs in a transaction nobody commits.
CreateApplicationForgotten(r) ==
  /\ at[r] = "CreateApplication"
  /\ JobAsked(r) \in jobs
  /\ StatusAsked(r) = "none"
  /\ Then(r, "201")
  /\ UNCHANGED <<tables, listed, failed>>

\* Mutant: status has no DEFAULT 'pending'.
CreateApplicationNoStatus(r) ==
  /\ at[r] = "CreateApplication"
  /\ JobAsked(r) \in jobs
  /\ StatusAsked(r) = "none"
  /\ status' = [status EXCEPT ![ask[r].application] = ""]
  /\ Committed(r, "201")
  /\ UNCHANGED <<jobs, owner, listed>>

CreateApplication(r) ==
  /\ at[r] = "CreateApplication"
  /\ JobAsked(r) \in jobs
  /\ StatusAsked(r) = "none"
  /\ status' = [status EXCEPT ![ask[r].application] = "pending"]
  /\ Committed(r, "201")
  /\ UNCHANGED <<jobs, owner, listed>>

\* Mutant: every violated constraint is an unexpected error.
AlreadyAppliedUnknown(r) ==
  /\ at[r] = "CreateApplication"
  /\ JobAsked(r) \in jobs
  /\ StatusAsked(r) # "none"
  /\ Then(r, "500")
  /\ UNCHANGED <<tables, listed, failed>>

\* unique_job_user_application is violated: SQLSTATE 23505.
AlreadyApplied(r) ==
  /\ at[r] = "CreateApplication"
  /\ JobAsked(r) \in jobs
  /\ StatusAsked(r) # "none"
  /\ Then(r, "409")
  /\ UNCHANGED <<tables, listed, failed>>

\* The job has gone since the check: the foreign key is violated, SQLSTATE 23503,
\* which CreateApplication does not tell from any other error.
JobGone(r) ==
  /\ at[r] = "CreateApplication"
  /\ JobAsked(r) \notin jobs
  /\ Then(r, "500")
  /\ UNCHANGED <<tables, listed, failed>>

\* Whether the job exists is not asked: the list of a missing job is empty.
ListApplications(r) ==
  /\ at[r] = "GetApplications"
  /\ Then(r, "200")
  /\ listed' = [listed EXCEPT ![r] =
                  {[application |-> a, status |-> status[a]] :
                     a \in {b \in Applications : b[1] = ask[r].job /\ status[b] # "none"}}]
  /\ UNCHANGED <<tables, failed>>

-----------------------------------------------------------------------------
(* UpdateApplicationStatus *)

\* Mutant: the UPDATE does not ask who posted the job.
MayDecideAnyEmployer(r) == JobAsked(r) \in jobs /\ StatusAsked(r) # "none"

\* Mutant: the UPDATE takes undecided applications only.
MayDecideOnce(r) ==
  /\ JobAsked(r) \in jobs /\ StatusAsked(r) = "pending"
  /\ owner[JobAsked(r)] = ask[r].employer

\* The WHERE clause: there is such an application, to a job this employer posted.
MayDecide(r) ==
  /\ JobAsked(r) \in jobs /\ StatusAsked(r) # "none"
  /\ owner[JobAsked(r)] = ask[r].employer

UpdateStatus(r) ==
  /\ at[r] = "UpdateStatus"
  /\ MayDecide(r)
  /\ status' = [status EXCEPT ![ask[r].application] = ask[r].decision]
  /\ Committed(r, "200")
  /\ UNCHANGED <<jobs, owner, listed>>

\* sql.ErrNoRows: another statement is to tell why.
UpdateNoRow(r) ==
  /\ at[r] = "UpdateStatus"
  /\ ~MayDecide(r)
  /\ Then(r, "SelectApplication")
  /\ UNCHANGED <<tables, listed, failed>>

\* Mutant: the two answers are swapped.
SelectApplicationSwapped(r) ==
  /\ at[r] = "SelectApplication"
  /\ \/ StatusAsked(r) = "none" /\ Then(r, "403")
     \/ StatusAsked(r) # "none" /\ Then(r, "404")
  /\ UNCHANGED <<tables, listed, failed>>

SelectApplication(r) ==
  /\ at[r] = "SelectApplication"
  /\ \/ StatusAsked(r) = "none" /\ Then(r, "404")
     \/ StatusAsked(r) # "none" /\ Then(r, "403")
  /\ UNCHANGED <<tables, listed, failed>>

-----------------------------------------------------------------------------
(* Specification *)

Request(r) ==
  \/ Receive(r) \/ Fail(r)
  \/ CreateJob(r) \/ DeleteJob(r) \/ DeleteJobNotFound(r)
  \/ CheckJob(r) \/ CreateApplication(r) \/ AlreadyApplied(r) \/ JobGone(r)
  \/ ListApplications(r)
  \/ UpdateStatus(r) \/ UpdateNoRow(r) \/ SelectApplication(r)

\* History: requests in progress see what the step leaves in the tables.
Watch ==
  during' = [r \in Requests |->
               IF at[r] \in Statements \/ at'[r] \in Statements
               THEN during[r] \cup {Tables'} ELSE during[r]]

Next == \E r \in Requests : Request(r) /\ Watch

Spec == Init /\ [][Next]_vars

-----------------------------------------------------------------------------
(* Properties *)

Answered(r, op, code) == ask[r].op = op /\ at[r] = code
Had(t, a) == t.status[a] # "none"
RowsOf(t, j) ==
  {[application |-> a, status |-> t.status[a]] :
     a \in {b \in Applications : b[1] = j /\ Had(t, b)}}

AnswerWasTrue(r) ==
  /\ Answered(r, "apply", "404") => \E t \in during[r] : JobAsked(r) \notin t.jobs
  /\ Answered(r, "apply", "409") => \E t \in during[r] : Had(t, ask[r].application)
  /\ Answered(r, "apply", "201") => \E t \in during[r] : t.status[ask[r].application] = "pending"
  /\ Answered(r, "decide", "404") => \E t \in during[r] : ~Had(t, ask[r].application)
  /\ Answered(r, "decide", "403") => \E t \in during[r] : Had(t, ask[r].application)
  /\ Answered(r, "decide", "200") =>
       \E t \in during[r] : t.status[ask[r].application] = ask[r].decision
  /\ Answered(r, "delete", "204") \/ Answered(r, "delete", "404") =>
       \E t \in during[r] : ask[r].job \notin t.jobs
  /\ Answered(r, "list", "200") => \E t \in during[r] : listed[r] = RowsOf(t, ask[r].job)

\* Whatever runs between a request's two statements, its answer was true of the
\* database at some moment while it was in progress: the job or the application
\* was missing (404), there (403, 409), decided as asked (200), deleted (204),
\* stored (201), or there was just what was listed.
AnswersWereTrue == \A r \in Requests : AnswerWasTrue(r)

\* The employer who posted the job is told 403 only if the application arrived
\* while the request was in progress, after its UPDATE had found no row.
PosterRefusedOnlyWhenRaced ==
  \A r \in Requests :
    /\ Answered(r, "decide", "403")
    /\ owner[JobAsked(r)] = ask[r].employer
    => \E t \in during[r] : ~Had(t, ask[r].application)

\* A 500 comes from the database, with one exception: an apply request whose job
\* was there at the check and deleted before the INSERT.
ServerErrorsExplained ==
  \A r \in Requests :
    at[r] = "500" /\ r \notin failed =>
      /\ ask[r].op = "apply"
      /\ \E t, u \in during[r] : JobAsked(r) \in t.jobs /\ JobAsked(r) \notin u.jobs

\* No application outlives its job, whichever of INSERT and DELETE comes first.
NoOrphans == \A a \in Applications : status[a] # "none" => a[1] \in jobs

\* An application answered 201 stays until its job goes, whoever decides about it.
AppliedUntilJobGone ==
  \A r \in Requests :
    Answered(r, "apply", "201") =>
      status[ask[r].application] # "none" \/ JobAsked(r) \notin jobs

\* Every decision in the table was asked for by the employer who posted the job;
\* a request answered 403 or 404 has decided nothing.
DecidedByPoster ==
  \A a \in Applications :
    status[a] \in Decisions =>
      \E r \in Requests :
        /\ ask[r].op = "decide" /\ at[r] \in {"200", "500"}
        /\ ask[r].application = a
        /\ ask[r].decision = status[a]
        /\ ask[r].employer = owner[a[1]]
=============================================================================
