----------------------- MODULE JobApplications_proofs -----------------------
(***************************************************************************)
(* The answers of the job and application requests, for any number of      *)
(* them.  A request's history only grows, so what was true at a moment of  *)
(* it stays so (Witnessed); the step of another request can disturb only   *)
(* what is said of the tables.  Between its two statements a request keeps *)
(* the moment its first one saw: the job that was there (FoundJob), or why *)
(* the UPDATE found no row (Refusable).                                    *)
(***************************************************************************)
EXTENDS JobApplications, TLAPS

OpOf(statement) ==
  CASE statement = "CreateJob" -> "post"
    [] statement \in {"GetJobByID", "CreateApplication"} -> "apply"
    [] statement = "GetApplications" -> "list"
    [] statement \in {"UpdateStatus", "SelectApplication"} -> "decide"
    [] statement = "DeleteJob" -> "delete"

FoundJob(r) == \E t \in during[r] : JobAsked(r) \in t.jobs
LacksJob(r) == \E t \in during[r] : JobAsked(r) \notin t.jobs

\* The job is another employer's, now and for ever, or the application was missing.
Refusable(r) ==
  \/ owner[JobAsked(r)] \notin {ask[r].employer, Nobody}
  \/ \E t \in during[r] : ~Had(t, ask[r].application)

Witnessed(r) ==
  /\ at[r] \in Statements => ask[r].op = OpOf(at[r]) /\ Tables \in during[r]
  /\ at[r] = "CreateApplication" => FoundJob(r)
  /\ at[r] = "SelectApplication" \/ Answered(r, "decide", "403") => Refusable(r)
  /\ at[r] = "500" /\ r \notin failed => ask[r].op = "apply" /\ FoundJob(r) /\ LacksJob(r)
  /\ AnswerWasTrue(r)

\* A job in the table was posted; the job of a stored application was, and its id
\* is not given out again when it is gone.
JobsPosted == \A j \in jobs : owner[j] # Nobody
StoredOrGone ==
  \A r \in Requests :
    Answered(r, "apply", "201") =>
      /\ owner[JobAsked(r)] # Nobody
      /\ status[ask[r].application] # "none" \/ JobAsked(r) \notin jobs

TableInv == JobsPosted /\ StoredOrGone /\ NoOrphans /\ DecidedByPoster

IInv == TypeOK /\ TableInv /\ \A r \in Requests : Witnessed(r)

-----------------------------------------------------------------------------
(* What every step does *)

\* The types of what a request asks for.
LEMMA AskTypes ==
  ASSUME TypeOK, NEW r \in Requests, at[r] # "new"
  PROVE  /\ ask[r] \in Asks
         /\ ask[r].op \in {"apply", "decide"} =>
              ask[r].application \in Applications /\ JobAsked(r) \in Jobs
         /\ ask[r].op \in {"post", "decide"} => ask[r].employer \in Employers
         /\ ask[r].op = "decide" => ask[r].decision \in Decisions
         /\ ask[r].op \in {"list", "delete"} => ask[r].job \in Jobs
<1>1. ask[r] \in Asks
  BY DEF TypeOK
<1>. QED
  BY <1>1 DEF Asks, Applications, JobAsked

\* No step of r touches another request or the owner of a posted job.
Frame(r) ==
  /\ \A g \in Requests \ {r} :
       /\ at'[g] = at[g] /\ ask'[g] = ask[g] /\ listed'[g] = listed[g]
       /\ g \in failed <=> g \in failed'
  /\ \A j \in Jobs : owner[j] # Nobody => owner'[j] = owner[j]

\* The histories grow, and see the step in progress.
LEMMA Watching ==
  ASSUME TypeOK, NEW r \in Requests, Watch
  PROVE  /\ during[r] \subseteq during'[r]
         /\ at[r] \in Statements \/ at'[r] \in Statements => Tables' \in during'[r]
  BY DEF TypeOK, Watch

LEMMA WatchTypes ==
  ASSUME TypeOK, Watch, jobs' \subseteq Jobs, status' \in [Applications -> Statuses]
  PROVE  during' \in [Requests -> SUBSET Content]
<1>1. Tables' \in Content
  BY DEF Tables, Content
<1>. QED
  BY <1>1 DEF TypeOK, Watch

\* What another request has witnessed it has witnessed for good.
LEMMA OthersKeep ==
  ASSUME IInv, NEW r \in Requests, Frame(r), Watch, NEW g \in Requests \ {r}
  PROVE  Witnessed(g)'
<1>. DEFINE a == ask[g].application
<1>1. at'[g] = at[g] /\ ask'[g] = ask[g] /\ listed'[g] = listed[g]
      /\ (g \in failed <=> g \in failed')
  BY DEF Frame
<1>2. during[g] \subseteq during'[g] /\ (at[g] \in Statements => Tables' \in during'[g])
  BY <1>1, Watching DEF IInv
<1>3. Witnessed(g)
  BY DEF IInv
<1>4. /\ FoundJob(g) => FoundJob(g)'
      /\ LacksJob(g) => LacksJob(g)'
  BY <1>1, <1>2 DEF FoundJob, LacksJob, JobAsked
<1>5. at[g] = "SelectApplication" \/ Answered(g, "decide", "403") => Refusable(g)'
  <2>. SUFFICES ASSUME at[g] = "SelectApplication" \/ Answered(g, "decide", "403")
                PROVE  Refusable(g)'
    OBVIOUS
  <2>1. Refusable(g) /\ ask[g].op = "decide" /\ at[g] # "new"
    BY <1>3 DEF Witnessed, Answered, OpOf, Statements
  <2>2. JobAsked(g) \in Jobs
    BY <2>1, AskTypes DEF IInv
  <2>3. CASE owner[JobAsked(g)] \notin {ask[g].employer, Nobody}
    BY <2>2, <2>3, <1>1 DEF Frame, Refusable, JobAsked
  <2>4. CASE \E t \in during[g] : ~Had(t, ask[g].application)
    BY <2>4, <1>1, <1>2 DEF Refusable, Had
  <2>. QED
    BY <2>1, <2>3, <2>4 DEF Refusable
<1>6. AnswerWasTrue(g)'
  BY <1>1, <1>2, <1>3 DEF Witnessed, AnswerWasTrue, Answered, JobAsked, Had, RowsOf
<1>. QED
  BY <1>1, <1>2, <1>3, <1>4, <1>5, <1>6 DEF Witnessed, Answered

-----------------------------------------------------------------------------

THEOREM InitIInv == Init => IInv
<1>. SUFFICES ASSUME Init PROVE IInv
  OBVIOUS
<1>. USE DEF Init
<1>1. TypeOK
  BY DEF TypeOK, Statuses
<1>2. TableInv
  BY DecisionsAssumption
     DEF TableInv, JobsPosted, StoredOrGone, NoOrphans, DecidedByPoster, Answered
<1>3. \A r \in Requests : Witnessed(r)
  BY DEF Witnessed, Answered, AnswerWasTrue, Statements
<1>. QED
  BY <1>1, <1>2, <1>3 DEF IInv

LEMMA ReceiveKeeps ==
  ASSUME IInv, NEW r \in Requests, Receive(r), Watch
  PROVE  IInv'
<1>1. PICK q \in Asks :
        ask' = [ask EXCEPT ![r] = q] /\ at' = [at EXCEPT ![r] = FirstStatement(q.op)]
  BY DEF Receive
<1>2. q # NoAsk /\ FirstStatement(q.op) \in Statements /\ OpOf(FirstStatement(q.op)) = q.op
      /\ FirstStatement(q.op) \notin {"CreateApplication", "SelectApplication"}
  BY DEF Asks, NoAsk, FirstStatement, Statements, OpOf
<1>3. UNCHANGED <<jobs, owner, status, listed, failed>> /\ at[r] = "new"
  BY DEF Receive, tables
<1>4. TypeOK'
  <2>1. during' \in [Requests -> SUBSET Content]
    BY <1>3, WatchTypes DEF IInv, TypeOK
  <2>2. \A g \in Requests : ask'[g] = NoAsk <=> at'[g] = "new"
    BY <1>1, <1>2 DEF IInv, TypeOK, Statements
  <2>. QED
    BY <1>1, <1>2, <1>3, <2>1, <2>2 DEF IInv, TypeOK
<1>5. Frame(r)
  BY <1>1, <1>3 DEF Frame, IInv, TypeOK
<1>6. Witnessed(r)'
  <2>1. at'[r] = FirstStatement(q.op) /\ ask'[r] = q
    BY <1>1 DEF IInv, TypeOK
  <2>2. Tables' \in during'[r]
    BY <2>1, <1>2, Watching DEF IInv
  <2>. QED
    BY <2>1, <2>2, <1>2 DEF Witnessed, AnswerWasTrue, Answered, Statements
<1>7. TableInv'
  <2>1. \A g \in Requests : g # r => at'[g] = at[g] /\ ask'[g] = ask[g]
    BY <1>5 DEF Frame
  <2>2. at'[r] \notin {"200", "201", "500"} /\ at[r] \notin {"200", "201", "500"}
    BY <1>1, <1>2, <1>3 DEF IInv, TypeOK, Statements
  <2>3. StoredOrGone'
    BY <1>3, <2>1, <2>2 DEF IInv, TableInv, StoredOrGone, Answered, JobAsked
  <2>4. DecidedByPoster'
    BY <1>3, <2>1, <2>2 DEF IInv, TableInv, DecidedByPoster
  <2>. QED
    BY <1>3, <2>3, <2>4 DEF IInv, TableInv, JobsPosted, NoOrphans
<1>. QED
  BY <1>4, <1>5, <1>6, <1>7, OthersKeep DEF IInv

-----------------------------------------------------------------------------
(* Statements that leave the tables alone *)

\* What a statement of r leaves of the others' share.
LEMMA QuietFrame ==
  ASSUME IInv, NEW r \in Requests, at[r] \in Statements, Watch,
         NEW code \in Statements \cup Answers, Then(r, code), UNCHANGED tables,
         listed' \in [Requests -> SUBSET Rows],
         \A g \in Requests \ {r} : listed'[g] = listed[g],
         failed' \in {failed, failed \cup {r}},
         Answered(r, "apply", "201")' => FALSE
  PROVE  TypeOK' /\ TableInv' /\ \A g \in Requests \ {r} : Witnessed(g)'
<1>1. /\ at' = [at EXCEPT ![r] = code] /\ ask' = ask /\ code # "new"
      /\ at[r] # "new" /\ at[r] \notin Answers
  BY DEF Then, Statements, Answers
<1>2. UNCHANGED <<jobs, owner, status>>
  BY DEF tables
<1>3. TypeOK'
  <2>1. during' \in [Requests -> SUBSET Content]
    BY <1>2, WatchTypes DEF IInv, TypeOK
  <2>. QED
    BY <1>1, <1>2, <2>1 DEF IInv, TypeOK
<1>4. Frame(r)
  BY <1>1, <1>2 DEF Frame, IInv, TypeOK
<1>5. StoredOrGone'
  BY <1>1, <1>2 DEF IInv, TypeOK, TableInv, StoredOrGone, Answered, JobAsked
<1>6. DecidedByPoster'
  <2>1. \A g \in Requests : at[g] \in {"200", "500"} => at'[g] = at[g]
    BY <1>1 DEF IInv, TypeOK, Answers
  <2>. QED
    BY <1>1, <1>2, <2>1 DEF IInv, TableInv, DecidedByPoster
<1>7. TableInv'
  BY <1>2, <1>5, <1>6 DEF IInv, TableInv, JobsPosted, NoOrphans
<1>. QED
  BY <1>3, <1>4, <1>7, OthersKeep

\* r goes on to a statement, or to an answer other than 200, 201 and 204, that the
\* tables bear out.
LEMMA QuietKeeps ==
  ASSUME IInv, NEW r \in Requests, at[r] \in Statements, Watch,
         NEW code \in Statements \cup {"403", "404", "409", "500"}, Then(r, code),
         UNCHANGED <<tables, listed>>, failed' \in {failed, failed \cup {r}},
         code \in Statements => ask[r].op = OpOf(code),
         code = "CreateApplication" => JobAsked(r) \in jobs,
         code \in {"SelectApplication", "403"} => Refusable(r),
         code = "500" /\ r \notin failed' =>
           ask[r].op = "apply" /\ FoundJob(r) /\ JobAsked(r) \notin jobs,
         code = "404" /\ ask[r].op = "apply" => JobAsked(r) \notin jobs,
         code = "404" /\ ask[r].op = "decide" => StatusAsked(r) = "none",
         code = "404" /\ ask[r].op = "delete" => ask[r].job \notin jobs,
         code \in {"403", "409"} => StatusAsked(r) # "none"
  PROVE  IInv'
<1>1. at'[r] = code /\ ask' = ask
  BY DEF Then, IInv, TypeOK
<1>2. UNCHANGED <<jobs, owner, status>>
  BY DEF tables
<1>3. during[r] \subseteq during'[r] /\ Tables' \in during'[r] /\ Tables' = Tables
  BY <1>2, Watching DEF IInv, Tables
<1>4. /\ Tables.jobs = jobs /\ Tables.status = status
  BY DEF Tables
<1>5. code # "201" /\ code # "200" /\ code # "204"
  BY DEF Statements
<1>6. AnswerWasTrue(r)'
  BY <1>1, <1>3, <1>4, <1>5 DEF AnswerWasTrue, Answered, JobAsked, StatusAsked, Had
<1>7. code \in {"SelectApplication", "403"} => Refusable(r)'
  BY <1>1, <1>2, <1>3 DEF Refusable, JobAsked
<1>8. code = "CreateApplication" => FoundJob(r)'
  BY <1>1, <1>3, <1>4 DEF FoundJob, JobAsked
<1>9. code = "500" /\ r \notin failed' => ask[r].op = "apply" /\ FoundJob(r)' /\ LacksJob(r)'
  BY <1>1, <1>3, <1>4 DEF FoundJob, LacksJob, JobAsked
<1>10. Witnessed(r)'
  BY <1>1, <1>3, <1>6, <1>7, <1>8, <1>9 DEF Witnessed, Answered
<1>11. code \in Statements \cup Answers /\ ~Answered(r, "apply", "201")'
  BY <1>1, <1>5 DEF Answers, Answered
<1>12. listed' \in [Requests -> SUBSET Rows]
  BY DEF IInv, TypeOK
<1>. QED
  BY <1>10, <1>11, <1>12, QuietFrame DEF IInv

LEMMA CheckJobKeeps ==
  ASSUME IInv, NEW r \in Requests, CheckJob(r), Watch
  PROVE  IInv'
<1>1. at[r] \in Statements /\ ask[r].op = "apply" /\ "CreateApplication" \in Statements
  BY DEF CheckJob, IInv, Witnessed, OpOf, Statements
<1>2. OpOf("CreateApplication") = "apply" /\ "404" \notin Statements
  BY DEF OpOf, Statements
<1>3. CASE JobAsked(r) \in jobs /\ Then(r, "CreateApplication")
  BY <1>1, <1>2, <1>3, QuietKeeps DEF CheckJob
<1>4. CASE JobAsked(r) \notin jobs /\ Then(r, "404")
  BY <1>1, <1>2, <1>4, QuietKeeps DEF CheckJob
<1>. QED
  BY <1>3, <1>4 DEF CheckJob

LEMMA UpdateNoRowKeeps ==
  ASSUME IInv, NEW r \in Requests, UpdateNoRow(r), Watch
  PROVE  IInv'
<1>1. /\ at[r] \in Statements /\ ask[r].op = "decide"
      /\ "SelectApplication" \in Statements /\ OpOf("SelectApplication") = "decide"
  BY DEF UpdateNoRow, IInv, Witnessed, OpOf, Statements
<1>2. Tables \in during[r] /\ ask[r].application \in Applications /\ JobAsked(r) \in Jobs
  BY <1>1, AskTypes DEF IInv, Witnessed, Statements
<1>3. Refusable(r)
  <2>1. CASE StatusAsked(r) = "none"
    BY <2>1, <1>2 DEF Refusable, Had, Tables, StatusAsked
  <2>2. CASE StatusAsked(r) # "none"
    <3>1. JobAsked(r) \in jobs
      BY <2>2, <1>2 DEF IInv, TableInv, NoOrphans, StatusAsked, JobAsked
    <3>2. owner[JobAsked(r)] \notin {ask[r].employer, Nobody}
      BY <2>2, <3>1 DEF UpdateNoRow, MayDecide, IInv, TableInv, JobsPosted
    <3>. QED
      BY <3>2 DEF Refusable
  <2>. QED
    BY <2>1, <2>2
<1>. QED
  BY <1>1, <1>3, QuietKeeps DEF UpdateNoRow

LEMMA SelectApplicationKeeps ==
  ASSUME IInv, NEW r \in Requests, SelectApplication(r), Watch
  PROVE  IInv'
<1>1. at[r] \in Statements /\ ask[r].op = "decide" /\ {"403", "404"} \cap Statements = {}
  BY DEF SelectApplication, IInv, Witnessed, OpOf, Statements
<1>2. Refusable(r)
  BY DEF SelectApplication, IInv, Witnessed
<1>. QED
  BY <1>1, <1>2, QuietKeeps DEF SelectApplication

LEMMA ConstraintKeeps ==
  ASSUME IInv, NEW r \in Requests, AlreadyApplied(r) \/ JobGone(r), Watch
  PROVE  IInv'
<1>1. /\ at[r] \in Statements /\ ask[r].op = "apply" /\ FoundJob(r)
      /\ {"409", "500"} \cap Statements = {}
  BY DEF AlreadyApplied, JobGone, IInv, Witnessed, OpOf, Statements
<1>2. CASE AlreadyApplied(r)
  BY <1>1, <1>2, QuietKeeps DEF AlreadyApplied
<1>3. CASE JobGone(r)
  BY <1>1, <1>3, QuietKeeps DEF JobGone
<1>. QED
  BY <1>2, <1>3

LEMMA DeleteJobNotFoundKeeps ==
  ASSUME IInv, NEW r \in Requests, DeleteJobNotFound(r), Watch
  PROVE  IInv'
<1>1. at[r] \in Statements /\ ask[r].op = "delete" /\ "404" \notin Statements
  BY DEF DeleteJobNotFound, IInv, Witnessed, OpOf, Statements
<1>. QED
  BY <1>1, QuietKeeps DEF DeleteJobNotFound

LEMMA FailKeeps ==
  ASSUME IInv, NEW r \in Requests, Fail(r), Watch
  PROVE  IInv'
<1>1. Then(r, "500") /\ r \in failed' /\ "500" \notin Statements
  BY DEF Fail, Then, Statements
<1>. QED
  BY <1>1, QuietKeeps DEF Fail

LEMMA ListApplicationsKeeps ==
  ASSUME IInv, NEW r \in Requests, ListApplications(r), Watch
  PROVE  IInv'
<1>1. at[r] \in Statements /\ ask[r].op = "list" /\ "200" \notin Statements /\ "200" \in Answers
  BY DEF ListApplications, IInv, Witnessed, OpOf, Statements, Answers
<1>2. at'[r] = "200" /\ ask' = ask /\ Tables' \in during'[r] /\ Tables' = Tables
  BY <1>1, Watching DEF ListApplications, Then, IInv, TypeOK, Tables, tables
<1>3. listed' = [listed EXCEPT ![r] = RowsOf(Tables, ask[r].job)]
  BY DEF ListApplications, RowsOf, Had, Tables
<1>4. RowsOf(Tables, ask[r].job) \subseteq Rows
  BY DEF RowsOf, Rows, Had, Tables, IInv, TypeOK
<1>5. /\ listed' \in [Requests -> SUBSET Rows]
      /\ listed'[r] = RowsOf(Tables, ask[r].job)
      /\ \A g \in Requests \ {r} : listed'[g] = listed[g]
  BY <1>3, <1>4 DEF IInv, TypeOK
<1>6. Witnessed(r)'
  BY <1>1, <1>2, <1>5 DEF Witnessed, AnswerWasTrue, Answered
<1>. QED
  BY <1>1, <1>2, <1>5, <1>6, QuietFrame DEF ListApplications, Answered, IInv

-----------------------------------------------------------------------------
(* Statements that change the tables *)

\* Committed, with or without a reply, r has the witness of its answer in the tables
\* it leaves; what remains to show is that these are in order.
LEMMA CommitKeeps ==
  ASSUME IInv, NEW r \in Requests, at[r] \in Statements, Watch,
         NEW code \in {"200", "201", "204"}, Committed(r, code), UNCHANGED listed,
         jobs' \subseteq Jobs, owner' \in [Jobs -> Employers \cup {Nobody}],
         status' \in [Applications -> Statuses],
         \A j \in Jobs : owner[j] # Nobody => owner'[j] = owner[j],
         code = "201" /\ ask[r].op = "apply" => status'[ask[r].application] = "pending",
         code = "200" => ask[r].op = "decide"
                         /\ status'[ask[r].application] = ask[r].decision,
         code = "204" => ask[r].op = "delete" /\ ask[r].job \notin jobs'
  PROVE  /\ TypeOK' /\ \A g \in Requests : Witnessed(g)'
         /\ ask' = ask /\ (at' = [at EXCEPT ![r] = code] \/ at' = [at EXCEPT ![r] = "500"])
<1>1. /\ at[r] # "new" /\ {code, "500"} \cap Statements = {} /\ code # "500"
      /\ {code, "500"} \subseteq Answers /\ "new" \notin {code, "500"}
  BY DEF Statements, Answers
<1>2. /\ ask' = ask
      /\ \/ at' = [at EXCEPT ![r] = code] /\ failed' = failed
         \/ at' = [at EXCEPT ![r] = "500"] /\ failed' = failed \cup {r}
  BY DEF Committed, Then
<1>3. TypeOK'
  <2>1. during' \in [Requests -> SUBSET Content]
    BY WatchTypes DEF IInv
  <2>2. at' \in [Requests -> {"new"} \cup Statements \cup Answers]
    BY <1>1, <1>2 DEF IInv, TypeOK
  <2>3. \A g \in Requests : ask'[g] = NoAsk <=> at'[g] = "new"
    BY <1>1, <1>2 DEF IInv, TypeOK
  <2>. QED
    BY <1>2, <2>1, <2>2, <2>3 DEF IInv, TypeOK
<1>4. Frame(r)
  BY <1>2 DEF Frame, IInv, TypeOK
<1>5. Tables' \in during'[r] /\ Tables'.jobs = jobs' /\ Tables'.status = status'
  BY Watching DEF IInv, Tables
<1>6. Witnessed(r)'
  <2>1. CASE at'[r] = code
    <3>1. AnswerWasTrue(r)'
      BY <2>1, <1>2, <1>5 DEF AnswerWasTrue, Answered
    <3>. QED
      BY <2>1, <3>1, <1>1 DEF Witnessed, Answered, Statements
  <2>2. CASE at'[r] = "500" /\ r \in failed'
    BY <2>2, <1>1 DEF Witnessed, AnswerWasTrue, Answered, Statements
  <2>. QED
    BY <2>1, <2>2, <1>2 DEF IInv, TypeOK
<1>. QED
  BY <1>2, <1>3, <1>4, <1>6, OthersKeep

LEMMA CreateJobKeeps ==
  ASSUME IInv, NEW r \in Requests, CreateJob(r), Watch
  PROVE  IInv'
<1>1. at[r] \in Statements /\ at[r] \notin Answers /\ ask[r].op = "post"
  BY DEF CreateJob, IInv, Witnessed, OpOf, Statements, Answers
<1>2. ask[r].employer \in Employers /\ ask[r].employer # Nobody
  BY <1>1, AskTypes, NobodyAssumption DEF IInv, Statements
<1>3. PICK j \in Jobs :
        /\ owner[j] = Nobody
        /\ owner' = [owner EXCEPT ![j] = ask[r].employer]
        /\ jobs' = jobs \cup {j}
  BY DEF CreateJob
<1>4. UNCHANGED <<status, listed>> /\ Committed(r, "201")
  BY DEF CreateJob
<1>5. /\ jobs' \subseteq Jobs /\ owner' \in [Jobs -> Employers \cup {Nobody}]
      /\ \A i \in Jobs : owner[i] # Nobody => owner'[i] = owner[i]
  BY <1>2, <1>3 DEF IInv, TypeOK
<1>6. /\ TypeOK' /\ \A g \in Requests : Witnessed(g)'
      /\ ask' = ask /\ (at' = [at EXCEPT ![r] = "201"] \/ at' = [at EXCEPT ![r] = "500"])
  BY <1>1, <1>4, <1>5, CommitKeeps DEF IInv, TypeOK
<1>7. \A g \in Requests : g # r => at'[g] = at[g]
  BY <1>6 DEF IInv, TypeOK
<1>8. JobsPosted' /\ NoOrphans'
  BY <1>2, <1>3, <1>4 DEF IInv, TypeOK, TableInv, JobsPosted, NoOrphans
<1>9. StoredOrGone'
  <2>. SUFFICES ASSUME NEW g \in Requests, Answered(g, "apply", "201")'
                PROVE  /\ owner'[JobAsked(g)] # Nobody
                       /\ status[ask[g].application] # "none" \/ JobAsked(g) \notin jobs'
    BY <1>4, <1>6 DEF StoredOrGone, JobAsked
  <2>1. g # r /\ Answered(g, "apply", "201") /\ at[g] # "new"
    BY <1>1, <1>6, <1>7 DEF Answered
  <2>2. JobAsked(g) \in Jobs /\ owner[JobAsked(g)] # Nobody
        /\ (status[ask[g].application] # "none" \/ JobAsked(g) \notin jobs)
    BY <2>1, AskTypes DEF IInv, TableInv, StoredOrGone, Answered
  <2>. QED
    BY <2>2, <1>3, <1>5
<1>10. DecidedByPoster'
  <2>. SUFFICES ASSUME NEW a \in Applications, status[a] \in Decisions
                PROVE  \E g \in Requests :
                         /\ ask[g].op = "decide" /\ at'[g] \in {"200", "500"}
                         /\ ask[g].application = a
                         /\ ask[g].decision = status[a]
                         /\ ask[g].employer = owner'[a[1]]
    BY <1>4, <1>6 DEF DecidedByPoster
  <2>1. PICK g \in Requests :
          /\ ask[g].op = "decide" /\ at[g] \in {"200", "500"}
          /\ ask[g].application = a
          /\ ask[g].decision = status[a]
          /\ ask[g].employer = owner[a[1]]
    BY DEF IInv, TableInv, DecidedByPoster
  <2>2. g # r /\ ask[g].employer # Nobody /\ a[1] \in Jobs
    BY <2>1, <1>1, AskTypes, NobodyAssumption DEF IInv, Applications
  <2>. QED
    BY <2>1, <2>2, <1>5, <1>7
<1>. QED
  BY <1>6, <1>8, <1>9, <1>10 DEF IInv, TableInv

LEMMA DeleteJobKeeps ==
  ASSUME IInv, NEW r \in Requests, DeleteJob(r), Watch
  PROVE  IInv'
<1>1. at[r] \in Statements /\ at[r] \notin Answers /\ ask[r].op = "delete"
  BY DEF DeleteJob, IInv, Witnessed, OpOf, Statements, Answers
<1>2. /\ jobs' = jobs \ {ask[r].job} /\ UNCHANGED <<owner, listed>> /\ Committed(r, "204")
      /\ status' = [a \in Applications |-> IF a[1] = ask[r].job THEN "none" ELSE status[a]]
  BY DEF DeleteJob
<1>3. jobs' \subseteq Jobs /\ status' \in [Applications -> Statuses]
  BY <1>2 DEF IInv, TypeOK, Statuses
<1>4. /\ TypeOK' /\ \A g \in Requests : Witnessed(g)'
      /\ ask' = ask /\ (at' = [at EXCEPT ![r] = "204"] \/ at' = [at EXCEPT ![r] = "500"])
  BY <1>1, <1>2, <1>3, CommitKeeps DEF IInv, TypeOK
<1>5. \A g \in Requests : g # r => at'[g] = at[g]
  BY <1>4 DEF IInv, TypeOK
<1>6. JobsPosted' /\ NoOrphans'
  BY <1>2 DEF IInv, TypeOK, TableInv, JobsPosted, NoOrphans
<1>7. StoredOrGone'
  <2>. SUFFICES ASSUME NEW g \in Requests, Answered(g, "apply", "201")'
                PROVE  /\ owner[JobAsked(g)] # Nobody
                       /\ status'[ask[g].application] # "none" \/ JobAsked(g) \notin jobs'
    BY <1>2, <1>4 DEF StoredOrGone, JobAsked
  <2>1. at'[r] \in {"204", "500"}
    BY <1>4 DEF IInv, TypeOK
  <2>2. g # r /\ Answered(g, "apply", "201") /\ at[g] # "new"
    BY <1>4, <1>5, <2>1 DEF Answered
  <2>3. ask[g].application \in Applications /\ owner[JobAsked(g)] # Nobody
        /\ (status[ask[g].application] # "none" \/ JobAsked(g) \notin jobs)
    BY <2>2, AskTypes DEF IInv, TableInv, StoredOrGone, Answered
  <2>. QED
    BY <2>3, <1>2 DEF JobAsked
<1>8. DecidedByPoster'
  <2>. SUFFICES ASSUME NEW a \in Applications, status'[a] \in Decisions
                PROVE  \E g \in Requests :
                         /\ ask[g].op = "decide" /\ at'[g] \in {"200", "500"}
                         /\ ask[g].application = a
                         /\ ask[g].decision = status'[a]
                         /\ ask[g].employer = owner[a[1]]
    BY <1>2, <1>4 DEF DecidedByPoster
  <2>1. status'[a] = status[a]
    BY <1>2, DecisionsAssumption
  <2>2. PICK g \in Requests :
          /\ ask[g].op = "decide" /\ at[g] \in {"200", "500"}
          /\ ask[g].application = a
          /\ ask[g].decision = status[a]
          /\ ask[g].employer = owner[a[1]]
    BY <2>1 DEF IInv, TableInv, DecidedByPoster
  <2>3. g # r
    BY <2>2, <1>1
  <2>. QED
    BY <2>1, <2>2, <2>3, <1>5
<1>. QED
  BY <1>4, <1>6, <1>7, <1>8 DEF IInv, TableInv

\* A row is inserted or decided about: the job is there, and the row stays.
LEMMA RowKeeps ==
  ASSUME IInv, NEW r \in Requests, at[r] \in Statements,
         ask[r].op \in {"apply", "decide"}, JobAsked(r) \in jobs,
         NEW code \in {"200", "201"}, NEW value \in {"pending"} \cup Decisions,
         ask' = ask, at' = [at EXCEPT ![r] = code] \/ at' = [at EXCEPT ![r] = "500"],
         status' = [status EXCEPT ![ask[r].application] = value], UNCHANGED <<jobs, owner>>,
         value \in Decisions =>
           /\ code = "200" /\ ask[r].op = "decide" /\ ask[r].decision = value
           /\ ask[r].employer = owner[JobAsked(r)]
  PROVE  TableInv'
<1>1. /\ ask[r].application \in Applications /\ JobAsked(r) \in Jobs
      /\ owner[JobAsked(r)] # Nobody /\ value # "none" /\ "pending" \notin Decisions
  BY AskTypes, DecisionsAssumption DEF IInv, TableInv, JobsPosted, Statements
<1>2. \A g \in Requests : g # r => at'[g] = at[g]
  BY DEF IInv, TypeOK
<1>3. at'[r] \in {code, "500"}
  BY DEF IInv, TypeOK
<1>4. NoOrphans' /\ JobsPosted'
  BY <1>1 DEF IInv, TypeOK, TableInv, NoOrphans, JobsPosted, JobAsked
<1>5. StoredOrGone'
  <2>. SUFFICES ASSUME NEW g \in Requests, Answered(g, "apply", "201")'
                PROVE  /\ owner[JobAsked(g)] # Nobody
                       /\ status'[ask[g].application] # "none" \/ JobAsked(g) \notin jobs
    BY DEF StoredOrGone, JobAsked
  <2>1. CASE g = r
    BY <2>1, <1>1 DEF IInv, TypeOK
  <2>2. CASE g # r
    <3>1. Answered(g, "apply", "201") /\ at[g] # "new"
      BY <2>2, <1>2 DEF Answered
    <3>2. ask[g].application \in Applications /\ owner[JobAsked(g)] # Nobody
          /\ (status[ask[g].application] # "none" \/ JobAsked(g) \notin jobs)
      BY <3>1, AskTypes DEF IInv, TableInv, StoredOrGone, Answered
    <3>. QED
      BY <3>2, <1>1 DEF IInv, TypeOK
  <2>. QED
    BY <2>1, <2>2
<1>6. DecidedByPoster'
  <2>. SUFFICES ASSUME NEW a \in Applications, status'[a] \in Decisions
                PROVE  \E g \in Requests :
                         /\ ask[g].op = "decide" /\ at'[g] \in {"200", "500"}
                         /\ ask[g].application = a
                         /\ ask[g].decision = status'[a]
                         /\ ask[g].employer = owner[a[1]]
    BY DEF DecidedByPoster
  <2>1. CASE a = ask[r].application
    <3>1. status'[a] = value /\ value \in Decisions
      BY <2>1 DEF IInv, TypeOK
    <3>. QED
      BY <2>1, <3>1, <1>3 DEF JobAsked
  <2>2. CASE a # ask[r].application
    <3>1. status'[a] = status[a]
      BY <2>2 DEF IInv, TypeOK
    <3>2. PICK g \in Requests :
            /\ ask[g].op = "decide" /\ at[g] \in {"200", "500"}
            /\ ask[g].application = a
            /\ ask[g].decision = status[a]
            /\ ask[g].employer = owner[a[1]]
      BY <3>1 DEF IInv, TableInv, DecidedByPoster
    <3>. QED
      BY <2>2, <3>1, <3>2, <1>2
  <2>. QED
    BY <2>1, <2>2
<1>. QED
  BY <1>4, <1>5, <1>6 DEF TableInv

LEMMA CreateApplicationKeeps ==
  ASSUME IInv, NEW r \in Requests, CreateApplication(r), Watch
  PROVE  IInv'
<1>1. at[r] \in Statements /\ ask[r].op = "apply" /\ at[r] # "new"
  BY DEF CreateApplication, IInv, Witnessed, OpOf, Statements
<1>2. ask[r].application \in Applications /\ "pending" \in Statuses
  BY <1>1, AskTypes DEF IInv, Statuses
<1>3. /\ JobAsked(r) \in jobs /\ Committed(r, "201") /\ UNCHANGED <<jobs, owner, listed>>
      /\ status' = [status EXCEPT ![ask[r].application] = "pending"]
  BY DEF CreateApplication
<1>4. status' \in [Applications -> Statuses] /\ status'[ask[r].application] = "pending"
  BY <1>2, <1>3 DEF IInv, TypeOK
<1>5. /\ TypeOK' /\ \A g \in Requests : Witnessed(g)'
      /\ ask' = ask /\ (at' = [at EXCEPT ![r] = "201"] \/ at' = [at EXCEPT ![r] = "500"])
  BY <1>1, <1>3, <1>4, CommitKeeps DEF IInv, TypeOK
<1>6. TableInv'
  BY <1>1, <1>3, <1>5, RowKeeps, DecisionsAssumption
<1>. QED
  BY <1>5, <1>6 DEF IInv

LEMMA UpdateStatusKeeps ==
  ASSUME IInv, NEW r \in Requests, UpdateStatus(r), Watch
  PROVE  IInv'
<1>1. at[r] \in Statements /\ ask[r].op = "decide" /\ at[r] # "new"
  BY DEF UpdateStatus, IInv, Witnessed, OpOf, Statements
<1>2. ask[r].application \in Applications /\ ask[r].decision \in Decisions
      /\ ask[r].decision \in Statuses
  BY <1>1, AskTypes DEF IInv, Statuses
<1>3. /\ JobAsked(r) \in jobs /\ owner[JobAsked(r)] = ask[r].employer
      /\ Committed(r, "200") /\ UNCHANGED <<jobs, owner, listed>>
      /\ status' = [status EXCEPT ![ask[r].application] = ask[r].decision]
  BY DEF UpdateStatus, MayDecide
<1>4. status' \in [Applications -> Statuses]
      /\ status'[ask[r].application] = ask[r].decision
  BY <1>2, <1>3 DEF IInv, TypeOK
<1>5. /\ TypeOK' /\ \A g \in Requests : Witnessed(g)'
      /\ ask' = ask /\ (at' = [at EXCEPT ![r] = "200"] \/ at' = [at EXCEPT ![r] = "500"])
  BY <1>1, <1>3, <1>4, CommitKeeps DEF IInv, TypeOK
<1>6. TableInv'
  BY <1>1, <1>2, <1>3, <1>5, RowKeeps
<1>. QED
  BY <1>5, <1>6 DEF IInv

-----------------------------------------------------------------------------

THEOREM StepKeepsIInv == IInv /\ [Next]_vars => IInv'
<1>. SUFFICES ASSUME IInv, [Next]_vars PROVE IInv'
  OBVIOUS
<1>1. ASSUME NEW r \in Requests, Request(r), Watch PROVE IInv'
  BY <1>1, ReceiveKeeps, FailKeeps, CreateJobKeeps, DeleteJobKeeps, DeleteJobNotFoundKeeps,
     CheckJobKeeps, CreateApplicationKeeps, ConstraintKeeps, ListApplicationsKeeps,
     UpdateStatusKeeps, UpdateNoRowKeeps, SelectApplicationKeeps DEF Request
<1>2. CASE UNCHANGED vars
  <2>. USE <1>2 DEF vars, tables
  <2>1. TypeOK' /\ TableInv'
    BY DEF IInv, TypeOK, TableInv, JobsPosted, StoredOrGone, NoOrphans, DecidedByPoster,
           Answered, JobAsked
  <2>2. ASSUME NEW r \in Requests PROVE Witnessed(r)'
    BY DEF IInv, Witnessed, AnswerWasTrue, Answered, FoundJob, LacksJob, Refusable,
           JobAsked, Had, RowsOf, Tables
  <2>. QED
    BY <2>1, <2>2 DEF IInv
<1>. QED
  BY <1>1, <1>2 DEF Next

THEOREM Inductive == Spec => []IInv
  BY InitIInv, StepKeepsIInv, PTL DEF Spec

\* Tables, requests and histories are well typed.
THEOREM TypeCorrect == Spec => []TypeOK
<1>1. IInv => TypeOK
  BY DEF IInv
<1>. QED
  BY <1>1, Inductive, PTL

\* Every answer was true of the tables at a moment of its request, however many
\* other requests run between its statements.
THEOREM TruthfulAnswers == Spec => []AnswersWereTrue
<1>1. IInv => AnswersWereTrue
  BY DEF IInv, Witnessed, AnswersWereTrue
<1>. QED
  BY <1>1, Inductive, PTL

\* A poster who is told not to have posted the job had no application to decide
\* about when the request began its work.
THEOREM RefusedPosterRaced == Spec => []PosterRefusedOnlyWhenRaced
<1>1. IInv => PosterRefusedOnlyWhenRaced
  BY DEF IInv, Witnessed, Refusable, PosterRefusedOnlyWhenRaced
<1>. QED
  BY <1>1, Inductive, PTL

\* The one 500 that no failure explains is that of a job deleted under an apply request.
THEOREM ErrorsExplained == Spec => []ServerErrorsExplained
<1>1. IInv => ServerErrorsExplained
  BY DEF IInv, Witnessed, FoundJob, LacksJob, ServerErrorsExplained
<1>. QED
  BY <1>1, Inductive, PTL

\* The cascade leaves no application behind, and no INSERT slips in after it.
THEOREM Cascade == Spec => []NoOrphans
<1>1. IInv => NoOrphans
  BY DEF IInv, TableInv
<1>. QED
  BY <1>1, Inductive, PTL

\* What an applicant was told 201 about is kept as long as the job is.
THEOREM Kept == Spec => []AppliedUntilJobGone
<1>1. IInv => AppliedUntilJobGone
  BY DEF IInv, TableInv, StoredOrGone, AppliedUntilJobGone
<1>. QED
  BY <1>1, Inductive, PTL

\* Nobody but the poster of a job ever decides about its applications.
THEOREM OnlyPosterDecides == Spec => []DecidedByPoster
<1>1. IInv => DecidedByPoster
  BY DEF IInv, TableInv
<1>. QED
  BY <1>1, Inductive, PTL
=============================================================================
