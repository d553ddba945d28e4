------------------------------ MODULE JobCache ------------------------------
(***************************************************************************)
(* The jobs table and its copies in Redis.  GET /jobs and GET /jobs/{id}   *)
(* look a key up, on a miss read PostgreSQL, and SET what they read for    *)
(* two minutes; POST, PUT and DELETE commit to PostgreSQL first and DEL    *)
(* keys afterwards, and ignore whether that worked.  Nothing orders the    *)
(* two stores, so an entry can lack writes that have been answered; the    *)
(* properties say when, and that it does not last.                         *)
(*                                                                         *)
(* The state of a row is the number of statements that have changed it:    *)
(* 0 before its INSERT; its DELETE is the last.  An entry is the versions  *)
(* its reader saw; it holds rows only when those versions are live.        *)
(***************************************************************************)
EXTENDS Integers

CONSTANTS
  Jobs,         \* job ids, never reused (SERIAL)
  AllJobs,      \* the key "jobs:all"; the key "jobs:<id>" is the id
  Readers,      \* GET requests in progress
  Writers,      \* POST, PUT and DELETE requests in progress
  Nil,          \* no entry, no request
  MaxVersion    \* bound: statements that change a job

ASSUME KeysAssumption == AllJobs \notin Jobs
ASSUME BoundAssumption == MaxVersion \in Nat

Keys == Jobs \cup {AllJobs}
Covers(k) == IF k = AllJobs THEN Jobs ELSE {k}

Value == [Jobs -> Nat]
Fills == [key : Keys, value : Value, overtaken : BOOLEAN]
Writes == [job : Jobs, version : Nat, keys : SUBSET Keys]

ASSUME NilAssumption == Nil \notin Value \cup Fills \cup Writes

VARIABLES
  version,   \* version[j]: statements that have changed job j
  deleted,   \* jobs deleted
  entry,     \* entry[k]: what Redis holds under k
  fill,      \* fill[r]: r has read PostgreSQL and not yet called SET
  write,     \* write[w]: w has committed and not yet called DEL
  excused    \* history: keys whose entry may lack answered writes

vars == <<version, deleted, entry, fill, write, excused>>

TypeOK ==
  /\ version \in Value
  /\ deleted \subseteq Jobs
  /\ entry \in [Keys -> Value \cup {Nil}]
  /\ fill \in [Readers -> Fills \cup {Nil}]
  /\ write \in [Writers -> Writes \cup {Nil}]
  /\ excused \subseteq Keys
  /\ \A j \in deleted : version[j] > 1
  /\ \A w \in Writers : write[w] # Nil => write[w].version \in 1..version[write[w].job]

Init ==
  /\ version = [j \in Jobs |-> 0]
  /\ deleted = {}
  /\ entry = [k \in Keys |-> Nil]
  /\ fill = [r \in Readers |-> Nil]
  /\ write = [w \in Writers |-> Nil]
  /\ excused = {}

Live(j) == version[j] > 0 /\ j \notin deleted

-----------------------------------------------------------------------------
(* Readers *)

Snapshot(k) == [j \in Jobs |-> IF j \in Covers(k) THEN version[j] ELSE 0]

\* The lookup finds nothing, or fails; then the SELECT.  A hit is answered from the
\* entry and changes nothing.
Fetch(r, k) ==
  /\ fill[r] = Nil
  /\ fill' = [fill EXCEPT ![r] = [key |-> k, value |-> Snapshot(k), overtaken |-> FALSE]]
  /\ UNCHANGED <<version, deleted, entry, write, excused>>

GetAllJobs(r) == Fetch(r, AllJobs)

\* Mutant: ErrJobNotFound is not told apart, and what was scanned is stored.
GetJobByIDOrNothing(r, j) == Fetch(r, j)

\* A missing row is answered 404, and that is not stored.
GetJobByID(r, j) ==
  /\ Live(j)
  /\ Fetch(r, j)

\* SET, for two minutes.
Store(r) ==
  /\ fill[r] # Nil
  /\ entry' = [entry EXCEPT ![fill[r].key] = fill[r].value]
  /\ excused' = IF fill[r].overtaken THEN excused \cup {fill[r].key}
                                     ELSE excused \ {fill[r].key}
  /\ fill' = [fill EXCEPT ![r] = Nil]
  /\ UNCHANGED <<version, deleted, write>>

\* Redis refuses, or the client is gone and with it the request's context.
StoreErr(r) ==
  /\ fill[r] # Nil
  /\ fill' = [fill EXCEPT ![r] = Nil]
  /\ UNCHANGED <<version, deleted, entry, write, excused>>

\* Mutant: SET with expiration 0, which Redis keeps.
ExpireNever(k) == FALSE /\ UNCHANGED vars

\* The two minutes are over.
Expire(k) ==
  /\ entry[k] # Nil
  /\ entry' = [entry EXCEPT ![k] = Nil]
  /\ excused' = excused \ {k}
  /\ UNCHANGED <<version, deleted, fill, write>>

-----------------------------------------------------------------------------
(* Writers *)

\* Readers of these keys have read before a write that is now over.
Overtake(keys) ==
  fill' = [r \in Readers |->
             IF fill[r] # Nil /\ fill[r].key \in keys
             THEN [fill[r] EXCEPT !.overtaken = TRUE]
             ELSE fill[r]]

\* One statement on job j.  When PostgreSQL commits it but the reply is lost, the
\* handler answers 500 and does not come to DEL.
Commit(w, j, keys) ==
  /\ write[w] = Nil
  /\ version[j] < MaxVersion
  /\ version' = [version EXCEPT ![j] = @ + 1]
  /\ \/ /\ write' = [write EXCEPT ![w] =
                       [job |-> j, version |-> version[j] + 1, keys |-> keys]]
        /\ UNCHANGED <<fill, excused>>
     \/ /\ excused' = excused \cup keys
        /\ Overtake(keys)
        /\ UNCHANGED write
  /\ UNCHANGED entry

CreateJob(w, j) ==
  /\ version[j] = 0
  /\ Commit(w, j, {AllJobs})
  /\ UNCHANGED deleted

UpdateJob(w, j) ==
  /\ Live(j)
  /\ Commit(w, j, {AllJobs, j})
  /\ UNCHANGED deleted

\* Mutant: invalidates the list only, as CreateJob does.
DeleteJobListOnly(w, j) ==
  /\ Live(j)
  /\ Commit(w, j, {AllJobs})
  /\ deleted' = deleted \cup {j}

\* Mutant: rowsAffected is not looked at.
DeleteJobUnchecked(w, j) ==
  /\ Commit(w, j, {AllJobs, j})
  /\ deleted' = deleted \cup {j}

DeleteJob(w, j) ==
  /\ Live(j)
  /\ Commit(w, j, {AllJobs, j})
  /\ deleted' = deleted \cup {j}

\* DEL, and the answer.
Invalidate(w) ==
  /\ write[w] # Nil
  /\ entry' = [k \in Keys |-> IF k \in write[w].keys THEN Nil ELSE entry[k]]
  /\ excused' = excused \ write[w].keys
  /\ Overtake(write[w].keys)
  /\ write' = [write EXCEPT ![w] = Nil]
  /\ UNCHANGED <<version, deleted>>

\* DEL fails or is cancelled with its request; its error is discarded.
InvalidateErr(w) ==
  /\ write[w] # Nil
  /\ excused' = excused \cup write[w].keys
  /\ Overtake(write[w].keys)
  /\ write' = [write EXCEPT ![w] = Nil]
  /\ UNCHANGED <<version, deleted, entry>>

\* The API process ends with all its requests; with none past its commit, this is
\* StoreErr of every reader.
Crash ==
  /\ \E w \in Writers : write[w] # Nil
  /\ excused' = excused \cup UNION {write[w].keys : w \in {v \in Writers : write[v] # Nil}}
  /\ fill' = [r \in Readers |-> Nil]
  /\ write' = [w \in Writers |-> Nil]
  /\ UNCHANGED <<version, deleted, entry>>

-----------------------------------------------------------------------------
(* Specification *)

Reader(r) ==
  \/ GetAllJobs(r)
  \/ \E j \in Jobs : GetJobByID(r, j)
  \/ Store(r) \/ StoreErr(r)

Writer(w) ==
  \/ \E j \in Jobs : CreateJob(w, j) \/ UpdateJob(w, j) \/ DeleteJob(w, j)
  \/ Invalidate(w)
  \/ InvalidateErr(w)

Next ==
  \/ \E r \in Readers : Reader(r)
  \/ \E w \in Writers : Writer(w)
  \/ \E k \in Keys : Expire(k)
  \/ Crash

Spec == Init /\ [][Next]_vars

\* Entries expire and requests end, one way or another.
Fairness ==
  /\ \A k \in Keys : WF_vars(Expire(k))
  /\ \A r \in Readers : WF_vars(Store(r) \/ StoreErr(r))
  /\ \A w \in Writers : WF_vars(Invalidate(w) \/ InvalidateErr(w))

FairSpec == Spec /\ Fairness

-----------------------------------------------------------------------------
(* Properties *)

Unanswered(j, n) ==
  \E w \in Writers : write[w] # Nil /\ write[w].job = j /\ write[w].version = n

LacksOnlyUnanswered(value, k) ==
  \A j \in Covers(k) : \A n \in (value[j] + 1)..version[j] : Unanswered(j, n)

\* An entry lacks only writes whose requests are still unanswered, so a client that
\* has its answer finds its write in the list and under the id.  The exceptions are
\* two: after the last write to the key a DEL went missing, or a reader that had
\* read before a write stored its value after that write's DEL.
AnsweredWritesVisible ==
  \A k \in Keys :
    entry[k] # Nil /\ k \notin excused => LacksOnlyUnanswered(entry[k], k)

\* What is stored under jobs:<id> is a row the table has had, never its absence
\* before the INSERT or after the DELETE: that is why CreateJob may leave the key
\* alone, and why a deleted job's entry is one from before.
EntriesShowRows ==
  \A j \in Jobs :
    entry[j] # Nil => entry[j][j] > 0 /\ (j \in deleted => entry[j][j] < version[j])

\* Once writes stop (MaxVersion stops them), every entry is gone or agrees with
\* PostgreSQL for good, whatever DELs and overtaken readers left behind.
EntriesHeal == <>[](\A k \in Keys : entry[k] # Nil => entry[k] = Snapshot(k))
=============================================================================
