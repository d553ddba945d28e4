-------------------------- MODULE JobCache_proofs ---------------------------
(***************************************************************************)
(* Safety of JobCache for any jobs, any number of concurrent requests and  *)
(* any bound on the writes.                                                *)
(***************************************************************************)
EXTENDS JobCache, TLAPS

\* Nil is no value, no fill and no write.
LEMMA NilIsNothing ==
  /\ Nil \notin Value /\ Nil \notin Fills /\ Nil \notin Writes
BY NilAssumption

LEMMA SnapshotIsValue ==
  ASSUME TypeOK, NEW k \in Keys
  PROVE  /\ Snapshot(k) \in Value
         /\ \A j \in Covers(k) : j \in Jobs /\ Snapshot(k)[j] = version[j]
<1>1. \A j \in Covers(k) : j \in Jobs
  BY DEF Covers, Keys
<1>2. version \in Value
  BY DEF TypeOK
<1> QED BY <1>1, <1>2 DEF Snapshot, Value

\* Overtaking a fill sets its flag and nothing else.
LEMMA OvertakeMarks ==
  ASSUME TypeOK, NEW keys \in SUBSET Keys, Overtake(keys)
  PROVE  /\ fill' \in [Readers -> Fills \cup {Nil}]
         /\ \A r \in Readers : fill'[r] # Nil =>
              /\ fill[r] # Nil
              /\ fill'[r].key = fill[r].key
              /\ fill'[r].value = fill[r].value
              /\ fill'[r].key \in keys => fill'[r].overtaken
              /\ fill[r].overtaken => fill'[r].overtaken
<1> SUFFICES ASSUME NEW r \in Readers
             PROVE  /\ fill'[r] \in Fills \cup {Nil}
                    /\ fill'[r] # Nil =>
                         /\ fill[r] # Nil
                         /\ fill'[r].key = fill[r].key
                         /\ fill'[r].value = fill[r].value
                         /\ fill'[r].key \in keys => fill'[r].overtaken
                         /\ fill[r].overtaken => fill'[r].overtaken
  BY DEF Overtake
<1>1. fill[r] \in Fills \cup {Nil}
  BY DEF TypeOK
<1>2. CASE fill[r] # Nil /\ fill[r].key \in keys
  <2>1. fill'[r] = [fill[r] EXCEPT !.overtaken = TRUE]
    BY <1>2 DEF Overtake
  <2> QED BY <1>1, <1>2, <2>1 DEF Fills
<1>3. CASE ~(fill[r] # Nil /\ fill[r].key \in keys)
  BY <1>1, <1>3 DEF Overtake
<1> QED BY <1>2, <1>3

\* What a commit on job j invalidating keys does to the state.
LEMMA CommitEffect ==
  ASSUME TypeOK, NEW w \in Writers, NEW j \in Jobs, NEW keys \in SUBSET Keys,
         Commit(w, j, keys)
  PROVE  /\ version' = [version EXCEPT ![j] = @ + 1]
         /\ version' \in Value
         /\ version'[j] = version[j] + 1
         /\ \A i \in Jobs : i # j => version'[i] = version[i]
         /\ fill' \in [Readers -> Fills \cup {Nil}]
         /\ write' \in [Writers -> Writes \cup {Nil}]
         /\ \A v \in Writers : v # w => write'[v] = write[v]
         /\ entry' = entry
<1>1. version \in Value /\ version[j] \in Nat
  BY DEF TypeOK, Value
<1>2. version' = [version EXCEPT ![j] = @ + 1]
  BY DEF Commit
<1>3. /\ version' \in Value /\ version'[j] = version[j] + 1
      /\ \A i \in Jobs : i # j => version'[i] = version[i]
  BY <1>1, <1>2 DEF Value
<1>4. fill' \in [Readers -> Fills \cup {Nil}]
  BY OvertakeMarks DEF Commit, TypeOK
<1>5. [job |-> j, version |-> version[j] + 1, keys |-> keys] \in Writes
  BY <1>1 DEF Writes
<1>6. /\ write' \in [Writers -> Writes \cup {Nil}]
      /\ \A v \in Writers : v # w => write'[v] = write[v]
  BY <1>5 DEF Commit, TypeOK
<1> QED BY <1>2, <1>3, <1>4, <1>6 DEF Commit

-----------------------------------------------------------------------------
(* Type correctness *)

\* What the handlers of POST, PUT and DELETE have in common: they commit one
\* statement, and name the list and, unless they insert, the job's key.
Statement(w, j, keys) ==
  /\ Commit(w, j, keys)
  /\ \/ keys = {AllJobs, j} /\ Live(j)
     \/ keys = {AllJobs} /\ version[j] = 0
  /\ deleted' = deleted \/ (deleted' = deleted \cup {j} /\ Live(j))

LEMMA WritersCommit ==
  ASSUME NEW w \in Writers, NEW j \in Jobs,
         CreateJob(w, j) \/ UpdateJob(w, j) \/ DeleteJob(w, j)
  PROVE  \E keys \in SUBSET Keys : Statement(w, j, keys)
<1>1. {AllJobs} \in SUBSET Keys /\ {AllJobs, j} \in SUBSET Keys
  BY DEF Keys
<1>2. Statement(w, j, {AllJobs}) \/ Statement(w, j, {AllJobs, j})
  BY DEF CreateJob, UpdateJob, DeleteJob, Statement
<1> QED BY <1>1, <1>2

\* A live row has taken its INSERT, a deleted one also its DELETE.
LEMMA StatementTypes ==
  ASSUME TypeOK, NEW w \in Writers, NEW j \in Jobs, NEW keys \in SUBSET Keys,
         Statement(w, j, keys)
  PROVE  TypeOK'
<1>1. version \in Value /\ version[j] \in Nat
  BY DEF TypeOK, Value
<1>2. Commit(w, j, keys)
  BY DEF Statement
<1>3. deleted' \subseteq Jobs /\ \A i \in deleted' : version'[i] > 1
  <2>1. deleted' \subseteq Jobs
    BY DEF Statement, TypeOK
  <2>2. ASSUME NEW i \in deleted' PROVE version'[i] > 1
    <3>1. CASE i \in deleted
      BY <1>1, <1>2, <2>1, <3>1, CommitEffect DEF TypeOK, Value
    <3>2. CASE i \notin deleted
      BY <1>1, <1>2, <3>2, CommitEffect DEF Statement, Live
    <3> QED BY <3>1, <3>2
  <2> QED BY <2>1, <2>2
<1>4. ASSUME NEW v \in Writers, write'[v] # Nil
      PROVE  write'[v].version \in 1..version'[write'[v].job]
  <2>1. CASE write'[v] = write[v]
    <3>1. write[v] \in Writes /\ write[v].version \in 1..version[write[v].job]
      BY <1>4, <2>1 DEF TypeOK
    <3>2. write[v].job \in Jobs
      BY <3>1 DEF Writes
    <3>3. version[write[v].job] \in Nat /\ version'[write[v].job] \in Nat
          /\ version'[write[v].job] >= version[write[v].job]
      BY <1>1, <1>2, <3>2, CommitEffect DEF Value
    <3> QED BY <2>1, <3>1, <3>3
  <2>2. CASE write'[v] # write[v]
    <3>1. write'[v] = [job |-> j, version |-> version[j] + 1, keys |-> keys]
      BY <1>2, <2>2 DEF Commit, TypeOK
    <3> QED BY <1>1, <1>2, <3>1, CommitEffect
  <2> QED BY <2>1, <2>2
<1>5. excused' \subseteq Keys
  BY <1>2 DEF Commit, TypeOK
<1> QED BY <1>2, <1>3, <1>4, <1>5, CommitEffect DEF TypeOK

\* When a request ends, the rows stay.
LEMMA EndTypes ==
  ASSUME TypeOK, UNCHANGED <<version, deleted>>,
         entry' \in [Keys -> Value \cup {Nil}],
         fill' \in [Readers -> Fills \cup {Nil}],
         write' \in [Writers -> Writes \cup {Nil}],
         \A w \in Writers : write'[w] = Nil \/ write'[w] = write[w],
         excused' \subseteq Keys
  PROVE  TypeOK'
BY DEF TypeOK

\* What the two GET handlers have in common.
Reading(r, k) == Fetch(r, k) /\ (k \in Jobs => Live(k))

LEMMA ReadersFetch ==
  ASSUME NEW r \in Readers, GetAllJobs(r) \/ \E j \in Jobs : GetJobByID(r, j)
  PROVE  \E k \in Keys : Reading(r, k)
BY KeysAssumption DEF Keys, GetAllJobs, GetJobByID, Reading

LEMMA ReadingTypes ==
  ASSUME TypeOK, NEW r \in Readers, NEW k \in Keys, Reading(r, k)
  PROVE  TypeOK'
<1>1. [key |-> k, value |-> Snapshot(k), overtaken |-> FALSE] \in Fills
  BY SnapshotIsValue DEF Fills
<1> QED BY <1>1, EndTypes DEF Reading, Fetch, TypeOK

LEMMA TypeStep ==
  ASSUME TypeOK, [Next]_vars
  PROVE  TypeOK'
<1>1. ASSUME NEW r \in Readers, GetAllJobs(r) \/ \E j \in Jobs : GetJobByID(r, j)
      PROVE  TypeOK'
  BY <1>1, ReadersFetch, ReadingTypes
<1>2. ASSUME NEW r \in Readers, Store(r) PROVE TypeOK'
  <2>1. fill[r].key \in Keys /\ fill[r].value \in Value
    BY <1>2 DEF Store, TypeOK, Fills
  <2> QED BY <1>2, <2>1, EndTypes DEF Store, TypeOK
<1>3. ASSUME NEW r \in Readers, StoreErr(r) PROVE TypeOK'
  BY <1>3, EndTypes DEF StoreErr, TypeOK
<1>4. ASSUME NEW k \in Keys, Expire(k) PROVE TypeOK'
  BY <1>4, EndTypes DEF Expire, TypeOK
<1>5. ASSUME NEW w \in Writers, NEW j \in Jobs,
             CreateJob(w, j) \/ UpdateJob(w, j) \/ DeleteJob(w, j)
      PROVE  TypeOK'
  BY <1>5, WritersCommit, StatementTypes
<1>6. ASSUME NEW w \in Writers, Invalidate(w) \/ InvalidateErr(w) PROVE TypeOK'
  <2>1. write[w].keys \in SUBSET Keys
    BY <1>6 DEF Invalidate, InvalidateErr, TypeOK, Writes
  <2>2. Overtake(write[w].keys)
    BY <1>6 DEF Invalidate, InvalidateErr
  <2>3. fill' \in [Readers -> Fills \cup {Nil}]
    BY <2>1, <2>2, OvertakeMarks
  <2> QED BY <1>6, <2>1, <2>3, EndTypes DEF Invalidate, InvalidateErr, TypeOK
<1>7. CASE Crash
  <2>1. \A w \in Writers : write[w] # Nil => write[w].keys \subseteq Keys
    BY DEF TypeOK, Writes
  <2>2. excused' \subseteq Keys
    BY <1>7, <2>1 DEF Crash, TypeOK
  <2> QED BY <1>7, <2>2, EndTypes DEF Crash, TypeOK
<1>8. CASE UNCHANGED vars
  BY <1>8 DEF TypeOK, vars
<1> QED BY <1>1, <1>2, <1>3, <1>4, <1>5, <1>6, <1>7, <1>8 DEF Next, Reader, Writer

\* Every state is well typed; a deleted row has seen two statements, and a request
\* that has committed holds a version its row has reached.
THEOREM TypeCorrect == Spec => []TypeOK
<1>1. Init => TypeOK
  BY DEF Init, TypeOK, Value
<1>2. TypeOK /\ [Next]_vars => TypeOK'
  BY TypeStep
<1> QED BY <1>1, <1>2, PTL DEF Spec
-----------------------------------------------------------------------------
(* What entries lack *)

\* The value is one the rows of the key have had, and shows a row if the key is an id.
Real(value, k) ==
  /\ \A j \in Covers(k) : value[j] <= version[j]
  /\ k \in Jobs => value[k] > 0 /\ (k \in deleted => value[k] < version[k])

\* A request names every key that covers its job, or it has inserted the row.
Named(w) ==
  write[w] # Nil =>
    \/ write[w].keys = {AllJobs, write[w].job}
    \/ write[w].keys = {AllJobs} /\ write[w].version = 1

EntryInv(k) ==
  entry[k] # Nil =>
    /\ Real(entry[k], k)
    /\ k \notin excused => LacksOnlyUnanswered(entry[k], k)

FillInv(r) ==
  fill[r] # Nil =>
    /\ Real(fill[r].value, fill[r].key)
    /\ ~fill[r].overtaken => LacksOnlyUnanswered(fill[r].value, fill[r].key)

IInv ==
  /\ TypeOK
  /\ \A k \in Keys : EntryInv(k)
  /\ \A r \in Readers : FillInv(r)
  /\ \A w \in Writers : Named(w)

LEMMA CoveredAreJobs ==
  ASSUME NEW k \in Keys, NEW j \in Covers(k)
  PROVE  j \in Jobs /\ (k = AllJobs \/ (k \in Jobs /\ k = j))
BY KeysAssumption DEF Keys, Covers

LEMMA RealStatement ==
  ASSUME TypeOK, NEW w \in Writers, NEW j \in Jobs, NEW keys \in SUBSET Keys,
         Statement(w, j, keys), NEW v \in Value, NEW k \in Keys, Real(v, k)
  PROVE  Real(v, k)'
<1>1. Commit(w, j, keys)
  BY DEF Statement
<1>2. \A i \in Jobs : version[i] \in Nat /\ version'[i] \in Nat
                      /\ version'[i] >= version[i] /\ v[i] \in Nat
  BY <1>1, CommitEffect DEF TypeOK, Value
<1>3. \A i \in Covers(k) : v[i] <= version'[i]
  BY <1>2, CoveredAreJobs DEF Real
<1>4. ASSUME k \in Jobs, k \in deleted' PROVE v[k] < version'[k]
  <2>1. CASE k \in deleted
    BY <1>2, <1>4, <2>1 DEF Real
  <2>2. CASE k \notin deleted
    <3>1. k = j /\ version'[k] = version[k] + 1
      BY <1>1, <1>4, <2>2, CommitEffect DEF Statement
    <3>2. v[k] <= version[k]
      BY <1>4, KeysAssumption DEF Real, Covers
    <3> QED BY <1>2, <1>4, <3>1, <3>2
  <2> QED BY <2>1, <2>2
<1> QED BY <1>3, <1>4 DEF Real

\* A commit adds one version, which its own request is about to answer for; when
\* the reply is lost, the keys it would have named are excused.
LEMMA LackStatement ==
  ASSUME TypeOK, NEW w \in Writers, NEW j \in Jobs, NEW keys \in SUBSET Keys,
         Statement(w, j, keys), NEW v \in Value, NEW k \in Keys, Real(v, k),
         LacksOnlyUnanswered(v, k), k \in keys => write' # write
  PROVE  LacksOnlyUnanswered(v, k)'
<1>1. Commit(w, j, keys)
  BY DEF Statement
<1>2. \A i \in Jobs : version[i] \in Nat /\ v[i] \in Nat
  BY DEF TypeOK, Value
<1>3. \A i \in Jobs, n \in Nat : Unanswered(i, n) => Unanswered(i, n)'
  BY <1>1, CommitEffect DEF Unanswered, Commit
<1> SUFFICES ASSUME NEW i \in Covers(k), NEW n \in (v[i] + 1)..version'[i]
             PROVE  Unanswered(i, n)'
  BY DEF LacksOnlyUnanswered, Unanswered
<1>4. i \in Jobs /\ n \in Nat
  BY <1>1, <1>2, CoveredAreJobs, CommitEffect DEF Value
<1>5. CASE n <= version[i]
  BY <1>2, <1>3, <1>4, <1>5 DEF LacksOnlyUnanswered
<1>6. CASE ~(n <= version[i])
  <2>1. i = j /\ n = version[j] + 1
    BY <1>1, <1>2, <1>4, <1>6, CommitEffect
  <2>2. CASE write' # write
    <3>1. write'[w] = [job |-> j, version |-> version[j] + 1, keys |-> keys]
      BY <1>1, <2>2 DEF Commit, TypeOK
    <3>2. write'[w] # Nil
      BY <1>1, <1>2, <3>1, NilIsNothing DEF Writes
    <3> QED BY <2>1, <3>1, <3>2 DEF Unanswered
  <2>3. CASE write' = write
    <3>1. k \notin keys /\ k = j /\ k \in Jobs
      BY <2>1, <2>3, CoveredAreJobs DEF Statement
    <3>2. version[j] = 0
      BY <3>1 DEF Statement
    <3>3. v[k] > 0 /\ v[k] <= version[k]
      BY <2>1, <3>1 DEF Real
    <3> QED BY <1>2, <3>1, <3>2, <3>3
  <2> QED BY <2>2, <2>3
<1> QED BY <1>5, <1>6

\* The end of a request matters only to the keys it names.
LEMMA LackEnd ==
  ASSUME TypeOK, UNCHANGED version, \A w \in Writers : Named(w),
         NEW v \in Value, NEW k \in Keys, Real(v, k), LacksOnlyUnanswered(v, k),
         \A w \in Writers : write[w] # Nil /\ write'[w] # write[w] => k \notin write[w].keys
  PROVE  LacksOnlyUnanswered(v, k)'
<1> SUFFICES ASSUME NEW i \in Covers(k), NEW n \in (v[i] + 1)..version[i]
             PROVE  Unanswered(i, n)'
  BY DEF LacksOnlyUnanswered, Unanswered
<1>1. PICK w \in Writers : write[w] # Nil /\ write[w].job = i /\ write[w].version = n
  BY DEF LacksOnlyUnanswered, Unanswered
<1>2. CASE write'[w] = write[w]
  BY <1>1, <1>2 DEF Unanswered
<1>3. CASE write'[w] # write[w]
  <2>1. k \notin write[w].keys
    BY <1>1, <1>3
  <2>2. k # AllJobs /\ k = i /\ k \in Jobs /\ write[w].version = 1
    BY <1>1, <2>1, CoveredAreJobs DEF Named
  <2>3. v[k] > 0 /\ v[k] \in Nat
    BY <2>2 DEF Real, Value
  <2>4. n >= v[k] + 1
    BY <2>2, <2>3
  <2> QED BY <1>1, <2>2, <2>3, <2>4
<1> QED BY <1>2, <1>3
-----------------------------------------------------------------------------
(* Every step preserves the invariant *)

\* An entry that stays keeps its part of the invariant when values keep theirs.
LEMMA EntryKept ==
  ASSUME TypeOK, NEW k \in Keys, EntryInv(k), entry'[k] = entry[k],
         \A v \in Value : Real(v, k) => Real(v, k)',
         k \notin excused' =>
           k \notin excused
           /\ \A v \in Value : Real(v, k) /\ LacksOnlyUnanswered(v, k)
                                 => LacksOnlyUnanswered(v, k)'
  PROVE  EntryInv(k)'
<1> SUFFICES ASSUME entry'[k] # Nil
             PROVE  /\ Real(entry[k], k)'
                    /\ k \notin excused' => LacksOnlyUnanswered(entry[k], k)'
  BY DEF EntryInv
<1>1. PICK v \in Value : v = entry[k]
  BY DEF TypeOK
<1>2. Real(v, k) /\ (k \notin excused => LacksOnlyUnanswered(v, k))
  BY <1>1 DEF EntryInv
<1>3. Real(v, k)' /\ (k \notin excused' => LacksOnlyUnanswered(v, k)')
  BY <1>2
<1> QED BY <1>1, <1>3 DEF Real, LacksOnlyUnanswered, Unanswered

\* So does a fill.
LEMMA FillKept ==
  ASSUME TypeOK, NEW r \in Readers, FillInv(r),
         fill'[r] # Nil =>
           /\ fill[r] # Nil
           /\ fill'[r].key = fill[r].key
           /\ fill'[r].value = fill[r].value
           /\ fill[r].overtaken => fill'[r].overtaken,
         \A v \in Value, k \in Keys : Real(v, k) => Real(v, k)',
         \A v \in Value, k \in Keys :
           fill'[r] # Nil /\ fill'[r].key = k /\ ~fill'[r].overtaken =>
             (Real(v, k) /\ LacksOnlyUnanswered(v, k) => LacksOnlyUnanswered(v, k)')
  PROVE  FillInv(r)'
<1> SUFFICES ASSUME fill'[r] # Nil
             PROVE  /\ Real(fill[r].value, fill[r].key)'
                    /\ ~fill'[r].overtaken =>
                         LacksOnlyUnanswered(fill[r].value, fill[r].key)'
  BY DEF FillInv
<1>1. PICK v \in Value, k \in Keys : v = fill[r].value /\ k = fill[r].key
  BY DEF TypeOK, Fills
<1>2. Real(v, k) /\ (~fill[r].overtaken => LacksOnlyUnanswered(v, k))
  BY <1>1 DEF FillInv
<1>3. Real(v, k)' /\ (~fill'[r].overtaken => LacksOnlyUnanswered(v, k)')
  BY <1>1, <1>2
<1>4. fill'[r].value = v /\ fill'[r].key = k
  BY <1>1
<1> QED BY <1>3, <1>4 DEF Real, LacksOnlyUnanswered, Unanswered

\* Where no row and no pending write changes, values keep what they have.
LEMMA ValuesKept ==
  ASSUME UNCHANGED <<version, deleted, write>>, NEW v \in Value, NEW k \in Keys
  PROVE  /\ Real(v, k) => Real(v, k)'
         /\ LacksOnlyUnanswered(v, k) => LacksOnlyUnanswered(v, k)'
BY DEF Real, LacksOnlyUnanswered, Unanswered

LEMMA ReadStep ==
  ASSUME IInv, NEW r \in Readers, NEW k \in Keys, Reading(r, k)
  PROVE  IInv'
<1> USE DEF IInv
<1>1. TypeOK'
  BY ReadingTypes
<1>2. ASSUME NEW l \in Keys PROVE EntryInv(l)'
  BY <1>2, ValuesKept, EntryKept DEF Reading, Fetch
<1>3. ASSUME NEW s \in Readers PROVE FillInv(s)'
  <2>1. CASE s # r
    <3>1. fill'[s] = fill[s]
      BY <2>1 DEF Reading, Fetch, TypeOK
    <3> QED BY <3>1, ValuesKept, FillKept DEF Reading, Fetch
  <2>2. CASE s = r
    <3>1. fill'[r] = [key |-> k, value |-> Snapshot(k), overtaken |-> FALSE]
      BY DEF Reading, Fetch, TypeOK
    <3>2. PICK v \in Value : v = Snapshot(k)
      BY SnapshotIsValue
    <3>3. \A j \in Covers(k) : v[j] = version[j] /\ version[j] \in Nat
      BY <3>2, SnapshotIsValue DEF TypeOK, Value
    <3>4. LacksOnlyUnanswered(v, k)
      BY <3>3 DEF LacksOnlyUnanswered
    <3>5. Real(v, k)
      <4>1. k \in Jobs => k \in Covers(k) /\ version[k] > 0 /\ k \notin deleted
        BY KeysAssumption DEF Covers, Reading, Live
      <4> QED BY <3>3, <4>1 DEF Real
    <3>6. Real(v, k)' /\ LacksOnlyUnanswered(v, k)'
      BY <3>4, <3>5, ValuesKept DEF Reading, Fetch
    <3>7. fill'[r].key = k /\ fill'[r].value = v
      BY <3>1, <3>2
    <3> QED BY <2>2, <3>6, <3>7 DEF FillInv, Real, LacksOnlyUnanswered, Unanswered
  <2> QED BY <2>1, <2>2
<1>4. ASSUME NEW w \in Writers PROVE Named(w)'
  BY DEF Reading, Fetch, Named
<1> QED BY <1>1, <1>2, <1>3, <1>4

LEMMA StoreStep ==
  ASSUME IInv, NEW r \in Readers, Store(r)
  PROVE  IInv'
<1> USE DEF IInv
<1>1. TypeOK'
  BY TypeStep DEF Next, Reader
<1>2. PICK v \in Value, k \in Keys : v = fill[r].value /\ k = fill[r].key
  BY DEF Store, TypeOK, Fills
<1>3. ASSUME NEW l \in Keys PROVE EntryInv(l)'
  <2>1. CASE l # k
    BY <1>2, <2>1, ValuesKept, EntryKept DEF Store, TypeOK
  <2>2. CASE l = k
    <3>1. entry'[k] = v
      BY <1>2 DEF Store, TypeOK
    <3>2. Real(v, k) /\ (~fill[r].overtaken => LacksOnlyUnanswered(v, k))
      BY <1>2 DEF FillInv, Store
    <3>3. k \notin excused' => ~fill[r].overtaken
      BY <1>2 DEF Store
    <3>4. Real(v, k)' /\ (k \notin excused' => LacksOnlyUnanswered(v, k)')
      BY <3>2, <3>3, ValuesKept DEF Store
    <3> QED BY <2>2, <3>1, <3>4 DEF EntryInv, Real, LacksOnlyUnanswered, Unanswered
  <2> QED BY <2>1, <2>2
<1>4. ASSUME NEW s \in Readers PROVE FillInv(s)'
  <2>1. fill'[s] = Nil \/ fill'[s] = fill[s]
    BY DEF Store, TypeOK
  <2> QED BY <2>1, ValuesKept, FillKept DEF Store
<1>5. ASSUME NEW w \in Writers PROVE Named(w)'
  BY DEF Store, Named
<1> QED BY <1>1, <1>3, <1>4, <1>5

LEMMA StoreErrStep ==
  ASSUME IInv, NEW r \in Readers, StoreErr(r)
  PROVE  IInv'
<1> USE DEF IInv
<1>1. TypeOK'
  BY TypeStep DEF Next, Reader
<1>2. ASSUME NEW k \in Keys PROVE EntryInv(k)'
  BY ValuesKept, EntryKept DEF StoreErr
<1>3. ASSUME NEW s \in Readers PROVE FillInv(s)'
  <2>1. fill'[s] = Nil \/ fill'[s] = fill[s]
    BY DEF StoreErr, TypeOK
  <2> QED BY <2>1, ValuesKept, FillKept DEF StoreErr
<1>4. ASSUME NEW w \in Writers PROVE Named(w)'
  BY DEF StoreErr, Named
<1> QED BY <1>1, <1>2, <1>3, <1>4

LEMMA ExpireStep ==
  ASSUME IInv, NEW k \in Keys, Expire(k)
  PROVE  IInv'
<1> USE DEF IInv
<1>1. TypeOK'
  BY TypeStep DEF Next
<1>2. ASSUME NEW l \in Keys PROVE EntryInv(l)'
  <2>1. CASE l = k
    BY <2>1 DEF Expire, EntryInv, TypeOK
  <2>2. CASE l # k
    BY <2>2, ValuesKept, EntryKept DEF Expire, TypeOK
  <2> QED BY <2>1, <2>2
<1>3. ASSUME NEW s \in Readers PROVE FillInv(s)'
  BY ValuesKept, FillKept DEF Expire
<1>4. ASSUME NEW w \in Writers PROVE Named(w)'
  BY DEF Expire, Named
<1> QED BY <1>1, <1>2, <1>3, <1>4

LEMMA StatementStep ==
  ASSUME IInv, NEW w \in Writers, NEW j \in Jobs, NEW keys \in SUBSET Keys,
         Statement(w, j, keys)
  PROVE  IInv'
<1> USE DEF IInv
<1>1. TypeOK'
  BY StatementTypes
<1>2. Commit(w, j, keys) /\ (write' # write => UNCHANGED <<fill, excused>>)
      /\ (write' = write => excused' = excused \cup keys /\ Overtake(keys))
  <2>1. Commit(w, j, keys)
    BY DEF Statement
  <2>2. [job |-> j, version |-> version[j] + 1, keys |-> keys] \in Writes
    BY DEF Writes, TypeOK, Value
  <2>3. [job |-> j, version |-> version[j] + 1, keys |-> keys] # Nil
    BY <2>2, NilIsNothing
  <2>4. write' = [write EXCEPT ![w] =
                    [job |-> j, version |-> version[j] + 1, keys |-> keys]] => write' # write
    BY <2>1, <2>3 DEF Commit, TypeOK
  <2> QED BY <2>1, <2>4 DEF Commit
<1>3. \A v \in Value, k \in Keys : Real(v, k) => Real(v, k)'
  BY RealStatement
<1>4. \A v \in Value, k \in Keys :
        (k \in keys => write' # write) /\ Real(v, k) /\ LacksOnlyUnanswered(v, k)
          => LacksOnlyUnanswered(v, k)'
  BY LackStatement
<1>5. ASSUME NEW k \in Keys PROVE EntryInv(k)'
  <2>1. entry'[k] = entry[k] /\ EntryInv(k)
    BY <1>2, CommitEffect
  <2>2. k \notin excused' => k \notin excused /\ (k \in keys => write' # write)
    BY <1>2
  <2> QED BY <1>3, <1>4, <2>1, <2>2, EntryKept
<1>6. ASSUME NEW r \in Readers PROVE FillInv(r)'
  <2>1. CASE write' # write
    <3>1. fill'[r] = fill[r]
      BY <1>2, <2>1
    <3> QED BY <1>3, <1>4, <2>1, <3>1, FillKept
  <2>2. CASE write' = write
    BY <1>2, <1>3, <1>4, <2>2, OvertakeMarks, FillKept
  <2> QED BY <2>1, <2>2
<1>7. ASSUME NEW u \in Writers PROVE Named(u)'
  <2>1. CASE write'[u] = write[u]
    BY <2>1 DEF Named
  <2>2. CASE write'[u] # write[u]
    <3>1. write'[u] = [job |-> j, version |-> version[j] + 1, keys |-> keys]
      BY <1>2, <2>2 DEF Commit, TypeOK
    <3>2. keys = {AllJobs, j} \/ (keys = {AllJobs} /\ version[j] = 0)
      BY DEF Statement
    <3> QED BY <3>1, <3>2 DEF Named
  <2> QED BY <2>1, <2>2
<1> QED BY <1>1, <1>5, <1>6, <1>7

\* Answering: the keys are gone or excused, and their readers overtaken.
LEMMA AnswerStep ==
  ASSUME IInv, NEW w \in Writers, Invalidate(w) \/ InvalidateErr(w)
  PROVE  IInv'
<1> USE DEF IInv
<1>1. TypeOK'
  BY TypeStep DEF Next, Writer
<1>2. write[w] # Nil /\ write[w].keys \in SUBSET Keys /\ Overtake(write[w].keys)
      /\ UNCHANGED <<version, deleted>>
  BY DEF Invalidate, InvalidateErr, TypeOK, Writes
<1>3. \A u \in Writers : u # w => write'[u] = write[u]
  BY DEF Invalidate, InvalidateErr, TypeOK
<1>4. write'[w] = Nil
  BY DEF Invalidate, InvalidateErr, TypeOK
<1>5. \A v \in Value, k \in Keys : Real(v, k) => Real(v, k)'
  BY <1>2 DEF Real
<1>6. \A v \in Value, k \in Keys :
        k \notin write[w].keys /\ Real(v, k) /\ LacksOnlyUnanswered(v, k)
          => LacksOnlyUnanswered(v, k)'
  BY <1>2, <1>3, LackEnd
<1>7. ASSUME NEW k \in Keys PROVE EntryInv(k)'
  <2>1. CASE entry'[k] = Nil
    BY <2>1 DEF EntryInv
  <2>2. CASE entry'[k] # Nil
    <3>1. entry'[k] = entry[k]
      BY <2>2 DEF Invalidate, InvalidateErr, TypeOK
    <3>2. k \notin excused' => k \notin excused /\ k \notin write[w].keys
      BY <2>2 DEF Invalidate, InvalidateErr, TypeOK
    <3> QED BY <1>5, <1>6, <3>1, <3>2, EntryKept
  <2> QED BY <2>1, <2>2
<1>8. ASSUME NEW r \in Readers PROVE FillInv(r)'
  BY <1>2, <1>5, <1>6, OvertakeMarks, FillKept
<1>9. ASSUME NEW u \in Writers PROVE Named(u)'
  BY <1>3, <1>4 DEF Named
<1> QED BY <1>1, <1>7, <1>8, <1>9

LEMMA CrashStep ==
  ASSUME IInv, Crash
  PROVE  IInv'
<1> USE DEF IInv
<1>1. TypeOK'
  BY TypeStep DEF Next
<1>2. \A v \in Value, k \in Keys : Real(v, k) => Real(v, k)'
  BY DEF Real, Crash
<1>3. ASSUME NEW k \in Keys PROVE EntryInv(k)'
  <2>1. k \notin excused' =>
          k \notin excused /\ \A w \in Writers : write[w] # Nil => k \notin write[w].keys
    BY DEF Crash
  <2>2. k \notin excused' =>
          \A v \in Value : Real(v, k) /\ LacksOnlyUnanswered(v, k)
                             => LacksOnlyUnanswered(v, k)'
    BY <2>1, LackEnd DEF Crash
  <2> QED BY <1>2, <2>1, <2>2, EntryKept DEF Crash
<1>4. ASSUME NEW r \in Readers PROVE FillInv(r)'
  BY DEF Crash, FillInv
<1>5. ASSUME NEW w \in Writers PROVE Named(w)'
  BY DEF Crash, Named
<1> QED BY <1>1, <1>3, <1>4, <1>5

LEMMA InvStep ==
  ASSUME IInv, [Next]_vars
  PROVE  IInv'
<1>1. ASSUME NEW r \in Readers, Reader(r) PROVE IInv'
  BY <1>1, ReadersFetch, ReadStep, StoreStep, StoreErrStep DEF Reader
<1>2. ASSUME NEW w \in Writers, Writer(w) PROVE IInv'
  BY <1>2, WritersCommit, StatementStep, AnswerStep DEF Writer
<1>3. ASSUME NEW k \in Keys, Expire(k) PROVE IInv'
  BY <1>3, ExpireStep
<1>4. CASE Crash
  BY <1>4, CrashStep
<1>5. CASE UNCHANGED vars
  BY <1>5 DEF vars, IInv, TypeOK, EntryInv, FillInv, Named, Real, LacksOnlyUnanswered,
              Unanswered
<1> QED BY <1>1, <1>2, <1>3, <1>4, <1>5 DEF Next

THEOREM Invariance == Spec => []IInv
<1>1. Init => IInv
  BY DEF Init, IInv, TypeOK, Value, EntryInv, FillInv, Named
<1>2. IInv /\ [Next]_vars => IInv'
  BY InvStep
<1> QED BY <1>1, <1>2, PTL DEF Spec

\* A client that has its answer finds its write in the cache, unless a DEL went
\* missing or a reader was overtaken.
THEOREM AnswersVisible == Spec => []AnsweredWritesVisible
<1>1. IInv => AnsweredWritesVisible
  BY DEF IInv, EntryInv, AnsweredWritesVisible
<1> QED BY <1>1, Invariance, PTL

\* No entry stands for a row the table did not have.
THEOREM OnlyRows == Spec => []EntriesShowRows
<1>1. IInv => EntriesShowRows
  <2> SUFFICES ASSUME IInv, NEW j \in Jobs, entry[j] # Nil
               PROVE  entry[j][j] > 0 /\ (j \in deleted => entry[j][j] < version[j])
    BY DEF EntriesShowRows
  <2>1. j \in Keys
    BY DEF Keys
  <2> QED BY <2>1 DEF IInv, EntryInv, Real
<1> QED BY <1>1, Invariance, PTL
=============================================================================
