-------------------------- MODULE RateLimit_proofs --------------------------
(***************************************************************************)
(* Twice the limit a window, for any number of clients and requests, any   *)
(* limit and any window.  A counter that was begun late lives on past its  *)
(* window, so the bound is not about one counter: Older says that what was *)
(* let through before this counter and its predecessor is a window old,    *)
(* and Ageing that the predecessor's requests will be so when the time of  *)
(* this counter is up.                                                     *)
(***************************************************************************)
EXTENDS RateLimit, TLAPS

\* The most requests that the present counter of k has let through.
Current(k) == IF count[k] <= MaxRequests THEN count[k] ELSE MaxRequests

Older == \A k \in Keys, i \in Recent : i > Current(k) + MaxRequests => age[k][i] = Window

Ageing ==
  \A k \in Keys, i \in Recent :
    ttl[k] # None /\ i > Current(k) => age[k][i] + ttl[k] >= Window

\* Only a key that exists has a time to live; one request is about to set it at most.
Pending ==
  /\ \A k \in Keys : ttl[k] # None => count[k] > 0
  /\ \A h \in Handlers : expiring[h] # None => count[expiring[h]] > 0 /\ ttl[expiring[h]] = None
  /\ \A g, h \in Handlers : expiring[g] = expiring[h] /\ expiring[g] # None => g = h

IInv == TypeOK /\ Older /\ Ageing /\ Pending /\ NoExpiryExplained

-----------------------------------------------------------------------------

THEOREM InitIInv == Init => IInv
<1>. SUFFICES ASSUME Init PROVE IInv
  OBVIOUS
<1>. USE LimitAssumption, NoneAssumption DEF Init
<1>1. TypeOK
  BY DEF TypeOK, OverLimit, Recent
<1>2. Older /\ Ageing
  BY DEF Older, Ageing
<1>3. Pending /\ NoExpiryExplained
  BY DEF Pending, NoExpiryExplained
<1>. QED
  BY <1>1, <1>2, <1>3 DEF IInv

\* What the types say of one key.
LEMMA KeyTypes ==
  ASSUME TypeOK, NEW k \in Keys
  PROVE  /\ count[k] \in Nat /\ Current(k) \in Nat /\ Current(k) <= MaxRequests
         /\ ttl[k] # None => ttl[k] \in 1..Window
         /\ \A i \in Recent : age[k][i] \in 0..Window
  BY LimitAssumption, NoneAssumption DEF TypeOK, OverLimit, Current

\* A request that is counted and let through pushes the others one place on.
LEMMA AdmittedKeeps ==
  ASSUME IInv, NEW k \in Keys, Admitted(k), UNCHANGED ttl,
         count[k] < MaxRequests, count' = [count EXCEPT ![k] = count[k] + 1]
  PROVE  Older' /\ Ageing' /\ age' \in [Keys -> [Recent -> 0..Window]]
<1>1. Current(k)' = Current(k) + 1 /\ \A j \in Keys \ {k} : Current(j)' = Current(j)
  BY LimitAssumption DEF IInv, TypeOK, OverLimit, Current
<1>2. \A i \in Recent : age'[k][i] = IF i = 1 THEN 0 ELSE age[k][i - 1]
  BY DEF Admitted, IInv, TypeOK
<1>3. \A j \in Keys \ {k} : age'[j] = age[j]
  BY DEF Admitted, IInv, TypeOK
<1>4. \A i \in Recent : i # 1 => i - 1 \in Recent
  BY LimitAssumption DEF Recent
<1>5. age' \in [Keys -> [Recent -> 0..Window]]
  BY <1>4, LimitAssumption DEF Admitted, IInv, TypeOK
<1>6. Older'
  <2>. SUFFICES ASSUME NEW j \in Keys, NEW i \in Recent, i > Current(j)' + MaxRequests
                PROVE  age'[j][i] = Window
    BY DEF Older
  <2>1. Current(j) \in Nat /\ i \in Int
    BY KeyTypes DEF IInv, Recent
  <2>2. CASE j # k
    BY <2>2, <1>1, <1>3 DEF IInv, Older
  <2>3. CASE j = k
    <3>1. i # 1 /\ i - 1 > Current(k) + MaxRequests
      BY <2>1, <2>3, <1>1, LimitAssumption
    <3>. QED
      BY <2>3, <3>1, <1>2, <1>4 DEF IInv, Older
  <2>. QED
    BY <2>2, <2>3
<1>7. Ageing'
  <2>. SUFFICES ASSUME NEW j \in Keys, NEW i \in Recent, ttl[j] # None, i > Current(j)'
                PROVE  age'[j][i] + ttl[j] >= Window
    BY DEF Ageing
  <2>1. Current(j) \in Nat /\ i \in Int
    BY KeyTypes DEF IInv, Recent
  <2>2. CASE j # k
    BY <2>2, <1>1, <1>3 DEF IInv, Ageing
  <2>3. CASE j = k
    <3>1. i # 1 /\ i - 1 > Current(k)
      BY <2>1, <2>3, <1>1, LimitAssumption
    <3>. QED
      BY <2>3, <3>1, <1>2, <1>4 DEF IInv, Ageing
  <2>. QED
    BY <2>2, <2>3
<1>. QED
  BY <1>5, <1>6, <1>7

\* A request that is counted and not let through only shields more places.
LEMMA CountedKeeps ==
  ASSUME IInv, NEW k \in Keys, UNCHANGED <<age, ttl>>,
         count' = [count EXCEPT ![k] = More(count[k])]
  PROVE  Older' /\ Ageing' /\ count' \in [Keys -> 0..OverLimit] /\ count'[k] > 0
<1>1. More(count[k]) \in 0..OverLimit /\ More(count[k]) >= count[k] /\ More(count[k]) > 0
  BY LimitAssumption DEF IInv, TypeOK, OverLimit, More
<1>2. count' \in [Keys -> 0..OverLimit] /\ count'[k] > 0
  BY <1>1 DEF IInv, TypeOK
<1>3. \A j \in Keys : Current(j) \in Nat /\ Current(j)' \in Nat /\ Current(j)' >= Current(j)
  BY <1>1, LimitAssumption DEF IInv, TypeOK, OverLimit, Current
<1>4. \A i \in Recent : i \in Int
  BY DEF Recent
<1>5. Older'
  BY <1>3, <1>4, LimitAssumption DEF IInv, Older
<1>6. Ageing'
  BY <1>3, <1>4 DEF IInv, Ageing
<1>. QED
  BY <1>2, <1>5, <1>6

-----------------------------------------------------------------------------

LEMMA IncrFirstKeeps ==
  ASSUME IInv, NEW h \in Handlers, NEW k \in Keys, expiring[h] = None, IncrFirst(h, k)
  PROVE  IInv'
<1>. USE DEF IncrFirst
<1>0. count[k] < MaxRequests /\ count' = [count EXCEPT ![k] = count[k] + 1]
  BY LimitAssumption
<1>1. Older' /\ Ageing' /\ age' \in [Keys -> [Recent -> 0..Window]]
  BY <1>0, AdmittedKeeps
<1>2. TypeOK'
  <2>1. count' \in [Keys -> 0..OverLimit]
    BY LimitAssumption DEF IInv, TypeOK, OverLimit
  <2>2. expiring' \in [Handlers -> Keys \cup {None}]
    BY DEF IInv, TypeOK
  <2>. QED
    BY <1>1, <2>1, <2>2 DEF IInv, TypeOK
<1>3. ttl[k] = None /\ \A g \in Handlers : expiring[g] # k
  BY NoneAssumption DEF IInv, Pending
<1>4. Pending'
  BY <1>3 DEF IInv, Pending, TypeOK
<1>5. NoExpiryExplained'
  <2>. SUFFICES ASSUME NEW j \in Keys, count'[j] > 0, ttl[j] = None
                PROVE  j \in orphaned \/ \E g \in Handlers : expiring'[g] = j
    BY DEF NoExpiryExplained
  <2>1. CASE j = k
    BY <2>1 DEF IInv, TypeOK
  <2>2. CASE j # k
    <3>1. count[j] > 0
      BY <2>2 DEF IInv, TypeOK
    <3>2. \A g \in Handlers : expiring[g] = j => expiring'[g] = j
      BY NoneAssumption DEF IInv, TypeOK
    <3>. QED
      BY <3>1, <3>2 DEF IInv, NoExpiryExplained
  <2>. QED
    BY <2>1, <2>2
<1>. QED
  BY <1>1, <1>2, <1>4, <1>5 DEF IInv

LEMMA IncrAdmitsKeeps ==
  ASSUME IInv, NEW k \in Keys, IncrAdmits(k)
  PROVE  IInv'
<1>. USE DEF IncrAdmits
<1>1. count[k] < MaxRequests /\ More(count[k]) = count[k] + 1
  BY LimitAssumption DEF IInv, TypeOK, OverLimit, More
<1>2. Older' /\ Ageing' /\ age' \in [Keys -> [Recent -> 0..Window]]
  BY <1>1, AdmittedKeeps
<1>3. TypeOK'
  <2>1. count' \in [Keys -> 0..OverLimit]
    BY <1>1, LimitAssumption DEF IInv, TypeOK, OverLimit
  <2>. QED
    BY <1>2, <2>1 DEF IInv, TypeOK
<1>4. Pending' /\ NoExpiryExplained'
  BY <1>1, LimitAssumption DEF IInv, Pending, NoExpiryExplained, TypeOK, OverLimit
<1>. QED
  BY <1>2, <1>3, <1>4 DEF IInv

LEMMA IncrRefusesKeeps ==
  ASSUME IInv, NEW k \in Keys, IncrRefuses(k)
  PROVE  IInv'
<1>. USE DEF IncrRefuses
<1>1. Older' /\ Ageing' /\ count' \in [Keys -> 0..OverLimit] /\ count'[k] > 0
  BY CountedKeeps
<1>2. TypeOK'
  BY <1>1 DEF IInv, TypeOK
<1>3. Pending' /\ NoExpiryExplained'
  BY <1>1 DEF IInv, Pending, NoExpiryExplained, TypeOK
<1>. QED
  BY <1>1, <1>2, <1>3 DEF IInv

LEMMA IncrUnheardKeeps ==
  ASSUME IInv, NEW k \in Keys, IncrUnheard(k)
  PROVE  IInv'
<1>. USE DEF IncrUnheard
<1>1. Older' /\ Ageing' /\ count' \in [Keys -> 0..OverLimit] /\ count'[k] > 0
  BY CountedKeeps
<1>2. TypeOK'
  BY <1>1 DEF IInv, TypeOK
<1>3. Pending'
  BY <1>1 DEF IInv, Pending, TypeOK
<1>4. NoExpiryExplained'
  <2>. SUFFICES ASSUME NEW j \in Keys, count'[j] > 0, ttl[j] = None
                PROVE  j \in orphaned' \/ \E h \in Handlers : expiring[h] = j
    BY DEF NoExpiryExplained
  <2>1. CASE count[j] = 0
    BY <2>1 DEF IInv, TypeOK
  <2>2. CASE count[j] # 0
    <3>1. count[j] > 0
      BY <2>2 DEF IInv, TypeOK, OverLimit
    <3>. QED
      BY <3>1 DEF IInv, NoExpiryExplained
  <2>. QED
    BY <2>1, <2>2
<1>. QED
  BY <1>1, <1>2, <1>3, <1>4 DEF IInv

LEMMA ExpireKeeps ==
  ASSUME IInv, NEW h \in Handlers, Expire(h)
  PROVE  IInv'
<1>. USE DEF Expire
<1>1. PICK k \in Keys : expiring[h] = k
  BY DEF IInv, TypeOK
<1>2. TypeOK'
  BY <1>1, LimitAssumption DEF IInv, TypeOK
<1>3. Older'
  BY DEF IInv, Older, Current
<1>4. Ageing'
  <2>. SUFFICES ASSUME NEW j \in Keys, NEW i \in Recent, ttl'[j] # None, i > Current(j)'
                PROVE  age[j][i] + ttl'[j] >= Window
    BY DEF Ageing
  <2>1. Current(j)' = Current(j) /\ age[j][i] \in 0..Window
    BY KeyTypes DEF IInv, Current
  <2>2. CASE j = k
    BY <1>1, <2>1, <2>2, LimitAssumption DEF IInv, TypeOK
  <2>3. CASE j # k
    BY <1>1, <2>1, <2>3 DEF IInv, TypeOK, Ageing
  <2>. QED
    BY <2>2, <2>3
<1>5. Pending'
  BY <1>1, NoneAssumption DEF IInv, TypeOK, Pending
<1>6. NoExpiryExplained'
  BY <1>1, LimitAssumption, NoneAssumption DEF IInv, TypeOK, NoExpiryExplained
<1>. QED
  BY <1>2, <1>3, <1>4, <1>5, <1>6 DEF IInv

LEMMA ExpireErrKeeps ==
  ASSUME IInv, NEW h \in Handlers, ExpireErr(h)
  PROVE  IInv'
<1>. USE DEF ExpireErr
<1>1. TypeOK'
  BY DEF IInv, TypeOK
<1>2. Older' /\ Ageing'
  BY DEF IInv, Older, Ageing, Current
<1>3. Pending' /\ NoExpiryExplained'
  BY DEF IInv, TypeOK, Pending, NoExpiryExplained
<1>. QED
  BY <1>1, <1>2, <1>3 DEF IInv

LEMMA RestartKeeps ==
  ASSUME IInv, Restart
  PROVE  IInv'
<1>. USE DEF Restart
<1>1. TypeOK'
  BY DEF IInv, TypeOK
<1>2. Older' /\ Ageing'
  BY DEF IInv, Older, Ageing, Current
<1>3. Pending' /\ NoExpiryExplained'
  BY NoneAssumption DEF IInv, TypeOK, Pending, NoExpiryExplained
<1>. QED
  BY <1>1, <1>2, <1>3 DEF IInv

LEMMA TickKeeps ==
  ASSUME IInv, Tick
  PROVE  IInv'
<1>. USE DEF Tick
<1>1. \A k \in Keys : ttl[k] = None \/ ttl[k] \in 1..Window
  BY DEF IInv, TypeOK
<1>2. \A k \in Keys :
        /\ count'[k] = IF ttl[k] = 1 THEN 0 ELSE count[k]
        /\ ttl'[k] = IF ttl[k] = None \/ ttl[k] = 1 THEN None ELSE ttl[k] - 1
  OBVIOUS
<1>3. \A k \in Keys, i \in Recent :
        age'[k][i] = IF age[k][i] < Window THEN age[k][i] + 1 ELSE Window
  OBVIOUS
<1>4. None \notin Nat
  BY NoneAssumption
<1>5. TypeOK'
  <2>1. count' \in [Keys -> 0..OverLimit]
    BY LimitAssumption DEF IInv, TypeOK, OverLimit
  <2>2. \A k \in Keys : ttl'[k] \in 1..Window \cup {None}
    BY <1>1, <1>2, LimitAssumption
  <2>3. ttl' \in [Keys -> 1..Window \cup {None}]
    BY <2>2
  <2>4. \A k \in Keys, i \in Recent : age'[k][i] \in 0..Window
    BY <1>3, KeyTypes, LimitAssumption DEF IInv
  <2>5. age' \in [Keys -> [Recent -> 0..Window]]
    BY <2>4
  <2>. QED
    BY <2>1, <2>3, <2>5 DEF IInv, TypeOK
<1>6. Older' /\ Ageing'
  <2>. SUFFICES ASSUME NEW k \in Keys, NEW i \in Recent
                PROVE  /\ i > Current(k)' + MaxRequests => age'[k][i] = Window
                       /\ ttl'[k] # None /\ i > Current(k)' => age'[k][i] + ttl'[k] >= Window
    BY DEF Older, Ageing
  <2>1. age[k][i] \in 0..Window /\ Current(k) \in Nat /\ Current(k) <= MaxRequests /\ i \in Int
    BY KeyTypes DEF IInv, Recent
  <2>2. i > Current(k) + MaxRequests => age[k][i] = Window
    BY DEF IInv, Older
  <2>3. ttl[k] # None /\ i > Current(k) => age[k][i] + ttl[k] >= Window
    BY DEF IInv, Ageing
  <2>4. CASE ttl[k] = 1
    <3>1. Current(k)' = 0 /\ ttl'[k] = None
      BY <2>4, <1>2, LimitAssumption DEF Current
    <3>2. i > MaxRequests => age[k][i] + 1 >= Window
      BY <2>1, <2>3, <2>4, <1>4, LimitAssumption
    <3>3. age'[k][i] = IF age[k][i] < Window THEN age[k][i] + 1 ELSE Window
      BY <1>3
    <3>4. i > MaxRequests => age'[k][i] = Window
      BY <3>2, <3>3, <2>1, LimitAssumption
    <3>. QED
      BY <3>1, <3>4, LimitAssumption
  <2>5. CASE ttl[k] # 1
    <3>1. Current(k)' = Current(k)
      BY <2>5, <1>2 DEF Current
    <3>2. ttl'[k] # None => ttl[k] # None /\ ttl[k] \in 1..Window /\ ttl'[k] = ttl[k] - 1
      BY <2>5, <1>1, <1>2
    <3>. QED
      BY <3>1, <3>2, <2>1, <2>2, <2>3, <1>3, LimitAssumption
  <2>. QED
    BY <2>4, <2>5
<1>7. Pending'
  <2>1. \A k \in Keys : ttl'[k] # None => count'[k] > 0
    BY <1>1, <1>2, <1>4 DEF IInv, Pending
  <2>2. \A h \in Handlers :
          expiring[h] # None => count'[expiring[h]] > 0 /\ ttl'[expiring[h]] = None
    BY <1>2, <1>4 DEF IInv, TypeOK, Pending
  <2>. QED
    BY <2>1, <2>2 DEF IInv, Pending
<1>8. NoExpiryExplained'
  <2>. SUFFICES ASSUME NEW k \in Keys, count'[k] > 0, ttl'[k] = None
                PROVE  k \in orphaned \/ \E h \in Handlers : expiring[h] = k
    BY DEF NoExpiryExplained
  <2>1. count[k] > 0 /\ ttl[k] # 1
    BY <1>2
  <2>2. ttl[k] = None
    BY <2>1, <1>1, <1>2, <1>4
  <2>. QED
    BY <2>1, <2>2 DEF IInv, NoExpiryExplained
<1>. QED
  BY <1>5, <1>6, <1>7, <1>8 DEF IInv

-----------------------------------------------------------------------------

THEOREM StepKeepsIInv == IInv /\ [Next]_vars => IInv'
<1>. SUFFICES ASSUME IInv, [Next]_vars PROVE IInv'
  OBVIOUS
<1>1. ASSUME NEW h \in Handlers, NEW k \in Keys, Limited(h, k) PROVE IInv'
  BY <1>1, IncrFirstKeeps, IncrAdmitsKeeps, IncrRefusesKeeps, IncrUnheardKeeps DEF Limited
<1>2. ASSUME NEW h \in Handlers, Expire(h) \/ ExpireErr(h) PROVE IInv'
  BY <1>2, ExpireKeeps, ExpireErrKeeps
<1>3. CASE UNCHANGED vars
  BY <1>3 DEF vars, IInv, TypeOK, Older, Ageing, Current, Pending, NoExpiryExplained
<1>. QED
  BY <1>1, <1>2, <1>3, RestartKeeps, TickKeeps DEF Next

THEOREM Inductive == Spec => []IInv
  BY InitIInv, StepKeepsIInv, PTL DEF Spec

\* Counters, expiries and ages stay within their bounds: EXPIRE sets the window and
\* nothing longer.
THEOREM TypeCorrect == Spec => []TypeOK
<1>1. IInv => TypeOK
  BY DEF IInv
<1>. QED
  BY <1>1, Inductive, PTL

\* Whatever the delays, failures and crashes between INCR and EXPIRE, no window sees
\* more than twice the limit of one client's requests.
THEOREM TwiceTheLimit == Spec => []WindowBound
<1>1. IInv => WindowBound
  <2>. SUFFICES ASSUME IInv, NEW k \in Keys PROVE age[k][2 * MaxRequests + 1] = Window
    BY DEF WindowBound
  <2>1. 2 * MaxRequests + 1 \in Recent
    BY LimitAssumption DEF Recent
  <2>2. 2 * MaxRequests + 1 > Current(k) + MaxRequests
    BY KeyTypes, LimitAssumption DEF IInv
  <2>. QED
    BY <2>1, <2>2 DEF IInv, Older
<1>. QED
  BY <1>1, Inductive, PTL

\* A counter without an expiry has been orphaned by a failure, or its creator is
\* about to set one.
THEOREM LockoutExplained == Spec => []NoExpiryExplained
<1>1. IInv => NoExpiryExplained
  BY DEF IInv
<1>. QED
  BY <1>1, Inductive, PTL
=============================================================================
