-------------------------- MODULE Sessions_proofs --------------------------
(***************************************************************************)
(* A revoked token stays refused until it expires, for any number of       *)
(* users and requests and any precision of the two clocks.  The inductive  *)
(* invariant follows the expiry through a logout: what is computed         *)
(* (TtlCovers), what Redis then holds (Kept), what a request has learnt    *)
(* that found nothing there (BarredLate).                                  *)
(***************************************************************************)
EXTENDS Sessions, TLAPS

TtlCovers == \A r \in Requests : stage[r] = "set" => now + ttl[r] >= token[r].expires

Kept == \A t \in revoked : blacklist[t] + Milli > t.expires

BarredLate ==
  \A r \in barred :
    /\ stage[r] \notin {"idle", "exists"}
    /\ stage[r] = "validate" => now + Milli > token[r].expires

IInv == TypeOK /\ TtlCovers /\ Kept /\ BarredLate

-----------------------------------------------------------------------------

\* The precision of the clock does not carry it past its bound.
LEMMA WholeSeconds ==
  ASSUME NEW n \in Nat PROVE n \div Second \in 0..n
<1>1. n \div Second \in Int /\ n = Second * (n \div Second) + (n % Second)
      /\ n % Second \in 0..(Second - 1)
  BY ClockAssumption, SMT
<1>. QED
  BY <1>1, ClockAssumption, SMT

\* Every token that is carried has been issued, and its expiry is a time.
LEMMA Carried ==
  ASSUME TypeOK, NEW r \in Requests, stage[r] # "idle"
  PROVE  /\ token[r] \in issued /\ token[r] \in Tokens
         /\ token[r].expires \in Nat
<1>1. token[r] \in issued /\ token[r] \in Tokens
  BY DEF TypeOK
<1>2. \A t \in Tokens : t.expires \in Nat
  BY ClockAssumption DEF Tokens
<1>. QED
  BY <1>1, <1>2

\* A token issued by Login is one.
LEMMA Issued ==
  ASSUME TypeOK, NEW u \in Users
  PROVE  [user |-> u, expires |-> Second * (now \div Second + Lifetime)] \in Tokens
<1>1. now \div Second \in 0..MaxTime
  BY WholeSeconds, ClockAssumption DEF TypeOK
<1>2. now \div Second + Lifetime \in 0..(MaxTime + Lifetime)
  BY <1>1, ClockAssumption
<1>. QED
  BY <1>2 DEF Tokens

-----------------------------------------------------------------------------

THEOREM InitIInv == Init => IInv
<1>. SUFFICES ASSUME Init PROVE IInv
  OBVIOUS
<1>1. TypeOK
  BY ClockAssumption DEF Init, TypeOK
<1>. QED
  BY <1>1 DEF Init, IInv, TtlCovers, Kept, BarredLate

\* An answered request carries nothing.
LEMMA AnswerKeeps ==
  ASSUME IInv, NEW r \in Requests, Answer(r), stage[r] # "idle",
         UNCHANGED <<now, issued>>,
         blacklist' \in [Tokens -> Int], revoked' \subseteq issued, Kept'
  PROVE  IInv'
<1>1. TypeOK'
  BY DEF IInv, TypeOK, Answer
<1>2. TtlCovers'
  BY DEF IInv, TypeOK, TtlCovers, Answer
<1>3. BarredLate'
  BY DEF IInv, TypeOK, BarredLate, Answer
<1>. QED
  BY <1>1, <1>2, <1>3 DEF IInv

LEMMA GotoKeeps ==
  ASSUME IInv, NEW r \in Requests, stage[r] # "idle",
         NEW next \in {"validate", "serve", "revalidate", "ttl"}, Goto(r, next),
         next = "validate" => r \notin barred,
         UNCHANGED <<now, issued, blacklist, revoked>>
  PROVE  IInv'
<1>1. TypeOK'
  BY DEF IInv, TypeOK, Goto
<1>2. TtlCovers'
  BY DEF IInv, TypeOK, TtlCovers, Goto
<1>3. BarredLate'
  BY DEF IInv, TypeOK, BarredLate, Goto
<1>4. Kept'
  BY DEF IInv, Kept
<1>. QED
  BY <1>1, <1>2, <1>3, <1>4 DEF IInv

LEMMA BlacklistKeeps ==
  ASSUME IInv, NEW r \in Requests, stage[r] = "set", Blacklist(r), UNCHANGED <<now, issued>>,
         revoked' \subseteq revoked \cup {token[r]}
  PROVE  blacklist' \in [Tokens -> Int] /\ Kept'
<1>1. token[r] \in Tokens /\ token[r].expires \in Nat
  BY Carried DEF IInv
<1>2. now \in Nat /\ ttl[r] \in Nat /\ blacklist \in [Tokens -> Int] /\ revoked \subseteq Tokens
  BY DEF IInv, TypeOK
<1>3. now + ttl[r] >= token[r].expires
  BY DEF IInv, TtlCovers
<1>4. PICK short \in 0..(Milli - 1) :
        blacklist' = [blacklist EXCEPT ![token[r]] = now + ttl[r] - short]
  BY DEF Blacklist
<1>5. blacklist' \in [Tokens -> Int] /\ blacklist'[token[r]] + Milli > token[r].expires
  BY <1>1, <1>2, <1>3, <1>4, ClockAssumption
<1>6. ASSUME NEW t \in revoked' PROVE blacklist'[t] + Milli > t.expires
  <2>1. CASE t = token[r]
    BY <1>5, <2>1
  <2>2. CASE t # token[r]
    BY <1>2, <1>4, <2>2 DEF IInv, Kept
  <2>. QED
    BY <2>1, <2>2
<1>. QED
  BY <1>5, <1>6 DEF Kept

-----------------------------------------------------------------------------
(* One step per action. *)

LEMMA NextKeeps == IInv /\ [Next]_vars => IInv'
<1>. SUFFICES ASSUME IInv, [Next]_vars PROVE IInv'
  OBVIOUS
<1>1. CASE UNCHANGED vars
  BY <1>1 DEF vars, IInv, TypeOK, TtlCovers, Kept, BarredLate
<1>2. CASE Tick
  <2>1. TypeOK'
    BY <1>2, ClockAssumption DEF IInv, TypeOK, Tick
  <2>2. \A r \in Requests : stage[r] # "idle" => token[r].expires \in Nat
    BY Carried DEF IInv
  <2>3. TtlCovers'
    BY <1>2, <2>2, ClockAssumption DEF IInv, TypeOK, TtlCovers, Tick
  <2>4. BarredLate'
    BY <1>2, <2>2, ClockAssumption DEF IInv, TypeOK, BarredLate, Tick
  <2>5. Kept'
    BY <1>2 DEF IInv, Kept, Tick
  <2>. QED
    BY <2>1, <2>3, <2>4, <2>5 DEF IInv
<1>3. ASSUME NEW u \in Users, Login(u) PROVE IInv'
  <2>1. TypeOK'
    BY <1>3, Issued DEF IInv, TypeOK, Login
  <2>. QED
    BY <1>3, <2>1 DEF IInv, TtlCovers, Kept, BarredLate, Login
<1>4. ASSUME NEW r \in Requests, NEW t \in issued, Send(r, t) PROVE IInv'
  <2>1. TypeOK'
    BY <1>4, NobodyAssumption DEF IInv, TypeOK, Send
  <2>2. TtlCovers' /\ BarredLate'
    BY <1>4 DEF IInv, TypeOK, TtlCovers, BarredLate, Send
  <2>. QED
    BY <1>4, <2>1, <2>2 DEF IInv, Kept, Send
<1>5. ASSUME NEW r \in Requests, LookUp(r) PROVE IInv'
  <2>1. CASE Answer(r)
    BY <1>5, <2>1, AnswerKeeps DEF LookUp, IInv, TypeOK, Kept
  <2>2. CASE /\ now >= blacklist[token[r]]
             /\ stage' = [stage EXCEPT ![r] = "validate"]
             /\ barred' = IF token[r] \in revoked THEN barred \cup {r} ELSE barred
             /\ UNCHANGED <<token, ttl>>
    <3>1. TypeOK'
      BY <1>5, <2>2 DEF IInv, TypeOK, LookUp
    <3>2. TtlCovers' /\ Kept'
      BY <1>5, <2>2 DEF IInv, TypeOK, TtlCovers, Kept, LookUp
    <3>3. token[r] \in revoked => now + Milli > token[r].expires
      <4>1. token[r] \in Tokens /\ token[r].expires \in Nat
        BY <1>5, Carried DEF IInv, LookUp
      <4>. QED
        BY <2>2, <4>1, ClockAssumption DEF IInv, TypeOK, Kept
    <3>4. r \notin barred
      BY <1>5 DEF IInv, BarredLate, LookUp
    <3>5. BarredLate'
      BY <1>5, <2>2, <3>3, <3>4 DEF IInv, TypeOK, BarredLate, LookUp
    <3>. QED
      BY <3>1, <3>2, <3>5 DEF IInv
  <2>. QED
    BY <1>5, <2>1, <2>2 DEF LookUp
<1>6. ASSUME NEW r \in Requests, LookUpErr(r) PROVE IInv'
  <2>1. r \notin barred
    BY <1>6 DEF IInv, BarredLate, LookUpErr
  <2>. QED
    BY <1>6, <2>1, GotoKeeps DEF LookUpErr
<1>7. ASSUME NEW r \in Requests, NEW next \in {"serve", "revalidate", "ttl"},
             stage[r] # "idle", ValidateThen(r, next)
      PROVE  IInv'
  <2>1. CASE Answer(r)
    BY <1>7, <2>1, AnswerKeeps DEF ValidateThen, IInv, TypeOK, Kept
  <2>2. CASE Goto(r, next)
    BY <1>7, <2>2, GotoKeeps DEF ValidateThen
  <2>. QED
    BY <1>7, <2>1, <2>2 DEF ValidateThen
<1>8. ASSUME NEW r \in Requests, ValidateToken(r) PROVE IInv'
  BY <1>7, <1>8 DEF ValidateToken
<1>9. ASSUME NEW r \in Requests, Serve(r) PROVE IInv'
  BY <1>9, AnswerKeeps DEF Serve, IInv, TypeOK, Kept
<1>10. ASSUME NEW r \in Requests, Revalidate(r) PROVE IInv'
  BY <1>7, <1>10 DEF Revalidate
<1>11. ASSUME NEW r \in Requests, ComputeTtl(r) PROVE IInv'
  <2>. DEFINE d == IF Remaining(r) <= 0 THEN Second ELSE Remaining(r)
  <2>1. SetTtl(r, d) /\ stage[r] = "ttl"
    BY <1>11 DEF ComputeTtl, SetTtl
  <2>2. token[r].expires \in Nat /\ now \in Nat
    BY <2>1, Carried, ClockAssumption DEF IInv, TypeOK
  <2>3. d \in Nat /\ d > 0 /\ now + d >= token[r].expires
    BY <2>2, ClockAssumption DEF Remaining
  <2>. HIDE DEF d
  <2>4. TypeOK'
    BY <2>1, <2>3 DEF IInv, TypeOK, SetTtl
  <2>5. TtlCovers'
    BY <2>1, <2>3 DEF IInv, TypeOK, TtlCovers, SetTtl
  <2>6. Kept' /\ BarredLate'
    BY <2>1 DEF IInv, TypeOK, Kept, BarredLate, SetTtl
  <2>. QED
    BY <2>4, <2>5, <2>6 DEF IInv
<1>12. ASSUME NEW r \in Requests, Revoke(r) PROVE IInv'
  <2>1. token[r] \in issued
    BY <1>12, Carried DEF IInv, Revoke
  <2>2. blacklist' \in [Tokens -> Int] /\ Kept'
    BY <1>12, BlacklistKeeps DEF Revoke
  <2>. QED
    BY <1>12, <2>1, <2>2, AnswerKeeps DEF Revoke, IInv, TypeOK
<1>13. ASSUME NEW r \in Requests, RevokeErr(r) PROVE IInv'
  <2>1. blacklist' \in [Tokens -> Int] /\ Kept'
    <3>1. CASE Blacklist(r)
      BY <1>13, <3>1, BlacklistKeeps DEF RevokeErr
    <3>2. CASE UNCHANGED blacklist
      BY <1>13, <3>2 DEF RevokeErr, IInv, TypeOK, Kept
    <3>. QED
      BY <1>13, <3>1, <3>2 DEF RevokeErr
  <2>. QED
    BY <1>13, <2>1, AnswerKeeps DEF RevokeErr, IInv, TypeOK
<1>. QED
  BY <1>1, <1>2, <1>3, <1>4, <1>5, <1>6, <1>8, <1>9, <1>10, <1>11, <1>12, <1>13
  DEF Next, Request

-----------------------------------------------------------------------------

THEOREM Invariance == Spec => []IInv
BY InitIInv, NextKeeps, PTL DEF Spec

\* Types, and that Redis is never given an expiry that is not positive.
THEOREM TypeCorrect == Spec => []TypeOK
<1>1. IInv => TypeOK
  BY DEF IInv
<1>. QED
  BY Invariance, <1>1, PTL

\* A token that was revoked is not admitted by a request that Redis answered,
\* except in the last millisecond of its life.
THEOREM Refused == Spec => RevokedIsRefused
<1>1. IInv /\ [Next]_vars =>
        [\A r \in Requests :
           Admits(r) /\ r \in barred => token[r].expires - now < Milli]_vars
  <2>. SUFFICES ASSUME IInv, NEW r \in Requests, Admits(r), r \in barred
                PROVE  token[r].expires - now < Milli
    OBVIOUS
  <2>1. token[r].expires \in Nat /\ now \in Nat
    BY Carried, ClockAssumption DEF IInv, TypeOK, Admits
  <2>. QED
    BY <2>1, ClockAssumption DEF IInv, BarredLate, Admits
<1>. QED
  BY Invariance, <1>1, PTL DEF Spec, RevokedIsRefused
=============================================================================
