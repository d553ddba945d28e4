------------------------------ MODULE Sessions ------------------------------
(***************************************************************************)
(* Tokens from Login to Logout: auth.GenerateToken, AuthMiddleware's two   *)
(* checks, and the blacklist entry Logout leaves in Redis for the rest of  *)
(* the token's life.  Token and entry expire independently, at times set   *)
(* from readings of the clock taken at different moments; every step reads *)
(* the clock or Redis once, and time passes between steps.                 *)
(*                                                                         *)
(* A token is signed over user, role and times in whole seconds, so one    *)
(* user's logins of one second yield one and the same token.               *)
(***************************************************************************)
EXTENDS Integers

CONSTANTS
  Users,
  Requests,    \* requests with a bearer token in progress
  Logouts,     \* of those, the POST /logout
  Second,      \* clock ticks in a second, the precision of a token's times
  Milli,       \* clock ticks in a millisecond, the precision of Redis' expiry
  Lifetime,    \* seconds a token lives: 24 hours
  Nobody,      \* no token
  MaxTime      \* bound: ticks

ASSUME RequestsAssumption == Logouts \subseteq Requests
ASSUME ClockAssumption ==
  /\ Second \in Nat \ {0} /\ Milli \in Nat \ {0} /\ Lifetime \in Nat /\ MaxTime \in Nat

Tokens == [user : Users, expires : {Second * s : s \in 0..(MaxTime + Lifetime)}]

ASSUME NobodyAssumption == Nobody \notin Tokens

VARIABLES
  now,        \* the clock, in ticks
  issued,     \* tokens given out
  blacklist,  \* blacklist[t]: when Redis drops blacklist:<t>, 0 if never set
  stage,      \* stage[r]: what r does next
  token,      \* token[r]: the token r carries
  ttl,        \* ttl[r]: what r has computed for its SET
  (* history *)
  revoked,    \* tokens whose logout has been answered 200
  barred      \* requests Redis has been asked about after that

vars == <<now, issued, blacklist, stage, token, ttl, revoked, barred>>

TypeOK ==
  /\ now \in 0..MaxTime
  /\ issued \subseteq Tokens
  /\ blacklist \in [Tokens -> Int]
  /\ stage \in [Requests -> {"idle", "exists", "validate", "serve", "revalidate", "ttl", "set"}]
  /\ token \in [Requests -> issued \cup {Nobody}]
  /\ ttl \in [Requests -> Nat]
  /\ \A r \in Requests : stage[r] = "idle" <=> token[r] = Nobody
  /\ \A r \in Requests : stage[r] = "set" => ttl[r] > 0
  /\ revoked \subseteq issued
  /\ barred \subseteq Requests

Init ==
  /\ now = 0
  /\ issued = {}
  /\ blacklist = [t \in Tokens |-> 0]
  /\ stage = [r \in Requests |-> "idle"]
  /\ token = [r \in Requests |-> Nobody]
  /\ ttl = [r \in Requests |-> 0]
  /\ revoked = {}
  /\ barred = {}

Tick ==
  /\ now < MaxTime
  /\ now' = now + 1
  /\ UNCHANGED <<issued, blacklist, stage, token, ttl, revoked, barred>>

\* The password fits; NewNumericDate cuts the expiry to whole seconds.
Login(u) ==
  /\ issued' = issued \cup {[user |-> u, expires |-> Second * (now \div Second + Lifetime)]}
  /\ UNCHANGED <<now, blacklist, stage, token, ttl, revoked, barred>>

-----------------------------------------------------------------------------
(* AuthMiddleware *)

Goto(r, next) == stage' = [stage EXCEPT ![r] = next] /\ UNCHANGED <<token, ttl, barred>>

\* Answer r, which is forgotten.
Answer(r) ==
  /\ stage' = [stage EXCEPT ![r] = "idle"]
  /\ token' = [token EXCEPT ![r] = Nobody]
  /\ ttl' = [ttl EXCEPT ![r] = 0]
  /\ barred' = barred \ {r}

Send(r, t) ==
  /\ stage[r] = "idle"
  /\ stage' = [stage EXCEPT ![r] = "exists"]
  /\ token' = [token EXCEPT ![r] = t]
  /\ UNCHANGED <<now, issued, blacklist, ttl, revoked, barred>>

\* EXISTS blacklist:<token>: 401 where there is an entry.
LookUp(r) ==
  /\ stage[r] = "exists"
  /\ \/ /\ now < blacklist[token[r]]
        /\ Answer(r)
     \/ /\ now >= blacklist[token[r]]
        /\ stage' = [stage EXCEPT ![r] = "validate"]
        /\ barred' = IF token[r] \in revoked THEN barred \cup {r} ELSE barred
        /\ UNCHANGED <<token, ttl>>
  /\ UNCHANGED <<now, issued, blacklist, revoked>>

\* When Redis fails, the token counts as not revoked.
LookUpErr(r) ==
  /\ stage[r] = "exists"
  /\ Goto(r, "validate")
  /\ UNCHANGED <<now, issued, blacklist, revoked>>

Expired(t) == now >= t.expires

\* ValidateToken, by the middleware and again by Logout: 401 once expired.
ValidateThen(r, next) ==
  /\ IF Expired(token[r]) THEN Answer(r) ELSE Goto(r, next)
  /\ UNCHANGED <<now, issued, blacklist, revoked>>

ValidateToken(r) ==
  /\ stage[r] = "validate"
  /\ ValidateThen(r, IF r \in Logouts THEN "revalidate" ELSE "serve")

\* The handler, whatever it is, answers.
Serve(r) ==
  /\ stage[r] = "serve"
  /\ Answer(r)
  /\ UNCHANGED <<now, issued, blacklist, revoked>>

-----------------------------------------------------------------------------
(* Logout *)

Revalidate(r) ==
  /\ stage[r] = "revalidate"
  /\ ValidateThen(r, "ttl")

Remaining(r) == token[r].expires - now

SetTtl(r, d) ==
  /\ stage[r] = "ttl"
  /\ ttl' = [ttl EXCEPT ![r] = d]
  /\ stage' = [stage EXCEPT ![r] = "set"]
  /\ UNCHANGED <<now, issued, blacklist, token, revoked, barred>>

\* Mutant: a token that expires right now is given no positive time.
ComputeTtlUnchecked(r) == SetTtl(r, IF Remaining(r) < 0 THEN Second ELSE Remaining(r))

\* Mutant: the remaining time in whole seconds.
ComputeTtlInSeconds(r) ==
  SetTtl(r, IF Remaining(r) < Second THEN 1 ELSE Second * (Remaining(r) \div Second))

\* time.Until; a token that has expired since Revalidate is kept for a second.
ComputeTtl(r) == SetTtl(r, IF Remaining(r) <= 0 THEN Second ELSE Remaining(r))

\* SET with an expiry: driver and Redis work in milliseconds, which may cost the
\* entry up to the last one.
Blacklist(r) ==
  \E short \in 0..(Milli - 1) :
    blacklist' = [blacklist EXCEPT ![token[r]] = now + ttl[r] - short]

Revoke(r) ==
  /\ stage[r] = "set"
  /\ Blacklist(r)
  /\ revoked' = revoked \cup {token[r]}
  /\ Answer(r)
  /\ UNCHANGED <<now, issued>>

\* Answered 503; the SET may have been applied.
RevokeErr(r) ==
  /\ stage[r] = "set"
  /\ Blacklist(r) \/ UNCHANGED blacklist
  /\ Answer(r)
  /\ UNCHANGED <<now, issued, revoked>>

-----------------------------------------------------------------------------
(* Specification *)

Request(r) ==
  \/ \E t \in issued : Send(r, t)
  \/ LookUp(r) \/ LookUpErr(r) \/ ValidateToken(r) \/ Serve(r)
  \/ Revalidate(r) \/ ComputeTtl(r) \/ Revoke(r) \/ RevokeErr(r)

Next ==
  \/ Tick
  \/ \E u \in Users : Login(u)
  \/ \E r \in Requests : Request(r)

Spec == Init /\ [][Next]_vars

-----------------------------------------------------------------------------
(* Properties *)

Admits(r) == stage[r] = "validate" /\ stage'[r] \in {"serve", "revalidate"}

\* Once a logout has been answered, no request that Redis answers for is admitted
\* with that token, in whatever order other logouts of it, delayed SETs and both
\* expiries happen; the rounding of Redis' expiry leaves a gap of less than a
\* millisecond at the end of the token's life.
RevokedIsRefused ==
  [][\A r \in Requests :
       Admits(r) /\ r \in barred => token[r].expires - now < Milli]_vars
=============================================================================
