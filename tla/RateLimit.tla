------------------------------ MODULE RateLimit ------------------------------
(***************************************************************************)
(* middleware.RateLimit: one Redis counter for every scope and client      *)
(* address, which INCR creates and an EXPIRE, sent by the request that saw *)
(* the value 1, limits to a window.  The two calls are not atomic, every   *)
(* error is ignored, and a request whose INCR fails is let through.        *)
(*                                                                         *)
(* Redis is modelled from these two calls: a key lives until its time is   *)
(* up (redis-server runs with --appendonly yes), and go-redis sends a      *)
(* command again when no reply comes, so one INCR can count twice.         *)
(***************************************************************************)
EXTENDS Integers

CONSTANTS
  Keys,         \* rate_limit:<scope>:<address>
  Handlers,     \* requests in progress
  MaxRequests,  \* 10 for both scopes
  Window,       \* a minute for both, in ticks
  None          \* no key; no time to live

ASSUME LimitAssumption == MaxRequests \in Nat \ {0} /\ Window \in Nat \ {0}
ASSUME NoneAssumption == None \notin Keys \cup Nat

VARIABLES
  connected, \* redisClient is not nil: the dial at start succeeded
  count,     \* count[k]: the counter, 0 when Redis has no k, saturating at OverLimit
  ttl,       \* ttl[k]: ticks k has left, None without an expiry
  expiring,  \* expiring[h]: the key h is about to EXPIRE
  (* history, read by no guard *)
  age,       \* age[k][i]: ticks since the i-th last request counted under k and let
             \* through, at most Window
  orphaned   \* keys whose creator never got to its EXPIRE

vars == <<connected, count, ttl, expiring, age, orphaned>>

OverLimit == MaxRequests + 1
Recent == 1..(2 * MaxRequests + 1)

TypeOK ==
  /\ connected \in BOOLEAN
  /\ count \in [Keys -> 0..OverLimit]
  /\ ttl \in [Keys -> 1..Window \cup {None}]
  /\ expiring \in [Handlers -> Keys \cup {None}]
  /\ age \in [Keys -> [Recent -> 0..Window]]
  /\ orphaned \subseteq Keys

Init ==
  /\ connected \in BOOLEAN
  /\ count = [k \in Keys |-> 0]
  /\ ttl = [k \in Keys |-> None]
  /\ expiring = [h \in Handlers |-> None]
  /\ age = [k \in Keys |-> [i \in Recent |-> Window]]
  /\ orphaned = {}

-----------------------------------------------------------------------------
(* INCR *)

More(n) == IF n < OverLimit THEN n + 1 ELSE n

\* The request is let through: it is now the last one.
Admitted(k) ==
  age' = [age EXCEPT ![k] = [i \in Recent |-> IF i = 1 THEN 0 ELSE age[k][i - 1]]]

\* Mutant: the answer is taken for the value before the INCR.
IncrFirstMissed(h, k) ==
  /\ count[k] = 0
  /\ count' = [count EXCEPT ![k] = 1]
  /\ Admitted(k)
  /\ UNCHANGED <<connected, ttl, expiring, orphaned>>

\* The answer is 1: EXPIRE is to follow.
IncrFirst(h, k) ==
  /\ count[k] = 0
  /\ count' = [count EXCEPT ![k] = 1]
  /\ expiring' = [expiring EXCEPT ![h] = k]
  /\ Admitted(k)
  /\ UNCHANGED <<connected, ttl, orphaned>>

\* Mutant: one request too many.
IncrAdmitsOneMore(k) ==
  /\ count[k] \in 1..MaxRequests
  /\ count' = [count EXCEPT ![k] = More(@)]
  /\ Admitted(k)
  /\ UNCHANGED <<connected, ttl, expiring, orphaned>>

IncrAdmits(k) ==
  /\ count[k] > 0
  /\ More(count[k]) <= MaxRequests
  /\ count' = [count EXCEPT ![k] = More(@)]
  /\ Admitted(k)
  /\ UNCHANGED <<connected, ttl, expiring, orphaned>>

\* Mutant: every request sets the expiry anew.
IncrRefusesAndExpires(k) ==
  /\ count[k] > 0
  /\ More(count[k]) > MaxRequests
  /\ count' = [count EXCEPT ![k] = More(@)]
  /\ ttl' = [ttl EXCEPT ![k] = Window]
  /\ UNCHANGED <<connected, expiring, age, orphaned>>

\* 429.
IncrRefuses(k) ==
  /\ count[k] > 0
  /\ More(count[k]) > MaxRequests
  /\ count' = [count EXCEPT ![k] = More(@)]
  /\ UNCHANGED <<connected, ttl, expiring, age, orphaned>>

\* Redis counts and the reply is lost.  go-redis then sends the command again, as
\* one of the actions above, or gives up: the request is let through with its error
\* ignored, as it is when Redis never got the command.
IncrUnheard(k) ==
  /\ count' = [count EXCEPT ![k] = More(@)]
  /\ orphaned' = IF count[k] = 0 THEN orphaned \cup {k} ELSE orphaned
  /\ UNCHANGED <<connected, ttl, expiring, age>>

-----------------------------------------------------------------------------
(* EXPIRE *)

\* Mutant: the window in the wrong unit.
ExpireTooLate(h) ==
  /\ expiring[h] # None
  /\ ttl' = [ttl EXCEPT ![expiring[h]] = 60 * Window]
  /\ expiring' = [expiring EXCEPT ![h] = None]
  /\ UNCHANGED <<connected, count, age, orphaned>>

Expire(h) ==
  /\ expiring[h] # None
  /\ ttl' = [ttl EXCEPT ![expiring[h]] = Window]
  /\ expiring' = [expiring EXCEPT ![h] = None]
  /\ UNCHANGED <<connected, count, age, orphaned>>

\* The error is dropped.  It takes no fault of Redis: the call runs in the
\* request's context, which a client that hangs up cancels.
ExpireErr(h) ==
  /\ expiring[h] # None
  /\ orphaned' = orphaned \cup {expiring[h]}
  /\ expiring' = [expiring EXCEPT ![h] = None]
  /\ UNCHANGED <<connected, count, ttl, age>>

\* The API process ends, with requests between their two calls, and starts again.
Restart ==
  /\ connected' \in BOOLEAN
  /\ orphaned' = orphaned \cup {k \in Keys : \E h \in Handlers : expiring[h] = k}
  /\ expiring' = [h \in Handlers |-> None]
  /\ UNCHANGED <<count, ttl, age>>

\* A tick of the clock; what has no time left is gone.
Tick ==
  /\ age' = [k \in Keys |-> [i \in Recent |->
               IF age[k][i] < Window THEN age[k][i] + 1 ELSE Window]]
  /\ count' = [k \in Keys |-> IF ttl[k] = 1 THEN 0 ELSE count[k]]
  /\ ttl' = [k \in Keys |-> IF ttl[k] \in {None, 1} THEN None ELSE ttl[k] - 1]
  /\ UNCHANGED <<connected, expiring, orphaned>>

-----------------------------------------------------------------------------
(* Specification *)

\* Without a client nothing is counted and every request let through.
Limited(h, k) ==
  /\ connected
  /\ expiring[h] = None
  /\ IncrFirst(h, k) \/ IncrAdmits(k) \/ IncrRefuses(k) \/ IncrUnheard(k)

Next ==
  \/ \E h \in Handlers : Expire(h) \/ ExpireErr(h) \/ \E k \in Keys : Limited(h, k)
  \/ Restart \/ Tick

Spec == Init /\ [][Next]_vars

\* Time passes, and the calls of a request return.
FairSpec ==
  Spec /\ WF_vars(Tick) /\ \A h \in Handlers : WF_vars(Expire(h) \/ ExpireErr(h))

-----------------------------------------------------------------------------
(* Properties *)

\* No stretch of a window's length sees more than twice the limit let through under
\* one key (among the requests Redis counted): of the last 2 * MaxRequests + 1 the
\* first lies a window back, however late the EXPIREs arrived.
WindowBound == \A k \in Keys : age[k][2 * MaxRequests + 1] = Window

\* A counter that never expires, and so locks its client out for good, is the doing
\* of a lost INCR reply, a failed EXPIRE or a crash between the two calls; otherwise
\* the request that created it is just about to set the expiry.
NoExpiryExplained ==
  \A k \in Keys :
    count[k] > 0 /\ ttl[k] = None =>
      k \in orphaned \/ \E h \in Handlers : expiring[h] = k

\* Every other lockout ends.
LockoutEnds == \A k \in Keys : count[k] > MaxRequests ~> count[k] = 0 \/ k \in orphaned
=============================================================================
