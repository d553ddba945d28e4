--------------------- MODULE NotificationWorker_proofs ---------------------
(***************************************************************************)
(* Safety of NotificationWorker for any number of workers, any bodies, any *)
(* retry limit and any bounds.                                             *)
(***************************************************************************)
EXTENDS NotificationWorker, FiniteSetTheorems, TLAPS

\* Adding to a bag and taking from it.
LEMMA PutAdds ==
  ASSUME NEW bag \in Bag, NEW m \in Messages
  PROVE  /\ Put(bag, m) \in Bag
         /\ \A n \in Messages : bag[n] > 0 => Put(bag, m)[n] > 0
         /\ Put(bag, m)[m] > 0
         /\ \A n \in Messages : n # m => Put(bag, m)[n] = bag[n]
BY DEF Bag, Put

LEMMA RemoveTakes ==
  ASSUME NEW bag \in Bag, NEW m \in Messages, bag[m] > 0
  PROVE  /\ Remove(bag, m) \in Bag
         /\ \A n \in Messages : n # m => Remove(bag, m)[n] = bag[n]
         /\ Remove(bag, m)[m] = bag[m] - 1
BY DEF Bag, Remove

\* Only the counter of b moves, and upwards.
LEMMA CountAdds ==
  ASSUME NEW counter \in [Bodies -> Nat], NEW b \in Bodies
  PROVE  /\ Count(counter, b) \in [Bodies -> Nat]
         /\ Count(counter, b)[b] = counter[b] + 1
         /\ \A c \in Bodies : Count(counter, b)[c] >= counter[c]
BY DEF Count

\* The successor of a retryable message is a message with the same body.
LEMMA NextRetry ==
  ASSUME NEW m \in Messages, Retryable(m)
  PROVE  /\ [m EXCEPT !.retry = @ + 1] \in Messages
         /\ [m EXCEPT !.retry = @ + 1].body = m.body
         /\ [m EXCEPT !.retry = @ + 1].retry = m.retry + 1
BY RetriesAssumption DEF Messages, Retryable

\* A closing channel leaves bags bags, and everything ready stays ready.
LEMMA ReleaseAdds ==
  ASSUME TypeOK, NEW w \in Workers, Release(w)
  PROVE  /\ ready' \in Bag
         /\ redelivered' \in Bag
         /\ \A m \in Messages : ready[m] > 0 => ready'[m] > 0
         /\ \A m \in Messages : chan[w] /\ (inbox[w][m] > 0 \/ cur[w] = m) => ready'[m] > 0
         /\ \A m \in Messages : ready'[m] > 0 =>
              ready[m] > 0 \/ inbox[w][m] > 0 \/ cur[w] = m
<1>1. \A m \in Messages : inbox[w][m] \in Nat /\ Held(w, m) \in Nat
  BY DEF TypeOK, Bag, Held
<1>2. CASE chan[w]
  BY <1>1, <1>2 DEF TypeOK, Bag, Release, Held
<1>3. CASE ~chan[w]
  BY <1>1, <1>3 DEF TypeOK, Release
<1> QED BY <1>2, <1>3

-----------------------------------------------------------------------------
(* Types *)

\* Every variable keeps its type; a worker holds a delivery exactly while it handles one.
THEOREM TypeCorrect == Spec => []TypeOK
<1> USE NoMessageAssumption
<1>1. Init => TypeOK
  BY DEF Init, TypeOK, Bag, Nothing
<1>2. TypeOK /\ [Next]_vars => TypeOK'
  <2> SUFFICES ASSUME TypeOK, [Next]_vars PROVE TypeOK'
    OBVIOUS
  <2> USE DEF brokerVars, workerVars, historyVars
  <2>1. ASSUME NEW b \in Bodies, Publish(b) PROVE TypeOK'
    <3>1. [body |-> b, retry |-> 0] \in Messages
      BY RetriesAssumption DEF Messages
    <3>2. ready' \in Bag /\ accepted' \in [Bodies -> Nat]
      BY <2>1, <3>1, PutAdds, CountAdds DEF Publish, TypeOK
    <3> QED BY <2>1, <3>2 DEF Publish, TypeOK
  <2>2. ASSUME NEW w \in Workers, NEW m \in Messages, Deliver(w, m) PROVE TypeOK'
    <3>1. inbox[w] \in Bag
      BY DEF TypeOK
    <3>2. ready' \in Bag
      BY <2>2, RemoveTakes DEF Deliver, TypeOK
    <3>3. inbox' \in [Workers -> Bag]
      BY <2>2, <3>1, PutAdds DEF Deliver, TypeOK
    <3> QED BY <2>2, <3>2, <3>3 DEF Deliver, TypeOK
  <2>3. ASSUME NEW w \in Workers, NEW m \in Messages, Take(w, m) PROVE TypeOK'
    <3>1. inbox[w] \in Bag
      BY DEF TypeOK
    <3>2. inbox' \in [Workers -> Bag]
      BY <2>3, <3>1, RemoveTakes DEF Take, TypeOK
    <3> QED BY <2>3, <3>2 DEF Take, TypeOK
  <2>4. ASSUME NEW w \in Workers, Start(w) PROVE TypeOK'
    BY <2>4 DEF Start, TypeOK
  <2>5. ASSUME NEW w \in Workers, Exit(w), faults' \in Nat PROVE TypeOK'
    <3>1. ready' \in Bag /\ redelivered' \in Bag
      BY <2>5, ReleaseAdds DEF Exit
    <3>2. Nothing \in Bag
      BY DEF Nothing, Bag
    <3> QED BY <2>5, <3>1, <3>2 DEF Exit, TypeOK
  <2>6. ASSUME NEW w \in Workers, Quit(w) \/ Kill(w) PROVE TypeOK'
    <3>1. faults' \in Nat
      BY <2>6 DEF Quit, Kill, TypeOK
    <3> QED BY <2>5, <2>6, <3>1 DEF Quit, Kill
  <2>7. ASSUME NEW w \in Workers, LoseChannel(w) PROVE TypeOK'
    <3>1. ready' \in Bag /\ redelivered' \in Bag
      BY <2>7, ReleaseAdds DEF LoseChannel
    <3> QED BY <2>7, <3>1 DEF LoseChannel, TypeOK
  <2>8. ASSUME NEW w \in Workers, SendOk(w) \/ SendErr(w) PROVE TypeOK'
    <3>1. cur[w] \in Messages /\ cur[w].body \in Bodies
      BY <2>8 DEF SendOk, SendErr, TypeOK, Messages
    <3>2. /\ mailed' \in [Bodies -> Nat] /\ failed' \in [Bodies -> Nat]
          /\ ambiguous' \in [Bodies -> Nat] /\ faults' \in Nat
      BY <2>8, <3>1, CountAdds DEF SendOk, SendErr, TypeOK
    <3> QED BY <2>8, <3>1, <3>2 DEF SendOk, SendErr, TypeOK
  <2>9. ASSUME NEW w \in Workers, Republish(w) PROVE TypeOK'
    <3>1. cur[w] \in Messages
      BY <2>9 DEF Republish, TypeOK
    <3>2. ready' \in Bag /\ dead' \in Bag
      BY <2>9, <3>1, PutAdds, NextRetry DEF Republish, TypeOK
    <3> QED BY <2>9, <3>1, <3>2 DEF Republish, TypeOK
  <2>10. ASSUME NEW w \in Workers, RepublishErr(w) PROVE TypeOK'
    <3>1. cur[w] \in Messages
      BY <2>10 DEF RepublishErr, TypeOK
    <3>2. ready' \in Bag /\ redelivered' \in Bag /\ faults' \in Nat
      BY <2>10, <3>1, PutAdds DEF RepublishErr, TypeOK
    <3> QED BY <2>10, <3>2 DEF RepublishErr, Finish, TypeOK
  <2>11. ASSUME NEW w \in Workers, Ack(w) PROVE TypeOK'
    BY <2>11 DEF Ack, Finish, TypeOK
  <2>12. CASE UNCHANGED vars
    BY <2>12 DEF vars, TypeOK
  <2> QED
    BY <2>1, <2>2, <2>3, <2>4, <2>6, <2>7, <2>8, <2>9, <2>10, <2>11, <2>12
    DEF Next, Worker, HandleDelivery
<1> QED BY <1>1, <1>2, PTL DEF Spec

-----------------------------------------------------------------------------
(* Nothing the broker accepted vanishes *)

Settled(b) == mailed'[b] > 0 \/ \E m \in OfBody(b) : Kept(m)'

\* A copy the broker answers for is kept by every step, or it is mailed, or a
\* successor of it is kept.
LEMMA KeptStep ==
  ASSUME TypeOK, [Next]_vars, NEW m \in Messages, Kept(m)
  PROVE  Settled(m.body)
<1> USE DEF brokerVars, workerVars, historyVars
<1> DEFINE b == m.body
<1>1. b \in Bodies /\ m \in OfBody(b)
  BY DEF Messages, OfBody
<1>2. ASSUME Kept(m)' PROVE Settled(b)
  BY <1>1, <1>2 DEF Settled
<1>3. ASSUME NEW c \in Bodies, Publish(c) PROVE Settled(b)
  <2>1. [body |-> c, retry |-> 0] \in Messages
    BY RetriesAssumption DEF Messages
  <2>2. ready[m] > 0 => ready'[m] > 0
    BY <1>3, <2>1, PutAdds DEF Publish, TypeOK
  <2> QED BY <1>2, <1>3, <2>2 DEF Publish, Kept, InHand
<1>4. ASSUME NEW w \in Workers, NEW n \in Messages, Deliver(w, n) PROVE Settled(b)
  <2>1. inbox[w] \in Bag /\ inbox'[w] = Put(inbox[w], n)
        /\ \A v \in Workers : v # w => inbox'[v] = inbox[v]
    BY <1>4 DEF Deliver, TypeOK
  <2>2. \A v \in Workers : inbox[v][m] > 0 => inbox'[v][m] > 0
    BY <2>1, PutAdds
  <2>3. n # m => ready'[m] = ready[m]
    BY <1>4, RemoveTakes DEF Deliver, TypeOK
  <2>4. n = m => inbox'[w][m] > 0
    BY <2>1, PutAdds
  <2> QED BY <1>2, <1>4, <2>2, <2>3, <2>4 DEF Deliver, Kept, InHand
<1>5. ASSUME NEW w \in Workers, NEW n \in Messages, Take(w, n) PROVE Settled(b)
  <2>1. inbox[w] \in Bag /\ inbox'[w] = Remove(inbox[w], n)
        /\ \A v \in Workers : v # w => inbox'[v] = inbox[v]
    BY <1>5 DEF Take, TypeOK
  <2>2. \A v \in Workers : v # w \/ n # m => inbox'[v][m] = inbox[v][m]
    BY <1>5, <2>1, RemoveTakes DEF Take
  <2>3. n = m => InHand(w, m)'
    BY <1>5 DEF Take, InHand, TypeOK
  <2>4. \A v \in Workers : InHand(v, m) => InHand(v, m)'
    BY <1>5, NoMessageAssumption DEF Take, InHand, TypeOK
  <2> QED BY <1>2, <1>5, <2>2, <2>3, <2>4 DEF Take, Kept
<1>6. ASSUME NEW w \in Workers, Start(w) PROVE Settled(b)
  <2>1. \A v \in Workers : InHand(v, m) => InHand(v, m)'
    BY <1>6 DEF Start, InHand, TypeOK
  <2>2. \A v \in Workers : chan[v] => chan'[v]
    BY <1>6 DEF Start, TypeOK
  <2> QED BY <1>2, <1>6, <2>1, <2>2 DEF Start, Kept
<1>7. ASSUME NEW w \in Workers, Quit(w) \/ Kill(w) \/ LoseChannel(w) PROVE Settled(b)
  <2>1. Release(w) /\ dead' = dead
    BY <1>7 DEF Quit, Kill, LoseChannel, Exit
  <2>2. \A v \in Workers : v # w =>
          /\ chan'[v] = chan[v] /\ inbox'[v] = inbox[v]
          /\ cur'[v] = cur[v] /\ stage'[v] = stage[v]
    BY <1>7 DEF Quit, Kill, LoseChannel, Exit, TypeOK
  <2> QED BY <1>2, <2>1, <2>2, ReleaseAdds DEF Kept, InHand
<1>8. ASSUME NEW w \in Workers, SendOk(w) \/ SendErr(w) PROVE Settled(b)
  <2>1. cur[w] \in Messages /\ cur[w].body \in Bodies
    BY <1>8 DEF SendOk, SendErr, TypeOK, Messages
  <2>2. CASE cur[w] = m /\ SendOk(w)
    BY <2>1, <2>2, CountAdds DEF SendOk, TypeOK, Settled
  <2>3. CASE cur[w] # m \/ SendErr(w)
    <3>1. \A v \in Workers : InHand(v, m) => InHand(v, m)'
      BY <1>8, <2>3 DEF SendOk, SendErr, InHand, TypeOK
    <3> QED BY <1>2, <1>8, <3>1 DEF SendOk, SendErr, Kept
  <2> QED BY <1>8, <2>2, <2>3
<1>9. ASSUME NEW w \in Workers, Republish(w) PROVE Settled(b)
  <2>1. cur[w] \in Messages
    BY <1>9 DEF Republish, TypeOK
  <2>2. /\ ready[m] > 0 => ready'[m] > 0
        /\ dead[m] > 0 => dead'[m] > 0
    BY <1>9, <2>1, PutAdds, NextRetry DEF Republish, TypeOK
  <2>3. CASE cur[w] # m
    <3>1. \A v \in Workers : InHand(v, m) => InHand(v, m)'
      BY <1>9, <2>3 DEF Republish, InHand, TypeOK
    <3> QED BY <1>2, <1>9, <2>2, <3>1 DEF Republish, Kept
  <2>4. CASE cur[w] = m /\ Retryable(m)
    <3> DEFINE n == [m EXCEPT !.retry = @ + 1]
    <3>1. n \in OfBody(b) /\ n \in Messages
      BY <2>4, NextRetry DEF OfBody
    <3>2. ready'[n] > 0
      BY <1>9, <2>4, <3>1, PutAdds DEF Republish, TypeOK
    <3> QED BY <3>1, <3>2 DEF Settled, Kept
  <2>5. CASE cur[w] = m /\ ~Retryable(m)
    <3>1. dead'[m] > 0
      BY <1>9, <2>5, PutAdds DEF Republish, TypeOK
    <3> QED BY <1>2, <3>1 DEF Kept
  <2> QED BY <2>3, <2>4, <2>5
<1>10. ASSUME NEW w \in Workers, RepublishErr(w) PROVE Settled(b)
  <2>1. cur[w] \in Messages
    BY <1>10 DEF RepublishErr, TypeOK
  <2>2. ready[m] > 0 => ready'[m] > 0
    BY <1>10, <2>1, PutAdds DEF RepublishErr, TypeOK
  <2>3. cur[w] = m /\ chan[w] => ready'[m] > 0
    BY <1>10, <2>1, PutAdds DEF RepublishErr, TypeOK
  <2>4. \A v \in Workers : v # w => stage'[v] = stage[v] /\ cur'[v] = cur[v]
    BY <1>10 DEF RepublishErr, Finish, TypeOK
  <2> QED BY <1>2, <1>10, <2>2, <2>3, <2>4 DEF RepublishErr, Kept, InHand
<1>11. ASSUME NEW w \in Workers, Ack(w) PROVE Settled(b)
  <2>1. \A v \in Workers : InHand(v, m) => InHand(v, m)'
    BY <1>11 DEF Ack, Finish, InHand, TypeOK
  <2> QED BY <1>2, <1>11, <2>1 DEF Ack, Kept
<1>12. CASE UNCHANGED vars
  BY <1>2, <1>12 DEF vars, Kept, InHand
<1> QED
  BY <1>3, <1>4, <1>5, <1>6, <1>7, <1>8, <1>9, <1>10, <1>11, <1>12
  DEF Next, Worker, HandleDelivery

\* E-mails are not unsent, and only a publish makes a body accepted.
LEMMA CountersStep ==
  ASSUME TypeOK, [Next]_vars, NEW b \in Bodies
  PROVE  /\ mailed'[b] \in Nat /\ mailed'[b] >= mailed[b]
         /\ failed'[b] \in Nat /\ failed'[b] >= failed[b]
         /\ accepted'[b] > 0 => accepted[b] > 0 \/ Publish(b)
<1> USE DEF brokerVars, workerVars, historyVars
<1>1. ASSUME NEW c \in Bodies, Publish(c) PROVE accepted'[b] > 0 => accepted[b] > 0 \/ Publish(b)
  <2>1. c # b => accepted'[b] = accepted[b]
    BY <1>1 DEF Publish, Count, TypeOK
  <2> QED BY <1>1, <2>1
<1>2. ASSUME NEW c \in Bodies, Publish(c) PROVE mailed' = mailed /\ failed' = failed
  BY <1>2 DEF Publish
<1>3. ASSUME NEW w \in Workers, Worker(w)
      PROVE  /\ accepted' = accepted
             /\ mailed' = mailed \/ mailed' = Count(mailed, cur[w].body)
             /\ failed' = failed \/ failed' = Count(failed, cur[w].body)
  BY <1>3 DEF Worker, HandleDelivery, Start, Quit, Kill, LoseChannel, Exit, Deliver, Take,
     SendOk, SendErr, Republish, RepublishErr, Ack
<1>4. \A w \in Workers :
        /\ Count(mailed, cur[w].body)[b] \in Nat /\ Count(mailed, cur[w].body)[b] >= mailed[b]
        /\ Count(failed, cur[w].body)[b] \in Nat /\ Count(failed, cur[w].body)[b] >= failed[b]
  BY DEF Count, TypeOK
<1>5. mailed[b] \in Nat /\ failed[b] \in Nat
  BY DEF TypeOK
<1> QED BY <1>1, <1>2, <1>3, <1>4, <1>5 DEF Next, vars

\* At-least-once: what was accepted is mailed or still kept somewhere.
THEOREM NothingVanishes == Spec => []NoMessageVanishes
<1>1. Init => NoMessageVanishes
  BY DEF Init, NoMessageVanishes
<1>2. TypeOK /\ NoMessageVanishes /\ [Next]_vars => NoMessageVanishes'
  <2> SUFFICES ASSUME TypeOK, NoMessageVanishes, [Next]_vars, NEW b \in Bodies,
                      accepted'[b] > 0
               PROVE  Settled(b)
    BY DEF NoMessageVanishes, Settled, OfBody
  <2>1. CASE Publish(b)
    <3> DEFINE m == [body |-> b, retry |-> 0]
    <3>1. m \in Messages /\ m \in OfBody(b)
      BY RetriesAssumption DEF Messages, OfBody
    <3>2. ready'[m] > 0
      BY <2>1, <3>1, PutAdds DEF Publish, TypeOK
    <3> QED BY <3>1, <3>2 DEF Settled, Kept
  <2>2. CASE mailed[b] > 0
    BY <2>2, CountersStep DEF Settled, TypeOK
  <2>3. ASSUME NEW m \in OfBody(b), Kept(m) PROVE Settled(b)
    BY <2>3, KeptStep DEF OfBody
  <2> QED BY <2>1, <2>2, <2>3, CountersStep DEF NoMessageVanishes
<1> QED BY <1>1, <1>2, TypeCorrect, PTL DEF Spec

-----------------------------------------------------------------------------
(* The retry count never runs ahead of the failed attempts *)

Somewhere(m) == ready[m] > 0 \/ \E w \in Workers : inbox[w][m] > 0 \/ cur[w] = m

\* A copy with retry count k has k failed attempts behind it, one more while its
\* handler is about to republish it.
Tried(m) ==
  /\ Somewhere(m) => failed[m.body] >= m.retry
  /\ \A w \in Workers :
       stage[w] = "republish" /\ cur[w] = m /\ m.body \notin Garbage =>
         failed[m.body] > m.retry
  /\ dead[m] > 0 /\ m.body \notin Garbage =>
       m.retry = MaxRetries /\ failed[m.body] > MaxRetries

\* No step puts a copy anywhere with fewer failures than its count claims.
LEMMA TriedStep ==
  ASSUME TypeOK, [Next]_vars, \A n \in Messages : Tried(n), NEW m \in Messages
  PROVE  Tried(m)'
<1> USE DEF brokerVars, workerVars, historyVars
<1>1. /\ m.body \in Bodies /\ m.retry \in Nat /\ m.retry <= MaxRetries
      /\ failed[m.body] \in Nat /\ failed'[m.body] \in Nat
      /\ failed'[m.body] >= failed[m.body]
  BY CountersStep, RetriesAssumption DEF Messages, TypeOK
<1>2. ASSUME Somewhere(m)' => Somewhere(m) \/ m.retry = 0,
             \A w \in Workers : stage'[w] = "republish" /\ cur'[w] = m /\ m.body \notin Garbage =>
                                  stage[w] = "republish" /\ cur[w] = m,
             dead' = dead
      PROVE  Tried(m)'
  BY <1>1, <1>2, RetriesAssumption DEF Tried
<1>3. ASSUME NEW c \in Bodies, Publish(c) PROVE Tried(m)'
  <2>1. [body |-> c, retry |-> 0] \in Messages
    BY RetriesAssumption DEF Messages
  <2>2. ready'[m] > 0 => ready[m] > 0 \/ m.retry = 0
    BY <1>3, <2>1, PutAdds DEF Publish, TypeOK
  <2> QED BY <1>2, <1>3, <2>2 DEF Publish, Somewhere
<1>4. ASSUME NEW w \in Workers, NEW n \in Messages, Deliver(w, n) PROVE Tried(m)'
  <2>1. inbox[w] \in Bag /\ inbox'[w] = Put(inbox[w], n)
        /\ \A v \in Workers : v # w => inbox'[v] = inbox[v]
    BY <1>4 DEF Deliver, TypeOK
  <2>2. CASE n = m
    BY <1>2, <1>4, <2>2 DEF Deliver, Somewhere
  <2>3. CASE n # m
    <3>1. ready'[m] = ready[m]
      BY <1>4, <2>3, RemoveTakes DEF Deliver, TypeOK
    <3>2. \A v \in Workers : inbox'[v][m] = inbox[v][m]
      BY <2>1, <2>3, PutAdds
    <3> QED BY <1>2, <1>4, <3>1, <3>2 DEF Deliver, Somewhere
  <2> QED BY <2>2, <2>3
<1>5. ASSUME NEW w \in Workers, NEW n \in Messages, Take(w, n) PROVE Tried(m)'
  <2>1. inbox[w] \in Bag /\ inbox'[w] = Remove(inbox[w], n)
        /\ \A v \in Workers : v # w =>
             inbox'[v] = inbox[v] /\ cur'[v] = cur[v] /\ stage'[v] = stage[v]
    BY <1>5 DEF Take, TypeOK
  <2>2. cur'[w] = n /\ (stage'[w] = "republish" => n.body \in Garbage)
    BY <1>5 DEF Take, TypeOK
  <2>3. CASE n = m
    BY <1>2, <1>5, <2>1, <2>2, <2>3 DEF Take, Somewhere
  <2>4. CASE n # m
    BY <1>2, <1>5, <2>1, <2>2, <2>4, RemoveTakes DEF Take, Somewhere
  <2> QED BY <2>3, <2>4
<1>6. ASSUME NEW w \in Workers, Start(w) PROVE Tried(m)'
  BY <1>2, <1>6 DEF Start, Somewhere, TypeOK
<1>7. ASSUME NEW w \in Workers, Quit(w) \/ Kill(w) PROVE Tried(m)'
  <2>1. Release(w) /\ dead' = dead
    BY <1>7 DEF Quit, Kill, Exit
  <2>2. \A v \in Workers : v # w =>
          inbox'[v] = inbox[v] /\ cur'[v] = cur[v] /\ stage'[v] = stage[v]
    BY <1>7 DEF Quit, Kill, Exit, TypeOK
  <2>3. inbox'[w] = Nothing /\ cur'[w] = NoMessage
    BY <1>7 DEF Quit, Kill, Exit, TypeOK
  <2>4. ready'[m] > 0 => Somewhere(m)
    BY <2>1, ReleaseAdds DEF Somewhere
  <2>5. ~(inbox'[w][m] > 0) /\ cur'[w] # m
    BY <2>3, NoMessageAssumption DEF Nothing
  <2> QED BY <1>2, <2>1, <2>2, <2>4, <2>5 DEF Somewhere
<1>8. ASSUME NEW w \in Workers, LoseChannel(w) PROVE Tried(m)'
  BY <1>2, <1>8, ReleaseAdds DEF LoseChannel, Somewhere
<1>9. ASSUME NEW w \in Workers, SendOk(w) PROVE Tried(m)'
  BY <1>2, <1>9 DEF SendOk, Somewhere, TypeOK
<1>10. ASSUME NEW w \in Workers, SendErr(w) PROVE Tried(m)'
  <2>1. \A v \in Workers : v # w => stage'[v] = stage[v]
    BY <1>10 DEF SendErr, TypeOK
  <2>2. cur[w] = m => failed'[m.body] = failed[m.body] + 1
    BY <1>1, <1>10, CountAdds DEF SendErr, TypeOK
  <2>3. Somewhere(m)' <=> Somewhere(m)
    BY <1>10 DEF SendErr, Somewhere
  <2>4. cur[w] = m => failed[m.body] >= m.retry
    BY DEF Tried, Somewhere
  <2> QED BY <1>1, <1>10, <2>1, <2>2, <2>3, <2>4, RetriesAssumption DEF SendErr, Tried
<1>11. ASSUME NEW w \in Workers, Republish(w) PROVE Tried(m)'
  <2>1. cur[w] \in Messages /\ Tried(cur[w])
    BY <1>11 DEF Republish, TypeOK
  <2>2. /\ inbox' = inbox /\ cur' = cur /\ failed' = failed
        /\ \A v \in Workers : stage'[v] = "republish" => stage[v] = "republish"
    BY <1>11 DEF Republish, TypeOK
  <2>3. CASE Retryable(cur[w])
    <3>1. cur[w].body \notin Garbage /\ failed[cur[w].body] > cur[w].retry
      BY <1>11, <2>1, <2>3 DEF Republish, Retryable, Tried
    <3> DEFINE n == [cur[w] EXCEPT !.retry = @ + 1]
    <3>2. n \in Messages /\ n.body = cur[w].body /\ n.retry = cur[w].retry + 1
      BY <2>1, <2>3, NextRetry
    <3>3. ready' = Put(ready, n) /\ dead' = dead
      BY <1>11, <2>3 DEF Republish
    <3>4. m # n /\ Somewhere(m)' => Somewhere(m)
      BY <2>2, <3>2, <3>3, PutAdds DEF Somewhere, TypeOK
    <3>5. cur[w].retry \in Nat
      BY <2>1, RetriesAssumption DEF Messages
    <3>6. m = n => failed[m.body] >= m.retry
      BY <1>1, <3>1, <3>2, <3>5
    <3> QED BY <1>1, <2>2, <3>3, <3>4, <3>6 DEF Tried
  <2>4. CASE ~Retryable(cur[w])
    <3>1. cur[w].body \notin Garbage =>
            cur[w].retry = MaxRetries /\ failed[cur[w].body] > MaxRetries
      BY <1>11, <2>1, <2>4, RetriesAssumption DEF Republish, Retryable, Tried, Messages
    <3>2. ready' = ready /\ dead' = Put(dead, cur[w])
      BY <1>11, <2>4 DEF Republish
    <3>3. dead'[m] > 0 => dead[m] > 0 \/ m = cur[w]
      BY <2>1, <3>2, PutAdds DEF TypeOK
    <3> QED BY <2>2, <3>1, <3>2, <3>3 DEF Tried, Somewhere
  <2> QED BY <2>3, <2>4
<1>12. ASSUME NEW w \in Workers, RepublishErr(w) PROVE Tried(m)'
  <2>1. cur[w] \in Messages
    BY <1>12 DEF RepublishErr, TypeOK
  <2>2. ready'[m] > 0 => ready[m] > 0 \/ m = cur[w]
    BY <1>12, <2>1, PutAdds DEF RepublishErr, TypeOK
  <2>3. /\ cur'[w] = NoMessage
        /\ \A v \in Workers : v # w => stage'[v] = stage[v] /\ cur'[v] = cur[v]
    BY <1>12 DEF RepublishErr, Finish, TypeOK
  <2>4. inbox' = inbox /\ dead' = dead /\ cur'[w] # m
    BY <1>12, <2>3, NoMessageAssumption DEF RepublishErr
  <2> QED BY <1>2, <2>2, <2>3, <2>4 DEF Somewhere
<1>13. ASSUME NEW w \in Workers, Ack(w) PROVE Tried(m)'
  <2>1. /\ cur'[w] = NoMessage
        /\ \A v \in Workers : v # w => stage'[v] = stage[v] /\ cur'[v] = cur[v]
    BY <1>13 DEF Ack, Finish, TypeOK
  <2>2. inbox' = inbox /\ dead' = dead /\ ready' = ready /\ cur'[w] # m
    BY <1>13, <2>1, NoMessageAssumption DEF Ack
  <2> QED BY <1>2, <2>1, <2>2 DEF Somewhere
<1>14. CASE UNCHANGED vars
  BY <1>2, <1>14 DEF vars, Somewhere
<1> QED
  BY <1>3, <1>4, <1>5, <1>6, <1>7, <1>8, <1>9, <1>10, <1>11, <1>12, <1>13, <1>14
  DEF Next, Worker, HandleDelivery

AllTried == \A m \in Messages : Tried(m)

\* failed_notifications holds only what was tried MaxRetries + 1 times, or is invalid.
THEOREM DeadLettersAreTried == Spec => []DeadLetterAfterRetries
<1>1. Init => AllTried
  BY NoMessageAssumption DEF Init, AllTried, Tried, Somewhere, Nothing
<1>2. TypeOK /\ AllTried /\ [Next]_vars => AllTried'
  BY TriedStep DEF AllTried
<1>3. AllTried => DeadLetterAfterRetries
  BY DEF AllTried, Tried, DeadLetterAfterRetries
<1> QED BY <1>1, <1>2, <1>3, TypeCorrect, PTL DEF Spec

-----------------------------------------------------------------------------
(* Where copies come from *)

\* What exists of a body has been published; a copy in the hands of a worker without
\* a channel is one the broker has taken back; a worker that is down holds nothing.
Published(b) ==
  /\ mailed[b] > 0 => accepted[b] > 0
  /\ \A m \in OfBody(b) : Somewhere(m) \/ dead[m] > 0 => accepted[b] > 0
TakenBack(w) ==
  /\ stage[w] = "down" => inbox[w] = Nothing
  /\ ~chan[w] => \A m \in Messages : inbox[w][m] > 0 \/ cur[w] = m => redelivered[m] > 0
Provenance == (\A b \in Bodies : Published(b)) /\ \A w \in Workers : TakenBack(w)

\* No step but a publish makes a copy of a body nothing existed of.
LEMMA PublishedStep ==
  ASSUME TypeOK, [Next]_vars, NEW b \in Bodies, Published(b)
  PROVE  Published(b)'
<1> USE DEF brokerVars, workerVars, historyVars
<1>1. accepted[b] > 0 => accepted'[b] > 0
  <2>1. ASSUME NEW c \in Bodies, Publish(c) PROVE accepted'[b] >= accepted[b]
    BY <2>1, CountAdds DEF Publish, TypeOK
  <2>2. ASSUME NEW w \in Workers, Worker(w) PROVE accepted' = accepted
    BY <2>2 DEF Worker, HandleDelivery, Start, Quit, Kill, LoseChannel, Exit, Deliver, Take,
       SendOk, SendErr, Republish, RepublishErr, Ack
  <2>3. accepted[b] \in Nat /\ accepted'[b] \in Nat
    <3>1. ASSUME NEW c \in Bodies, Publish(c) PROVE accepted'[b] \in Nat
      BY <3>1, CountAdds DEF Publish, TypeOK
    <3> QED BY <2>2, <3>1 DEF Next, vars, TypeOK
  <2> QED BY <2>1, <2>2, <2>3 DEF Next, vars
<1>2. CASE accepted'[b] > 0
  BY <1>2 DEF Published
<1>3. CASE ~(accepted'[b] > 0)
  <2>1. ~(mailed[b] > 0) /\ \A m \in OfBody(b) : ~Somewhere(m) /\ ~(dead[m] > 0)
    BY <1>1, <1>3 DEF Published
  <2>2. \A m \in OfBody(b) :
          ~(ready[m] > 0) /\ \A w \in Workers : ~(inbox[w][m] > 0) /\ cur[w] # m
    BY <2>1 DEF Somewhere
  <2>3. \A w \in Workers : cur[w] \in Messages => cur[w].body # b
    BY <2>2 DEF OfBody
  <2> SUFFICES ASSUME NEW m \in OfBody(b)
               PROVE  /\ ~(mailed'[b] > 0) /\ ~(dead'[m] > 0) /\ ~(ready'[m] > 0)
                      /\ \A w \in Workers : ~(inbox'[w][m] > 0) /\ cur'[w] # m
    <3>1. [body |-> b, retry |-> 0] \in OfBody(b)
      BY RetriesAssumption DEF OfBody, Messages
    <3> QED BY <3>1 DEF Published, Somewhere
  <2>4. m \in Messages /\ m.body = b
    BY DEF OfBody
  <2>5. ASSUME NEW c \in Bodies, Publish(c)
        PROVE  ~(ready'[m] > 0) /\ mailed' = mailed /\ dead' = dead /\ inbox' = inbox /\ cur' = cur
    <3>1. c # b
      <4>1. accepted[c] \in Nat /\ accepted'[c] = accepted[c] + 1
        BY <2>5, CountAdds DEF Publish, TypeOK
      <4> QED BY <1>3, <4>1
    <3> DEFINE n == [body |-> c, retry |-> 0]
    <3>2. n \in Messages /\ n # m
      BY <2>4, <3>1, RetriesAssumption DEF Messages
    <3>3. ready \in Bag /\ ready' = Put(ready, n)
      BY <2>5 DEF Publish, TypeOK
    <3>4. ready'[m] = ready[m]
      BY <2>4, <3>2, <3>3, PutAdds
    <3> QED BY <2>2, <2>5, <3>4 DEF Publish
  <2>6. ASSUME NEW w \in Workers, NEW n \in Messages, Deliver(w, n)
        PROVE  /\ ~(ready'[m] > 0) /\ mailed' = mailed /\ dead' = dead /\ cur' = cur
               /\ \A v \in Workers : ~(inbox'[v][m] > 0)
    <3>1. n # m
      BY <2>2, <2>6 DEF Deliver
    <3>2. inbox[w] \in Bag /\ inbox'[w] = Put(inbox[w], n)
          /\ \A v \in Workers : v # w => inbox'[v] = inbox[v]
      BY <2>6 DEF Deliver, TypeOK
    <3>3. inbox'[w][m] = inbox[w][m]
      BY <2>4, <3>1, <3>2, PutAdds
    <3>4. ready'[m] = ready[m]
      BY <2>4, <2>6, <3>1, RemoveTakes DEF Deliver, TypeOK
    <3> QED BY <2>2, <2>6, <3>2, <3>3, <3>4 DEF Deliver
  <2>7. ASSUME NEW w \in Workers, NEW n \in Messages, Take(w, n)
        PROVE  /\ ready' = ready /\ mailed' = mailed /\ dead' = dead
               /\ \A v \in Workers : ~(inbox'[v][m] > 0) /\ cur'[v] # m
    <3>1. n # m
      BY <2>2, <2>7 DEF Take
    <3>2. inbox[w] \in Bag /\ inbox'[w] = Remove(inbox[w], n)
          /\ \A v \in Workers : v # w => inbox'[v] = inbox[v] /\ cur'[v] = cur[v]
      BY <2>7 DEF Take, TypeOK
    <3>3. inbox'[w][m] = inbox[w][m] /\ cur'[w] = n
      BY <2>4, <2>7, <3>1, <3>2, RemoveTakes DEF Take, TypeOK
    <3> QED BY <2>2, <2>7, <3>1, <3>2, <3>3 DEF Take
  <2>8. ASSUME NEW w \in Workers, Start(w)
        PROVE  ready' = ready /\ mailed' = mailed /\ dead' = dead /\ inbox' = inbox /\ cur' = cur
    BY <2>8 DEF Start
  <2>9. ASSUME NEW w \in Workers, Quit(w) \/ Kill(w) \/ LoseChannel(w)
        PROVE  /\ ~(ready'[m] > 0) /\ mailed' = mailed /\ dead' = dead
               /\ \A v \in Workers : ~(inbox'[v][m] > 0) /\ cur'[v] # m
    <3>1. Release(w)
      BY <2>9 DEF Quit, Kill, LoseChannel, Exit
    <3>2. ~(ready'[m] > 0)
      BY <2>2, <2>4, <3>1, ReleaseAdds
    <3>3. \A v \in Workers :
            /\ inbox'[v] = inbox[v] \/ inbox'[v] = Nothing
            /\ cur'[v] = cur[v] \/ cur'[v] = NoMessage
      BY <2>9 DEF Quit, Kill, LoseChannel, Exit, TypeOK
    <3>4. Nothing[m] = 0 /\ NoMessage # m
      BY <2>4, NoMessageAssumption DEF Nothing
    <3> QED BY <2>2, <2>9, <3>2, <3>3, <3>4 DEF Quit, Kill, LoseChannel, Exit
  <2>10. ASSUME NEW w \in Workers, SendOk(w) \/ SendErr(w)
         PROVE  mailed'[b] = mailed[b] /\ UNCHANGED <<ready, dead, inbox, cur>>
    <3>1. cur[w] \in Messages /\ cur[w].body # b
      BY <2>3, <2>10 DEF SendOk, SendErr, TypeOK
    <3>2. mailed' = mailed \/ mailed' = Count(mailed, cur[w].body)
      BY <2>10 DEF SendOk, SendErr
    <3>3. mailed'[b] = mailed[b]
      BY <3>1, <3>2 DEF Count, TypeOK
    <3> QED BY <2>10, <3>3 DEF SendOk, SendErr
  <2>11. ASSUME NEW w \in Workers, Republish(w)
         PROVE  /\ ready'[m] = ready[m] /\ dead'[m] = dead[m]
                /\ mailed' = mailed /\ inbox' = inbox /\ cur' = cur
    <3>1. cur[w] \in Messages /\ cur[w].body # b
      BY <2>3, <2>11 DEF Republish, TypeOK
    <3>2. CASE Retryable(cur[w])
      <4> DEFINE n == [cur[w] EXCEPT !.retry = @ + 1]
      <4>1. n \in Messages /\ n # m
        BY <2>4, <3>1, <3>2, NextRetry
      <4>2. ready \in Bag /\ ready' = Put(ready, n)
        BY <2>11, <3>2 DEF Republish, TypeOK
      <4>3. ready'[m] = ready[m]
        BY <2>4, <4>1, <4>2, PutAdds
      <4> QED BY <2>11, <3>2, <4>3 DEF Republish
    <3>3. CASE ~Retryable(cur[w])
      BY <2>4, <2>11, <3>1, <3>3, PutAdds DEF Republish, TypeOK
    <3> QED BY <3>2, <3>3
  <2>12. ASSUME NEW w \in Workers, RepublishErr(w) \/ Ack(w)
         PROVE  /\ ready'[m] = ready[m] /\ mailed' = mailed /\ dead' = dead /\ inbox' = inbox
                /\ \A v \in Workers : cur'[v] = cur[v] \/ cur'[v] = NoMessage
    <3>1. cur[w] \in Messages /\ cur[w].body # b
      BY <2>3, <2>12 DEF RepublishErr, Ack, TypeOK
    <3>2. ready'[m] = ready[m]
      BY <2>4, <2>12, <3>1, PutAdds DEF RepublishErr, Ack, TypeOK
    <3> QED BY <2>12, <3>2 DEF RepublishErr, Ack, Finish, TypeOK
  <2>13. NoMessage # m
    BY <2>4, NoMessageAssumption
  <2> DEFINE Nowhere == /\ ~(mailed'[b] > 0) /\ ~(dead'[m] > 0) /\ ~(ready'[m] > 0)
                        /\ \A w \in Workers : ~(inbox'[w][m] > 0) /\ cur'[w] # m
  <2>14. ASSUME NEW w \in Workers, Start(w) \/ SendOk(w) \/ SendErr(w) PROVE Nowhere
    BY <2>1, <2>2, <2>8, <2>10, <2>14
  <2>15. ASSUME NEW w \in Workers, Republish(w) PROVE Nowhere
    BY <2>1, <2>2, <2>11, <2>15
  <2>16. ASSUME NEW w \in Workers, RepublishErr(w) \/ Ack(w) PROVE Nowhere
    BY <2>1, <2>2, <2>12, <2>13, <2>16
  <2>17. ASSUME NEW w \in Workers, Quit(w) \/ Kill(w) \/ LoseChannel(w) PROVE Nowhere
    BY <2>1, <2>9, <2>17
  <2>18. ASSUME NEW w \in Workers, NEW n \in Messages, Deliver(w, n) \/ Take(w, n) PROVE Nowhere
    BY <2>1, <2>2, <2>6, <2>7, <2>18
  <2>19. ASSUME NEW c \in Bodies, Publish(c) PROVE Nowhere
    BY <2>1, <2>2, <2>5, <2>19
  <2>20. CASE UNCHANGED vars
    <3>1. UNCHANGED <<mailed, dead, ready, inbox, cur>>
      BY <2>20 DEF vars
    <3> QED BY <2>1, <2>2, <3>1
  <2> QED
    BY <2>14, <2>15, <2>16, <2>17, <2>18, <2>19, <2>20 DEF Next, Worker, HandleDelivery
<1> QED BY <1>2, <1>3

\* History only grows.
LEMMA HistoryGrows ==
  ASSUME TypeOK, [Next]_vars, NEW b \in Bodies
  PROVE  /\ accepted'[b] \in Nat /\ accepted'[b] >= accepted[b]
         /\ ambiguous'[b] \in Nat /\ ambiguous'[b] >= ambiguous[b]
         /\ \A m \in Messages : redelivered'[m] \in Nat /\ redelivered'[m] >= redelivered[m]
<1> USE DEF brokerVars, workerVars, historyVars
<1>1. /\ accepted[b] \in Nat /\ ambiguous[b] \in Nat
      /\ \A m \in Messages : redelivered[m] \in Nat
  BY DEF TypeOK, Bag
<1>2. ASSUME NEW c \in Bodies
      PROVE  /\ Count(accepted, c)[b] \in Nat /\ Count(accepted, c)[b] >= accepted[b]
             /\ Count(ambiguous, c)[b] \in Nat /\ Count(ambiguous, c)[b] >= ambiguous[b]
  BY DEF Count, TypeOK
<1>3. ASSUME NEW n \in Messages, NEW m \in Messages
      PROVE  Put(redelivered, n)[m] \in Nat /\ Put(redelivered, n)[m] >= redelivered[m]
  BY DEF Put, TypeOK, Bag
<1>4. ASSUME NEW w \in Workers, Release(w), NEW m \in Messages
      PROVE  redelivered'[m] \in Nat /\ redelivered'[m] >= redelivered[m]
  <2>1. redelivered[m] \in Nat /\ Held(w, m) \in Nat
    BY DEF TypeOK, Bag, Held
  <2> QED BY <1>4, <2>1 DEF Release
<1>5. ASSUME NEW c \in Bodies, Publish(c)
      PROVE  accepted' = Count(accepted, c) /\ UNCHANGED <<ambiguous, redelivered>>
  BY <1>5 DEF Publish
<1>6. ASSUME NEW w \in Workers, Quit(w) \/ Kill(w) \/ LoseChannel(w)
      PROVE  Release(w) /\ UNCHANGED <<accepted, ambiguous>>
  BY <1>6 DEF Quit, Kill, LoseChannel, Exit
<1>7. ASSUME NEW w \in Workers, SendErr(w)
      PROVE  /\ UNCHANGED <<accepted, redelivered>>
             /\ UNCHANGED ambiguous \/ \E c \in Bodies : ambiguous' = Count(ambiguous, c)
  BY <1>7, BodiesAssumption DEF SendErr
<1>8. ASSUME NEW w \in Workers, RepublishErr(w)
      PROVE  /\ UNCHANGED <<accepted, ambiguous>>
             /\ UNCHANGED redelivered \/ \E n \in Messages : redelivered' = Put(redelivered, n)
  BY <1>8 DEF RepublishErr, TypeOK
<1>9. ASSUME NEW w \in Workers, \/ Start(w) \/ SendOk(w) \/ Republish(w) \/ Ack(w)
                                \/ \E m \in Messages : Deliver(w, m) \/ Take(w, m)
      PROVE  UNCHANGED <<accepted, ambiguous, redelivered>>
  BY <1>9 DEF Start, SendOk, Republish, Ack, Deliver, Take
<1>10. CASE UNCHANGED vars
  BY <1>1, <1>10 DEF vars
<1> QED
  BY <1>1, <1>2, <1>3, <1>4, <1>5, <1>6, <1>7, <1>8, <1>9, <1>10
  DEF Next, Worker, HandleDelivery

\* A closing channel hands everything back; without one nothing is pushed.
LEMMA TakenBackStep ==
  ASSUME TypeOK, [Next]_vars, NEW v \in Workers, TakenBack(v)
  PROVE  TakenBack(v)'
<1> USE DEF brokerVars, workerVars, historyVars
<1> DEFINE Same == UNCHANGED <<stage[v], chan[v], inbox[v], cur[v]>>
<1>1. \A m \in Messages : /\ redelivered[m] \in Nat /\ redelivered'[m] \in Nat
                          /\ redelivered'[m] >= redelivered[m]
  <2>1. ASSUME NEW m \in Messages
        PROVE  redelivered'[m] \in Nat /\ redelivered'[m] >= redelivered[m]
    <3>1. m.body \in Bodies
      BY DEF Messages
    <3> QED BY <3>1, HistoryGrows
  <2> QED BY <2>1 DEF TypeOK, Bag
<1>2. CASE Same
  BY <1>1, <1>2 DEF TakenBack
<1>3. ASSUME NEW w \in Workers, w # v, Worker(w) PROVE Same
  BY <1>3 DEF Worker, HandleDelivery, Start, Quit, Kill, LoseChannel, Exit, Deliver, Take,
     SendOk, SendErr, Republish, RepublishErr, Ack, Finish, TypeOK
<1>4. ASSUME NEW c \in Bodies, Publish(c) PROVE Same
  BY <1>4 DEF Publish
<1>5. CASE Start(v)
  BY <1>5 DEF Start, TakenBack, TypeOK
<1>6. ASSUME NEW m \in Messages, Deliver(v, m) PROVE TakenBack(v)'
  BY <1>6 DEF Deliver, TakenBack, TypeOK
<1>7. ASSUME NEW n \in Messages, Take(v, n) PROVE TakenBack(v)'
  <2>1. /\ stage'[v] # "down" /\ chan'[v] = chan[v] /\ cur'[v] = n
        /\ inbox[v][n] > 0 /\ inbox[v] \in Bag /\ inbox'[v] = Remove(inbox[v], n)
    BY <1>7 DEF Take, TypeOK
  <2>2. \A m \in Messages : inbox'[v][m] > 0 => inbox[v][m] > 0
    BY <2>1, RemoveTakes
  <2> QED BY <1>1, <2>1, <2>2 DEF TakenBack
<1>8. CASE Quit(v) \/ Kill(v)
  <2>1. inbox'[v] = Nothing /\ cur'[v] = NoMessage
    BY <1>8 DEF Quit, Kill, Exit, TypeOK
  <2> QED BY <2>1, NoMessageAssumption DEF TakenBack, Nothing
<1>9. CASE LoseChannel(v)
  <2>1. /\ chan[v] /\ Release(v) /\ stage'[v] = stage[v] /\ stage[v] # "down"
        /\ inbox'[v] = inbox[v] /\ cur'[v] = cur[v]
    BY <1>9 DEF LoseChannel, TypeOK
  <2>2. ASSUME NEW m \in Messages, inbox[v][m] > 0 \/ cur[v] = m PROVE redelivered'[m] > 0
    <3>1. redelivered[m] \in Nat /\ inbox[v][m] \in Nat
      BY DEF TypeOK, Bag
    <3>2. redelivered'[m] = redelivered[m] + Held(v, m)
      BY <2>1 DEF Release
    <3> QED BY <2>2, <3>1, <3>2 DEF Held
  <2> QED BY <2>1, <2>2 DEF TakenBack
<1>10. CASE SendOk(v) \/ SendErr(v) \/ Republish(v)
  <2>1. stage'[v] # "down" /\ chan'[v] = chan[v] /\ inbox'[v] = inbox[v] /\ cur'[v] = cur[v]
    BY <1>10 DEF SendOk, SendErr, Republish, TypeOK
  <2> QED BY <1>1, <2>1 DEF TakenBack
<1>11. CASE RepublishErr(v) \/ Ack(v)
  <2>1. /\ stage'[v] # "down" /\ chan'[v] = chan[v]
        /\ inbox'[v] = inbox[v] /\ cur'[v] = NoMessage
    BY <1>11 DEF RepublishErr, Ack, Finish, TypeOK
  <2> QED BY <1>1, <2>1, NoMessageAssumption DEF TakenBack
<1>12. CASE UNCHANGED vars
  BY <1>2, <1>12 DEF vars
<1> QED
  BY <1>2, <1>3, <1>4, <1>5, <1>6, <1>7, <1>8, <1>9, <1>10, <1>11, <1>12
  DEF Next, Worker, HandleDelivery

\* Nothing comes from nowhere: every copy and every e-mail goes back to a publish.
THEOREM CopiesArePublished == Spec => []Provenance
<1>1. Init => Provenance
  BY NoMessageAssumption
  DEF Init, Provenance, Published, TakenBack, Somewhere, Nothing, OfBody
<1>2. TypeOK /\ Provenance /\ [Next]_vars => Provenance'
  BY PublishedStep, TakenBackStep DEF Provenance
<1> QED BY <1>1, <1>2, TypeCorrect, PTL DEF Spec

-----------------------------------------------------------------------------
(* One step, seen from outside the worker *)

\* The broker has b to deliver, or awaits the acknowledgement of a copy of b.
InQueue(b) ==
  \E m \in OfBody(b) :
    ready[m] > 0 \/ \E w \in Workers : chan[w] /\ (inbox[w][m] > 0 \/ cur[w] = m)

\* E-mails go out one at a time, for a delivery a worker has in hand.
LEMMA MailStep ==
  ASSUME TypeOK, [Next]_vars, mailed' # mailed
  PROVE  \E w \in Workers :
           stage[w] = "send" /\ cur[w] \in Messages /\ mailed' = Count(mailed, cur[w].body)
<1>1. ASSUME NEW w \in Workers, SendOk(w) \/ SendErr(w)
      PROVE  stage[w] = "send" /\ cur[w] \in Messages
  BY <1>1 DEF SendOk, SendErr, TypeOK
<1>2. ASSUME NEW w \in Workers, SendOk(w) \/ SendErr(w)
      PROVE  mailed' = mailed \/ mailed' = Count(mailed, cur[w].body)
  BY <1>2 DEF SendOk, SendErr
<1>3. ASSUME NEW w \in Workers,
             \/ Start(w) \/ Quit(w) \/ Kill(w) \/ LoseChannel(w)
             \/ Republish(w) \/ RepublishErr(w) \/ Ack(w)
             \/ \E m \in Messages : Deliver(w, m) \/ Take(w, m)
      PROVE  mailed' = mailed
  BY <1>3 DEF Start, Quit, Kill, LoseChannel, Exit, Republish, RepublishErr, Ack, Deliver, Take,
     historyVars
<1>4. ASSUME NEW b \in Bodies, Publish(b) PROVE mailed' = mailed
  BY <1>4 DEF Publish
<1>5. CASE UNCHANGED vars
  BY <1>5 DEF vars, historyVars
<1> QED BY <1>1, <1>2, <1>3, <1>4, <1>5 DEF Next, Worker, HandleDelivery

\* A dead letter stays, and was a delivery the broker had not lost sight of.
LEMMA DeadStep ==
  ASSUME TypeOK, [Next]_vars, NEW m \in Messages
  PROVE  /\ dead[m] > 0 => dead'[m] > 0
         /\ dead'[m] > 0 => dead[m] > 0 \/ InQueue(m.body)
<1>1. ASSUME NEW w \in Workers, Republish(w), dead' # dead
      PROVE  chan[w] /\ cur[w] \in Messages /\ dead' = Put(dead, cur[w])
  BY <1>1 DEF Republish, TypeOK
<1>2. ASSUME NEW w \in Workers, Republish(w) PROVE dead[m] > 0 => dead'[m] > 0
  BY <1>1, <1>2, PutAdds DEF TypeOK
<1>3. ASSUME NEW w \in Workers, Republish(w), dead'[m] > 0
      PROVE  dead[m] > 0 \/ InQueue(m.body)
  <2>1. CASE dead' = dead
    BY <1>3, <2>1
  <2>2. CASE dead' # dead /\ cur[w] # m
    <3>1. dead \in Bag /\ cur[w] \in Messages /\ dead' = Put(dead, cur[w])
      BY <1>1, <1>3, <2>2 DEF TypeOK
    <3> QED BY <1>3, <2>2, <3>1 DEF Put, Bag
  <2>3. CASE dead' # dead /\ cur[w] = m
    BY <1>1, <1>3, <2>3 DEF InQueue, OfBody
  <2> QED BY <2>1, <2>2, <2>3
<1>4. ASSUME NEW w \in Workers,
             \/ Start(w) \/ Quit(w) \/ Kill(w) \/ LoseChannel(w)
             \/ SendOk(w) \/ SendErr(w) \/ RepublishErr(w) \/ Ack(w)
             \/ \E n \in Messages : Deliver(w, n) \/ Take(w, n)
      PROVE  dead' = dead
  BY <1>4 DEF Start, Quit, Kill, LoseChannel, Exit, SendOk, SendErr, RepublishErr, Ack, Deliver,
     Take, brokerVars
<1>5. ASSUME NEW b \in Bodies, Publish(b) PROVE dead' = dead
  BY <1>5 DEF Publish
<1>6. CASE UNCHANGED vars
  BY <1>6 DEF vars, brokerVars
<1> QED BY <1>2, <1>3, <1>4, <1>5, <1>6 DEF Next, Worker, HandleDelivery

\* Nothing comes into the queue of which it has nothing, but by a publish: a worker
\* that starts holds nothing, and a broken channel takes its copies to the front.
LEMMA QueueStep ==
  ASSUME TypeOK, Provenance, [Next]_vars, NEW b \in Bodies, InQueue(b)', ~InQueue(b)
  PROVE  Publish(b)
<1> USE DEF brokerVars, workerVars, historyVars
<1>1. /\ \A m \in OfBody(b) : m \in Messages /\ m.body = b
      /\ \A m \in Messages : m.body = b => m \in OfBody(b)
  BY DEF OfBody
<1>2. \A m \in OfBody(b) :
        /\ ready[m] = 0
        /\ \A w \in Workers : chan[w] => inbox[w][m] = 0 /\ cur[w] # m
  BY <1>1 DEF InQueue, TypeOK, Bag
<1>3. ASSUME /\ \A m \in OfBody(b) : ready'[m] = 0
             /\ \A m \in OfBody(b), w \in Workers : chan'[w] => inbox'[w][m] = 0 /\ cur'[w] # m
      PROVE  FALSE
  BY <1>3 DEF InQueue, OfBody
<1>4. ASSUME NEW c \in Bodies, Publish(c), c # b PROVE FALSE
  <2>1. [body |-> c, retry |-> 0] \in Messages /\ ready' = Put(ready, [body |-> c, retry |-> 0])
    BY <1>4, RetriesAssumption DEF Publish, Messages
  <2>2. \A m \in OfBody(b) : m # [body |-> c, retry |-> 0]
    BY <1>1, <1>4
  <2>3. \A m \in OfBody(b) : ready'[m] = ready[m]
    BY <1>1, <2>1, <2>2 DEF Put, Bag, TypeOK
  <2> QED BY <1>2, <1>3, <1>4, <2>3 DEF Publish
<1>5. ASSUME NEW w \in Workers, Start(w) PROVE FALSE
  <2>1. inbox[w] = Nothing /\ cur[w] = NoMessage
    BY <1>5 DEF Start, Provenance, TakenBack, TypeOK
  <2>2. \A m \in OfBody(b) : inbox[w][m] = 0 /\ cur[w] # m
    BY <1>1, <2>1, NoMessageAssumption DEF Nothing
  <2>3. \A u \in Workers : u # w => chan'[u] = chan[u]
    BY <1>5 DEF Start, TypeOK
  <2> QED BY <1>2, <1>3, <1>5, <2>2, <2>3 DEF Start
<1>6. ASSUME NEW w \in Workers, Quit(w) \/ Kill(w) \/ LoseChannel(w) PROVE FALSE
  <2>1. \A m \in OfBody(b) : ready'[m] = 0
    <3>1. ASSUME NEW m \in OfBody(b), chan[w] PROVE Held(w, m) = 0
      BY <1>2, <3>1 DEF Held
    <3>2. Release(w)
      BY <1>6 DEF Quit, Kill, LoseChannel, Exit
    <3> QED BY <1>1, <1>2, <3>1, <3>2 DEF Release
  <2>2. /\ ~chan'[w]
        /\ \A u \in Workers :
             u # w => chan'[u] = chan[u] /\ inbox'[u] = inbox[u] /\ cur'[u] = cur[u]
    BY <1>6 DEF Quit, Kill, LoseChannel, Exit, TypeOK
  <2> QED BY <1>2, <1>3, <2>1, <2>2
<1>7. ASSUME NEW w \in Workers, NEW n \in Messages, Deliver(w, n) PROVE FALSE
  <2>1. n \notin OfBody(b)
    BY <1>2, <1>7 DEF Deliver
  <2>2. ready \in Bag /\ inbox \in [Workers -> Bag]
    BY DEF TypeOK
  <2>3. \A m \in OfBody(b) : ready'[m] = ready[m]
    BY <1>1, <1>7, <2>1, <2>2 DEF Deliver, Remove, Bag
  <2>4. \A m \in OfBody(b), u \in Workers : inbox'[u][m] = inbox[u][m]
    BY <1>1, <1>7, <2>1, <2>2 DEF Deliver, Put, Bag
  <2> QED BY <1>2, <1>3, <1>7, <2>3, <2>4 DEF Deliver
<1>8. ASSUME NEW w \in Workers, NEW n \in Messages, Take(w, n) PROVE FALSE
  <2>1. /\ inbox \in [Workers -> Bag] /\ cur'[w] = n
        /\ inbox[w][n] > 0 /\ inbox'[w] = Remove(inbox[w], n)
    BY <1>8 DEF Take, TypeOK
  <2>2. \A u \in Workers : u # w => inbox'[u] = inbox[u] /\ cur'[u] = cur[u]
    BY <1>8 DEF Take, TypeOK
  <2>3. chan[w] => n \notin OfBody(b)
    BY <1>2, <2>1
  <2>4. \A m \in OfBody(b) : chan[w] => inbox'[w][m] = inbox[w][m]
    BY <1>1, <2>1, <2>3 DEF Remove, Bag
  <2> QED BY <1>2, <1>3, <1>8, <2>1, <2>2, <2>3, <2>4 DEF Take
<1>9. ASSUME NEW w \in Workers, SendOk(w) \/ SendErr(w) PROVE FALSE
  BY <1>2, <1>3, <1>9 DEF SendOk, SendErr
<1>10. ASSUME NEW w \in Workers, Republish(w) PROVE FALSE
  <2>1. PICK n \in Messages : n.body = cur[w].body /\ (ready' = ready \/ ready' = Put(ready, n))
    BY <1>10, NextRetry DEF Republish, TypeOK
  <2>2. cur[w] \in Messages /\ cur[w] \notin OfBody(b)
    BY <1>2, <1>10 DEF Republish, TypeOK
  <2>3. n \notin OfBody(b)
    BY <1>1, <2>1, <2>2
  <2>4. \A m \in OfBody(b) : ready'[m] = ready[m]
    BY <1>1, <2>1, <2>3 DEF Put, Bag, TypeOK
  <2> QED BY <1>2, <1>3, <1>10, <2>4 DEF Republish
<1>11. ASSUME NEW w \in Workers, RepublishErr(w) \/ Ack(w) PROVE FALSE
  <2>1. cur[w] \in Messages /\ (ready' = ready \/ (chan[w] /\ ready' = Put(ready, cur[w])))
    BY <1>11 DEF RepublishErr, Ack, TypeOK
  <2>2. chan[w] => cur[w] \notin OfBody(b)
    BY <1>2
  <2>3. \A m \in OfBody(b) : ready'[m] = ready[m]
    BY <1>1, <2>1, <2>2 DEF Put, Bag, TypeOK
  <2>4. cur'[w] = NoMessage /\ \A u \in Workers : u # w => cur'[u] = cur[u]
    BY <1>11 DEF RepublishErr, Ack, Finish, TypeOK
  <2> QED BY <1>1, <1>2, <1>3, <1>11, <2>3, <2>4, NoMessageAssumption DEF RepublishErr, Ack
<1>12. CASE UNCHANGED vars
  BY <1>2, <1>3, <1>12 DEF vars
<1> QED
  BY <1>4, <1>5, <1>6, <1>7, <1>8, <1>9, <1>10, <1>11, <1>12 DEF Next, Worker, HandleDelivery

-----------------------------------------------------------------------------
(* Sums over finite sets *)

(* MapThenSumSet is a recursive function over the subsets of its set that    *)
(* adds up what an arbitrary element and the rest contribute.  It is handled *)
(* here as SumOver, the same recursion for numbers given as a function.      *)
SumOver(f, S) ==
  LET iter[s \in SUBSET S] ==
        IF s = {} THEN 0
        ELSE LET x == CHOOSE x \in s : TRUE IN f[x] + iter[s \ {x}]
  IN  iter[S]

\* Induction over the subsets of a finite set.
LEMMA TakeAway ==
  ASSUME NEW S, IsFiniteSet(S), NEW G,
         \A s \in SUBSET S : (\A x \in s : s \ {x} \in G) => s \in G
  PROVE  \A s \in SUBSET S : s \in G
<1> DEFINE T == {s \in SUBSET S : s \notin G}
<1> SUFFICES ASSUME T # {} PROVE FALSE
  OBVIOUS
<1>1. T \subseteq FiniteSubsetsOf(S)
  BY FS_FiniteSubsetsOfFinite
<1>2. \A s \in SUBSET S : s \in T <=> s \notin G
  OBVIOUS
<1>3. T \subseteq SUBSET S
  OBVIOUS
<1> HIDE DEF T
<1>4. PICK s \in T : \A u \in T : <<u, s>> \notin StrictSubsetOrdering(S)
  BY <1>1, FS_StrictSubsetOrderingWellFounded, WFMin
<1>5. ASSUME NEW x \in s PROVE s \ {x} \in G
  <2>1. <<s \ {x}, s>> \in StrictSubsetOrdering(S)
    BY <1>3 DEF StrictSubsetOrdering
  <2> QED BY <1>2, <1>3, <1>4, <2>1
<1> QED BY <1>2, <1>3, <1>5

Picked(s) == CHOOSE x \in s : TRUE
Unfolds(g, f, s) == g[s] = IF s = {} THEN 0 ELSE f[Picked(s)] + g[s \ {Picked(s)}]

\* The recursion has a solution, by adding one element at a time.
LEMMA SumExists ==
  ASSUME NEW S, IsFiniteSet(S), NEW f, \A x \in S : f[x] \in Int
  PROVE  \E g \in [SUBSET S -> Int] : \A s \in SUBSET S : Unfolds(g, f, s)
<1> DEFINE Upto(u) == \E g \in [SUBSET S -> Int] :
                        \A s \in SUBSET S : Cardinality(s) <= Cardinality(u) => Unfolds(g, f, s)
           G == {u \in SUBSET S : Upto(u)}
<1>1. \A s \in SUBSET S : IsFiniteSet(s) /\ Cardinality(s) \in Nat /\ (Cardinality(s) = 0 => s = {})
  BY FS_Subset, FS_CardinalityType, FS_EmptySet
<1>2. \A s \in SUBSET S : s # {} => Picked(s) \in s
  BY DEF Picked
<1>3. Upto({})
  <2> DEFINE g == [s \in SUBSET S |-> 0]
  <2>1. g \in [SUBSET S -> Int]
    OBVIOUS
  <2>2. \A s \in SUBSET S : Cardinality(s) <= 0 => Unfolds(g, f, s)
    BY <1>1 DEF Unfolds
  <2> QED BY <2>1, <2>2, FS_EmptySet
<1>4. ASSUME NEW u \in SUBSET S, NEW x \in u, Upto(u \ {x}) PROVE Upto(u)
  <2>1. PICK g \in [SUBSET S -> Int] :
          \A s \in SUBSET S : Cardinality(s) <= Cardinality(u \ {x}) => Unfolds(g, f, s)
    BY <1>4
  <2> DEFINE h == [s \in SUBSET S |->
                     IF s = {} THEN 0 ELSE f[Picked(s)] + g[s \ {Picked(s)}]]
  <2>2. h \in [SUBSET S -> Int]
    <3> SUFFICES ASSUME NEW s \in SUBSET S, s # {} PROVE f[Picked(s)] + g[s \ {Picked(s)}] \in Int
      OBVIOUS
    <3>1. Picked(s) \in S /\ s \ {Picked(s)} \in SUBSET S
      BY <1>2
    <3> HIDE DEF h
    <3>2. f[Picked(s)] \in Int /\ g[s \ {Picked(s)}] \in Int
      BY <3>1
    <3> QED BY <3>2
  <2>3. ASSUME NEW s \in SUBSET S, Cardinality(s) <= Cardinality(u) PROVE Unfolds(h, f, s)
    <3>1. CASE s = {}
      BY <3>1 DEF Unfolds
    <3>2. CASE s # {}
      <4> DEFINE r == s \ {Picked(s)}
      <4>1. r \in SUBSET S /\ Picked(s) \in s
        BY <1>2, <3>2
      <4>2. Cardinality(r) = Cardinality(s) - 1 /\ Cardinality(u \ {x}) = Cardinality(u) - 1
        BY <1>1, <4>1, FS_RemoveElement
      <4>3. Cardinality(r) <= Cardinality(u \ {x})
        BY <1>1, <2>3, <4>2
      <4>4. Unfolds(g, f, r)
        BY <2>1, <4>1, <4>3
      <4>5. g[r] = h[r]
        BY <4>1, <4>4 DEF Unfolds
      <4>6. h[s] = f[Picked(s)] + g[r]
        BY <3>2
      <4> HIDE DEF h
      <4> QED BY <3>2, <4>5, <4>6 DEF Unfolds
    <3> QED BY <3>1, <3>2
  <2> HIDE DEF h
  <2> QED BY <2>2, <2>3
<1>5. \A s \in SUBSET S : s \in G
  <2>1. ASSUME NEW s \in SUBSET S, \A x \in s : s \ {x} \in G PROVE s \in G
    <3>1. CASE s = {}
      BY <1>3, <3>1
    <3>2. CASE s # {}
      <4>1. PICK x \in s : TRUE
        BY <3>2
      <4>2. Upto(s \ {x})
        BY <2>1
      <4> HIDE DEF Upto
      <4> QED BY <1>4, <4>2
    <3> QED BY <3>1, <3>2
  <2> HIDE DEF G
  <2> QED BY <2>1, TakeAway
<1>6. Upto(S)
  BY <1>5
<1> QED BY <1>1, <1>6, FS_Subset

\* What the recursion computes does not depend on the order in which it picks elements.
Sums(g, f, S) ==
  /\ g \in [SUBSET S -> Int]
  /\ g[{}] = 0
  /\ \A s \in SUBSET S : \A x \in s : g[s] = f[x] + g[s \ {x}]

LEMMA AnyOrder ==
  ASSUME NEW S, IsFiniteSet(S), NEW f, \A x \in S : f[x] \in Int,
         NEW g, g = [s \in SUBSET S |-> g[s]], \A s \in SUBSET S : Unfolds(g, f, s)
  PROVE  Sums(g, f, S)
<1>1. \A s \in SUBSET S : s # {} => Picked(s) \in s
  BY DEF Picked
<1> DEFINE Good(s) == g[s] \in Int /\ \A x \in s : g[s] = f[x] + g[s \ {x}] /\ g[s \ {x}] \in Int
           G == {s \in SUBSET S : Good(s)}
<1>2. ASSUME NEW s \in SUBSET S, \A x \in s : s \ {x} \in G PROVE s \in G
  <2>1. CASE s = {}
    <3>1. g[{}] = 0
      BY <2>1 DEF Unfolds
    <3> QED BY <2>1, <3>1
  <2>2. CASE s # {}
    <3> DEFINE c == Picked(s)
    <3>1. c \in s /\ f[c] \in Int
      BY <1>1, <2>2
    <3>2. g[s] = f[c] + g[s \ {c}]
      BY <2>2 DEF Unfolds, c
    <3> HIDE DEF c
    <3>3. \A x \in s : Good(s \ {x}) /\ f[x] \in Int
      BY <1>2
    <3>4. Good(s \ {c}) /\ g[s \ {c}] \in Int
      BY <3>1, <3>3
    <3>5. ASSUME NEW x \in s PROVE g[s] = f[x] + g[s \ {x}] /\ g[s \ {x}] \in Int
      <4>1. CASE x = c
        BY <3>2, <3>3, <4>1
      <4>2. CASE x # c
        <5>1. g[s \ {c}] = f[x] + g[(s \ {c}) \ {x}] /\ g[(s \ {c}) \ {x}] \in Int
          BY <3>1, <3>3, <4>2
        <5>2. g[s \ {x}] = f[c] + g[(s \ {x}) \ {c}]
          BY <3>1, <3>3, <4>2
        <5>3. (s \ {c}) \ {x} = (s \ {x}) \ {c}
          OBVIOUS
        <5>4. g[s \ {x}] \in Int /\ g[s \ {c}] \in Int /\ f[x] \in Int
          BY <3>1, <3>3
        <5> DEFINE r == g[(s \ {c}) \ {x}]
        <5>5. g[s] = f[c] + (f[x] + r) /\ g[s \ {x}] = f[c] + r /\ r \in Int
          BY <3>2, <5>1, <5>2, <5>3
        <5> HIDE DEF r
        <5> QED BY <3>1, <5>4, <5>5
      <4> QED BY <4>1, <4>2
    <3>6. g[s] \in Int
      BY <3>1, <3>2, <3>4
    <3> QED BY <3>5, <3>6
  <2> QED BY <2>1, <2>2
<1>3. \A s \in SUBSET S : s \in G
  <2> HIDE DEF G
  <2> QED BY <1>2, TakeAway
<1>4. g \in [SUBSET S -> Int]
  BY <1>3
<1>5. {} \in SUBSET S
  OBVIOUS
<1> QED BY <1>3, <1>4, <1>5 DEF Sums, Unfolds

\* SumOver is that solution, and so adds up in any order.
LEMMA SumComputes ==
  ASSUME NEW S, IsFiniteSet(S), NEW f, \A x \in S : f[x] \in Int
  PROVE  \E g : Sums(g, f, S) /\ SumOver(f, S) = g[S]
<1> DEFINE sum == CHOOSE h : h = [s \in SUBSET S |->
             IF s = {} THEN 0 ELSE f[Picked(s)] + h[s \ {Picked(s)}]]
<1>1. PICK i \in [SUBSET S -> Int] : \A s \in SUBSET S : Unfolds(i, f, s)
  BY SumExists
<1>2. i = [s \in SUBSET S |-> IF s = {} THEN 0 ELSE f[Picked(s)] + i[s \ {Picked(s)}]]
  BY <1>1 DEF Unfolds
<1>3. sum = [s \in SUBSET S |-> IF s = {} THEN 0 ELSE f[Picked(s)] + sum[s \ {Picked(s)}]]
  BY <1>2, Zenon
<1>4. SumOver(f, S) = sum[S]
  BY DEF SumOver, Picked
<1> HIDE DEF sum
<1>5. \A s \in SUBSET S : Unfolds(sum, f, s)
  BY <1>3 DEF Unfolds
<1>6. sum = [s \in SUBSET S |-> sum[s]]
  BY <1>3
<1>7. Sums(sum, f, S)
  BY <1>5, <1>6, AnyOrder
<1> QED BY <1>4, <1>7

\* Two sums of the same numbers agree, wherever the recursion started.
LEMMA SumsAgree ==
  ASSUME NEW S, NEW T, NEW U, IsFiniteSet(U), U \subseteq S, U \subseteq T,
         NEW f, NEW e, \A x \in U : f[x] = e[x],
         NEW g, Sums(g, f, S), NEW h, Sums(h, e, T)
  PROVE  g[U] = h[U]
<1> DEFINE G == {s \in SUBSET U : g[s] = h[s]}
<1>1. ASSUME NEW s \in SUBSET U, \A x \in s : s \ {x} \in G PROVE s \in G
  <2>1. CASE s = {}
    BY <2>1 DEF Sums
  <2>2. CASE s # {}
    <3>1. PICK x \in s : TRUE
      BY <2>2
    <3>2. g[s \ {x}] = h[s \ {x}] /\ f[x] = e[x]
      BY <1>1
    <3>3. g[s] = f[x] + g[s \ {x}] /\ h[s] = e[x] + h[s \ {x}]
      BY DEF Sums
    <3> QED BY <3>2, <3>3
  <2> QED BY <2>1, <2>2
<1> HIDE DEF G
<1>2. \A s \in SUBSET U : s \in G
  BY <1>1, TakeAway
<1> QED BY <1>2 DEF G

\* The sum over a set is that over the rest and what one element adds.
LEMMA SumSplits ==
  ASSUME NEW S, IsFiniteSet(S), NEW f, \A y \in S : f[y] \in Int
  PROVE  /\ SumOver(f, S) \in Int
         /\ SumOver(f, {}) = 0
         /\ \A x \in S : SumOver(f, S) = f[x] + SumOver(f, S \ {x})
<1>1. PICK g : Sums(g, f, S) /\ SumOver(f, S) = g[S]
  BY SumComputes
<1>2. \A U \in SUBSET S : SumOver(f, U) = g[U]
  <2> SUFFICES ASSUME NEW U \in SUBSET S PROVE SumOver(f, U) = g[U]
    OBVIOUS
  <2>1. IsFiniteSet(U) /\ \A y \in U : f[y] \in Int
    BY FS_Subset
  <2>2. PICK h : Sums(h, f, U) /\ SumOver(f, U) = h[U]
    BY <2>1, SumComputes
  <2> QED BY <1>1, <2>1, <2>2, SumsAgree
<1>3. {} \in SUBSET S /\ S \in SUBSET S /\ \A x \in S : S \ {x} \in SUBSET S
  OBVIOUS
<1> QED BY <1>1, <1>2, <1>3 DEF Sums

\* The sum is one of the numbers, not of the function they come from.
LEMMA SumSame ==
  ASSUME NEW S, IsFiniteSet(S), NEW f, NEW e, \A x \in S : f[x] \in Int /\ f[x] = e[x]
  PROVE  SumOver(f, S) = SumOver(e, S)
<1>1. PICK g : Sums(g, f, S) /\ SumOver(f, S) = g[S]
  BY SumComputes
<1>2. PICK h : Sums(h, e, S) /\ SumOver(e, S) = h[S]
  BY SumComputes
<1> QED BY <1>1, <1>2, SumsAgree

\* Changing what one element adds changes the sum by as much.
LEMMA SumChanges ==
  ASSUME NEW S, IsFiniteSet(S), NEW f, NEW e, NEW x \in S,
         \A y \in S : f[y] \in Int /\ e[y] \in Int /\ (y # x => f[y] = e[y])
  PROVE  SumOver(e, S) = SumOver(f, S) - f[x] + e[x]
<1>1. IsFiniteSet(S \ {x})
  BY FS_RemoveElement
<1>2. SumOver(f, S \ {x}) = SumOver(e, S \ {x}) /\ SumOver(e, S \ {x}) \in Int
  BY <1>1, SumSame, SumSplits
<1>3. SumOver(f, S) = f[x] + SumOver(f, S \ {x}) /\ SumOver(e, S) = e[x] + SumOver(e, S \ {x})
  BY SumSplits
<1> QED BY <1>2, <1>3

\* The sum of a sum.
LEMMA SumAdds ==
  ASSUME NEW S, IsFiniteSet(S), NEW f, NEW e, NEW d,
         \A x \in S : f[x] \in Int /\ e[x] \in Int /\ d[x] = f[x] + e[x]
  PROVE  SumOver(d, S) = SumOver(f, S) + SumOver(e, S)
<1> DEFINE G == {s \in SUBSET S : SumOver(d, s) = SumOver(f, s) + SumOver(e, s)}
<1>0. \A x \in S : d[x] \in Int
  OBVIOUS
<1>1. ASSUME NEW s \in SUBSET S, \A x \in s : s \ {x} \in G PROVE s \in G
  <2>1. IsFiniteSet(s) /\ \A x \in s : IsFiniteSet(s \ {x})
    BY FS_Subset, FS_RemoveElement
  <2>2. CASE s = {}
    <3>1. SumOver(d, s) = 0 /\ SumOver(f, s) = 0 /\ SumOver(e, s) = 0
      BY <1>0, <2>2, SumSplits
    <3> QED BY <3>1
  <2>3. CASE s # {}
    <3>1. PICK x \in s : TRUE
      BY <2>3
    <3>2. /\ SumOver(d, s) = d[x] + SumOver(d, s \ {x})
          /\ SumOver(f, s) = f[x] + SumOver(f, s \ {x})
          /\ SumOver(e, s) = e[x] + SumOver(e, s \ {x})
      BY <1>0, <2>1, SumSplits
    <3>3. SumOver(f, s \ {x}) \in Int /\ SumOver(e, s \ {x}) \in Int
      BY <2>1, SumSplits
    <3>4. SumOver(d, s \ {x}) = SumOver(f, s \ {x}) + SumOver(e, s \ {x})
      BY <1>1
    <3>5. f[x] \in Int /\ e[x] \in Int /\ d[x] = f[x] + e[x]
      OBVIOUS
    <3> QED BY <3>2, <3>3, <3>4, <3>5
  <2> QED BY <2>2, <2>3
<1> HIDE DEF G
<1>2. \A s \in SUBSET S : s \in G
  BY <1>1, TakeAway
<1> QED BY <1>2 DEF G

\* A sum of naturals is one, and that over a part is no greater.
LEMMA SumOfPart ==
  ASSUME NEW S, IsFiniteSet(S), NEW U \in SUBSET S, NEW f, \A x \in S : f[x] \in Nat
  PROVE  SumOver(f, U) \in Nat /\ SumOver(f, S) \in Nat /\ SumOver(f, U) <= SumOver(f, S)
<1> DEFINE G == {s \in SUBSET S : SumOver(f, s) \in Nat
                   /\ \A u \in SUBSET s : SumOver(f, u) \in Nat /\ SumOver(f, u) <= SumOver(f, s)}
<1>1. ASSUME NEW s \in SUBSET S, \A x \in s : s \ {x} \in G PROVE s \in G
  <2>1. IsFiniteSet(s)
    BY FS_Subset
  <2>2. CASE s = {}
    <3>1. SumOver(f, s) = 0
      BY <2>1, <2>2, SumSplits
    <3>2. \A u \in SUBSET s : u = s
      BY <2>2
    <3> QED BY <3>1, <3>2
  <2>3. ASSUME NEW x \in s
        PROVE  /\ SumOver(f, s) = f[x] + SumOver(f, s \ {x})
               /\ f[x] \in Nat /\ SumOver(f, s \ {x}) \in Nat
    BY <1>1, <2>1, SumSplits
  <2>4. CASE s # {}
    <3>1. SumOver(f, s) \in Nat
      <4>1. PICK x \in s : TRUE
        BY <2>4
      <4>2. /\ SumOver(f, s) = f[x] + SumOver(f, s \ {x})
            /\ f[x] \in Nat /\ SumOver(f, s \ {x}) \in Nat
        BY <2>3
      <4> QED BY <4>2
    <3>2. ASSUME NEW u \in SUBSET s, u # s
          PROVE  SumOver(f, u) \in Nat /\ SumOver(f, u) <= SumOver(f, s)
      <4>1. PICK x \in s : x \notin u
        BY <3>2
      <4>2. s \ {x} \in G /\ u \in SUBSET (s \ {x})
        BY <1>1, <4>1
      <4>3. SumOver(f, u) \in Nat /\ SumOver(f, u) <= SumOver(f, s \ {x})
        BY <4>2
      <4> QED BY <2>3, <4>3
    <3> QED BY <3>1, <3>2
  <2> QED BY <2>2, <2>4
<1> HIDE DEF G
<1>2. \A s \in SUBSET S : s \in G
  BY <1>1, TakeAway
<1> QED BY <1>2 DEF G

\* Nothing added up is nothing: the sum is twice itself.
LEMMA SumOfZeros ==
  ASSUME NEW S, IsFiniteSet(S), NEW f, \A x \in S : f[x] = 0
  PROVE  SumOver(f, S) = 0
<1>1. SumOver(f, S) \in Int
  BY SumSplits
<1>2. SumOver(f, S) = SumOver(f, S) + SumOver(f, S)
  <2>1. \A x \in S : f[x] \in Int /\ f[x] = f[x] + f[x]
    OBVIOUS
  <2> QED BY <2>1, SumAdds
<1>3. \A n \in Int : n = n + n => n = 0
  OBVIOUS
<1> QED BY <1>1, <1>2, <1>3, Zenon

-----------------------------------------------------------------------------
(* What the copies of a body weigh *)

\* What the copies of b in a bag weigh, one copy of m weighing weight[m].
Weights == [Messages -> Nat]
Weigh(bag, weight, b) == SumOver([m \in OfBody(b) |-> bag[m] * weight[m]], OfBody(b))
Share(m, weight, b) == IF m \in OfBody(b) THEN weight[m] ELSE 0

\* A body has as many messages as retry counts.
LEMMA OfBodyFinite ==
  ASSUME NEW b \in Bodies
  PROVE  IsFiniteSet(OfBody(b)) /\ OfBody(b) \subseteq Messages
<1> DEFINE message == [k \in 0..MaxRetries |-> [body |-> b, retry |-> k]]
<1>1. \A m \in OfBody(b) : m.retry \in 0..MaxRetries /\ m = [body |-> b, retry |-> m.retry]
  BY DEF OfBody, Messages
<1>2. message \in Surjection(0..MaxRetries, OfBody(b))
  BY <1>1 DEF Surjection, OfBody, Messages
<1>3. IsFiniteSet(0..MaxRetries)
  BY RetriesAssumption, FS_Interval
<1> QED BY <1>2, <1>3, FS_Surjection DEF OfBody

\* Weights are naturals, and so is what a bag or one copy weighs.
LEMMA WeighNat ==
  ASSUME NEW bag \in Bag, NEW weight \in Weights, NEW b \in Bodies
  PROVE  Weigh(bag, weight, b) \in Nat
<1>1. \A m \in OfBody(b) : bag[m] * weight[m] \in Nat
  BY OfBodyFinite DEF Bag, Weights
<1> DEFINE f == [m \in OfBody(b) |-> bag[m] * weight[m]]
<1>2. \A m \in OfBody(b) : f[m] \in Nat
  BY <1>1
<1> HIDE DEF f
<1>3. SumOver(f, OfBody(b)) \in Nat
  BY <1>2, OfBodyFinite, SumOfPart
<1> QED BY <1>3 DEF Weigh, f

\* The same of one copy, or of none.
LEMMA ShareNat ==
  ASSUME NEW weight \in Weights, NEW b \in Bodies
  PROVE  \A m : Share(m, weight, b) \in Nat
BY OfBodyFinite DEF Share, Weights

\* One copy of n more or less.
LEMMA WeighChanges ==
  ASSUME NEW bag \in Bag, NEW new \in Bag, NEW weight \in Weights, NEW b \in Bodies,
         NEW n \in Messages, \A m \in Messages : m # n => new[m] = bag[m]
  PROVE  Weigh(new, weight, b)
           = Weigh(bag, weight, b) + (new[n] - bag[n]) * Share(n, weight, b)
<1> DEFINE f == [m \in OfBody(b) |-> bag[m] * weight[m]]
           e == [m \in OfBody(b) |-> new[m] * weight[m]]
<1>1. \A m \in OfBody(b) : f[m] \in Int /\ e[m] \in Int /\ (m # n => f[m] = e[m])
  BY OfBodyFinite DEF Bag, Weights
<1>2. n \in OfBody(b) => f[n] = bag[n] * weight[n] /\ e[n] = new[n] * weight[n]
  OBVIOUS
<1>3. bag[n] \in Nat /\ new[n] \in Nat /\ weight[n] \in Nat
  BY DEF Bag, Weights
<1> HIDE DEF f, e
<1>4. SumOver(f, OfBody(b)) \in Int
  BY <1>1, OfBodyFinite, SumSplits
<1>5. CASE n \in OfBody(b)
  <2>1. SumOver(e, OfBody(b)) = SumOver(f, OfBody(b)) - f[n] + e[n]
    BY <1>1, <1>5, OfBodyFinite, SumChanges
  <2>2. \A i, j, k \in Nat, s \in Int : s - i * k + j * k = s + (j - i) * k
    OBVIOUS
  <2> QED BY <1>2, <1>3, <1>4, <1>5, <2>1, <2>2 DEF Weigh, Share, f, e
<1>6. CASE n \notin OfBody(b)
  <2>1. SumOver(e, OfBody(b)) = SumOver(f, OfBody(b))
    BY <1>1, <1>6, OfBodyFinite, SumSame
  <2> QED BY <1>3, <1>4, <1>6, <2>1 DEF Weigh, Share, f, e
<1> QED BY <1>5, <1>6

\* One copy put in.
LEMMA WeighPut ==
  ASSUME NEW bag \in Bag, NEW weight \in Weights, NEW b \in Bodies, NEW n \in Messages
  PROVE  Weigh(Put(bag, n), weight, b) = Weigh(bag, weight, b) + Share(n, weight, b)
<1>1. Put(bag, n) \in Bag /\ (\A m \in Messages : m # n => Put(bag, n)[m] = bag[m])
      /\ Put(bag, n)[n] - bag[n] = 1
  BY DEF Put, Bag
<1>2. Weigh(Put(bag, n), weight, b) = Weigh(bag, weight, b) + 1 * Share(n, weight, b)
  BY <1>1, WeighChanges
<1> QED BY <1>2, ShareNat

\* One copy taken out.
LEMMA WeighRemove ==
  ASSUME NEW bag \in Bag, NEW weight \in Weights, NEW b \in Bodies, NEW n \in Messages, bag[n] > 0
  PROVE  Weigh(Remove(bag, n), weight, b) = Weigh(bag, weight, b) - Share(n, weight, b)
<1>1. Remove(bag, n) \in Bag /\ (\A m \in Messages : m # n => Remove(bag, n)[m] = bag[m])
      /\ Remove(bag, n)[n] - bag[n] = -1
  BY RemoveTakes DEF Bag
<1>2. Weigh(bag, weight, b) \in Nat /\ Share(n, weight, b) \in Nat
  BY WeighNat, ShareNat
<1>3. Weigh(Remove(bag, n), weight, b) = Weigh(bag, weight, b) + (-1) * Share(n, weight, b)
  BY <1>1, WeighChanges
<1> QED BY <1>2, <1>3

\* An empty bag weighs nothing.
LEMMA WeighNothing ==
  ASSUME NEW weight \in Weights, NEW b \in Bodies
  PROVE  Weigh(Nothing, weight, b) = 0
<1> DEFINE f == [m \in OfBody(b) |-> Nothing[m] * weight[m]]
<1>1. \A m \in OfBody(b) : f[m] = 0
  BY OfBodyFinite DEF Nothing, Weights
<1> HIDE DEF f
<1>2. SumOver(f, OfBody(b)) = 0
  BY <1>1, OfBodyFinite, SumOfZeros
<1> QED BY <1>2 DEF Weigh, f

\* What the broker takes back from w: its inbox and the delivery in hand.
WithHeld(bag, box, n) == [m \in Messages |-> bag[m] + (box[m] + (IF n = m THEN 1 ELSE 0))]

\* Release: the broker takes back what the channel held, and it weighs what it did.
LEMMA WeighHeld ==
  ASSUME NEW bag \in Bag, NEW box \in Bag, NEW n \in Messages \cup {NoMessage},
         NEW weight \in Weights, NEW b \in Bodies
  PROVE  Weigh(WithHeld(bag, box, n), weight, b)
           = Weigh(bag, weight, b) + (Weigh(box, weight, b) + Share(n, weight, b))
<1> DEFINE new == WithHeld(bag, box, n)
<1>0. new \in Bag
      /\ \A m \in Messages : new[m] = bag[m] + (box[m] + (IF n = m THEN 1 ELSE 0))
  BY DEF Bag, WithHeld
<1> DEFINE mid == [m \in Messages |-> bag[m] + box[m]]
           f == [m \in OfBody(b) |-> bag[m] * weight[m]]
           e == [m \in OfBody(b) |-> box[m] * weight[m]]
           d == [m \in OfBody(b) |-> mid[m] * weight[m]]
<1>1. mid \in Bag
  BY DEF Bag
<1>2. \A m \in OfBody(b) : f[m] \in Int /\ e[m] \in Int /\ d[m] = f[m] + e[m]
  <2> SUFFICES ASSUME NEW m \in OfBody(b)
               PROVE  /\ bag[m] * weight[m] \in Int /\ box[m] * weight[m] \in Int
                      /\ (bag[m] + box[m]) * weight[m] = bag[m] * weight[m] + box[m] * weight[m]
    BY OfBodyFinite
  <2>1. bag[m] \in Nat /\ box[m] \in Nat /\ weight[m] \in Nat
    BY OfBodyFinite DEF Bag, Weights
  <2> QED BY <2>1
<1>3. Weigh(mid, weight, b) = Weigh(bag, weight, b) + Weigh(box, weight, b)
  <2> HIDE DEF f, e, d
  <2>1. SumOver(d, OfBody(b)) = SumOver(f, OfBody(b)) + SumOver(e, OfBody(b))
    BY <1>2, OfBodyFinite, SumAdds
  <2> QED BY <2>1 DEF Weigh, f, e, d
<1>4. CASE n = NoMessage
  <2>1. \A m \in Messages : new[m] = mid[m]
    BY <1>0, <1>4, NoMessageAssumption DEF Bag
  <2>2. new = mid
    BY <1>0, <1>1, <2>1 DEF Bag
  <2>3. Share(n, weight, b) = 0
    BY <1>4, NoMessageAssumption, OfBodyFinite DEF Share
  <2> HIDE DEF mid, new
  <2>4. Weigh(bag, weight, b) \in Nat /\ Weigh(box, weight, b) \in Nat
    BY WeighNat
  <2>5. Weigh(new, weight, b)
          = Weigh(bag, weight, b) + (Weigh(box, weight, b) + Share(n, weight, b))
    BY <1>3, <2>2, <2>3, <2>4
  <2> QED BY <2>5 DEF new
<1>5. CASE n \in Messages
  <2>1. (\A m \in Messages : m # n => new[m] = mid[m]) /\ new[n] - mid[n] = 1
    BY <1>0, <1>5 DEF Bag
  <2> HIDE DEF mid, new
  <2>2. Weigh(new, weight, b) = Weigh(mid, weight, b) + 1 * Share(n, weight, b)
    BY <1>0, <1>1, <1>5, <2>1, WeighChanges
  <2>3. /\ Weigh(bag, weight, b) \in Nat /\ Weigh(box, weight, b) \in Nat
        /\ Share(n, weight, b) \in Nat
    BY WeighNat, ShareNat
  <2>4. Weigh(new, weight, b)
          = Weigh(bag, weight, b) + (Weigh(box, weight, b) + Share(n, weight, b))
    BY <1>3, <2>2, <2>3
  <2> QED BY <2>4 DEF new
<1> QED BY <1>4, <1>5

-----------------------------------------------------------------------------
(* The account of a body *)

\* What worker w carries of b: its inbox and the delivery in hand, which weighs less
\* once it has been tried and nothing once its successor is published.
InHandWeigh(w, weight, rest, b) ==
  CASE stage[w] = "send" -> Share(cur[w], weight, b)
    [] stage[w] = "republish" -> Share(cur[w], rest, b)
    [] OTHER -> 0
Carried(w, weight, rest, b) ==
  Weigh(inbox[w], weight, b) + InHandWeigh(w, weight, rest, b)
Load(weight, rest, b) == SumOver([w \in Workers |-> Carried(w, weight, rest, b)], Workers)

\* What a worker carries, and its parts, are naturals.
LEMMA CarriedNat ==
  ASSUME TypeOK, NEW weight \in Weights, NEW rest \in Weights, NEW b \in Bodies, NEW w \in Workers
  PROVE  /\ Weigh(inbox[w], weight, b) \in Nat
         /\ InHandWeigh(w, weight, rest, b) \in Nat
         /\ Carried(w, weight, rest, b) \in Nat
<1>1. Weigh(inbox[w], weight, b) \in Nat
  BY WeighNat DEF TypeOK
<1>2. Share(cur[w], weight, b) \in Nat /\ Share(cur[w], rest, b) \in Nat
  BY ShareNat
<1> QED BY <1>1, <1>2 DEF Carried, InHandWeigh

\* What all the workers carry is a natural.
LEMMA LoadNat ==
  ASSUME TypeOK, NEW weight \in Weights, NEW rest \in Weights, NEW b \in Bodies
  PROVE  Load(weight, rest, b) \in Nat
<1> DEFINE f == [w \in Workers |-> Carried(w, weight, rest, b)]
<1>1. \A w \in Workers : f[w] \in Nat
  BY CarriedNat
<1> HIDE DEF f
<1>2. SumOver(f, Workers) \in Nat
  BY <1>1, WorkersAssumption, SumOfPart
<1> QED BY <1>2 DEF Load, f

\* A step of w leaves the other workers alone, and changes the load by what it changes
\* of w's.
OthersRest(w) ==
  \A v \in Workers : v # w => inbox'[v] = inbox[v] /\ stage'[v] = stage[v] /\ cur'[v] = cur[v]

LEMMA LoadMoves ==
  ASSUME TypeOK, TypeOK', NEW weight \in Weights, NEW rest \in Weights, NEW b \in Bodies,
         NEW w \in Workers, OthersRest(w)
  PROVE  Load(weight, rest, b)'
           = Load(weight, rest, b) - Carried(w, weight, rest, b) + Carried(w, weight, rest, b)'
<1> DEFINE f == [v \in Workers |-> Carried(v, weight, rest, b)]
           e == [v \in Workers |-> Carried(v, weight, rest, b)']
<1>1. \A v \in Workers : f[v] \in Nat /\ e[v] \in Nat
  <2>1. \A v \in Workers : Carried(v, weight, rest, b) \in Nat
    BY CarriedNat
  <2>2. \A v \in Workers : Carried(v, weight, rest, b)' \in Nat
    <3>1. \A v \in Workers : Weigh(inbox'[v], weight, b) \in Nat
      BY WeighNat DEF TypeOK
    <3>2. \A v \in Workers : Share(cur'[v], weight, b) \in Nat /\ Share(cur'[v], rest, b) \in Nat
      BY ShareNat
    <3> QED BY <3>1, <3>2 DEF Carried, InHandWeigh
  <2> QED BY <2>1, <2>2
<1>2. \A v \in Workers : v # w => f[v] = e[v]
  BY DEF Carried, InHandWeigh, OthersRest
<1>3. f[w] = Carried(w, weight, rest, b) /\ e[w] = Carried(w, weight, rest, b)'
  OBVIOUS
<1>4. Load(weight, rest, b) = SumOver(f, Workers) /\ Load(weight, rest, b)' = SumOver(e, Workers)
  BY DEF Load
<1> HIDE DEF f, e
<1>5. SumOver(e, Workers) = SumOver(f, Workers) - f[w] + e[w]
  BY <1>1, <1>2, WorkersAssumption, SumChanges
<1> QED BY <1>3, <1>4, <1>5

\* What a publish puts in the queue, and what all the publishes of b put in.
First(b) == [body |-> b, retry |-> 0]
Bought(weight, b) == weight[First(b)] * accepted[b]

\* What the broker and the workers still have of b beyond what publishes and copies
\* taken back account for.
Owed(weight, rest, b) ==
  Weigh(ready, weight, b) + Load(weight, rest, b)
  - (Bought(weight, b) + Weigh(redelivered, weight, b))

\* A message weighs no more once it has been tried than before.
Tariff(weight, rest) ==
  weight \in Weights /\ rest \in Weights /\ \A m \in Messages : rest[m] <= weight[m]

\* Every step but an attempt and a republish leaves what is owed or takes from it: what
\* comes into the queue was published, carried or is counted as taken back.
LEMMA BrokerStep ==
  ASSUME TypeOK, TypeOK', NEW weight, NEW rest, Tariff(weight, rest), NEW b \in Bodies,
         \/ \E c \in Bodies : Publish(c)
         \/ \E w \in Workers : \/ Start(w) \/ Quit(w) \/ Kill(w) \/ LoseChannel(w)
                               \/ RepublishErr(w) \/ Ack(w)
                               \/ \E m \in Messages : Deliver(w, m) \/ Take(w, m)
  PROVE  /\ Owed(weight, rest, b)' \in Int
         /\ Owed(weight, rest, b)' <= Owed(weight, rest, b)
         /\ UNCHANGED <<dead, mailed, failed, ambiguous>>
<1> USE DEF brokerVars, workerVars, historyVars, OthersRest
<1> DEFINE R == Weigh(ready, weight, b)
           D == Weigh(redelivered, weight, b)
           L == Load(weight, rest, b)
           A == Bought(weight, b)
           Less == R' + L' + A + D <= R + L + A' + D'
<1>1. weight \in Weights /\ rest \in Weights /\ ready \in Bag /\ redelivered \in Bag
      /\ inbox \in [Workers -> Bag] /\ inbox' \in [Workers -> Bag]
  BY DEF Tariff, TypeOK
<1>2. /\ R \in Nat /\ D \in Nat /\ L \in Nat
      /\ \A w \in Workers : Carried(w, weight, rest, b) \in Nat
  BY <1>1, WeighNat, LoadNat, CarriedNat
<1>3. First(b) \in Messages /\ First(b) \in OfBody(b) /\ weight[First(b)] \in Nat /\ A \in Nat
  <2>1. First(b) \in Messages /\ First(b) \in OfBody(b)
    BY RetriesAssumption DEF First, Messages, OfBody
  <2>2. weight[First(b)] \in Nat /\ accepted[b] \in Nat
    BY <1>1, <2>1 DEF Weights, TypeOK
  <2> QED BY <2>1, <2>2 DEF Bought
<1>4. \A m : Share(m, weight, b) \in Nat /\ Share(m, rest, b) \in Nat
             /\ Share(m, rest, b) <= Share(m, weight, b)
  BY <1>1, ShareNat, OfBodyFinite DEF Tariff, Share
<1>5. \A w \in Workers : /\ Weigh(inbox[w], weight, b) \in Nat
                         /\ InHandWeigh(w, weight, rest, b) \in Nat
                         /\ InHandWeigh(w, weight, rest, b) <= Share(cur[w], weight, b)
  BY <1>1, <1>4, CarriedNat DEF InHandWeigh
<1>6. ASSUME NEW c \in Bodies, Publish(c)
      PROVE  R' - A' = R - A /\ L' = L /\ D' = D
  <2>1. First(c) \in Messages /\ ready' = Put(ready, First(c)) /\ accepted' = Count(accepted, c)
    BY <1>6, RetriesAssumption DEF Publish, First, Messages
  <2>2. R' = R + Share(First(c), weight, b)
    BY <1>1, <2>1, WeighPut
  <2>3. L' = L /\ D' = D
    BY <1>6 DEF Publish, Load, Carried, InHandWeigh
  <2>4. CASE c = b
    <3>1. accepted'[b] = accepted[b] + 1 /\ accepted[b] \in Nat
      BY <2>1, <2>4 DEF Count, TypeOK
    <3>2. \A k, n \in Nat : k * (n + 1) = k * n + k
      OBVIOUS
    <3>3. A' = A + weight[First(b)]
      BY <1>3, <3>1, <3>2 DEF Bought
    <3>4. Share(First(c), weight, b) = weight[First(b)]
      BY <1>3, <2>4 DEF Share
    <3> QED BY <1>2, <1>3, <2>2, <2>3, <3>3, <3>4
  <2>5. CASE c # b
    <3>1. A' = A
      BY <2>1, <2>5 DEF Bought, Count, TypeOK
    <3>2. Share(First(c), weight, b) = 0
      BY <2>5 DEF Share, OfBody, First
    <3> QED BY <1>2, <2>2, <2>3, <3>1, <3>2
  <2> QED BY <2>4, <2>5
<1>7. ASSUME NEW w \in Workers, NEW m \in Messages, Deliver(w, m)
      PROVE  R' + L' = R + L /\ A' = A /\ D' = D
  <2>1. R' = R - Share(m, weight, b)
    BY <1>1, <1>7, WeighRemove DEF Deliver
  <2>2. inbox'[w] = Put(inbox[w], m)
        /\ OthersRest(w)
    BY <1>1, <1>7 DEF Deliver
  <2>3. Weigh(inbox'[w], weight, b) = Weigh(inbox[w], weight, b) + Share(m, weight, b)
    BY <1>1, <2>2, WeighPut
  <2>4. InHandWeigh(w, weight, rest, b)' = InHandWeigh(w, weight, rest, b)
    BY <1>7 DEF Deliver, InHandWeigh
  <2>5. Carried(w, weight, rest, b)' = Carried(w, weight, rest, b) + Share(m, weight, b)
    BY <1>4, <1>5, <2>3, <2>4 DEF Carried
  <2>6. L' = L - Carried(w, weight, rest, b) + Carried(w, weight, rest, b)'
    BY <1>1, <2>2, LoadMoves
  <2>7. A' = A /\ D' = D
    BY <1>7 DEF Bought, Deliver
  <2> QED BY <1>2, <1>4, <2>1, <2>5, <2>6, <2>7
<1>8. ASSUME NEW w \in Workers, NEW m \in Messages, Take(w, m)
      PROVE  L' <= L /\ R' = R /\ A' = A /\ D' = D
  <2>1. inbox'[w] = Remove(inbox[w], m) /\ inbox[w][m] > 0
        /\ stage[w] = "idle" /\ cur'[w] = m /\ stage'[w] \in {"send", "republish"}
        /\ OthersRest(w)
    BY <1>1, <1>8 DEF Take, TypeOK
  <2>2. Weigh(inbox'[w], weight, b) = Weigh(inbox[w], weight, b) - Share(m, weight, b)
    BY <1>1, <2>1, WeighRemove
  <2>3. InHandWeigh(w, weight, rest, b) = 0
    BY <2>1 DEF InHandWeigh
  <2>4. InHandWeigh(w, weight, rest, b)' \in Nat
        /\ InHandWeigh(w, weight, rest, b)' <= Share(m, weight, b)
    BY <1>4, <2>1 DEF InHandWeigh
  <2>5. Carried(w, weight, rest, b)'
          = Weigh(inbox[w], weight, b) - Share(m, weight, b) + InHandWeigh(w, weight, rest, b)'
    BY <2>2 DEF Carried
  <2>6. Carried(w, weight, rest, b) = Weigh(inbox[w], weight, b)
    BY <1>5, <2>3 DEF Carried
  <2>7. L' = L - Carried(w, weight, rest, b) + Carried(w, weight, rest, b)'
    BY <1>1, <2>1, LoadMoves
  <2>8. R' = R /\ A' = A /\ D' = D
    BY <1>8 DEF Bought, Take
  <2> QED BY <1>2, <1>4, <1>5, <2>4, <2>5, <2>6, <2>7, <2>8
<1>9. ASSUME NEW w \in Workers, Start(w)
      PROVE  L' = L /\ R' = R /\ A' = A /\ D' = D
  <2>1. OthersRest(w)
    BY <1>9 DEF Start, TypeOK
  <2>2. stage[w] = "down" /\ stage'[w] = "idle" /\ inbox' = inbox
    BY <1>9 DEF Start, TypeOK
  <2>3. Carried(w, weight, rest, b)' = Carried(w, weight, rest, b)
    BY <2>2 DEF Carried, InHandWeigh
  <2>4. L' = L - Carried(w, weight, rest, b) + Carried(w, weight, rest, b)'
    BY <1>1, <2>1, LoadMoves
  <2>5. R' = R /\ A' = A /\ D' = D
    BY <1>9 DEF Bought, Start
  <2> QED BY <1>2, <2>3, <2>4, <2>5
<1>10. ASSUME NEW w \in Workers, Release(w)
       PROVE  IF chan[w]
              THEN /\ R' = R + (Weigh(inbox[w], weight, b) + Share(cur[w], weight, b))
                   /\ D' = D + (Weigh(inbox[w], weight, b) + Share(cur[w], weight, b))
              ELSE R' = R /\ D' = D
  <2>1. CASE chan[w]
    <3>1. ready' \in Bag /\ redelivered' \in Bag /\ cur[w] \in Messages \cup {NoMessage}
          /\ inbox[w] \in Bag
      BY <1>10, ReleaseAdds DEF TypeOK
    <3>2. /\ ready' = WithHeld(ready, inbox[w], cur[w])
          /\ redelivered' = WithHeld(redelivered, inbox[w], cur[w])
      BY <1>10, <2>1 DEF Release, Held, WithHeld
    <3>3. R' = R + (Weigh(inbox[w], weight, b) + Share(cur[w], weight, b))
      BY <1>1, <3>1, <3>2, WeighHeld
    <3>4. D' = D + (Weigh(inbox[w], weight, b) + Share(cur[w], weight, b))
      BY <1>1, <3>1, <3>2, WeighHeld
    <3> QED BY <2>1, <3>3, <3>4
  <2>2. CASE ~chan[w]
    BY <1>10, <2>2 DEF Release
  <2> QED BY <2>1, <2>2
<1>11. ASSUME NEW w \in Workers, Quit(w) \/ Kill(w)
       PROVE  R' - D' = R - D /\ L' <= L /\ A' = A
  <2>1. /\ Release(w) /\ inbox'[w] = Nothing /\ stage'[w] = "down" /\ accepted' = accepted
        /\ OthersRest(w)
    BY <1>11 DEF Quit, Kill, Exit, TypeOK
  <2>2. Carried(w, weight, rest, b)' = 0
    BY <1>1, <2>1, WeighNothing DEF Carried, InHandWeigh
  <2>3. L' = L - Carried(w, weight, rest, b) + Carried(w, weight, rest, b)'
    BY <1>1, <2>1, LoadMoves
  <2>4. A' = A
    BY <2>1 DEF Bought
  <2> QED BY <1>2, <1>4, <1>5, <1>10, <2>1, <2>2, <2>3, <2>4
<1>12. ASSUME NEW w \in Workers, LoseChannel(w)
       PROVE  R' - D' = R - D /\ L' = L /\ A' = A
  <2>1. Release(w) /\ inbox' = inbox /\ stage' = stage /\ cur' = cur /\ accepted' = accepted
    BY <1>12 DEF LoseChannel
  <2>2. L' = L /\ A' = A
    BY <2>1 DEF Bought, Load, Carried, InHandWeigh
  <2> QED BY <1>2, <1>4, <1>5, <1>10, <2>1, <2>2
<1>13. ASSUME NEW w \in Workers, RepublishErr(w) \/ Ack(w)
       PROVE  R' - D' = R - D /\ L' <= L /\ A' = A
  <2>1. /\ stage'[w] = "idle" /\ inbox' = inbox /\ accepted' = accepted
        /\ OthersRest(w)
    BY <1>13 DEF RepublishErr, Ack, Finish, TypeOK
  <2>2. \/ ready' = ready /\ redelivered' = redelivered
        \/ ready' = Put(ready, cur[w]) /\ redelivered' = Put(redelivered, cur[w])
    BY <1>13 DEF RepublishErr, Ack
  <2>3. cur[w] \in Messages
    BY <1>13 DEF RepublishErr, Ack, TypeOK
  <2>4. \/ R' = R /\ D' = D
        \/ R' = R + Share(cur[w], weight, b) /\ D' = D + Share(cur[w], weight, b)
    BY <1>1, <2>2, <2>3, WeighPut
  <2>5. Carried(w, weight, rest, b)' = Weigh(inbox[w], weight, b)
    BY <1>5, <2>1 DEF Carried, InHandWeigh
  <2>6. Carried(w, weight, rest, b)
          = Weigh(inbox[w], weight, b) + InHandWeigh(w, weight, rest, b)
    BY DEF Carried
  <2>7. L' = L - Carried(w, weight, rest, b) + Carried(w, weight, rest, b)'
    BY <1>1, <2>1, LoadMoves
  <2>8. A' = A
    BY <2>1 DEF Bought
  <2> QED BY <1>2, <1>4, <1>5, <2>4, <2>5, <2>6, <2>7, <2>8
<1>14. UNCHANGED <<dead, mailed, failed, ambiguous>>
  BY DEF Publish, Start, Quit, Kill, Exit, LoseChannel, RepublishErr, Ack, Deliver, Take
<1>15. R' \in Nat /\ D' \in Nat /\ A' \in Nat
  <2>1. ready' \in Bag /\ redelivered' \in Bag /\ accepted'[b] \in Nat
    BY DEF TypeOK
  <2>2. R' \in Nat /\ D' \in Nat
    BY <1>1, <2>1, WeighNat
  <2> QED BY <1>3, <2>1, <2>2 DEF Bought
<1>16. L' \in Nat
  <2> DEFINE f == [w \in Workers |-> Carried(w, weight, rest, b)']
  <2>1. \A w \in Workers : f[w] \in Nat
    <3>1. \A w \in Workers : Weigh(inbox'[w], weight, b) \in Nat
      BY <1>1, WeighNat
    <3> QED BY <1>4, <3>1 DEF Carried, InHandWeigh
  <2> HIDE DEF f
  <2>2. SumOver(f, Workers) \in Nat
    BY <2>1, WorkersAssumption, SumOfPart
  <2> QED BY <2>2 DEF Load, f
<1>17. Owed(weight, rest, b) = R + L - (A + D) /\ Owed(weight, rest, b)' = R' + L' - (A' + D')
  BY DEF Owed
<1>18. Less
  <2>1. ASSUME NEW c \in Bodies, Publish(c) PROVE Less
    BY <1>2, <1>3, <1>6, <1>15, <1>16, <2>1
  <2>2. ASSUME NEW w \in Workers, NEW m \in Messages, Deliver(w, m) \/ Take(w, m) PROVE Less
    BY <1>2, <1>3, <1>7, <1>8, <1>15, <1>16, <2>2
  <2>3. ASSUME NEW w \in Workers, Start(w) \/ Quit(w) \/ Kill(w) \/ LoseChannel(w) PROVE Less
    BY <1>2, <1>3, <1>9, <1>11, <1>12, <1>15, <1>16, <2>3
  <2>4. ASSUME NEW w \in Workers, RepublishErr(w) \/ Ack(w) PROVE Less
    BY <1>2, <1>3, <1>13, <1>15, <1>16, <2>4
  <2> QED BY <2>1, <2>2, <2>3, <2>4
<1> QED BY <1>2, <1>3, <1>14, <1>15, <1>16, <1>17, <1>18

\* What is owed is a number, if perhaps a negative one.
LEMMA OwedInt ==
  ASSUME TypeOK, NEW weight, NEW rest, Tariff(weight, rest), NEW b \in Bodies
  PROVE  Owed(weight, rest, b) \in Int
<1>1. First(b) \in Messages
  BY RetriesAssumption DEF First, Messages
<1>2. weight[First(b)] \in Nat /\ accepted[b] \in Nat
  BY <1>1 DEF Tariff, Weights, TypeOK
<1>3. Bought(weight, b) \in Nat
  BY <1>2 DEF Bought
<1>4. Weigh(ready, weight, b) \in Nat /\ Weigh(redelivered, weight, b) \in Nat
      /\ Load(weight, rest, b) \in Nat
  BY WeighNat, LoadNat DEF Tariff, TypeOK
<1> QED BY <1>3, <1>4 DEF Owed

\* An attempt to send takes the message's weight out of what is owed; a failed one puts
\* back what the message weighs after it.
LEMMA SendStep ==
  ASSUME TypeOK, TypeOK', NEW weight, NEW rest, Tariff(weight, rest), NEW b \in Bodies,
         NEW w \in Workers
  PROVE  /\ SendOk(w) => Owed(weight, rest, b)' = Owed(weight, rest, b) - Share(cur[w], weight, b)
         /\ SendErr(w) => Owed(weight, rest, b)' = Owed(weight, rest, b)
                            - Share(cur[w], weight, b) + Share(cur[w], rest, b)
<1> SUFFICES ASSUME SendOk(w) \/ SendErr(w)
             PROVE  Owed(weight, rest, b)' = Owed(weight, rest, b) - Share(cur[w], weight, b)
                      + (IF SendOk(w) THEN 0 ELSE Share(cur[w], rest, b))
  <2>1. SendOk(w) => ~SendErr(w)
    BY DEF SendOk, SendErr, TypeOK
  <2>2. Owed(weight, rest, b) \in Int /\ Share(cur[w], weight, b) \in Nat
        /\ Share(cur[w], rest, b) \in Nat
    BY OwedInt, ShareNat DEF Tariff
  <2> QED BY <2>1, <2>2
<1> USE DEF brokerVars, workerVars, historyVars, OthersRest
<1>1. weight \in Weights /\ rest \in Weights
  BY DEF Tariff
<1>2. /\ stage[w] = "send" /\ stage'[w] = IF SendOk(w) THEN "ack" ELSE "republish"
      /\ inbox' = inbox /\ cur' = cur /\ ready' = ready /\ redelivered' = redelivered
      /\ accepted' = accepted
      /\ OthersRest(w)
  BY DEF SendOk, SendErr, TypeOK
<1>3. InHandWeigh(w, weight, rest, b) = Share(cur[w], weight, b)
      /\ InHandWeigh(w, weight, rest, b)' = IF SendOk(w) THEN 0 ELSE Share(cur[w], rest, b)
  BY <1>2 DEF InHandWeigh
<1>4. Carried(w, weight, rest, b)
        = Weigh(inbox[w], weight, b) + Share(cur[w], weight, b)
      /\ Carried(w, weight, rest, b)'
        = Weigh(inbox[w], weight, b) + (IF SendOk(w) THEN 0 ELSE Share(cur[w], rest, b))
  BY <1>2, <1>3 DEF Carried
<1>5. Load(weight, rest, b)'
        = Load(weight, rest, b) - Carried(w, weight, rest, b) + Carried(w, weight, rest, b)'
  BY <1>1, <1>2, LoadMoves
<1>6. /\ Weigh(inbox[w], weight, b) \in Nat /\ Share(cur[w], weight, b) \in Nat
      /\ Share(cur[w], rest, b) \in Nat /\ Load(weight, rest, b) \in Nat
      /\ Weigh(ready, weight, b) \in Nat /\ Weigh(redelivered, weight, b) \in Nat
      /\ Bought(weight, b) \in Int
  <2>1. First(b) \in Messages
    BY RetriesAssumption DEF First, Messages
  <2>2. weight[First(b)] \in Nat /\ accepted[b] \in Nat
    BY <1>1, <2>1 DEF Weights, TypeOK
  <2> QED BY <1>1, <2>2, WeighNat, ShareNat, LoadNat, CarriedNat DEF TypeOK, Bought
<1>7. /\ Weigh(ready, weight, b)' = Weigh(ready, weight, b)
      /\ Weigh(redelivered, weight, b)' = Weigh(redelivered, weight, b)
      /\ Bought(weight, b)' = Bought(weight, b)
  BY <1>2 DEF Bought
<1> QED BY <1>4, <1>5, <1>6, <1>7 DEF Owed

\* A republish replaces a tried message by its successor, if it has one.
LEMMA RepublishStep ==
  ASSUME TypeOK, TypeOK', NEW weight, NEW rest, Tariff(weight, rest), NEW b \in Bodies,
         NEW w \in Workers, Republish(w)
  PROVE  Owed(weight, rest, b)' = Owed(weight, rest, b) - Share(cur[w], rest, b)
           + (IF Retryable(cur[w]) THEN Share([cur[w] EXCEPT !.retry = @ + 1], weight, b) ELSE 0)
<1> USE DEF brokerVars, workerVars, historyVars, OthersRest
<1> DEFINE n == [cur[w] EXCEPT !.retry = @ + 1]
           gain == IF Retryable(cur[w]) THEN Share(n, weight, b) ELSE 0
<1>1. weight \in Weights /\ rest \in Weights
  BY DEF Tariff
<1>2. /\ stage[w] = "republish" /\ stage'[w] = "ack" /\ inbox' = inbox /\ cur' = cur
      /\ redelivered' = redelivered /\ accepted' = accepted
      /\ OthersRest(w)
  BY DEF Republish, TypeOK
<1>3. Carried(w, weight, rest, b) = Weigh(inbox[w], weight, b) + Share(cur[w], rest, b)
      /\ Carried(w, weight, rest, b)' = Weigh(inbox[w], weight, b) + 0
  BY <1>2 DEF Carried, InHandWeigh
<1>4. Load(weight, rest, b)'
        = Load(weight, rest, b) - Carried(w, weight, rest, b) + Carried(w, weight, rest, b)'
  BY <1>1, <1>2, LoadMoves
<1>5. /\ Weigh(inbox[w], weight, b) \in Nat
      /\ Share(cur[w], rest, b) \in Nat /\ Load(weight, rest, b) \in Nat
      /\ Weigh(ready, weight, b) \in Nat /\ Weigh(redelivered, weight, b) \in Nat
      /\ Bought(weight, b) \in Int /\ Share(n, weight, b) \in Nat
  <2>1. First(b) \in Messages
    BY RetriesAssumption DEF First, Messages
  <2>2. weight[First(b)] \in Nat /\ accepted[b] \in Nat
    BY <1>1, <2>1 DEF Weights, TypeOK
  <2> QED BY <1>1, <2>2, WeighNat, ShareNat, LoadNat, CarriedNat DEF TypeOK, Bought
<1>6. Weigh(ready, weight, b)' = Weigh(ready, weight, b) + gain
  <2>1. cur[w] \in Messages
    BY DEF Republish, TypeOK
  <2>2. CASE Retryable(cur[w])
    <3>1. n \in Messages /\ ready' = Put(ready, n)
      BY <2>1, <2>2, NextRetry DEF Republish
    <3> QED BY <1>1, <2>2, <3>1, WeighPut DEF TypeOK
  <2>3. CASE ~Retryable(cur[w])
    BY <1>5, <2>3 DEF Republish
  <2> QED BY <2>2, <2>3
<1>7. /\ Weigh(redelivered, weight, b)' = Weigh(redelivered, weight, b)
      /\ Bought(weight, b)' = Bought(weight, b)
  BY <1>2 DEF Bought
<1>8. gain \in Nat
  BY <1>5
<1> HIDE DEF gain, n
<1>9. Owed(weight, rest, b)' = Owed(weight, rest, b) - Share(cur[w], rest, b) + gain
  BY <1>3, <1>4, <1>5, <1>6, <1>7, <1>8 DEF Owed
<1> QED BY <1>9 DEF gain, n

\* The two tariffs: a copy counts as one, or as the attempts its retry count leaves it.
Each == [m \in Messages |-> 1]
Left == [m \in Messages |-> AttemptsLeft(m)]
LeftAfter == [m \in Messages |-> AttemptsLeft(m) - 1]

\* Both are tariffs.
LEMMA Tariffs == Tariff(Each, Each) /\ Tariff(Left, LeftAfter)
BY RetriesAssumption DEF Tariff, Weights, Each, Left, LeftAfter, AttemptsLeft, Messages

\* What one copy of n adds to a body's account, in copies and in attempts.
LEMMA Shares ==
  ASSUME NEW b \in Bodies, NEW n \in Messages
  PROVE  /\ n.body = b => Share(n, Each, b) = 1 /\ Share(n, Left, b) = AttemptsLeft(n)
                          /\ Share(n, LeftAfter, b) = AttemptsLeft(n) - 1
         /\ n.body # b => Share(n, Each, b) = 0 /\ Share(n, Left, b) = 0
                          /\ Share(n, LeftAfter, b) = 0
         /\ AttemptsLeft(n) \in Nat /\ AttemptsLeft(n) >= 1
<1>1. n \in OfBody(b) <=> n.body = b
  BY DEF OfBody
<1>2. AttemptsLeft(n) \in Nat /\ AttemptsLeft(n) >= 1
  BY RetriesAssumption DEF AttemptsLeft, Messages
<1> QED BY <1>1, <1>2 DEF Share, Each, Left, LeftAfter

\* The two accounts of a body, with every copy in them: those on a channel that is gone
\* are still carried, and may still be mailed, tried and republished.
CopiesOwed(b) ==
  mailed[b] + Weigh(dead, Each, b) + Owed(Each, Each, b) <= ambiguous[b]
AttemptsOwed(b) ==
  mailed[b] + failed[b] + Owed(Left, LeftAfter, b) <= ambiguous[b]
AllAccounted == \A b \in Bodies : CopiesOwed(b) /\ AttemptsOwed(b)

\* How the two e-mail counters move.
LEMMA MailCounters ==
  ASSUME TypeOK, NEW b \in Bodies, NEW w \in Workers
  PROVE  /\ SendOk(w) \/ SendErr(w) => cur[w] \in Messages
         /\ SendOk(w) =>
              /\ mailed'[b] = mailed[b] + (IF cur[w].body = b THEN 1 ELSE 0)
              /\ UNCHANGED <<dead, failed, ambiguous>>
         /\ SendErr(w) =>
              /\ mailed'[b] - ambiguous'[b] = mailed[b] - ambiguous[b]
              /\ failed'[b] = failed[b] + (IF cur[w].body = b THEN 1 ELSE 0)
              /\ dead' = dead
<1>1. SendOk(w) \/ SendErr(w) => cur[w] \in Messages /\ cur[w].body \in Bodies
  BY DEF SendOk, SendErr, TypeOK, Messages
<1>2. mailed[b] \in Nat /\ ambiguous[b] \in Nat
  BY DEF TypeOK
<1> QED BY <1>1, <1>2 DEF SendOk, SendErr, Count, TypeOK, brokerVars

\* Every step keeps both accounts.
LEMMA AccountedStep ==
  ASSUME TypeOK, TypeOK', AllAccounted, [Next]_vars, NEW b \in Bodies
  PROVE  CopiesOwed(b)' /\ AttemptsOwed(b)'
<1> DEFINE OE == Owed(Each, Each, b)
           OL == Owed(Left, LeftAfter, b)
           DE == Weigh(dead, Each, b)
<1>1. /\ mailed[b] \in Nat /\ failed[b] \in Nat /\ ambiguous[b] \in Nat
      /\ mailed'[b] \in Nat /\ failed'[b] \in Nat /\ ambiguous'[b] \in Nat
      /\ dead \in Bag /\ dead' \in Bag
  BY DEF TypeOK
<1>2. OE \in Int /\ OL \in Int /\ DE \in Nat /\ Each \in Weights
  BY <1>1, Tariffs, OwedInt, WeighNat DEF Tariff
<1>3. CopiesOwed(b) /\ AttemptsOwed(b)
  BY DEF AllAccounted
<1>4. ASSUME NEW w \in Workers, SendOk(w) PROVE CopiesOwed(b)' /\ AttemptsOwed(b)'
  <2>1. OE' = OE - Share(cur[w], Each, b) /\ OL' = OL - Share(cur[w], Left, b)
    BY <1>4, Tariffs, SendStep
  <2>2. cur[w] \in Messages /\ mailed'[b] = mailed[b] + (IF cur[w].body = b THEN 1 ELSE 0)
        /\ UNCHANGED <<dead, failed, ambiguous>>
    BY <1>4, MailCounters
  <2> QED BY <1>1, <1>2, <1>3, <2>1, <2>2, Shares DEF CopiesOwed, AttemptsOwed
<1>5. ASSUME NEW w \in Workers, SendErr(w) PROVE CopiesOwed(b)' /\ AttemptsOwed(b)'
  <2>1. OE' = OE - Share(cur[w], Each, b) + Share(cur[w], Each, b)
        /\ OL' = OL - Share(cur[w], Left, b) + Share(cur[w], LeftAfter, b)
    BY <1>5, Tariffs, SendStep
  <2>2. cur[w] \in Messages /\ mailed'[b] - ambiguous'[b] = mailed[b] - ambiguous[b]
        /\ failed'[b] = failed[b] + (IF cur[w].body = b THEN 1 ELSE 0)
        /\ dead' = dead
    BY <1>5, MailCounters
  <2> QED BY <1>1, <1>2, <1>3, <2>1, <2>2, Shares DEF CopiesOwed, AttemptsOwed
<1>6. ASSUME NEW w \in Workers, Republish(w) PROVE CopiesOwed(b)' /\ AttemptsOwed(b)'
  <2> DEFINE n == [cur[w] EXCEPT !.retry = @ + 1]
  <2>1. cur[w] \in Messages /\ UNCHANGED <<mailed, failed, ambiguous>>
    BY <1>6 DEF Republish, TypeOK, historyVars
  <2>2. OE' = OE - Share(cur[w], Each, b) + (IF Retryable(cur[w]) THEN Share(n, Each, b) ELSE 0)
        /\ OL' = OL - Share(cur[w], LeftAfter, b)
                  + (IF Retryable(cur[w]) THEN Share(n, Left, b) ELSE 0)
    BY <1>6, Tariffs, RepublishStep
  <2>3. CASE Retryable(cur[w])
    <3>1. n \in Messages /\ n.body = cur[w].body /\ n.retry = cur[w].retry + 1
      BY <2>1, <2>3, NextRetry
    <3>2. AttemptsLeft(n) = AttemptsLeft(cur[w]) - 1
      BY <2>1, <3>1, RetriesAssumption DEF AttemptsLeft, Messages
    <3>3. dead' = dead
      BY <1>6, <2>3 DEF Republish
    <3> HIDE DEF n
    <3>4. OE' = OE /\ OL' = OL
      BY <1>2, <2>1, <2>2, <2>3, <3>1, <3>2, Shares
    <3> QED BY <1>1, <1>2, <1>3, <2>1, <3>3, <3>4 DEF CopiesOwed, AttemptsOwed
  <2>4. CASE ~Retryable(cur[w])
    <3>1. dead' = Put(dead, cur[w])
      BY <1>6, <2>4 DEF Republish
    <3>2. DE' = DE + Share(cur[w], Each, b)
      BY <1>1, <1>2, <2>1, <3>1, WeighPut
    <3>3. OE' = OE - Share(cur[w], Each, b) /\ OL' <= OL /\ OL' \in Int
          /\ Share(cur[w], Each, b) \in Nat
      BY <1>2, <2>1, <2>2, <2>4, Shares
    <3> QED BY <1>1, <1>2, <1>3, <2>1, <3>2, <3>3 DEF CopiesOwed, AttemptsOwed
  <2> QED BY <2>3, <2>4
<1>7. ASSUME OE' <= OE, OL' <= OL, OE' \in Int, OL' \in Int,
             UNCHANGED <<dead, mailed, failed, ambiguous>>
      PROVE  CopiesOwed(b)' /\ AttemptsOwed(b)'
  BY <1>1, <1>2, <1>3, <1>7 DEF CopiesOwed, AttemptsOwed
<1>8. CASE UNCHANGED vars
  <2>1. OE' = OE /\ OL' = OL
    BY <1>8 DEF vars, brokerVars, workerVars, historyVars, Owed, Load, Carried, InHandWeigh, Bought
  <2> QED BY <1>2, <1>7, <1>8, <2>1 DEF vars, brokerVars, historyVars
<1> QED
  BY <1>4, <1>5, <1>6, <1>7, <1>8, Tariffs, BrokerStep DEF Next, Worker, HandleDelivery

\* The accounts are empty at the start.
LEMMA AccountedAtStart ==
  ASSUME Init
  PROVE  AllAccounted
<1> SUFFICES ASSUME NEW b \in Bodies PROVE CopiesOwed(b) /\ AttemptsOwed(b)
  BY DEF AllAccounted
<1>1. ASSUME NEW weight \in Weights, NEW rest \in Weights PROVE Owed(weight, rest, b) = 0
  <2>1. Weigh(Nothing, weight, b) = 0
    BY WeighNothing
  <2>2. Load(weight, rest, b) = 0
    <3> DEFINE f == [w \in Workers |-> Carried(w, weight, rest, b)]
    <3>1. \A w \in Workers : f[w] = 0
      BY <2>1 DEF Init, Carried, InHandWeigh
    <3>2. Load(weight, rest, b) = SumOver(f, Workers)
      BY DEF Load
    <3> HIDE DEF f
    <3>3. SumOver(f, Workers) = 0
      BY <3>1, WorkersAssumption, SumOfZeros
    <3> QED BY <3>2, <3>3
  <2>3. First(b) \in Messages
    BY RetriesAssumption DEF First, Messages
  <2>4. Bought(weight, b) = 0
    BY <2>3 DEF Init, Bought, Weights
  <2> QED BY <2>1, <2>2, <2>4 DEF Init, Owed
<1>2. Weigh(dead, Each, b) = 0
  BY Tariffs, WeighNothing DEF Init, Tariff
<1> QED BY <1>1, <1>2, Tariffs DEF Init, Tariff, CopiesOwed, AttemptsOwed

\* The sums the two properties are written with are those of the accounts.
LEMMA Totals ==
  ASSUME NEW bag \in Bag, NEW b \in Bodies
  PROVE  /\ Total(bag, b) = Weigh(bag, Each, b)
         /\ MapThenSumSet(LAMBDA m : bag[m] * AttemptsLeft(m), OfBody(b)) = Weigh(bag, Left, b)
<1> DEFINE f == [m \in OfBody(b) |-> bag[m]]
           e == [m \in OfBody(b) |-> bag[m] * AttemptsLeft(m)]
           d == [m \in OfBody(b) |-> bag[m] * Each[m]]
           c == [m \in OfBody(b) |-> bag[m] * Left[m]]
<1>1. Total(bag, b) = SumOver(f, OfBody(b))
  BY Zenon DEF Total, MapThenSumSet, MapThenFoldSet, SumOver
<1>2. MapThenSumSet(LAMBDA m : bag[m] * AttemptsLeft(m), OfBody(b)) = SumOver(e, OfBody(b))
  BY Zenon DEF MapThenSumSet, MapThenFoldSet, SumOver
<1>3. \A m \in OfBody(b) : f[m] \in Int /\ f[m] = d[m] /\ e[m] \in Int /\ e[m] = c[m]
  <2> SUFFICES ASSUME NEW m \in OfBody(b)
               PROVE  /\ bag[m] \in Int /\ bag[m] * Each[m] = bag[m]
                      /\ bag[m] * AttemptsLeft(m) \in Int /\ Left[m] = AttemptsLeft(m)
    BY OfBodyFinite
  <2>1. m \in Messages /\ bag[m] \in Nat
    BY OfBodyFinite DEF Bag
  <2>2. AttemptsLeft(m) \in Nat /\ Each[m] = 1 /\ Left[m] = AttemptsLeft(m)
    BY <2>1, Shares DEF Each, Left
  <2> QED BY <2>1, <2>2
<1>4. Weigh(bag, Each, b) = SumOver(d, OfBody(b)) /\ Weigh(bag, Left, b) = SumOver(c, OfBody(b))
  BY DEF Weigh
<1> HIDE DEF f, e, d, c
<1> QED BY <1>1, <1>2, <1>3, <1>4, OfBodyFinite, SumSame

\* A total is a natural, and not zero for nothing.
LEMMA TotalNat ==
  ASSUME NEW b \in Bodies
  PROVE  \A bag \in Bag :
           /\ Total(bag, b) \in Nat
           /\ Total(bag, b) > 0 => \E m \in OfBody(b) : bag[m] > 0
<1> SUFFICES ASSUME NEW bag \in Bag
             PROVE  /\ Total(bag, b) \in Nat
                    /\ (\A m \in OfBody(b) : ~(bag[m] > 0)) => Total(bag, b) = 0
  OBVIOUS
<1> DEFINE f == [m \in OfBody(b) |-> bag[m]]
<1>1. Total(bag, b) = SumOver(f, OfBody(b))
  BY Zenon DEF Total, MapThenSumSet, MapThenFoldSet, SumOver
<1>2. \A m \in OfBody(b) : f[m] \in Nat /\ f[m] = bag[m]
  BY OfBodyFinite DEF Bag
<1> HIDE DEF f
<1>3. SumOver(f, OfBody(b)) \in Nat
  BY <1>2, OfBodyFinite, SumOfPart
<1>4. (\A m \in OfBody(b) : f[m] = 0) => SumOver(f, OfBody(b)) = 0
  BY OfBodyFinite, SumOfZeros
<1> QED BY <1>1, <1>2, <1>3, <1>4

\* The workers with a channel carry no more than all of them.
LEMMA UnsettledIsCarried ==
  ASSUME TypeOK, NEW b \in Bodies
  PROVE  Unsettled(b) \in Nat /\ Unsettled(b) <= Load(Each, Each, b)
<1> DEFINE open == {w \in Workers : chan[w]}
           f == [w \in open |-> Total(inbox[w], b)
                                + (IF \E m \in OfBody(b) : InHand(w, m) THEN 1 ELSE 0)]
           e == [w \in Workers |-> Carried(w, Each, Each, b)]
<1>1. Unsettled(b) = SumOver(f, open)
  BY ZenonT(30) DEF Unsettled, MapThenSumSet, MapThenFoldSet, SumOver
<1>2. ASSUME NEW w \in Workers
      PROVE  /\ Total(inbox[w], b) + (IF \E m \in OfBody(b) : InHand(w, m) THEN 1 ELSE 0)
                  = Carried(w, Each, Each, b)
             /\ Carried(w, Each, Each, b) \in Nat
  <2>1. Total(inbox[w], b) = Weigh(inbox[w], Each, b)
    BY Totals DEF TypeOK
  <2>2. Carried(w, Each, Each, b) \in Nat
    BY CarriedNat, Tariffs DEF Tariff
  <2>3. (\E m \in OfBody(b) : InHand(w, m)) <=> cur[w] \in OfBody(b) /\ stage[w] # "ack"
    BY DEF InHand
  <2>4. stage[w] \in {"send", "republish", "ack"} <=> cur[w] \in Messages
    BY NoMessageAssumption DEF TypeOK
  <2>5. Share(cur[w], Each, b) = IF cur[w] \in OfBody(b) THEN 1 ELSE 0
    BY OfBodyFinite DEF Share, Each
  <2>6. InHandWeigh(w, Each, Each, b)
          = IF \E m \in OfBody(b) : InHand(w, m) THEN 1 ELSE 0
    BY <2>3, <2>4, <2>5, OfBodyFinite DEF InHandWeigh, TypeOK
  <2> QED BY <2>1, <2>2, <2>6 DEF Carried
<1>3. \A w \in open : f[w] \in Int /\ f[w] = e[w]
  BY <1>2
<1>4. \A w \in Workers : e[w] \in Nat
  BY <1>2
<1>5. open \in SUBSET Workers /\ IsFiniteSet(open)
  BY WorkersAssumption, FS_Subset
<1>6. Load(Each, Each, b) = SumOver(e, Workers)
  BY DEF Load
<1> HIDE DEF f, e, open
<1>7. SumOver(f, open) = SumOver(e, open)
  BY <1>3, <1>5, SumSame
<1>8. SumOver(e, open) \in Nat /\ SumOver(e, open) <= SumOver(e, Workers)
  BY <1>4, <1>5, WorkersAssumption, SumOfPart
<1> QED BY <1>1, <1>6, <1>7, <1>8

-----------------------------------------------------------------------------
(* The two sums *)

\* A body is mailed, waits, is carried or is dead no more often than it was published,
\* taken back or misreported: CopiesConserved, whatever interleaving of crashes, lost
\* channels and failed republishes.
THEOREM CopiesAreConserved == Spec => []CopiesConserved
<1>1. Init => AllAccounted
  BY AccountedAtStart
<1>2. TypeOK /\ TypeOK' /\ AllAccounted /\ [Next]_vars => AllAccounted'
  BY AccountedStep DEF AllAccounted
<1>3. TypeOK /\ AllAccounted => CopiesConserved
  <2> SUFFICES ASSUME TypeOK, AllAccounted, NEW b \in Bodies
               PROVE  mailed[b] + Total(ready, b) + Unsettled(b) + Total(dead, b)
                        <= accepted[b] + Total(redelivered, b) + ambiguous[b]
    BY DEF CopiesConserved
  <2>1. CopiesOwed(b)
    BY DEF AllAccounted
  <2>2. /\ Total(ready, b) = Weigh(ready, Each, b) /\ Total(dead, b) = Weigh(dead, Each, b)
        /\ Total(redelivered, b) = Weigh(redelivered, Each, b)
    BY Totals DEF TypeOK
  <2>3. Bought(Each, b) = accepted[b]
    <3>1. First(b) \in Messages
      BY RetriesAssumption DEF First, Messages
    <3> QED BY <3>1 DEF Bought, Each, TypeOK
  <2>4. /\ mailed[b] \in Nat /\ accepted[b] \in Nat /\ ambiguous[b] \in Nat
        /\ Weigh(ready, Each, b) \in Nat /\ Weigh(dead, Each, b) \in Nat
        /\ Weigh(redelivered, Each, b) \in Nat /\ Load(Each, Each, b) \in Nat
    BY Tariffs, WeighNat, LoadNat DEF Tariff, TypeOK
  <2> QED BY <2>1, <2>2, <2>3, <2>4, UnsettledIsCarried DEF CopiesOwed, Owed
<1> QED BY <1>1, <1>2, <1>3, TypeCorrect, PTL DEF Spec

\* A publish buys MaxRetries + 1 attempts to send, and a copy taken back those its retry
\* count leaves it; republishing buys none: AttemptsBounded.
THEOREM AttemptsAreBounded == Spec => []AttemptsBounded
<1>1. Init => AllAccounted
  BY AccountedAtStart
<1>2. TypeOK /\ TypeOK' /\ AllAccounted /\ [Next]_vars => AllAccounted'
  BY AccountedStep DEF AllAccounted
<1>3. TypeOK /\ AllAccounted => AttemptsBounded
  <2> SUFFICES ASSUME TypeOK, AllAccounted, NEW b \in Bodies
               PROVE  mailed[b] + failed[b] - ambiguous[b]
                        <= (MaxRetries + 1) * accepted[b]
                           + MapThenSumSet(LAMBDA m : redelivered[m] * AttemptsLeft(m), OfBody(b))
    BY DEF AttemptsBounded
  <2>1. AttemptsOwed(b)
    BY DEF AllAccounted
  <2>2. MapThenSumSet(LAMBDA m : redelivered[m] * AttemptsLeft(m), OfBody(b))
          = Weigh(redelivered, Left, b)
    BY Totals DEF TypeOK
  <2>3. Bought(Left, b) = (MaxRetries + 1) * accepted[b] /\ Bought(Left, b) \in Nat
    <3>1. First(b) \in Messages /\ First(b).retry = 0
      BY RetriesAssumption DEF First, Messages
    <3>2. Left[First(b)] = MaxRetries + 1
      BY <3>1, RetriesAssumption DEF Left, AttemptsLeft
    <3> QED BY <3>2, RetriesAssumption DEF Bought, TypeOK
  <2>4. /\ mailed[b] \in Nat /\ failed[b] \in Nat /\ ambiguous[b] \in Nat
        /\ Weigh(ready, Left, b) \in Nat /\ Weigh(redelivered, Left, b) \in Nat
        /\ Load(Left, LeftAfter, b) \in Nat
    BY Tariffs, WeighNat, LoadNat DEF Tariff, TypeOK
  <2>5. mailed[b] + failed[b] - ambiguous[b] <= Bought(Left, b) + Weigh(redelivered, Left, b)
    BY <2>1, <2>3, <2>4 DEF AttemptsOwed, Owed
  <2> QED BY <2>2, <2>3, <2>5
<1> QED BY <1>1, <1>2, <1>3, TypeCorrect, PTL DEF Spec

-----------------------------------------------------------------------------
(* The work that is left *)

\* The work of a copy k steps after it became ready, of what a worker has on hand, of all.
StepsAfter(k) == [m \in Messages |-> StepsLeft(m) - k]

OnHand(w, b) ==
  Weigh(inbox[w], StepsAfter(1), b) + (IF cur[w] \in OfBody(b) THEN StepsInHand(w) ELSE 0)
OnAllHands(b) == SumOver([w \in Workers |-> OnHand(w, b)], Workers)
Work(b) == Weigh(ready, StepsAfter(0), b) + OnAllHands(b)

\* A copy has five steps or more before it until it is delivered.
LEMMA StepWeights ==
  ASSUME NEW k \in 0..3
  PROVE  /\ StepsAfter(k) \in Weights
         /\ \A m \in Messages : StepsLeft(m) \in Nat /\ StepsLeft(m) >= 5
         /\ \A m \in Messages, b \in Bodies :
              Share(m, StepsAfter(k), b) = IF m \in OfBody(b) THEN StepsLeft(m) - k ELSE 0
<1>1. \A m \in Messages : AttemptsLeft(m) \in Nat /\ AttemptsLeft(m) >= 1
  BY RetriesAssumption DEF AttemptsLeft, Messages
<1>2. \A m \in Messages : StepsLeft(m) \in Nat /\ StepsLeft(m) >= 5
  BY <1>1 DEF StepsLeft
<1>3. \A m \in Messages : StepsLeft(m) - k \in Nat
  BY <1>2
<1> QED BY <1>2, <1>3 DEF StepsAfter, Weights, Share

\* What a worker has on hand is a natural, before a step and after it.
LEMMA OnHandNat ==
  ASSUME TypeOK, NEW b \in Bodies, NEW w \in Workers
  PROVE  /\ Weigh(inbox[w], StepsAfter(1), b) \in Nat
         /\ cur[w] \in Messages => StepsInHand(w) \in Nat
         /\ OnHand(w, b) \in Nat
<1>1. Weigh(inbox[w], StepsAfter(1), b) \in Nat
  BY StepWeights, WeighNat DEF TypeOK
<1>2. cur[w] \in Messages => StepsInHand(w) \in Nat
  BY StepWeights DEF StepsInHand
<1>3. cur[w] \in OfBody(b) => cur[w] \in Messages
  BY OfBodyFinite
<1> QED BY <1>1, <1>2, <1>3 DEF OnHand

\* The same of the state a step leads to.
LEMMA OnHandAfter ==
  ASSUME TypeOK', NEW b \in Bodies, NEW w \in Workers
  PROVE  /\ Weigh(inbox'[w], StepsAfter(1), b) \in Nat
         /\ OnHand(w, b)' \in Nat
<1>1. Weigh(inbox'[w], StepsAfter(1), b) \in Nat
  BY StepWeights, WeighNat DEF TypeOK
<1>2. cur'[w] \in Messages => StepsInHand(w)' \in Nat
  BY StepWeights DEF StepsInHand
<1>3. cur'[w] \in OfBody(b) => cur'[w] \in Messages
  BY OfBodyFinite
<1> QED BY <1>1, <1>2, <1>3 DEF OnHand

\* A step of w changes the work by what it changes of the queue and of w's hands.
LEMMA WorkMoves ==
  ASSUME TypeOK, TypeOK', NEW b \in Bodies, NEW w \in Workers, OthersRest(w)
  PROVE  /\ Work(b) \in Nat /\ Work(b)' \in Nat
         /\ Weigh(ready, StepsAfter(0), b) \in Nat /\ Weigh(ready', StepsAfter(0), b) \in Nat
         /\ Work(b)' - Work(b)
              = (Weigh(ready', StepsAfter(0), b) - Weigh(ready, StepsAfter(0), b))
                + (OnHand(w, b)' - OnHand(w, b))
<1> DEFINE f == [v \in Workers |-> OnHand(v, b)]
           e == [v \in Workers |-> OnHand(v, b)']
<1>1. \A v \in Workers : f[v] \in Nat /\ e[v] \in Nat
  BY OnHandNat, OnHandAfter
<1>2. \A v \in Workers : v # w => f[v] = e[v]
  BY DEF OnHand, StepsInHand, OthersRest
<1>3. f[w] = OnHand(w, b) /\ e[w] = OnHand(w, b)'
  OBVIOUS
<1>4. OnAllHands(b) = SumOver(f, Workers) /\ OnAllHands(b)' = SumOver(e, Workers)
  BY DEF OnAllHands
<1> HIDE DEF f, e
<1>5. SumOver(e, Workers) = SumOver(f, Workers) - f[w] + e[w]
  BY <1>1, <1>2, WorkersAssumption, SumChanges
<1>6. SumOver(f, Workers) \in Nat /\ SumOver(e, Workers) \in Nat
  BY <1>1, WorkersAssumption, SumOfPart
<1>7. Weigh(ready, StepsAfter(0), b) \in Nat /\ Weigh(ready', StepsAfter(0), b) \in Nat
  BY StepWeights, WeighNat DEF TypeOK
<1> QED BY <1>1, <1>3, <1>4, <1>5, <1>6, <1>7 DEF Work

\* The work is a natural, before a step and after it.
LEMMA WorkNat ==
  ASSUME TypeOK, TypeOK', NEW b \in Bodies
  PROVE  Work(b) \in Nat /\ Work(b)' \in Nat
<1> DEFINE f == [w \in Workers |-> OnHand(w, b)]
           e == [w \in Workers |-> OnHand(w, b)']
<1>1. \A w \in Workers : f[w] \in Nat /\ e[w] \in Nat
  BY OnHandNat, OnHandAfter
<1>2. OnAllHands(b) = SumOver(f, Workers) /\ OnAllHands(b)' = SumOver(e, Workers)
  BY DEF OnAllHands
<1> HIDE DEF f, e
<1>3. SumOver(f, Workers) \in Nat /\ SumOver(e, Workers) \in Nat
  BY <1>1, WorkersAssumption, SumOfPart
<1>4. Weigh(ready, StepsAfter(0), b) \in Nat /\ Weigh(ready', StepsAfter(0), b) \in Nat
  BY StepWeights, WeighNat DEF TypeOK
<1> QED BY <1>2, <1>3, <1>4 DEF Work

\* What a step on n, a copy of one body, does for it and for the other bodies.
Advances(n) ==
  \A b \in Bodies :
    IF n \in OfBody(b) THEN Work(b)' < Work(b) \/ Replenished(b) ELSE Work(b)' <= Work(b)

\* The broker pushes a copy.
LEMMA DeliverAdvances ==
  ASSUME TypeOK, TypeOK', NEW w \in Workers, NEW m \in Messages, Deliver(w, m)
  PROVE  Advances(m)
<1> SUFFICES ASSUME NEW b \in Bodies
             PROVE  IF m \in OfBody(b) THEN Work(b)' < Work(b) ELSE Work(b)' <= Work(b)
  BY DEF Advances
<1>1. /\ ready \in Bag /\ ready[m] > 0 /\ ready' = Remove(ready, m)
      /\ inbox[w] \in Bag /\ inbox'[w] = Put(inbox[w], m)
      /\ stage' = stage /\ cur' = cur /\ OthersRest(w)
  BY DEF Deliver, TypeOK, OthersRest
<1>2. Weigh(ready', StepsAfter(0), b)
        = Weigh(ready, StepsAfter(0), b) - Share(m, StepsAfter(0), b)
  BY <1>1, StepWeights, WeighRemove
<1>3. Weigh(inbox'[w], StepsAfter(1), b)
        = Weigh(inbox[w], StepsAfter(1), b) + Share(m, StepsAfter(1), b)
  BY <1>1, StepWeights, WeighPut
<1>4. StepsInHand(w)' = StepsInHand(w)
  BY <1>1 DEF StepsInHand
<1>5. OnHand(w, b)' - OnHand(w, b) = Share(m, StepsAfter(1), b)
  <2>1. Weigh(inbox[w], StepsAfter(1), b) \in Nat /\ Share(m, StepsAfter(1), b) \in Nat
    BY OnHandNat, StepWeights, ShareNat
  <2>2. cur[w] \in OfBody(b) => StepsInHand(w) \in Nat
    BY OnHandNat, OfBodyFinite
  <2> QED BY <1>1, <1>3, <1>4, <2>1, <2>2 DEF OnHand
<1>6. /\ Work(b) \in Nat /\ Work(b)' \in Nat
      /\ Weigh(ready, StepsAfter(0), b) \in Nat /\ Weigh(ready', StepsAfter(0), b) \in Nat
      /\ Work(b)' - Work(b)
           = (Weigh(ready', StepsAfter(0), b) - Weigh(ready, StepsAfter(0), b))
             + (OnHand(w, b)' - OnHand(w, b))
  BY <1>1, WorkMoves
<1>7. /\ Share(m, StepsAfter(0), b) = IF m \in OfBody(b) THEN StepsLeft(m) - 0 ELSE 0
      /\ Share(m, StepsAfter(1), b) = IF m \in OfBody(b) THEN StepsLeft(m) - 1 ELSE 0
      /\ StepsLeft(m) \in Nat
  BY StepWeights
<1> QED BY <1>2, <1>5, <1>6, <1>7

\* The loop takes a copy from its buffer.
LEMMA TakeAdvances ==
  ASSUME TypeOK, TypeOK', NEW w \in Workers, NEW m \in Messages, Take(w, m)
  PROVE  Advances(m)
<1> SUFFICES ASSUME NEW b \in Bodies
             PROVE  IF m \in OfBody(b) THEN Work(b)' < Work(b) ELSE Work(b)' <= Work(b)
  BY DEF Advances
<1>1. /\ ready' = ready /\ inbox[w] \in Bag /\ inbox[w][m] > 0
      /\ inbox'[w] = Remove(inbox[w], m) /\ stage[w] = "idle" /\ cur'[w] = m
      /\ stage'[w] \in {"send", "republish"} /\ OthersRest(w)
  BY DEF Take, brokerVars, TypeOK, OthersRest
<1>2. Weigh(inbox'[w], StepsAfter(1), b)
        = Weigh(inbox[w], StepsAfter(1), b) - Share(m, StepsAfter(1), b)
  BY <1>1, StepWeights, WeighRemove
<1>3. StepsInHand(w) = 0 /\ StepsInHand(w)' <= StepsLeft(m) - 2 /\ StepsInHand(w)' \in Nat
  BY <1>1, StepWeights DEF StepsInHand
<1>4. /\ Share(m, StepsAfter(1), b) = IF m \in OfBody(b) THEN StepsLeft(m) - 1 ELSE 0
      /\ StepsLeft(m) \in Nat
  BY StepWeights
<1>5. Weigh(inbox[w], StepsAfter(1), b) \in Nat
  BY OnHandNat
<1>6. IF m \in OfBody(b) THEN OnHand(w, b)' - OnHand(w, b) < 0
      ELSE OnHand(w, b)' - OnHand(w, b) = 0
  BY <1>1, <1>2, <1>3, <1>4, <1>5 DEF OnHand
<1>7. /\ Work(b) \in Nat /\ Work(b)' \in Nat
      /\ Weigh(ready, StepsAfter(0), b) \in Nat
      /\ Work(b)' - Work(b)
           = (Weigh(ready', StepsAfter(0), b) - Weigh(ready, StepsAfter(0), b))
             + (OnHand(w, b)' - OnHand(w, b))
  BY <1>1, WorkMoves
<1>8. OnHand(w, b) \in Nat /\ OnHand(w, b)' \in Nat
  BY OnHandNat, OnHandAfter
<1> QED BY <1>1, <1>6, <1>7, <1>8

\* A step of handleDelivery: w has cur[w] in hand and its inbox stays.  A republished
\* message has a whole attempt less before it than the one it succeeds.
LEMMA HandleAdvances ==
  ASSUME TypeOK, TypeOK', NEW w \in Workers, HandleDelivery(w)
  PROVE  cur[w] \in Messages /\ Advances(cur[w])
<1> DEFINE n == cur[w]
<1>1. cur[w] \in Messages
  BY DEF HandleDelivery, SendOk, SendErr, Republish, RepublishErr, Ack, TypeOK
<1> SUFFICES ASSUME NEW b \in Bodies
             PROVE  IF n \in OfBody(b) THEN Work(b)' < Work(b) \/ Replenished(b)
                    ELSE Work(b)' <= Work(b)
  BY <1>1 DEF Advances
<1> USE DEF brokerVars, workerVars, historyVars
<1>2. /\ inbox' = inbox /\ OthersRest(w) /\ stage[w] \in {"send", "republish", "ack"}
      /\ cur'[w] = n \/ cur'[w] = NoMessage
  BY DEF HandleDelivery, SendOk, SendErr, Republish, RepublishErr, Ack, Finish, TypeOK, OthersRest
<1>3. NoMessage \notin OfBody(b)
  BY NoMessageAssumption, OfBodyFinite
<1>4. /\ Work(b) \in Nat /\ Work(b)' \in Nat
      /\ Weigh(ready, StepsAfter(0), b) \in Nat /\ Weigh(ready', StepsAfter(0), b) \in Nat
      /\ Work(b)' - Work(b)
           = (Weigh(ready', StepsAfter(0), b) - Weigh(ready, StepsAfter(0), b))
             + (OnHand(w, b)' - OnHand(w, b))
  BY <1>2, WorkMoves
<1>5. /\ OnHand(w, b) \in Nat /\ OnHand(w, b)' \in Nat
      /\ Weigh(inbox[w], StepsAfter(1), b) \in Nat /\ StepsInHand(w) \in Nat
      /\ StepsLeft(n) \in Nat /\ StepsLeft(n) >= 5
  BY <1>1, OnHandNat, OnHandAfter, StepWeights
<1>6. /\ n \in OfBody(b) =>
           OnHand(w, b)' - OnHand(w, b)
             = (IF cur'[w] = n THEN StepsInHand(w)' ELSE 0) - StepsInHand(w)
      /\ n \notin OfBody(b) => OnHand(w, b)' = OnHand(w, b)
  <2>1. n \in OfBody(b) /\ cur'[w] = n => StepsInHand(w)' \in Nat
    BY <1>1, StepWeights DEF StepsInHand
  <2> QED BY <1>1, <1>2, <1>3, <1>5, <2>1, NoMessageAssumption DEF OnHand
<1>7. CASE SendOk(w) \/ SendErr(w)
  <2>1. ready' = ready /\ cur' = cur /\ stage[w] = "send" /\ stage'[w] \in {"ack", "republish"}
    BY <1>7 DEF SendOk, SendErr, TypeOK
  <2>2. StepsInHand(w) = StepsLeft(n) - 2 /\ StepsInHand(w)' <= StepsLeft(n) - 3
        /\ StepsInHand(w)' \in Nat
    BY <1>5, <2>1 DEF StepsInHand
  <2> QED BY <1>4, <1>5, <1>6, <2>1, <2>2
<1>8. CASE Republish(w)
  <2> DEFINE m == [cur[w] EXCEPT !.retry = @ + 1]
  <2>1. cur' = cur /\ stage[w] = "republish" /\ stage'[w] = "ack"
    BY <1>8 DEF Republish, TypeOK
  <2>2. StepsInHand(w) = StepsLeft(n) - 3 /\ StepsInHand(w)' = 1
    BY <2>1 DEF StepsInHand
  <2>3. CASE Retryable(n)
    <3>1. m \in Messages /\ m.body = n.body /\ m.retry = n.retry + 1 /\ ready' = Put(ready, m)
      BY <1>1, <1>8, <2>3, NextRetry DEF Republish
    <3>2. (m \in OfBody(b) <=> n \in OfBody(b))
      BY <1>1, <3>1 DEF OfBody
    <3>3. StepsLeft(m) = StepsLeft(n) - 5
      BY <1>1, <3>1, RetriesAssumption DEF StepsLeft, AttemptsLeft, Messages
    <3> HIDE DEF m
    <3>4. Share(m, StepsAfter(0), b) = IF n \in OfBody(b) THEN StepsLeft(n) - 5 ELSE 0
      BY <1>5, <3>1, <3>2, <3>3, StepWeights
    <3>5. Weigh(ready', StepsAfter(0), b)
            = Weigh(ready, StepsAfter(0), b) + Share(m, StepsAfter(0), b)
      BY <3>1, StepWeights, WeighPut DEF TypeOK
    <3> QED BY <1>4, <1>5, <1>6, <2>1, <2>2, <3>4, <3>5
  <2>4. CASE ~Retryable(n)
    <3>1. ready' = ready
      BY <1>8, <2>4 DEF Republish
    <3> QED BY <1>4, <1>5, <1>6, <2>1, <2>2, <3>1
  <2> QED BY <2>3, <2>4
<1>9. CASE RepublishErr(w)
  <2>1. cur'[w] = NoMessage /\ cur[w] # NoMessage /\ stage[w] = "republish"
    BY <1>9, <1>1, NoMessageAssumption DEF RepublishErr, Finish, TypeOK
  <2>2. StepsInHand(w) = StepsLeft(n) - 3
    BY <2>1 DEF StepsInHand
  <2>3. CASE ready' = ready
    BY <1>4, <1>5, <1>6, <2>1, <2>2, <2>3
  <2>4. CASE ready' = Put(ready, n) /\ redelivered' = Put(redelivered, n)
    <3>1. CASE n \in OfBody(b)
      <4>1. redelivered'[n] > redelivered[n]
        BY <1>1, <2>4 DEF TypeOK, Bag, Put
      <4> QED BY <3>1, <4>1 DEF Replenished
    <3>2. CASE n \notin OfBody(b)
      <4>1. Weigh(ready', StepsAfter(0), b)
              = Weigh(ready, StepsAfter(0), b) + Share(n, StepsAfter(0), b)
        BY <1>1, <2>4, StepWeights, WeighPut DEF TypeOK
      <4>2. Share(n, StepsAfter(0), b) = 0
        BY <3>2 DEF Share
      <4> QED BY <1>4, <1>5, <1>6, <3>2, <4>1, <4>2
    <3> QED BY <3>1, <3>2
  <2> QED BY <1>9, <2>3, <2>4 DEF RepublishErr
<1>10. CASE Ack(w)
  <2>1. ready' = ready /\ cur'[w] = NoMessage /\ cur[w] # NoMessage /\ stage[w] = "ack"
    BY <1>10, <1>1, NoMessageAssumption DEF Ack, Finish, TypeOK
  <2>2. StepsInHand(w) = 1
    BY <2>1 DEF StepsInHand
  <2> QED BY <1>4, <1>5, <1>6, <2>1, <2>2
<1> QED BY <1>7, <1>8, <1>9, <1>10 DEF HandleDelivery

\* Of the other steps, a publish and a channel's end bring work, and are seen to.
LEMMA OthersReplenish ==
  ASSUME TypeOK, TypeOK', NEW b \in Bodies,
         \/ \E c \in Bodies : Publish(c)
         \/ \E w \in Workers : Start(w) \/ Quit(w) \/ Kill(w) \/ LoseChannel(w)
  PROVE  Work(b)' <= Work(b) \/ Replenished(b)
<1> USE DEF brokerVars, workerVars, historyVars
<1>1. ASSUME NEW w \in Workers, OthersRest(w), OnHand(w, b)' <= OnHand(w, b),
             \A m \in OfBody(b) : ready'[m] = ready[m]
      PROVE  Work(b)' <= Work(b)
  <2> DEFINE f == [m \in OfBody(b) |-> ready[m] * StepsAfter(0)[m]]
             e == [m \in OfBody(b) |-> ready'[m] * StepsAfter(0)[m]]
  <2>1. f = e
    BY <1>1
  <2>2. Weigh(ready', StepsAfter(0), b) = Weigh(ready, StepsAfter(0), b)
    <3>1. Weigh(ready, StepsAfter(0), b) = SumOver(f, OfBody(b))
          /\ Weigh(ready', StepsAfter(0), b) = SumOver(e, OfBody(b))
      BY DEF Weigh
    <3> HIDE DEF f, e
    <3> QED BY <2>1, <3>1
  <2>3. OnHand(w, b) \in Nat /\ OnHand(w, b)' \in Nat
    BY OnHandNat, OnHandAfter
  <2>4. /\ Work(b) \in Nat /\ Work(b)' \in Nat /\ Weigh(ready, StepsAfter(0), b) \in Nat
        /\ Work(b)' - Work(b)
             = (Weigh(ready', StepsAfter(0), b) - Weigh(ready, StepsAfter(0), b))
               + (OnHand(w, b)' - OnHand(w, b))
    BY <1>1, WorkMoves
  <2> QED BY <1>1, <2>2, <2>3, <2>4
<1>2. ASSUME NEW w \in Workers, Start(w) PROVE Work(b)' <= Work(b)
  <2>1. /\ OthersRest(w) /\ ready' = ready /\ inbox' = inbox /\ cur' = cur
        /\ stage[w] = "down" /\ stage'[w] = "idle"
    BY <1>2 DEF Start, TypeOK, OthersRest
  <2>2. OnHand(w, b)' = OnHand(w, b)
    BY <2>1 DEF OnHand, StepsInHand
  <2>3. OnHand(w, b)' <= OnHand(w, b)
    BY <2>2, OnHandNat
  <2> QED BY <1>1, <2>1, <2>3
<1>3. ASSUME NEW w \in Workers, Release(w), ~Replenished(b)
      PROVE  \A m \in OfBody(b) : ready'[m] = ready[m]
  <2>1. CASE chan[w]
    <3> SUFFICES ASSUME NEW m \in OfBody(b) PROVE ready'[m] = ready[m]
      OBVIOUS
    <3>1. /\ ready[m] \in Nat /\ redelivered[m] \in Nat /\ Held(w, m) \in Nat
          /\ m \in Messages
      BY OfBodyFinite DEF TypeOK, Bag, Held
    <3>2. ready'[m] = ready[m] + Held(w, m) /\ redelivered'[m] = redelivered[m] + Held(w, m)
      BY <1>3, <2>1, <3>1 DEF Release
    <3>3. ~(redelivered'[m] > redelivered[m])
      BY <1>3 DEF Replenished
    <3> QED BY <3>1, <3>2, <3>3
  <2>2. CASE ~chan[w]
    BY <1>3, <2>2 DEF Release
  <2> QED BY <2>1, <2>2
<1>4. ASSUME NEW w \in Workers, Quit(w) \/ Kill(w) PROVE Work(b)' <= Work(b) \/ Replenished(b)
  <2>1. Release(w) /\ OthersRest(w) /\ inbox'[w] = Nothing /\ cur'[w] = NoMessage
    BY <1>4 DEF Quit, Kill, Exit, TypeOK, OthersRest
  <2>2. Weigh(Nothing, StepsAfter(1), b) = 0
    BY StepWeights, WeighNothing
  <2>3. cur'[w] \notin OfBody(b)
    BY <2>1, NoMessageAssumption, OfBodyFinite
  <2>4. OnHand(w, b)' <= OnHand(w, b)
    BY <2>1, <2>2, <2>3, OnHandNat DEF OnHand
  <2> QED BY <1>1, <1>3, <2>1, <2>4
<1>5. ASSUME NEW w \in Workers, LoseChannel(w) PROVE Work(b)' <= Work(b) \/ Replenished(b)
  <2>1. Release(w) /\ OthersRest(w) /\ inbox' = inbox /\ cur' = cur /\ stage' = stage
    BY <1>5 DEF LoseChannel, OthersRest
  <2>2. OnHand(w, b)' = OnHand(w, b)
    BY <2>1 DEF OnHand, StepsInHand
  <2>3. OnHand(w, b)' <= OnHand(w, b)
    BY <2>2, OnHandNat
  <2> QED BY <1>1, <1>3, <2>1, <2>3
<1>6. ASSUME NEW c \in Bodies, Publish(c) PROVE Work(b)' <= Work(b) \/ Replenished(b)
  <2>1. CASE c = b
    BY <1>6, <2>1 DEF Publish, Count, Replenished, TypeOK
  <2>2. CASE c # b
    <3>1. First(c) \in Messages /\ First(c) \notin OfBody(b) /\ ready' = Put(ready, First(c))
      BY <1>6, <2>2, RetriesAssumption DEF Publish, First, Messages, OfBody
    <3>2. Weigh(ready', StepsAfter(0), b)
            = Weigh(ready, StepsAfter(0), b) + Share(First(c), StepsAfter(0), b)
      BY <3>1, StepWeights, WeighPut DEF TypeOK
    <3>3. Share(First(c), StepsAfter(0), b) = 0
      BY <3>1 DEF Share
    <3>4. OnAllHands(b)' = OnAllHands(b)
      BY <1>6 DEF Publish, OnAllHands, OnHand, StepsInHand
    <3>5. Weigh(ready, StepsAfter(0), b) \in Nat
      BY StepWeights, WeighNat DEF TypeOK
    <3>6. Work(b)' = Work(b)
      BY <3>2, <3>3, <3>4, <3>5 DEF Work
    <3> QED BY <3>6, WorkNat
  <2> QED BY <2>1, <2>2
<1> QED BY <1>2, <1>4, <1>5, <1>6

\* WorkLeft is that work.
LEMMA WorkLeftIsWork == TypeOK => \A b \in Bodies : WorkLeft(b) = Work(b)
<1> SUFFICES ASSUME TypeOK, NEW b \in Bodies PROVE WorkLeft(b) = Work(b)
  OBVIOUS
<1> DEFINE inQueue == [m \in OfBody(b) |-> ready[m] * StepsLeft(m)]
           inBox(w) == [m \in OfBody(b) |-> inbox[w][m] * (StepsLeft(m) - 1)]
           inHand(w) == IF cur[w] \in OfBody(b) THEN StepsInHand(w) ELSE 0
           hands == [w \in Workers |->
                       MapThenSumSet(LAMBDA m : inbox[w][m] * (StepsLeft(m) - 1), OfBody(b))
                       + inHand(w)]
<1>1. WorkLeft(b) = SumOver(inQueue, OfBody(b)) + SumOver(hands, Workers)
  BY ZenonT(30) DEF WorkLeft, MapThenSumSet, MapThenFoldSet, SumOver
<1>2. \A w \in Workers :
        MapThenSumSet(LAMBDA m : inbox[w][m] * (StepsLeft(m) - 1), OfBody(b))
          = SumOver(inBox(w), OfBody(b))
  BY ZenonT(30) DEF MapThenSumSet, MapThenFoldSet, SumOver
<1>3. OfBody(b) \subseteq Messages
  BY OfBodyFinite
<1>4. inQueue = [m \in OfBody(b) |-> ready[m] * StepsAfter(0)[m]]
  <2>1. \A m \in Messages : StepsAfter(0)[m] = StepsLeft(m)
    BY StepWeights DEF StepsAfter
  <2> QED BY <1>3, <2>1
<1>5. \A w \in Workers : inBox(w) = [m \in OfBody(b) |-> inbox[w][m] * StepsAfter(1)[m]]
  <2>1. \A m \in Messages : StepsAfter(1)[m] = StepsLeft(m) - 1
    BY DEF StepsAfter
  <2> QED BY <1>3, <2>1
<1>6. SumOver(inQueue, OfBody(b)) = Weigh(ready, StepsAfter(0), b)
  <2> HIDE DEF inQueue
  <2> QED BY <1>4 DEF Weigh
<1>7. \A w \in Workers : hands[w] = OnHand(w, b)
  <2> SUFFICES ASSUME NEW w \in Workers PROVE hands[w] = OnHand(w, b)
    OBVIOUS
  <2>1. SumOver(inBox(w), OfBody(b)) = Weigh(inbox[w], StepsAfter(1), b)
    <3> HIDE DEF inBox
    <3> QED BY <1>5 DEF Weigh
  <2> HIDE DEF inBox
  <2> QED BY <1>2, <2>1 DEF OnHand
<1>8. SumOver(hands, Workers) = OnAllHands(b)
  <2> DEFINE e == [w \in Workers |-> OnHand(w, b)]
  <2>1. hands = e
    BY <1>7
  <2>2. OnAllHands(b) = SumOver(e, Workers)
    BY DEF OnAllHands
  <2> HIDE DEF hands, e
  <2> QED BY <2>1, <2>2
<1> HIDE DEF inQueue, hands
<1> QED BY <1>1, <1>6, <1>8 DEF Work

\* The loop of deliveries and republishes comes to an end, whatever the retry limit, the
\* number of workers and the failures of SendEmail: WorkRunsOut.
THEOREM LoopEnds == Spec => WorkRunsOut
<1>1. TypeOK => \A b \in Bodies : WorkLeft(b) = Work(b)
  BY WorkLeftIsWork
<1>2. ASSUME TypeOK, TypeOK', Next PROVE \A b \in Bodies : Work(b)' <= Work(b) \/ Replenished(b)
  <2> SUFFICES ASSUME NEW b \in Bodies PROVE Work(b)' <= Work(b) \/ Replenished(b)
    OBVIOUS
  <2>1. ASSUME NEW w \in Workers, NEW m \in Messages, Deliver(w, m) \/ Take(w, m)
        PROVE  Advances(m)
    BY <1>2, <2>1, DeliverAdvances, TakeAdvances
  <2>2. ASSUME NEW w \in Workers, HandleDelivery(w) PROVE Advances(cur[w])
    BY <1>2, <2>2, HandleAdvances
  <2>3. Work(b) \in Nat /\ Work(b)' \in Nat
    BY <1>2, WorkNat
  <2>4. ASSUME NEW n, Advances(n) PROVE Work(b)' <= Work(b) \/ Replenished(b)
    BY <2>3, <2>4 DEF Advances
  <2> QED BY <1>2, <2>1, <2>2, <2>4, OthersReplenish DEF Next, Worker
<1>3. ASSUME TypeOK, TypeOK', NEW w \in Workers, Working(w)
      PROVE  \E b \in Bodies : Work(b)' < Work(b) \/ Replenished(b)
  <2>1. PICK n \in Messages : Advances(n)
    BY <1>3, DeliverAdvances, TakeAdvances, HandleAdvances DEF Working
  <2>2. n.body \in Bodies /\ n \in OfBody(n.body)
    BY DEF OfBody, Messages
  <2> QED BY <2>1, <2>2 DEF Advances
<1>4. /\ TypeOK /\ TypeOK' /\ [Next]_vars
      /\ \A b \in Bodies : WorkLeft(b) = Work(b)
      /\ (\A b \in Bodies : WorkLeft(b) = Work(b))'
      => [FewerStepsLeft]_vars
  BY <1>2, <1>3 DEF FewerStepsLeft
<1> QED BY <1>1, <1>4, TypeCorrect, PTL DEF Spec, WorkRunsOut
=============================================================================
