------------------------ MODULE NotificationDelivery ------------------------
(***************************************************************************)
(* What the notification pipeline promises, without its parts: a stored    *)
(* application is owed one e-mail.  The debt ends when the e-mail is sent, *)
(* when it is given up for failed_notifications, or when a failure that    *)
(* struck the application's event or messages loses it; nothing else loses *)
(* it, and nothing else makes the e-mail go out again.                     *)
(***************************************************************************)
CONSTANT Applications

VARIABLES
  notice,   \* notice[a]: what has become of a's e-mail
  struck,   \* applications whose event or messages a failure has struck
  again     \* applications mailed more than once

vars == <<notice, struck, again>>

Notices == {"none", "owed", "mailed", "given up", "lost"}

TypeOK ==
  /\ notice \in [Applications -> Notices]
  /\ struck \subseteq Applications
  /\ again \subseteq Applications

Init ==
  /\ notice = [a \in Applications |-> "none"]
  /\ struck = {}
  /\ again = {}

Become(a, from, to) ==
  /\ notice[a] \in from
  /\ notice'[a] = to
  /\ a \in again' <=> a \in again

Rest(a) == Become(a, {notice[a]}, notice[a])

\* The INSERT commits.
Owe(a) == Become(a, {"none"}, "owed")

Mail(a) == Become(a, {"owed"}, "mailed")

\* Every attempt has failed.
GiveUp(a) == Become(a, {"owed"}, "given up")

\* Another copy of a message that was given up gets through.
MailAfterAll(a) == a \in struck' /\ Become(a, {"given up"}, "mailed")

MailAgain(a) ==
  /\ a \in struck'
  /\ notice[a] = "mailed" /\ notice'[a] = "mailed"
  /\ a \in again'

Lose(a) == a \in struck' /\ Become(a, {"none", "owed"}, "lost")

\* Each application goes its own way, since a crash may end several at once.  A
\* failure may strike in any step; what it struck stays struck.
Next ==
  /\ TypeOK'
  /\ struck \subseteq struck'
  /\ \A a \in Applications :
       Rest(a) \/ Owe(a) \/ Mail(a) \/ GiveUp(a) \/ MailAfterAll(a) \/ MailAgain(a) \/ Lose(a)

Spec == Init /\ [][Next]_vars
=============================================================================
