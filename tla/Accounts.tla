------------------------------ MODULE Accounts ------------------------------
(***************************************************************************)
(* POST /register and POST /login, and the reads of a user's profile:      *)
(* UserHandler and UserRepository on the users table.  Registrations of    *)
(* one e-mail address race, and only its UNIQUE constraint decides between *)
(* them; a client whose reply is lost finds the address taken, by itself,  *)
(* when it tries again.                                                    *)
(*                                                                         *)
(* A step is one SQL statement.  The requests are those RateLimit lets     *)
(* through; a user is named by the e-mail address; tokens are left to      *)
(* Sessions.                                                               *)
(***************************************************************************)
EXTENDS Naturals

CONSTANTS
  Handlers,    \* requests in progress
  Emails,      \* e-mail addresses, trimmed
  Passwords,   \* passwords, trimmed
  None         \* no row

ASSUME NoneAssumption == None \notin Passwords

VARIABLES
  account,    \* account[e]: the password of the user with address e
  ask,        \* ask[h]: what the request of handler h asks for
  at,         \* at[h]: the statement h executes next, or its last answer
  (* history, read by no guard *)
  before,     \* before[h]: account[e] when h's request arrived
  told,       \* told[e]: registrations of e answered 201, saturating at Many
  unheard     \* addresses whose INSERT committed and whose reply was lost

tableVars == <<account, told, unheard>>
vars == <<tableVars, ask, at, before>>

Asks ==
  [op : {"register", "login"}, email : Emails, password : Passwords]
    \cup [op : {"profile"}, email : Emails]
NoAsk == [op |-> "none"]
Statements == {"CreateUser", "GetUserByEmail", "GetUserByID"}
Answers == {"200", "201", "400", "401", "404", "409", "500"}
Many == 2

TypeOK ==
  /\ account \in [Emails -> Passwords \cup {None}]
  /\ ask \in [Handlers -> Asks \cup {NoAsk}]
  /\ at \in [Handlers -> {"idle"} \cup Statements \cup Answers]
  /\ before \in [Handlers -> Passwords \cup {None}]
  /\ told \in [Emails -> 0..Many]
  /\ unheard \subseteq Emails
  /\ \A h \in Handlers : at[h] = "idle" <=> ask[h] = NoAsk

Init ==
  /\ account = [e \in Emails |-> None]
  /\ ask = [h \in Handlers |-> NoAsk]
  /\ at = [h \in Handlers |-> "idle"]
  /\ before = [h \in Handlers |-> None]
  /\ told = [e \in Emails |-> 0]
  /\ unheard = {}

-----------------------------------------------------------------------------
(* Register, Login, GetUserByID and GetMe *)

FirstStatement(op) ==
  CASE op = "register" -> "CreateUser"
    [] op = "login" -> "GetUserByEmail"
    [] op = "profile" -> "GetUserByID"

Receive(h) ==
  /\ at[h] \in {"idle"} \cup Answers
  /\ \E q \in Asks :
       /\ ask' = [ask EXCEPT ![h] = q]
       /\ at' = [at EXCEPT ![h] = FirstStatement(q.op)]
       /\ before' = [before EXCEPT ![h] = account[q.email]]
  /\ UNCHANGED tableVars

Answer(h, code) ==
  /\ at' = [at EXCEPT ![h] = code]
  /\ UNCHANGED <<ask, before>>

Asked(h) == ask[h].email
More(n) == IF n < Many THEN n + 1 ELSE n

\* Mutant: the password is cleared for the answer before the INSERT.
CreateUserBlank(h) ==
  /\ at[h] = "CreateUser"
  /\ account[Asked(h)] = None
  /\ account' = [account EXCEPT ![Asked(h)] = ""]
  /\ told' = [told EXCEPT ![Asked(h)] = More(@)]
  /\ Answer(h, "201")
  /\ UNCHANGED unheard

CreateUser(h) ==
  /\ at[h] = "CreateUser"
  /\ account[Asked(h)] = None
  /\ account' = [account EXCEPT ![Asked(h)] = ask[h].password]
  /\ \/ /\ told' = [told EXCEPT ![Asked(h)] = More(@)]
        /\ Answer(h, "201")
        /\ UNCHANGED unheard
     \/ /\ unheard' = unheard \cup {Asked(h)}
        /\ Answer(h, "500")
        /\ UNCHANGED told

\* Mutant: the duplicate is reported as created.
DuplicateEmailCreated(h) ==
  /\ at[h] = "CreateUser"
  /\ account[Asked(h)] # None
  /\ told' = [told EXCEPT ![Asked(h)] = More(@)]
  /\ Answer(h, "201")
  /\ UNCHANGED <<account, unheard>>

\* ErrDuplicateEmail: SQLSTATE 23505.
DuplicateEmail(h) ==
  /\ at[h] = "CreateUser"
  /\ account[Asked(h)] # None
  /\ Answer(h, "409")
  /\ UNCHANGED tableVars

\* Mutant: the password is not compared.
GetUserByEmailOnly(h) ==
  /\ at[h] = "GetUserByEmail"
  /\ \/ account[Asked(h)] # None /\ Answer(h, "200")
     \/ account[Asked(h)] = None /\ Answer(h, "401")
  /\ UNCHANGED tableVars

\* The row, then bcrypt's comparison with its password; 401 for either.
GetUserByEmail(h) ==
  /\ at[h] = "GetUserByEmail"
  /\ \/ account[Asked(h)] = ask[h].password /\ Answer(h, "200")
     \/ account[Asked(h)] # ask[h].password /\ Answer(h, "401")
  /\ UNCHANGED tableVars

GetUserByID(h) ==
  /\ at[h] = "GetUserByID"
  /\ \/ account[Asked(h)] # None /\ Answer(h, "200")
     \/ account[Asked(h)] = None /\ Answer(h, "404")
  /\ UNCHANGED tableVars

\* Validation, bcrypt, the database without an effect, or the token's signature fails.
Fail(h) ==
  /\ at[h] \in Statements
  /\ Answer(h, "400") \/ Answer(h, "500")
  /\ UNCHANGED tableVars

\* The API process ends and is started again; the table stays.
Restart ==
  /\ ask' = [h \in Handlers |-> NoAsk]
  /\ at' = [h \in Handlers |-> "idle"]
  /\ before' = [h \in Handlers |-> None]
  /\ UNCHANGED tableVars

-----------------------------------------------------------------------------
(* Specification *)

Serve(h) ==
  \/ CreateUser(h) \/ DuplicateEmail(h) \/ GetUserByEmail(h) \/ GetUserByID(h) \/ Fail(h)

Next == Restart \/ \E h \in Handlers : Receive(h) \/ Serve(h)

Spec == Init /\ [][Next]_vars

-----------------------------------------------------------------------------
(* Properties *)

\* Of the registrations of one address, however they race, one is answered 201 at
\* most, and none when the reply of the one that was stored got lost.
OneRegistrationAccepted ==
  \A e \in Emails :
    told[e] + (IF e \in unheard THEN 1 ELSE 0) = IF account[e] = None THEN 0 ELSE 1

\* A request's answer agrees with the table at its end (201, 200, 409), or with the
\* table as the request found it (401, 404): nobody is turned away by a row that
\* was there already, and whoever is let in has the password that was registered.
AnswersAgree ==
  \A h \in Handlers :
    LET e == ask[h].email  p == ask[h].password IN
    /\ at[h] = "201" \/ (at[h] = "200" /\ ask[h].op = "login") => account[e] = p
    /\ at[h] = "409" \/ (at[h] = "200" /\ ask[h].op = "profile") => account[e] # None
    /\ at[h] = "401" => before[h] # p
    /\ at[h] = "404" => before[h] = None
=============================================================================
