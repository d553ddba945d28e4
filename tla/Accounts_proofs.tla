-------------------------- MODULE Accounts_proofs --------------------------
(***************************************************************************)
(* Registration and login for any number of requests, addresses and        *)
(* passwords.  An account only ever comes into being, so what a request    *)
(* found on its arrival is there at its end (StillThere); with that, what  *)
(* its statement finds speaks for both moments.                            *)
(***************************************************************************)
EXTENDS Accounts, TLAPS

StillThere ==
  \A h \in Handlers : at[h] # "idle" /\ before[h] # None => account[Asked(h)] = before[h]

\* A request executes the statement it calls for; only registrations create.
Underway ==
  \A h \in Handlers :
    /\ at[h] \in Statements => at[h] = FirstStatement(ask[h].op)
    /\ at[h] = "201" => ask[h].op = "register"

IInv == TypeOK /\ StillThere /\ Underway /\ OneRegistrationAccepted /\ AnswersAgree

-----------------------------------------------------------------------------

THEOREM InitIInv == Init => IInv
  BY DEF Init, IInv, TypeOK, StillThere, Underway, Statements, OneRegistrationAccepted,
         AnswersAgree, NoAsk, Many

\* A request in progress asks for something, about an address.
LEMMA Asking ==
  ASSUME TypeOK, NEW h \in Handlers, at[h] # "idle"
  PROVE  /\ ask[h] \in Asks /\ Asked(h) \in Emails
         /\ ask[h].op \in {"register", "login"} => ask[h].password \in Passwords
  BY DEF TypeOK, Asks, NoAsk, Asked

LEMMA ReceiveKeeps ==
  ASSUME IInv, NEW h \in Handlers, Receive(h)
  PROVE  IInv'
<1>1. PICK q \in Asks :
        /\ ask' = [ask EXCEPT ![h] = q]
        /\ at' = [at EXCEPT ![h] = FirstStatement(q.op)]
        /\ before' = [before EXCEPT ![h] = account[q.email]]
  BY DEF Receive
<1>2. FirstStatement(q.op) \in Statements /\ q.email \in Emails /\ q # NoAsk
  BY DEF Asks, FirstStatement, Statements, NoAsk
<1>3. UNCHANGED <<account, told, unheard>>
  BY DEF Receive, tableVars
<1>4. TypeOK'
  BY <1>1, <1>2, <1>3 DEF IInv, TypeOK, Statements
<1>5. StillThere'
  BY <1>1, <1>2, <1>3 DEF IInv, TypeOK, StillThere, Asked
<1>6. Underway'
  BY <1>1, <1>2 DEF IInv, TypeOK, Underway, Statements
<1>7. OneRegistrationAccepted'
  BY <1>3 DEF IInv, OneRegistrationAccepted
<1>8. AnswersAgree'
  BY <1>1, <1>2, <1>3 DEF IInv, TypeOK, AnswersAgree, Statements
<1>. QED
  BY <1>4, <1>5, <1>6, <1>7, <1>8 DEF IInv

\* An answer that is true of the table is all that a statement without an effect adds.
LEMMA AnswerKeeps ==
  ASSUME IInv, NEW h \in Handlers, at[h] \in Statements, NEW code \in Answers,
         Answer(h, code), UNCHANGED tableVars,
         code = "201" => ask[h].op = "register",
         code = "201" \/ (code = "200" /\ ask[h].op = "login")
           => account[Asked(h)] = ask[h].password,
         code = "409" \/ (code = "200" /\ ask[h].op = "profile") => account[Asked(h)] # None,
         code = "401" => before[h] # ask[h].password,
         code = "404" => before[h] = None
  PROVE  IInv'
<1>. USE DEF Answer, tableVars
<1>1. code # "idle" /\ at[h] # "idle"
  BY DEF Answers, Statements
<1>2. TypeOK'
  BY <1>1 DEF IInv, TypeOK
<1>3. StillThere'
  BY <1>1 DEF IInv, TypeOK, StillThere, Asked
<1>4. Underway'
  BY DEF IInv, TypeOK, Underway, Statements, Answers
<1>5. OneRegistrationAccepted'
  BY DEF IInv, OneRegistrationAccepted
<1>6. AnswersAgree'
  BY DEF IInv, TypeOK, AnswersAgree, Asked
<1>. QED
  BY <1>2, <1>3, <1>4, <1>5, <1>6 DEF IInv

LEMMA CreateUserKeeps ==
  ASSUME IInv, NEW h \in Handlers, CreateUser(h)
  PROVE  IInv'
<1>. DEFINE e == Asked(h)
            p == ask[h].password
<1>0. ask[h].op = "register" /\ ask[h] \in Asks
  BY Asking DEF IInv, Underway, CreateUser, Statements, FirstStatement, Asks
<1>1. at[h] # "idle" /\ e \in Emails /\ p \in Passwords /\ p # None
  BY <1>0, Asking, NoneAssumption DEF IInv, CreateUser
<1>2. account[e] = None /\ account' = [account EXCEPT ![e] = p]
  BY DEF CreateUser
<1>3. told[e] = 0 /\ e \notin unheard
  BY <1>1, <1>2 DEF IInv, OneRegistrationAccepted, TypeOK, Many
<1>4. UNCHANGED <<ask, before>>
  BY DEF CreateUser, Answer
<1>5. \/ told' = [told EXCEPT ![e] = 1] /\ unheard' = unheard /\ at' = [at EXCEPT ![h] = "201"]
      \/ told' = told /\ unheard' = unheard \cup {e} /\ at' = [at EXCEPT ![h] = "500"]
  BY <1>3 DEF CreateUser, Answer, More, Many
<1>6. TypeOK'
  <2>1. account' \in [Emails -> Passwords \cup {None}]
    BY <1>1, <1>2 DEF IInv, TypeOK
  <2>2. told' \in [Emails -> 0..Many] /\ unheard' \subseteq Emails
    BY <1>1, <1>5 DEF IInv, TypeOK, Many
  <2>3. at' \in [Handlers -> {"idle"} \cup Statements \cup Answers]
    BY <1>5 DEF IInv, TypeOK, Answers
  <2>4. \A g \in Handlers : at'[g] = "idle" <=> ask[g] = NoAsk
    BY <1>1, <1>5 DEF IInv, TypeOK
  <2>. QED
    BY <2>1, <2>2, <2>3, <2>4, <1>4 DEF IInv, TypeOK
<1>7. StillThere'
  <2>. SUFFICES ASSUME NEW g \in Handlers, at'[g] # "idle", before[g] # None
                PROVE  account'[Asked(g)] = before[g]
    BY <1>4 DEF StillThere, Asked
  <2>1. at[g] # "idle"
    BY <1>1, <1>5 DEF IInv, TypeOK
  <2>2. account[Asked(g)] = before[g]
    BY <2>1 DEF IInv, StillThere
  <2>. QED
    BY <2>2, <1>2 DEF IInv, TypeOK
<1>8. OneRegistrationAccepted'
  BY <1>1, <1>2, <1>3, <1>5 DEF IInv, TypeOK, OneRegistrationAccepted
<1>9. Underway'
  BY <1>0, <1>4, <1>5 DEF IInv, TypeOK, Underway, Statements
<1>10. AnswersAgree'
  <2>1. ASSUME NEW g \in Handlers, g # h
        PROVE  /\ at'[g] = "201" \/ (at'[g] = "200" /\ ask[g].op = "login")
                    => account'[ask[g].email] = ask[g].password
               /\ at'[g] = "409" \/ (at'[g] = "200" /\ ask[g].op = "profile")
                    => account'[ask[g].email] # None
               /\ at'[g] = "401" => before[g] # ask[g].password
               /\ at'[g] = "404" => before[g] = None
    <3>1. at'[g] = at[g]
      BY <2>1, <1>5 DEF IInv, TypeOK
    <3>2. at[g] = "201" \/ (at[g] = "200" /\ ask[g].op = "login") => ask[g].password # None
      BY Asking, NoneAssumption DEF IInv, Underway
    <3>3. account[ask[g].email] = None \/ account'[ask[g].email] = account[ask[g].email]
      BY <1>2 DEF IInv, TypeOK
    <3>. QED
      BY <3>1, <3>2, <3>3 DEF IInv, AnswersAgree
  <2>2. at'[h] \in {"201", "500"} /\ account'[ask[h].email] = p
    BY <1>1, <1>2, <1>5 DEF IInv, TypeOK, Asked
  <2>. QED
    BY <2>1, <2>2, <1>4 DEF AnswersAgree
<1>. QED
  BY <1>6, <1>7, <1>8, <1>9, <1>10 DEF IInv

LEMMA RestartKeeps ==
  ASSUME IInv, Restart
  PROVE  IInv'
<1>. USE DEF Restart, tableVars
<1>1. TypeOK'
  BY DEF IInv, TypeOK
<1>2. StillThere' /\ Underway'
  BY DEF StillThere, Underway, Statements
<1>3. OneRegistrationAccepted' /\ AnswersAgree'
  BY DEF IInv, OneRegistrationAccepted, AnswersAgree
<1>. QED
  BY <1>1, <1>2, <1>3 DEF IInv

LEMMA ServeKeeps ==
  ASSUME IInv, NEW h \in Handlers, Serve(h)
  PROVE  IInv'
<1>1. CASE CreateUser(h)
  BY <1>1, CreateUserKeeps
<1>2. CASE DuplicateEmail(h)
  <2>1. at[h] \in Statements /\ "409" \in Answers
    BY <1>2 DEF DuplicateEmail, Statements, Answers
  <2>. QED
    BY <1>2, <2>1, AnswerKeeps DEF DuplicateEmail
<1>3. CASE GetUserByEmail(h)
  <2>1. at[h] \in Statements /\ {"200", "401"} \subseteq Answers /\ at[h] # "idle"
    BY <1>3 DEF GetUserByEmail, Statements, Answers
  <2>2. ask[h].op = "login" /\ ask[h].password # None
    BY <1>3, <2>1, Asking, NoneAssumption
       DEF GetUserByEmail, IInv, Underway, FirstStatement, Statements, Asks
  <2>3. account[Asked(h)] # ask[h].password => before[h] # ask[h].password
    BY <2>1, <2>2 DEF IInv, StillThere
  <2>. QED
    BY <1>3, <2>1, <2>2, <2>3, AnswerKeeps DEF GetUserByEmail
<1>4. CASE GetUserByID(h)
  <2>1. at[h] \in Statements /\ {"200", "404"} \subseteq Answers /\ at[h] # "idle"
    BY <1>4 DEF GetUserByID, Statements, Answers
  <2>2. ask[h].op = "profile"
    BY <1>4, <2>1, Asking DEF GetUserByID, IInv, Underway, FirstStatement, Statements, Asks
  <2>3. account[Asked(h)] = None => before[h] = None
    BY <2>1 DEF IInv, StillThere
  <2>. QED
    BY <1>4, <2>1, <2>2, <2>3, AnswerKeeps DEF GetUserByID
<1>5. CASE Fail(h)
  <2>1. at[h] \in Statements /\ {"400", "500"} \subseteq Answers
    BY <1>5 DEF Fail, Answers
  <2>. QED
    BY <1>5, <2>1, AnswerKeeps DEF Fail
<1>. QED
  BY <1>1, <1>2, <1>3, <1>4, <1>5 DEF Serve

-----------------------------------------------------------------------------

THEOREM StepKeepsIInv == IInv /\ [Next]_vars => IInv'
<1>. SUFFICES ASSUME IInv, [Next]_vars PROVE IInv'
  OBVIOUS
<1>1. CASE UNCHANGED vars
  BY <1>1 DEF vars, tableVars, IInv, TypeOK, StillThere, Asked, Underway,
              OneRegistrationAccepted, AnswersAgree
<1>. QED
  BY <1>1, ReceiveKeeps, ServeKeeps, RestartKeeps DEF Next

THEOREM Inductive == Spec => []IInv
  BY InitIInv, StepKeepsIInv, PTL DEF Spec

\* What is stored, asked and answered is well typed.
THEOREM TypeCorrect == Spec => []TypeOK
<1>1. IInv => TypeOK
  BY DEF IInv
<1>. QED
  BY <1>1, Inductive, PTL

\* Of any number of registrations of an address, the one stored is the only one
\* that can be answered 201.
THEOREM OneAccepted == Spec => []OneRegistrationAccepted
<1>1. IInv => OneRegistrationAccepted
  BY DEF IInv
<1>. QED
  BY <1>1, Inductive, PTL

\* Answers agree with the table: nobody gets in with another password, nobody is
\* turned away by an account that was there.
THEOREM Agreement == Spec => []AnswersAgree
<1>1. IInv => AnswersAgree
  BY DEF IInv
<1>. QED
  BY <1>1, Inductive, PTL
=============================================================================
