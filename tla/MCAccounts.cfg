CONSTANTS
  Handlers = {h1, h2, h3}
  Emails = {m1, m2}
  Passwords = {p1, p2}
  None = None
SYMMETRY Symmetry
SPECIFICATION Spec
INVARIANTS
  TypeOK
  OneRegistrationAccepted
  AnswersAgree
