SPECIFICATION Spec
CONSTANTS
  Tabs = {t1}
  Users = {admin, u1}
  Admin = admin
  None = None
  MaxTokens = 3
  MaxChanges = 1
INVARIANTS
  TypeOK
  ShownUserHoldsToken
  PasswordFirst
PROPERTIES
  RestoreEndsItsOwn
\* Tokens and changes run out.
CHECK_DEADLOCK FALSE
\* A dead token is not told from another.
VIEW View
