\* One connection in which the admin works, one of users (or of the admin as a
\* user), no profile edits, one failed call that the code goes on after.
SPECIFICATION Spec
CONSTANTS
  root = root
  alice = alice
  alice2 = alice2
  Ids <- MCIds
  Name <- MCName
  Root = root
  Sessions = {s1, s2}
  Moderating = {s1}
  Editing = {}
  PasswordBound = 2
  FaultBound = 1
  NoUser = NoUser
  NoCommand = NoCommand
INVARIANTS
  TypeOK
  ModerationSticks
PROPERTIES
  NoSessionOutlivesAccount
