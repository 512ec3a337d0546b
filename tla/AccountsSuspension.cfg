\* One connection in which the admin works, one in which a profile is edited.
SPECIFICATION Spec
CONSTANTS
  root = root
  alice = alice
  alice2 = alice2
  Ids <- MCIds
  Name <- MCName
  Root = root
  Sessions = {s1, s2}
  Moderating = {s1}
  Editing = {s2}
  PasswordBound = 2
  FaultBound = 0
  NoUser = NoUser
  NoCommand = NoCommand
INVARIANTS
  SuspensionHolds
