\* Two connections, each of the admin or of a user, one after the other or at
\* the same time; admin commands and profile edits in both.
SPECIFICATION Spec
CONSTANTS
  root = root
  alice = alice
  alice2 = alice2
  Ids <- MCIds
  Name <- MCName
  Root = root
  Sessions = {s1, s2}
  Moderating = {s1, s2}
  Editing = {s1, s2}
  PasswordBound = 2
  FaultBound = 1
  NoUser = NoUser
  NoCommand = NoCommand
\* The connections are interchangeable.
SYMMETRY Symmetry
VIEW RacesView
INVARIANTS
  AdminSurvives
  NothingInvented
  MaintenanceDrains
