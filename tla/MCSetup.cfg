\* Installs and removals that fail anywhere, with two edits of the hosts file.
SPECIFICATION Spec
CONSTANTS
  UserLine = {"localhost", "docker"}
  Directive = {}
  Hosts <- Files
  MaxChanges = 3
INVARIANTS
  UsersKept
  DoneIsSeen
  UndoneIsGone
