\* Nobody edits the hosts file; it has a line that printf does not take for text.
SPECIFICATION Spec
CONSTANTS
  UserLine = {"localhost", "fe80::1%lo0"}
  Directive = {"fe80::1%lo0"}
  Hosts <- WithDirective
  MaxChanges = 0
INVARIANTS
  BytesPreserved
