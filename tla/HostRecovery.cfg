\* A source and two directories to restore into, through two handoffs or backups, losses and interrupted commands.
SPECIFICATION Spec
CONSTANTS
  a = a
  b = b
  c = c
  x = x
  Hosts = {a, b, c}
  First = a
  Jobs = {x}
  MaxArchives = 2
  PausedCopies = FALSE
  None = None
INVARIANTS SoleSpender NeverTooLittle CopiesStartSettled
SYMMETRY Copies
CHECK_DEADLOCK FALSE
