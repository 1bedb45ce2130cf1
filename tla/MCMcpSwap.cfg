SPECIFICATION SwapSpec
SYMMETRY Interchangeable
CONSTANTS
  Clis = {claude}
  Claude = claude
  Places = {own, dotfile}
  Own = own
  Procs = {p1, p2}
  MaxCommands = 3
  MaxMishaps = 2
INVARIANTS Recoverable
PROPERTIES RevertRestores
CHECK_DEADLOCK FALSE
