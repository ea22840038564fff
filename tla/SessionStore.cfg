\* Two clients, two readings of the clock, ids of three bits, the second
\* multiplier twice an odd number, as in the program.
CONSTANTS
  Clients = {a, b}
  Nanos = {0, 1}
  Pid = 2
  MulA = 3
  MulB = 6
  Modulus = 8
  MaxInFlight = 3
  None = None
SPECIFICATION Spec
SYMMETRY AnyOrder
INVARIANTS
  TypeOK
  SessionsHaveNames
  SharedOnlyOnSameTick
PROPERTIES
  ImplementsSessions
