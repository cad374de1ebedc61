SPECIFICATION CaptureSpec
CONSTANTS
  Channel = {c1, c2}
  None = None
  Cap = 2
  Open = Open
  Lost = Lost
  MaxSaid = 3
SYMMETRY Operations
CHECK_DEADLOCK FALSE
INVARIANTS
  SwapIsPrivate
  WritesGoWhereTheyBelong
PROPERTIES
  KeepsTheLedger
