SPECIFICATION Spec
CONSTANTS
  Lookup = {l1, l2}
  MaxSends = 2
  InstantFinality = TRUE
SYMMETRY Symmetry
INVARIANT AcceptedIsFound
\* The client stops sending, and requests end.
CHECK_DEADLOCK FALSE
