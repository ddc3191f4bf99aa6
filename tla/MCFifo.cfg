CONSTANTS
  Data = {d1, d2}
  Depth = 4
  AllowFullWe = TRUE
SPECIFICATION Spec
INVARIANT OutputsAgree
PROPERTY IsQueue
