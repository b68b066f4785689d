\* Five nodes, edit-configs of two edits, commits of any difference
SPECIFICATION Spec
CONSTANTS
  x = x  w = w  a = a  b = b  d = d  A = A  B = B
  Nodes = {x, w, a, b, d}
  Values = {1, 2}
  None = None
  Default = Default
  Schema <- MCSchema
  SchemaOrder <- MCSchemaOrder
  MaxEdits = 2
  TwoCases = FALSE
INVARIANTS TypeOK TreeSettled InstrumentationInStep
PROPERTIES EditsAreAtomic
CHECK_DEADLOCK FALSE
