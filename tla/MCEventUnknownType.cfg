CONSTANTS
  p1 = p1
  p2 = p2
  Payloads = {p1, p2}
  NoPayload = NoPayload
  NotAnObject = NotAnObject
  NonString = NonString
  NoOrigin = NoOrigin
  JsonInputs <- MCJsonInputs

SPECIFICATION Spec

\* make_from_json() returns: the final states have no successor.
CHECK_DEADLOCK FALSE

INVARIANT UnknownTypeIsNone
