CONSTANTS
  NonString = NonString
  Inputs <- MCInputs

SPECIFICATION Spec

\* The caller's loop ends once every key is fed or one threw.
CHECK_DEADLOCK FALSE

INVARIANT TypeOK
INVARIANT OutcomeMatchesReference
