CONSTANTS
  MaxMsgs = 2
  MaxObjs = 2
SPECIFICATION Spec
INVARIANTS FreedWithLastOwner CountsOwners
CHECK_DEADLOCK FALSE
