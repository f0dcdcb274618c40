SPECIFICATION Spec
CONSTANTS
  NULL = NULL
  MinusZero = MinusZero
  OtherType = 1000
  MaxRows = 6
  Catalogs <- MCCatalogs
INVARIANT BuildersDecline
CHECK_DEADLOCK FALSE
