SPECIFICATION Spec
CONSTANTS
  NULL = NULL
  MinusZero = MinusZero
  OtherType = 1000
  MaxRows = 6
  Catalogs <- MCCatalogs
INVARIANTS RowsKept KeysTellRowsApart TaggedRowsKept WritableReadsAgree StatementsRun
CHECK_DEADLOCK FALSE
