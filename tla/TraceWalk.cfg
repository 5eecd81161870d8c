\* Every forest of up to four actions, every kind of action, every failure.
SPECIFICATION FairSpec
CONSTANT MaxActions = 4
INVARIANTS
  TypeOK
  AddedInOrder
  EndedAsPromised
  RowsInOrder
PROPERTY WalkEnds
CHECK_DEADLOCK FALSE
