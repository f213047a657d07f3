SPECIFICATION SuiteFairSpec
CONSTANTS
  threadCount = 3
  mapSize = 7
  None = None
  Free = Free
  Workers = {0, 1, 2}
  Rows = {2}
  Entries = {0, 1, 2, 3, 4, 5, 6, 7, 8, 9}
  Wild = Wild
  R = 1
  MAX_BUF = 3
  Droppable = {3}
CONSTRAINT FewInside
INVARIANTS TypeOK StartTogether MaximumOfAll GetHits ErasesTheirKeys PutStores
INVARIANTS DeletedOnce NothingForgotten RowsInBounds RemovesTheirKeys
PROPERTY MeasurementReturns
