CONSTANTS
  Width <- MCWidth
  Turn <- MCTurn
  Counts <- MCCounts

SPECIFICATION Spec

INVARIANT TypeOK
PROPERTIES
  ResultsFollow
  ActsAsNative
