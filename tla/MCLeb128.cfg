SPECIFICATION Spec
CONSTANTS
  GroupBits = 3
  NarrowBits = 4
  WordBits = 8
  LongBits = 10
  ValueTypes <- MCValueTypes
  EmptyType = 4
INVARIANTS
  DecodesExactly
  RefusesOnlyUnrepresentable
  WholeEncodingRead
  ShortTypesRead
\* A behaviour reads one value.
CHECK_DEADLOCK FALSE
