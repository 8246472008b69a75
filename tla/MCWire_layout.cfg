\* Strings at and around the limits, two contents, buffers around the overrun.
CONSTANTS
  Words = {101}
  Numbers <- SomeNumbers
  Lengths = {1, 16, 17, 32, 33}
  BufferCounts = {13, 14, 17}
SPECIFICATION WireSpec
INVARIANTS
  FieldsIntact
  RefusedOnlyAtOrigin
PROPERTIES
  OverrunOnlyByBuffers
CHECK_DEADLOCK FALSE
