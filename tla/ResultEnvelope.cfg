\* Results of up to three rows and four columns; the loop ends, so TLC would call it a deadlock.
CONSTANTS
  a = a  b = b
  Words = {a, b}
  Results <- SmallResults
  Headers <- SmallHeaders
  Requests = {0, 1, 2, 5}
  MaxRows = 2
  MaxBytes = 5
  MaxColumns = 3
SPECIFICATION Spec
INVARIANTS Bounded TruncationIsHonest PlainNamesDistinct
CHECK_DEADLOCK FALSE
